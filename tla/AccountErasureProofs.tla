------------------------ MODULE AccountErasureProofs ------------------------
(* Proofs that an erasure is complete, final, and confined to its account. *)
EXTENDS AccountErasure, TLAPS

\* The five collections of the cascade.
LEMMA CascadeFacts ==
  /\ Last = 5
  /\ \A k \in 1..5 : Cascade[k] = "generationsnapshots" <=> k = 4
BY DEF Last, Cascade

\* Every collection and every request's local state keeps its type.
LEMMA TypeStep == ErasureInv /\ [Next]_vars => TypeOK'
<1> SUFFICES ASSUME ErasureInv, [Next]_vars PROVE TypeOK'
  OBVIOUS
<1> USE ErasureAssumption, CascadeFacts
<1> USE DEF ErasureInv, TypeOK, db, Owners, WriterPC, EraserPC, SignInPC, Snapshots, Present
<1>0. ASSUME UNCHANGED vars PROVE TypeOK'
  BY <1>0 DEF vars
<1>1. ASSUME NEW w \in Writers, Write(w) PROVE TypeOK'
  <2>1. ASSUME NEW o \in Owners, Authenticate(w, o) PROVE TypeOK'
    BY <2>1 DEF Authenticate, Goto
  <2>2. CASE Admit(w)
    BY <2>2 DEF Admit, Goto
  <2>3. CASE Commit(w)
    BY <2>3 DEF Commit, Goto, Release
  <2>4. CASE Abort(w)
    BY <2>4 DEF Abort, Goto, Release, Fault
  <2>5. CASE Acknowledge(w)
    BY <2>5 DEF Acknowledge, Fault
  <2>6. CASE Refuse(w)
    BY <2>6 DEF Refuse, Goto, Emptied, Closet
  <2>7. CASE WriterFails(w)
    BY <2>7 DEF WriterFails, Fault, Release
  <2> QED BY <1>1, <2>1, <2>2, <2>3, <2>4, <2>5, <2>6, <2>7 DEF Write
<1>2. ASSUME NEW e \in Erasers, Erase(e) PROVE TypeOK'
  <2>1. ASSUME NEW o \in Owners, EraseRequest(e, o) PROVE TypeOK'
    BY <2>1 DEF EraseRequest, Goto
  <2>2. ASSUME NEW o \in Owners, EraseResume(e, o) PROVE TypeOK'
    BY <2>2 DEF EraseResume, Goto
  <2>3. CASE Begin(e)
    BY <2>3 DEF Begin, Goto, Barrier
  <2>4. CASE ReadOwner(e)
    BY <2>4 DEF ReadOwner
  <2>5. CASE Rebegin(e)
    BY <2>5 DEF Rebegin, Goto, Barrier
  <2>6. CASE Redact(e)
    BY <2>6 DEF Redact, Goto
  <2>7. CASE Sweep(e, "sweep", "firebase")
    BY <2>7 DEF Sweep, Goto, OwnRows
  <2>8. CASE DeleteIdentity(e)
    BY <2>8 DEF DeleteIdentity, Goto
  <2>9. CASE Hook(e)
    BY <2>9 DEF Hook, Goto
  <2>10. CASE HookBegin(e)
    BY <2>10 DEF HookBegin, Goto, Barrier
  <2>11. CASE Sweep(e, "hookSweep", "remove")
    BY <2>11 DEF Sweep, Goto, OwnRows
  <2>12. CASE Remove(e)
    BY <2>12 DEF Remove, Goto
  <2>13. CASE DeleteIdentityFails(e)
    BY <2>13 DEF DeleteIdentityFails, Goto, Fault
  <2>14. CASE EraserFails(e)
    BY <2>14 DEF EraserFails, Fault
  <2>15. CASE RemoveAnswerLost(e)
    BY <2>15 DEF RemoveAnswerLost, Goto, Fault
  <2>16. CASE Retry(e)
    BY <2>16 DEF Retry, Goto
  <2> QED BY <1>2, <2>1, <2>2, <2>3, <2>4, <2>5, <2>6, <2>7, <2>8, <2>9, <2>10, <2>11,
         <2>12, <2>13, <2>14, <2>15, <2>16 DEF Erase, Continue
<1>3. ASSUME NEW s \in SignIns, SignIn(s) PROVE TypeOK'
  <2>1. CASE Lookup(s)
    BY <2>1 DEF Lookup
  <2>2. CASE Reserve(s)
    BY <2>2 DEF Reserve, Goto
  <2>3. CASE FindWinner(s)
    BY <2>3 DEF FindWinner
  <2>4. CASE Verify(s)
    BY <2>4 DEF Verify, Goto
  <2>5. CASE CommitOwner(s)
    BY <2>5 DEF CommitOwner, Goto
  <2>6. CASE SignInFails(s)
    BY <2>6 DEF SignInFails, Fault
  <2> QED BY <1>3, <2>1, <2>2, <2>3, <2>4, <2>5, <2>6 DEF SignIn
<1> QED BY <1>0, <1>1, <1>2, <1>3 DEF Next

\* The fence and what it guarantees are kept.
LEMMA FenceStep == ErasureInv /\ [Next]_vars => FenceInv'
<1> SUFFICES ASSUME ErasureInv, [Next]_vars PROVE FenceInv'
  OBVIOUS
<1> USE ErasureAssumption
<1> USE DEF ErasureInv, TypeOK, FenceInv, SweepInv, IdentityInv, db, Known, Present,
       Owners, Barred, Hidden, Erased, Deleted
<1>0. ASSUME UNCHANGED vars PROVE FenceInv'
  BY <1>0 DEF vars
<1>1. ASSUME NEW w \in Writers, Write(w) PROVE FenceInv'
  <2>1. ASSUME NEW o \in Owners, Authenticate(w, o) PROVE FenceInv'
    BY <2>1 DEF Authenticate, Goto
  <2>2. CASE Admit(w)
    BY <2>2 DEF Admit, Goto
  <2>3. CASE Commit(w)
    BY <2>3 DEF Commit, Goto, Release
  <2>4. CASE Abort(w)
    BY <2>4 DEF Abort, Goto, Release, Fault
  <2>5. CASE Acknowledge(w)
    BY <2>5 DEF Acknowledge, Fault
  <2>6. CASE Refuse(w)
    BY <2>6 DEF Refuse, Goto, Emptied, Closet
  <2>7. CASE WriterFails(w)
    BY <2>7 DEF WriterFails, Fault, Release
  <2> QED BY <1>1, <2>1, <2>2, <2>3, <2>4, <2>5, <2>6, <2>7 DEF Write
<1>2. ASSUME NEW e \in Erasers, Erase(e) PROVE FenceInv'
  <2>1. ASSUME NEW o \in Owners, EraseRequest(e, o) PROVE FenceInv'
    BY <2>1 DEF EraseRequest, Goto
  <2>2. ASSUME NEW o \in Owners, EraseResume(e, o) PROVE FenceInv'
    BY <2>2 DEF EraseResume, Goto
  <2>3. CASE Begin(e)
    BY <2>3 DEF Begin, Goto, Barrier
  <2>4. CASE ReadOwner(e)
    BY <2>4 DEF ReadOwner
  <2>5. CASE Rebegin(e)
    BY <2>5 DEF Rebegin, Goto, Barrier
  <2>6. CASE Redact(e)
    BY <2>6 DEF Redact, Goto
  <2>7. CASE Sweep(e, "sweep", "firebase")
    BY <2>7 DEF Sweep, Goto, OwnRows
  <2>8. CASE DeleteIdentity(e)
    BY <2>8 DEF DeleteIdentity, Goto
  <2>9. CASE Hook(e)
    BY <2>9 DEF Hook, Goto
  <2>10. CASE HookBegin(e)
    BY <2>10 DEF HookBegin, Goto, Barrier
  <2>11. CASE Sweep(e, "hookSweep", "remove")
    BY <2>11 DEF Sweep, Goto, OwnRows
  <2>12. CASE Remove(e)
    BY <2>12 DEF Remove, Goto
  <2>13. CASE DeleteIdentityFails(e)
    BY <2>13 DEF DeleteIdentityFails, Goto, Fault
  <2>14. CASE EraserFails(e)
    BY <2>14 DEF EraserFails, Fault
  <2>15. CASE RemoveAnswerLost(e)
    BY <2>15 DEF RemoveAnswerLost, Goto, Fault
  <2>16. CASE Retry(e)
    BY <2>16 DEF Retry, Goto
  <2> QED BY <1>2, <2>1, <2>2, <2>3, <2>4, <2>5, <2>6, <2>7, <2>8, <2>9, <2>10, <2>11,
         <2>12, <2>13, <2>14, <2>15, <2>16 DEF Erase, Continue
<1>3. ASSUME NEW s \in SignIns, SignIn(s) PROVE FenceInv'
  <2>1. CASE Lookup(s)
    BY <2>1 DEF Lookup
  <2>2. CASE Reserve(s)
    BY <2>2 DEF Reserve, Goto
  <2>3. CASE FindWinner(s)
    BY <2>3 DEF FindWinner
  <2>4. CASE Verify(s)
    BY <2>4 DEF Verify, Goto
  <2>5. CASE CommitOwner(s)
    BY <2>5 DEF CommitOwner, Goto
  <2>6. CASE SignInFails(s)
    BY <2>6 DEF SignInFails, Fault
  <2> QED BY <1>3, <2>1, <2>2, <2>3, <2>4, <2>5, <2>6 DEF SignIn
<1> QED BY <1>0, <1>1, <1>2, <1>3 DEF Next

\* What an eraser has done stays done: nothing is inserted behind the barrier.
LEMMA SweepStep == ErasureInv /\ [Next]_vars => SweepInv'
<1> SUFFICES ASSUME ErasureInv, [Next]_vars PROVE SweepInv'
  OBVIOUS
<1> USE ErasureAssumption, CascadeFacts
<1> USE DEF ErasureInv, TypeOK, FenceInv, SweepInv, IdentityInv, db, Known, Present,
       Owners, Barred, Hidden, Erased, Deleted, Snapshots
<1>0. ASSUME UNCHANGED vars PROVE SweepInv'
  BY <1>0 DEF vars
<1>1. ASSUME NEW w \in Writers, Write(w) PROVE SweepInv'
  <2>1. ASSUME NEW o \in Owners, Authenticate(w, o) PROVE SweepInv'
    BY <2>1 DEF Authenticate, Goto
  <2>2. CASE Admit(w)
    BY <2>2 DEF Admit, Goto
  <2>3. CASE Commit(w)
    BY <2>3 DEF Commit, Goto, Release
  <2>4. CASE Abort(w)
    BY <2>4 DEF Abort, Goto, Release, Fault
  <2>5. CASE Acknowledge(w)
    BY <2>5 DEF Acknowledge, Fault
  <2>6. CASE Refuse(w)
    BY <2>6 DEF Refuse, Goto, Emptied, Closet
  <2>7. CASE WriterFails(w)
    BY <2>7 DEF WriterFails, Fault, Release
  <2> QED BY <1>1, <2>1, <2>2, <2>3, <2>4, <2>5, <2>6, <2>7 DEF Write
<1>2. ASSUME NEW e \in Erasers, Erase(e) PROVE SweepInv'
  <2>1. ASSUME NEW o \in Owners, EraseRequest(e, o) PROVE SweepInv'
    BY <2>1 DEF EraseRequest, Goto
  <2>2. ASSUME NEW o \in Owners, EraseResume(e, o) PROVE SweepInv'
    BY <2>2 DEF EraseResume, Goto
  <2>3. CASE Begin(e)
    BY <2>3 DEF Begin, Goto, Barrier
  <2>4. CASE ReadOwner(e)
    BY <2>4 DEF ReadOwner
  <2>5. CASE Rebegin(e)
    BY <2>5 DEF Rebegin, Goto, Barrier
  <2>6. CASE Redact(e)
    BY <2>6 DEF Redact, Goto
  <2>7. CASE Sweep(e, "sweep", "firebase")
    BY <2>7 DEF Sweep, Goto, OwnRows
  <2>8. CASE DeleteIdentity(e)
    BY <2>8 DEF DeleteIdentity, Goto
  <2>9. CASE Hook(e)
    BY <2>9 DEF Hook, Goto
  <2>10. CASE HookBegin(e)
    BY <2>10 DEF HookBegin, Goto, Barrier
  <2>11. CASE Sweep(e, "hookSweep", "remove")
    BY <2>11 DEF Sweep, Goto, OwnRows
  <2>12. CASE Remove(e)
    BY <2>12 DEF Remove, Goto
  <2>13. CASE DeleteIdentityFails(e)
    BY <2>13 DEF DeleteIdentityFails, Goto, Fault
  <2>14. CASE EraserFails(e)
    BY <2>14 DEF EraserFails, Fault
  <2>15. CASE RemoveAnswerLost(e)
    BY <2>15 DEF RemoveAnswerLost, Goto, Fault
  <2>16. CASE Retry(e)
    BY <2>16 DEF Retry, Goto
  <2> QED BY <1>2, <2>1, <2>2, <2>3, <2>4, <2>5, <2>6, <2>7, <2>8, <2>9, <2>10, <2>11,
         <2>12, <2>13, <2>14, <2>15, <2>16 DEF Erase, Continue
<1>3. ASSUME NEW s \in SignIns, SignIn(s) PROVE SweepInv'
  <2>1. CASE Lookup(s)
    BY <2>1 DEF Lookup
  <2>2. CASE Reserve(s)
    BY <2>2 DEF Reserve, Goto
  <2>3. CASE FindWinner(s)
    BY <2>3 DEF FindWinner
  <2>4. CASE Verify(s)
    BY <2>4 DEF Verify, Goto
  <2>5. CASE CommitOwner(s)
    BY <2>5 DEF CommitOwner, Goto
  <2>6. CASE SignInFails(s)
    BY <2>6 DEF SignInFails, Fault
  <2> QED BY <1>3, <2>1, <2>2, <2>3, <2>4, <2>5, <2>6 DEF SignIn
<1> QED BY <1>0, <1>1, <1>2, <1>3 DEF Next

\* Reservations, verdicts and the identity stay consistent.
LEMMA IdentityStep == ErasureInv /\ [Next]_vars => IdentityInv'
<1> SUFFICES ASSUME ErasureInv, [Next]_vars PROVE IdentityInv'
  OBVIOUS
<1> USE ErasureAssumption
<1> USE DEF ErasureInv, TypeOK, SweepInv, IdentityInv, OneOwner, db, Known, Present,
       Owners, Barred, Hidden, Erased, Deleted
<1>0. ASSUME UNCHANGED vars PROVE IdentityInv'
  BY <1>0 DEF vars
<1>1. ASSUME NEW w \in Writers, Write(w) PROVE IdentityInv'
  <2>1. ASSUME NEW o \in Owners, Authenticate(w, o) PROVE IdentityInv'
    BY <2>1 DEF Authenticate, Goto
  <2>2. CASE Admit(w)
    BY <2>2 DEF Admit, Goto
  <2>3. CASE Commit(w)
    BY <2>3 DEF Commit, Goto, Release
  <2>4. CASE Abort(w)
    BY <2>4 DEF Abort, Goto, Release, Fault
  <2>5. CASE Acknowledge(w)
    BY <2>5 DEF Acknowledge, Fault
  <2>6. CASE Refuse(w)
    BY <2>6 DEF Refuse, Goto, Emptied, Closet
  <2>7. CASE WriterFails(w)
    BY <2>7 DEF WriterFails, Fault, Release
  <2> QED BY <1>1, <2>1, <2>2, <2>3, <2>4, <2>5, <2>6, <2>7 DEF Write
<1>2. ASSUME NEW e \in Erasers, Erase(e) PROVE IdentityInv'
  <2>1. ASSUME NEW o \in Owners, EraseRequest(e, o) PROVE IdentityInv'
    BY <2>1 DEF EraseRequest, Goto
  <2>2. ASSUME NEW o \in Owners, EraseResume(e, o) PROVE IdentityInv'
    BY <2>2 DEF EraseResume, Goto
  <2>3. CASE Begin(e)
    BY <2>3 DEF Begin, Goto, Barrier
  <2>4. CASE ReadOwner(e)
    BY <2>4 DEF ReadOwner
  <2>5. CASE Rebegin(e)
    BY <2>5 DEF Rebegin, Goto, Barrier
  <2>6. CASE Redact(e)
    BY <2>6 DEF Redact, Goto
  <2>7. CASE Sweep(e, "sweep", "firebase")
    BY <2>7 DEF Sweep, Goto, OwnRows
  <2>8. CASE DeleteIdentity(e)
    BY <2>8 DEF DeleteIdentity, Goto
  <2>9. CASE Hook(e)
    BY <2>9 DEF Hook, Goto
  <2>10. CASE HookBegin(e)
    BY <2>10 DEF HookBegin, Goto, Barrier
  <2>11. CASE Sweep(e, "hookSweep", "remove")
    BY <2>11 DEF Sweep, Goto, OwnRows
  <2>12. CASE Remove(e)
    BY <2>12 DEF Remove, Goto
  <2>13. CASE DeleteIdentityFails(e)
    BY <2>13 DEF DeleteIdentityFails, Goto, Fault
  <2>14. CASE EraserFails(e)
    BY <2>14 DEF EraserFails, Fault
  <2>15. CASE RemoveAnswerLost(e)
    BY <2>15 DEF RemoveAnswerLost, Goto, Fault
  <2>16. CASE Retry(e)
    BY <2>16 DEF Retry, Goto
  <2> QED BY <1>2, <2>1, <2>2, <2>3, <2>4, <2>5, <2>6, <2>7, <2>8, <2>9, <2>10, <2>11,
         <2>12, <2>13, <2>14, <2>15, <2>16 DEF Erase, Continue
<1>3. ASSUME NEW s \in SignIns, SignIn(s) PROVE IdentityInv'
  <2>1. CASE Lookup(s)
    BY <2>1 DEF Lookup
  <2>2. CASE Reserve(s)
    BY <2>2 DEF Reserve, Goto
  <2>3. CASE FindWinner(s)
    BY <2>3 DEF FindWinner
  <2>4. CASE Verify(s)
    BY <2>4 DEF Verify, Goto
  <2>5. CASE CommitOwner(s)
    BY <2>5 DEF CommitOwner, Goto
  <2>6. CASE SignInFails(s)
    BY <2>6 DEF SignInFails, Fault
  <2> QED BY <1>3, <2>1, <2>2, <2>3, <2>4, <2>5, <2>6 DEF SignIn
<1> QED BY <1>0, <1>1, <1>2, <1>3 DEF Next

\* An owner document is inserted only when no other holds the identity.
LEMMA OneOwnerStep == ErasureInv /\ [Next]_vars => OneOwner'
<1> SUFFICES ASSUME ErasureInv, [Next]_vars PROVE OneOwner'
  OBVIOUS
<1> USE ErasureAssumption
<1> USE DEF ErasureInv, TypeOK, IdentityInv, SweepInv, OneOwner, db, Known, Present,
       Owners, Barred, Hidden, Erased, Deleted
<1>0. ASSUME UNCHANGED vars PROVE OneOwner'
  BY <1>0 DEF vars
<1>1. ASSUME NEW w \in Writers, Write(w) PROVE OneOwner'
  <2>1. ASSUME NEW o \in Owners, Authenticate(w, o) PROVE OneOwner'
    BY <2>1 DEF Authenticate, Goto
  <2>2. CASE Admit(w)
    BY <2>2 DEF Admit, Goto
  <2>3. CASE Commit(w)
    BY <2>3 DEF Commit, Goto, Release
  <2>4. CASE Abort(w)
    BY <2>4 DEF Abort, Goto, Release, Fault
  <2>5. CASE Acknowledge(w)
    BY <2>5 DEF Acknowledge, Fault
  <2>6. CASE Refuse(w)
    BY <2>6 DEF Refuse, Goto, Emptied, Closet
  <2>7. CASE WriterFails(w)
    BY <2>7 DEF WriterFails, Fault, Release
  <2> QED BY <1>1, <2>1, <2>2, <2>3, <2>4, <2>5, <2>6, <2>7 DEF Write
<1>2. ASSUME NEW e \in Erasers, Erase(e) PROVE OneOwner'
  <2>1. ASSUME NEW o \in Owners, EraseRequest(e, o) PROVE OneOwner'
    BY <2>1 DEF EraseRequest, Goto
  <2>2. ASSUME NEW o \in Owners, EraseResume(e, o) PROVE OneOwner'
    BY <2>2 DEF EraseResume, Goto
  <2>3. CASE Begin(e)
    BY <2>3 DEF Begin, Goto, Barrier
  <2>4. CASE ReadOwner(e)
    BY <2>4 DEF ReadOwner
  <2>5. CASE Rebegin(e)
    BY <2>5 DEF Rebegin, Goto, Barrier
  <2>6. CASE Redact(e)
    BY <2>6 DEF Redact, Goto
  <2>7. CASE Sweep(e, "sweep", "firebase")
    BY <2>7 DEF Sweep, Goto, OwnRows
  <2>8. CASE DeleteIdentity(e)
    BY <2>8 DEF DeleteIdentity, Goto
  <2>9. CASE Hook(e)
    BY <2>9 DEF Hook, Goto
  <2>10. CASE HookBegin(e)
    BY <2>10 DEF HookBegin, Goto, Barrier
  <2>11. CASE Sweep(e, "hookSweep", "remove")
    BY <2>11 DEF Sweep, Goto, OwnRows
  <2>12. CASE Remove(e)
    BY <2>12 DEF Remove, Goto
  <2>13. CASE DeleteIdentityFails(e)
    BY <2>13 DEF DeleteIdentityFails, Goto, Fault
  <2>14. CASE EraserFails(e)
    BY <2>14 DEF EraserFails, Fault
  <2>15. CASE RemoveAnswerLost(e)
    BY <2>15 DEF RemoveAnswerLost, Goto, Fault
  <2>16. CASE Retry(e)
    BY <2>16 DEF Retry, Goto
  <2> QED BY <1>2, <2>1, <2>2, <2>3, <2>4, <2>5, <2>6, <2>7, <2>8, <2>9, <2>10, <2>11,
         <2>12, <2>13, <2>14, <2>15, <2>16 DEF Erase, Continue
<1>3. ASSUME NEW s \in SignIns, SignIn(s) PROVE OneOwner'
  <2>1. CASE Lookup(s)
    BY <2>1 DEF Lookup
  <2>2. CASE Reserve(s)
    BY <2>2 DEF Reserve, Goto
  <2>3. CASE FindWinner(s)
    BY <2>3 DEF FindWinner
  <2>4. CASE Verify(s)
    BY <2>4 DEF Verify, Goto
  <2>5. CASE CommitOwner(s)
    BY <2>5 DEF CommitOwner, Goto
  <2>6. CASE SignInFails(s)
    BY <2>6 DEF SignInFails, Fault
  <2> QED BY <1>3, <2>1, <2>2, <2>3, <2>4, <2>5, <2>6 DEF SignIn
<1> QED BY <1>0, <1>1, <1>2, <1>3 DEF Next

\* A deleted identity stays deleted.
LEMMA FirebaseStep == [Next]_vars => (firebase = "deleted" => firebase' = "deleted")
<1> SUFFICES ASSUME [Next]_vars, firebase = "deleted" PROVE firebase' = "deleted"
  OBVIOUS
<1> USE DEF db, Barrier
<1>1. ASSUME NEW w \in Writers, Write(w) PROVE firebase' = "deleted"
  BY <1>1 DEF Write, Authenticate, Admit, Commit, Abort, Acknowledge, Refuse, WriterFails
<1>2. ASSUME NEW e \in Erasers, Erase(e) PROVE firebase' = "deleted"
  BY <1>2 DEF Erase, Continue, EraseRequest, EraseResume, Begin, ReadOwner, Rebegin, Redact,
              Sweep, DeleteIdentity, Hook, HookBegin, Remove, DeleteIdentityFails, EraserFails,
              RemoveAnswerLost, Retry
<1>3. ASSUME NEW s \in SignIns, SignIn(s) PROVE firebase' = "deleted"
  BY <1>3 DEF SignIn, Lookup, Reserve, FindWinner, Verify, CommitOwner, SignInFails
<1> QED BY <1>1, <1>2, <1>3 DEF Next, vars

\* An owner under erasure is only changed by the removal that ends the erasure.
LEMMA BarrierStep ==
  ErasureInv /\ [Next]_vars =>
  \A o \in Owners : owner[o] = "erasing" /\ owner'[o] # "erasing" => owner'[o] = "removed" /\ firebase = "deleted"
<1> SUFFICES ASSUME ErasureInv, [Next]_vars, NEW x \in Owners, owner[x] = "erasing", owner'[x] # "erasing"
             PROVE  owner'[x] = "removed" /\ firebase = "deleted"
  OBVIOUS
<1> USE DEF ErasureInv, TypeOK, db
<1>1. ASSUME NEW w \in Writers, Write(w) PROVE owner' = owner
  BY <1>1 DEF Write, Authenticate, Admit, Commit, Abort, Acknowledge, Refuse, WriterFails
<1>2. ASSUME NEW e \in Erasers, Erase(e)
      PROVE  owner'[x] = "erasing" \/ (owner'[x] = "removed" /\ firebase = "deleted")
  <2>1. CASE Begin(e) \/ Rebegin(e) \/ HookBegin(e)
    BY <2>1 DEF Begin, Rebegin, HookBegin, Barrier
  <2>2. CASE Remove(e) \/ RemoveAnswerLost(e)
    BY <2>2 DEF Remove, RemoveAnswerLost, Goto, SweepInv, Deleted, Erased, Hidden, Barred
  <2>3. CASE owner' = owner
    BY <2>3
  <2> QED BY <1>2, <2>1, <2>2, <2>3 DEF Erase, Continue, EraseRequest, EraseResume, ReadOwner,
             Redact, Sweep, DeleteIdentity, Hook, DeleteIdentityFails, EraserFails, Retry
<1>3. ASSUME NEW s \in SignIns, SignIn(s) PROVE owner'[x] = "erasing"
  BY <1>3 DEF SignIn, Lookup, Reserve, FindWinner, Verify, CommitOwner, SignInFails, Goto,
              IdentityInv, Owners
<1> QED BY <1>1, <1>2, <1>3 DEF Next, vars

\* The initial states satisfy the invariant.
LEMMA InitStep == Init => ErasureInv
<1> SUFFICES ASSUME Init PROVE ErasureInv
  OBVIOUS
<1> USE ErasureAssumption, CascadeFacts DEF Init, Owners
<1>1. TypeOK
  BY DEF TypeOK, WriterPC, EraserPC, SignInPC
<1>2. FenceInv
  BY DEF FenceInv
<1>3. SweepInv
  BY DEF SweepInv, Barred, Hidden, Erased, Deleted
<1>4. IdentityInv
  BY DEF IdentityInv
<1>5. OneOwner
  BY DEF OneOwner
<1> QED BY <1>1, <1>2, <1>3, <1>4, <1>5 DEF ErasureInv

\* The invariant is inductive: it holds however the requests interleave, however
\* many of them there are, and whichever of their calls fail.
THEOREM Erasure == Spec => []ErasureInv
<1>1. ErasureInv /\ [Next]_vars => ErasureInv'
  BY TypeStep, FenceStep, SweepStep, IdentityStep, OneOwnerStep DEF ErasureInv
<1> QED BY InitStep, <1>1, PTL DEF Spec

\* The variables keep their types.
THEOREM TypeCorrect == Spec => []TypeOK
<1>1. ErasureInv => TypeOK
  BY DEF ErasureInv
<1> QED BY <1>1, Erasure, PTL

\* A removed owner leaves no row behind, and an acknowledged erasure has removed
\* the owner and deleted the identity.
THEOREM Complete == Spec => []ErasureComplete
<1>1. ErasureInv => ErasureComplete
  <2> SUFFICES ASSUME ErasureInv PROVE ErasureComplete
    OBVIOUS
  <2>1. \A w \in rows : owner[on[w]] # "removed"
    BY DEF ErasureInv, TypeOK, FenceInv, Present
  <2>2. \A e \in Erasers : pc[e] = "done" => owner[on[e]] = "removed" /\ firebase = "deleted"
    BY DEF ErasureInv, SweepInv, Deleted, Erased, Hidden, Barred
  <2> QED BY <2>1, <2>2 DEF ErasureComplete
<1> QED BY <1>1, Erasure, PTL

\* No snapshot is visible once a continuation has redacted.
THEOREM RedactionFirst == Spec => []RedactedFirst
<1>1. ErasureInv => RedactedFirst
  BY DEF ErasureInv, SweepInv, RedactedFirst
<1> QED BY <1>1, Erasure, PTL

\* No sweep, of an erasure or of a refused write, touches a live account.
THEOREM RowsKept == Spec => []AcknowledgedRowsKept
<1>1. ErasureInv => AcknowledgedRowsKept
  BY DEF ErasureInv, FenceInv, AcknowledgedRowsKept
<1> QED BY <1>1, Erasure, PTL

\* One owner document per identity.
THEOREM UniqueOwner == Spec => []OneOwner
<1>1. ErasureInv => OneOwner
  BY DEF ErasureInv
<1> QED BY <1>1, Erasure, PTL

\* A deleted identity never gets an account again.
THEOREM NeverResurrected == Spec => NoResurrection
<1> DEFINE Alive == \A s \in SignIns : owner[s] # "active" /\ owner'[s] = "active" => firebase = "alive"
<1>1. ErasureInv /\ ErasureInv' /\ [Next]_vars => Alive
  <2> SUFFICES ASSUME ErasureInv, ErasureInv', [Next]_vars, NEW s \in SignIns,
                      owner[s] # "active", owner'[s] = "active"
               PROVE  firebase = "alive"
    OBVIOUS
  <2> USE ErasureAssumption DEF ErasureInv, TypeOK, IdentityInv, Owners
  <2>1. firebase' = "alive"
    OBVIOUS
  <2>2. firebase = "alive" \/ firebase' = "deleted"
    BY FirebaseStep
  <2> QED BY <2>1, <2>2
<1> QED BY <1>1, Erasure, PTL DEF Spec, NoResurrection

\* The barrier is only ever left by removal, after the identity is gone.
THEOREM BarrierStays == Spec => BarrierHolds
<1> DEFINE Kept == \A o \in Owners : owner[o] = "erasing" /\ owner'[o] # "erasing"
                     => owner'[o] = "removed" /\ firebase = "deleted"
<1>1. ErasureInv /\ [Next]_vars => Kept
  BY BarrierStep
<1> QED BY <1>1, Erasure, PTL DEF Spec, BarrierHolds
=============================================================================
