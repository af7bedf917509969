--------------------------- MODULE AccountErasure ---------------------------
(***************************************************************************)
(* Account erasure against the writes and sign-ins that race it.           *)
(*                                                                         *)
(* Deleting an account spans two systems: the owner document with its five *)
(* owned collections in MongoDB, and the identity in Firebase. No          *)
(* transaction covers them. Erasure first sets erasureStarted on the owner *)
(* document (the barrier), then sweeps, deletes the Firebase identity, and *)
(* removes the owner document last, so that the document is the durable    *)
(* record of an erasure that has not finished. Any number of requests and  *)
(* operator runs may carry the same erasure on at once; each may fail      *)
(* anywhere. Every insert of an owned row is a transaction that also       *)
(* writes the owner document (ownerWriteFence).                            *)
(*                                                                         *)
(* There is one Firebase identity. An owner document is named by the       *)
(* sign-in that creates it, since every created document has a fresh id.   *)
(***************************************************************************)
EXTENDS Naturals, Sequences

CONSTANTS
  Writers,    \* requests that insert one owned row, and the row each inserts
  Erasers,    \* continuations of an erasure: DELETE /api/account or the operator
  SignIns,    \* POST /api/auth/sync, and the owner document each may create
  First,      \* the owner document that exists at the start
  None,
  MaxFaults   \* bound of the model: failed or unanswered calls, and crashes

Owners == SignIns \cup {First}

ASSUME ErasureAssumption ==
  /\ First \notin SignIns
  /\ None \notin Writers
  /\ MaxFaults \in Nat
  /\ Writers \cap Erasers = {} /\ Writers \cap SignIns = {} /\ Erasers \cap SignIns = {}

\* cascadeDeleteUserData sweeps the owned collections in this order.
Cascade == <<"wardrobeitems", "outfitinteractions", "wardrobeimages",
             "generationsnapshots", "outfitexperiences">>
Last    == Len(Cascade)

VARIABLES
  owner,     \* owner[o]: "none", "reserved" (inserted, uncommitted), "active", "erasing", "removed"
  holder,    \* holder[o]: the open transaction that has written owner document o
  rows,      \* the owned rows that exist, each named by its writer
  redacted,  \* the snapshot rows whose redacted flag is set
  firebase,  \* "alive" or "deleted"
  pc,        \* where each request is
  on,        \* on[p]: the owner document a writer or an eraser works on
  into,      \* into[w]: the collection w inserts into, by its place in Cascade
  sweep,     \* sweep[e]: the next collection eraser e's cascade deletes
  attempt,   \* attempt[e]: Firebase deletions e has tried
  faults

db   == <<owner, holder, rows, redacted, firebase>>
vars == <<db, pc, on, into, sweep, attempt, faults>>

Present(o) == owner[o] \in {"active", "erasing"}
OwnRows(o, k) == {w \in rows : on[w] = o /\ into[w] = k}
Snapshots(o)  == {w \in rows : on[w] = o /\ Cascade[into[w]] = "generationsnapshots"}

Init ==
  /\ owner \in [Owners -> {"none", "active"}]
  /\ \A s \in SignIns : owner[s] = "none"
  /\ holder = [o \in Owners |-> None]
  /\ rows = {}
  /\ redacted = {}
  /\ firebase = "alive"
  /\ pc = [p \in Writers \cup Erasers \cup SignIns |-> "idle"]
  /\ on = [p \in Writers \cup Erasers |-> First]
  /\ into \in [Writers -> 1..Last]
  /\ sweep = [e \in Erasers |-> 1]
  /\ attempt = [e \in Erasers |-> 0]
  /\ faults = 0

Goto(p, from, to) == pc[p] = from /\ pc' = [pc EXCEPT ![p] = to]

Fault == faults < MaxFaults /\ faults' = faults + 1

-----------------------------------------------------------------------------
(* Writers: every route that inserts an owned row.                         *)

\* verifyFirebaseUser: an owner under erasure is refused.
Authenticate(w, o) ==
  /\ Goto(w, "idle", "authenticated")
  /\ owner[o] = "active"
  /\ on' = [on EXCEPT ![w] = o]
  /\ UNCHANGED <<db, into, sweep, attempt, faults>>

\* ownerWriteFence, first half: the transaction writes the owner document. A
\* second transaction on the same document conflicts and retries.
Admit(w) ==
  /\ holder[on[w]] = None
  /\ IF owner[on[w]] = "active"
       THEN /\ Goto(w, "authenticated", "open")
            /\ holder' = [holder EXCEPT ![on[w]] = w]
       ELSE /\ Goto(w, "authenticated", "denied")
            /\ UNCHANGED holder
  /\ UNCHANGED <<owner, rows, redacted, firebase, on, into, sweep, attempt, faults>>

Release(w) == holder' = [holder EXCEPT ![on[w]] = None]

\* Second half: the row is inserted and both writes commit.
Commit(w) ==
  /\ Goto(w, "open", "wrote")
  /\ Release(w)
  /\ rows' = rows \cup {w}
  /\ UNCHANGED <<owner, redacted, firebase, on, into, sweep, attempt, faults>>

\* A transient error: withTransaction runs the callback again.
Abort(w) ==
  /\ Fault
  /\ Goto(w, "open", "authenticated")
  /\ Release(w)
  /\ UNCHANGED <<owner, rows, redacted, firebase, on, into, sweep, attempt>>

\* Every route looks at the owner again before it acknowledges; the photo upload
\* acknowledges as well when that very look fails (finishMutation logs it).
Acknowledge(w) ==
  /\ pc[w] = "wrote"
  /\ \/ owner[on[w]] = "active" /\ UNCHANGED faults
     \/ Cascade[into[w]] = "wardrobeimages" /\ Fault
  /\ pc' = [pc EXCEPT ![w] = "acknowledged"]
  /\ UNCHANGED <<db, on, into, sweep, attempt>>

\* When the account is under erasure or gone a route deletes what it wrote to;
\* POST /api/wardrobe and the photo upload delete garments and photos alike.
Closet == {"wardrobeitems", "wardrobeimages"}

Emptied(w) ==
  {v \in rows : on[v] = on[w] /\ (into[v] = into[w] \/ {Cascade[into[v]], Cascade[into[w]]} \subseteq Closet)}

Refuse(w) ==
  /\ owner[on[w]] # "active"
  /\ Goto(w, "wrote", "denied")
  /\ rows' = rows \ Emptied(w)
  /\ redacted' = redacted \ Emptied(w)
  /\ UNCHANGED <<owner, holder, firebase, on, into, sweep, attempt, faults>>

\* The process dies or the answer is lost: an open transaction commits or aborts.
WriterFails(w) ==
  /\ Fault
  /\ pc[w] \in {"authenticated", "open", "wrote"}
  /\ pc' = [pc EXCEPT ![w] = "failed"]
  /\ IF pc[w] = "open" THEN Release(w) /\ rows' \in {rows, rows \cup {w}}
                       ELSE UNCHANGED <<holder, rows>>
  /\ UNCHANGED <<owner, redacted, firebase, on, into, sweep, attempt>>

Write(w) ==
  \/ \E o \in Owners : Authenticate(w, o)
  \/ Admit(w) \/ Commit(w) \/ Abort(w) \/ Acknowledge(w) \/ Refuse(w) \/ WriterFails(w)

-----------------------------------------------------------------------------
(* Erasers. DELETE /api/account authenticates, raises the barrier and      *)
(* enters resumeUserErasure; the operator enters resumeUserErasure.        *)

EraseRequest(e, o) ==
  /\ Goto(e, "idle", "begin")
  /\ Present(o)
  /\ on' = [on EXCEPT ![e] = o]
  /\ UNCHANGED <<db, into, sweep, attempt, faults>>

EraseResume(e, o) ==
  /\ Goto(e, "idle", "read")
  /\ Present(o)
  /\ on' = [on EXCEPT ![e] = o]
  /\ UNCHANGED <<db, into, sweep, attempt, faults>>

\* Mutant of Barrier: it does not conflict with a transaction on the document.
BarrierUnfenced(o) ==
  /\ owner' = IF Present(o) THEN [owner EXCEPT ![o] = "erasing"] ELSE owner
  /\ UNCHANGED <<holder, rows, redacted, firebase>>

\* beginUserErasure: it waits for a transaction that has written the document.
Barrier(o) ==
  /\ holder[o] = None
  /\ owner' = IF Present(o) THEN [owner EXCEPT ![o] = "erasing"] ELSE owner
  /\ UNCHANGED <<holder, rows, redacted, firebase>>

Begin(e) ==
  /\ Goto(e, "begin", IF Present(on[e]) THEN "read" ELSE "notFound")
  /\ Barrier(on[e])
  /\ UNCHANGED <<on, into, sweep, attempt, faults>>

\* Mutant of ReadOwner: an owner that is there is swept, whatever its status.
ReadOwnerSweeps(e) ==
  /\ Goto(e, "read", IF Present(on[e]) THEN "redact" ELSE "notFound")
  /\ UNCHANGED <<db, on, into, sweep, attempt, faults>>

ReadOwner(e) ==
  /\ pc[e] = "read"
  /\ pc' = [pc EXCEPT ![e] = CASE owner[on[e]] = "erasing" -> "rebegin"
                               [] owner[on[e]] = "active"  -> "notStarted"
                               [] OTHER                    -> "notFound"]
  /\ UNCHANGED <<db, on, into, sweep, attempt, faults>>

\* Mutant of Rebegin: an absent owner ends the continuation.
RebeginOrGiveUp(e) ==
  /\ Goto(e, "rebegin", IF Present(on[e]) THEN "redact" ELSE "notFound")
  /\ Barrier(on[e])
  /\ UNCHANGED <<on, into, sweep, attempt, faults>>

\* Mutant of Rebegin: a resumed erasure does not redact again.
RebeginSweep(e) ==
  /\ Goto(e, "rebegin", "sweep")
  /\ Barrier(on[e])
  /\ UNCHANGED <<on, into, sweep, attempt, faults>>

\* Another continuation may have removed the owner meanwhile (ownerIsAbsent):
\* that is no receipt, this one repeats the cascade and the Firebase deletion.
Rebegin(e) ==
  /\ Goto(e, "rebegin", "redact")
  /\ Barrier(on[e])
  /\ UNCHANGED <<on, into, sweep, attempt, faults>>

Redact(e) ==
  /\ Goto(e, "redact", "sweep")
  /\ redacted' = redacted \cup Snapshots(on[e])
  /\ sweep' = [sweep EXCEPT ![e] = 1]
  /\ attempt' = [attempt EXCEPT ![e] = 0]
  /\ UNCHANGED <<owner, holder, rows, firebase, on, into, faults>>

\* One deleteMany of cascadeDeleteUserData, in the route or in the owner's hook.
Sweep(e, at, next) ==
  /\ Goto(e, at, IF sweep[e] = Last THEN next ELSE at)
  /\ sweep' = [sweep EXCEPT ![e] = IF @ = Last THEN 1 ELSE @ + 1]
  /\ rows' = rows \ OwnRows(on[e], sweep[e])
  /\ redacted' = redacted \ OwnRows(on[e], sweep[e])
  /\ UNCHANGED <<owner, holder, firebase, on, into, attempt, faults>>

\* Deleting an identity that is already gone counts as success.
DeleteIdentity(e) ==
  /\ Goto(e, "firebase", "hook")
  /\ firebase' = "deleted"
  /\ UNCHANGED <<owner, holder, rows, redacted, on, into, sweep, attempt, faults>>

\* Mutant of DeleteIdentityFails: the error is logged and the erasure goes on.
DeleteIdentityIgnored(e) ==
  /\ Fault
  /\ Goto(e, "firebase", "hook")
  /\ attempt' = [attempt EXCEPT ![e] = @ + 1]
  /\ firebase' \in {firebase, "deleted"}
  /\ UNCHANGED <<owner, holder, rows, redacted, on, into, sweep>>

\* The call fails or its answer is lost; it is tried once more.
DeleteIdentityFails(e) ==
  /\ Fault
  /\ Goto(e, "firebase", IF attempt[e] = 0 THEN "firebase" ELSE "failed")
  /\ attempt' = [attempt EXCEPT ![e] = @ + 1]
  /\ firebase' \in {firebase, "deleted"}
  /\ UNCHANGED <<owner, holder, rows, redacted, on, into, sweep>>

\* cascadeUserDataHook, before deleteOne: bind the owner, barrier, sweep again.
\* Without an owner to bind, the hook lets deleteOne match nothing, and the
\* continuation takes the owner's durable absence for success.
Hook(e) ==
  /\ Goto(e, "hook", IF Present(on[e]) THEN "hookBegin" ELSE "done")
  /\ UNCHANGED <<db, on, into, sweep, attempt, faults>>

HookBegin(e) ==
  /\ Goto(e, "hookBegin", IF Present(on[e]) THEN "hookSweep" ELSE "done")
  /\ Barrier(on[e])
  /\ UNCHANGED <<on, into, sweep, attempt, faults>>

\* deleteUserWithData. An owner somebody else has removed is success as well.
Remove(e) ==
  /\ Goto(e, "remove", "done")
  /\ holder[on[e]] = None
  /\ owner' = IF Present(on[e]) THEN [owner EXCEPT ![on[e]] = "removed"] ELSE owner
  /\ UNCHANGED <<holder, rows, redacted, firebase, on, into, sweep, attempt, faults>>

\* A call fails or the process dies. A call that lands although its answer is
\* lost, at once or later, is the call's own action followed by this one.
EraserFails(e) ==
  /\ Fault
  /\ pc[e] \notin {"idle", "done", "failed", "notFound", "notStarted"}
  /\ pc' = [pc EXCEPT ![e] = "failed"]
  /\ UNCHANGED <<db, on, into, sweep, attempt>>

RemoveAnswerLost(e) ==
  /\ Fault
  /\ Goto(e, "remove", "failed")
  /\ holder[on[e]] = None
  /\ Present(on[e])
  /\ owner' = [owner EXCEPT ![on[e]] = "removed"]
  /\ UNCHANGED <<holder, rows, redacted, firebase, on, into, sweep, attempt>>

\* The owner or the operator tries again.
Retry(e) ==
  /\ Goto(e, "failed", "idle")
  /\ UNCHANGED <<db, on, into, sweep, attempt, faults>>

Continue(e) ==
  \/ Begin(e) \/ ReadOwner(e) \/ Rebegin(e) \/ Redact(e)
  \/ Sweep(e, "sweep", "firebase") \/ DeleteIdentity(e) \/ Hook(e) \/ HookBegin(e)
  \/ Sweep(e, "hookSweep", "remove") \/ Remove(e)

Erase(e) ==
  \/ \E o \in Owners : EraseRequest(e, o) \/ EraseResume(e, o)
  \/ Continue(e)
  \/ DeleteIdentityFails(e) \/ EraserFails(e) \/ RemoveAnswerLost(e) \/ Retry(e)

-----------------------------------------------------------------------------
(* Sign-in. The token was signed while the identity lived and verifies     *)
(* offline; only the transaction's fresh check asks Firebase.              *)

Lookup(s) ==
  /\ pc[s] = "idle"
  /\ pc' = [pc EXCEPT ![s] = IF \E o \in Owners : owner[o] = "active" THEN "signedIn"
                             ELSE IF \E o \in Owners : owner[o] = "erasing" THEN "denied"
                             ELSE "absent"]
  /\ UNCHANGED <<db, on, into, sweep, attempt, faults>>

\* The insert reserves the unique identity. A committed rival raises a duplicate
\* key, which aborts; an uncommitted one makes the transaction start over.
Reserve(s) ==
  /\ \A o \in Owners : owner[o] # "reserved"
  /\ IF \E o \in Owners : Present(o)
       THEN Goto(s, "absent", "duplicate") /\ UNCHANGED owner
       ELSE Goto(s, "absent", "reserved") /\ owner' = [owner EXCEPT ![s] = "reserved"]
  /\ UNCHANGED <<holder, rows, redacted, firebase, on, into, sweep, attempt, faults>>

\* After a duplicate key the rival is read again; it may be gone by then.
FindWinner(s) ==
  /\ pc[s] = "duplicate"
  /\ pc' = [pc EXCEPT ![s] = IF \E o \in Owners : owner[o] = "active" THEN "signedIn"
                             ELSE IF \E o \in Owners : owner[o] = "erasing" THEN "denied"
                             ELSE "failed"]
  /\ UNCHANGED <<db, on, into, sweep, attempt, faults>>

\* Mutant of Verify: the signature of the token is enough.
VerifyOffline(s) ==
  /\ Goto(s, "reserved", "verified")
  /\ UNCHANGED <<db, on, into, sweep, attempt, faults>>

\* verifyIdentityToken with checkRevoked, inside the transaction.
Verify(s) ==
  /\ IF firebase = "alive"
       THEN Goto(s, "reserved", "verified") /\ UNCHANGED owner
       ELSE Goto(s, "reserved", "denied") /\ owner' = [owner EXCEPT ![s] = "none"]
  /\ UNCHANGED <<holder, rows, redacted, firebase, on, into, sweep, attempt, faults>>

CommitOwner(s) ==
  /\ Goto(s, "verified", "signedIn")
  /\ owner' = [owner EXCEPT ![s] = "active"]
  /\ UNCHANGED <<holder, rows, redacted, firebase, on, into, sweep, attempt, faults>>

\* A timeout, an abort or a crash; a commit whose answer is lost may have landed.
SignInFails(s) ==
  /\ Fault
  /\ pc[s] \in {"absent", "duplicate", "reserved", "verified"}
  /\ pc' = [pc EXCEPT ![s] = "failed"]
  /\ \/ pc[s] \in {"absent", "duplicate"} /\ UNCHANGED owner
     \/ pc[s] \in {"reserved", "verified"} /\ owner' = [owner EXCEPT ![s] = "none"]
     \/ pc[s] = "verified" /\ owner' = [owner EXCEPT ![s] = "active"]
  /\ UNCHANGED <<holder, rows, redacted, firebase, on, into, sweep, attempt>>

SignIn(s) == Lookup(s) \/ Reserve(s) \/ FindWinner(s) \/ Verify(s) \/ CommitOwner(s) \/ SignInFails(s)

Next ==
  \/ \E w \in Writers : Write(w)
  \/ \E e \in Erasers : Erase(e)
  \/ \E s \in SignIns : SignIn(s)

Spec == Init /\ [][Next]_vars

\* A continuation that is under way is carried on, and transactions end.
Fairness ==
  /\ \A e \in Erasers : WF_vars(Continue(e))
  /\ \A w \in Writers : WF_vars(Commit(w))

FairSpec == Spec /\ Fairness

-----------------------------------------------------------------------------
(* Properties. *)

WriterPC == {"idle", "authenticated", "open", "wrote", "acknowledged", "denied", "failed"}
EraserPC == {"idle", "begin", "read", "rebegin", "redact", "sweep", "firebase", "hook",
             "hookBegin", "hookSweep", "remove", "done", "failed", "notFound", "notStarted"}
SignInPC == {"idle", "absent", "duplicate", "reserved", "verified", "signedIn", "denied", "failed"}

\* The types of the collections and of the requests' local state.
TypeOK ==
  /\ owner \in [Owners -> {"none", "reserved", "active", "erasing", "removed"}]
  /\ holder \in [Owners -> Writers \cup {None}]
  /\ rows \subseteq Writers
  /\ redacted \subseteq rows
  /\ firebase \in {"alive", "deleted"}
  /\ pc \in [Writers \cup Erasers \cup SignIns -> WriterPC \cup EraserPC \cup SignInPC]
  /\ on \in [Writers \cup Erasers -> Owners]
  /\ into \in [Writers -> 1..Last]
  /\ sweep \in [Erasers -> 1..Last]
  /\ attempt \in [Erasers -> Nat]
  /\ faults \in Nat

\* The fence: while a transaction that has written the owner document is open no
\* barrier commits, so a row is only ever inserted under an active owner.
Known(o) == owner[o] \in {"active", "erasing", "removed"}

FenceInv ==
  \A w \in Writers :
    /\ \A o \in Owners : holder[o] = w <=> pc[w] = "open" /\ on[w] = o
    /\ pc[w] = "open" => owner[on[w]] = "active"
    /\ pc[w] = "idle" => w \notin rows
    /\ pc[w] # "idle" => Known(on[w])
    /\ w \in rows => Present(on[w])
    /\ pc[w] \in {"wrote", "acknowledged"} /\ owner[on[w]] = "active" => w \in rows

\* What an eraser has done when it gets where it is.
Barred  == {"rebegin", "redact", "sweep", "firebase", "hook", "hookBegin", "hookSweep", "remove", "done"}
Hidden  == Barred \ {"rebegin", "redact"}
Erased  == Hidden \ {"sweep"}
Deleted == Erased \ {"firebase"}

SweepInv ==
  \A e \in Erasers :
    /\ pc[e] # "idle" => Known(on[e])
    /\ pc[e] \in Barred => owner[on[e]] # "active"
    /\ pc[e] \in Hidden => Snapshots(on[e]) \subseteq redacted
    /\ pc[e] = "sweep" => \A w \in rows : on[w] = on[e] => into[w] >= sweep[e]
    /\ pc[e] \in Erased => \A w \in rows : on[w] # on[e]
    /\ pc[e] \in Deleted => firebase = "deleted"
    /\ pc[e] = "done" => owner[on[e]] = "removed"

\* A reservation belongs to the transaction that holds it, and the identity is
\* deleted only while it is held by an owner under erasure.
IdentityInv ==
  /\ owner[First] # "reserved"
  /\ \A s \in SignIns :
       /\ owner[s] = "reserved" <=> pc[s] \in {"reserved", "verified"}
       /\ pc[s] \in {"idle", "absent", "duplicate"} => owner[s] = "none"
       /\ pc[s] = "verified" => firebase = "alive"
  /\ \A o \in Owners :
       /\ owner[o] = "removed" => firebase = "deleted"
       /\ owner[o] = "active" => firebase = "alive"

\* Erasure is complete: when an owner document is gone nothing it owned is left
\* and no request still in flight can bring it back; an acknowledged erasure has
\* also deleted the identity.
ErasureComplete ==
  /\ \A w \in rows : owner[on[w]] # "removed"
  /\ \A e \in Erasers : pc[e] = "done" => owner[on[e]] = "removed" /\ firebase = "deleted"

\* The sweeps of an erasure and of a refused write touch no live account: a row
\* whose insert was acknowledged is there as long as its owner is active.
AcknowledgedRowsKept ==
  \A w \in Writers : pc[w] = "acknowledged" /\ owner[on[w]] = "active" => w \in rows

\* One owner document per identity, committed or reserved.
OneOwner ==
  \A o, p \in Owners :
    owner[o] \in {"reserved", "active", "erasing"} /\ owner[p] \in {"reserved", "active", "erasing"} => o = p

\* No resurrection: once the identity is deleted no old token creates an account.
NoResurrection ==
  [][\A s \in SignIns : owner[s] # "active" /\ owner'[s] = "active" => firebase = "alive"]_vars

\* Redaction hides before the sweeps delete: once a continuation has passed it,
\* no snapshot of the account can be served, however long the sweeps take and
\* wherever they stop.
RedactedFirst ==
  \A e \in Erasers : pc[e] \in Hidden => Snapshots(on[e]) \subseteq redacted

\* The barrier is never lowered: an account under erasure only ever leaves it by
\* being removed, and only after its identity is gone.
BarrierHolds ==
  [][\A o \in Owners : owner[o] = "erasing" /\ owner'[o] # "erasing"
       => owner'[o] = "removed" /\ firebase = "deleted"]_vars

\* A continuation that has seen the pending owner succeeds unless one of its own
\* calls fails, also when another continuation finishes, or dies, in its middle.
ContinuationSucceeds ==
  \A e \in Erasers : (pc[e] = "rebegin") ~> (pc[e] \in {"done", "failed"})

ErasureInv ==
  /\ TypeOK
  /\ FenceInv
  /\ SweepInv
  /\ IdentityInv
  /\ OneOwner
=============================================================================
