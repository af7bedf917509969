------------------------ MODULE OutfitPlanningProofs ------------------------
(* Proofs that the store implements the ledger, and is safe to retry. *)
EXTENDS OutfitPlanning, FiniteSetTheorems, TLAPS

-----------------------------------------------------------------------------
(* What an accepted command does to the list. *)

\* What a client can ask for.
LEMMA AskType ==
  ASSUME NEW c \in Commands, NEW q \in Ask(c)
  PROVE  /\ q.id \in Ids /\ q.expected \in Nat
         /\ c \in Creates => q.outfit \in Outfits /\ q.day \in Days
         /\ c \in Moves => q.day \in Days /\ q.operation \in Operations /\ q.operation # None /\ q.expected > 0
BY PlanningAssumption DEF Ask, Commands

\* An accepted command finds its plan as its kind requires.
LEMMA AcceptedCase ==
  ASSUME NEW a \in [Ids -> Plan], NEW c \in Commands, NEW q \in Ask(c), Verdict(c, q, a) = "accepted"
  PROVE  /\ c \in Creates => /\ a[q.id].life = "absent"
                             /\ Duplicates(a, q.outfit, q.day) = {}
                             /\ ~(Cardinality(Active(a)) >= MaxActive)
                             /\ ~(Cardinality(Known(a)) >= MaxIdentities)
         /\ c \in Moves => /\ a[q.id].life = "active"
                           /\ a[q.id].revision = q.expected
                           /\ Duplicates(a, a[q.id].outfit, q.day) \subseteq {q.id}
         /\ c \in Removals => \/ a[q.id].life = "active"
                              \/ a[q.id].life = "absent" /\ ~(Cardinality(Known(a)) >= MaxIdentities)
<1> USE AskType, PlanningAssumption
<1>0. a[q.id].life \in {"absent", "active", "removed"}
  BY DEF Plan
<1>1. CASE c \in Creates
  BY <1>0, <1>1 DEF Verdict, CreateVerdict
<1>2. CASE c \in Moves
  BY <1>0, <1>2 DEF Verdict, MoveVerdict
<1>3. CASE c \in Removals
  BY <1>0, <1>3 DEF Verdict, RemoveVerdict
<1> QED BY <1>1, <1>2, <1>3 DEF Commands

\* The rules answer one of three things.
LEMMA VerdictCases ==
  ASSUME NEW c \in Commands, NEW q, NEW a
  PROVE  Verdict(c, q, a) \in {"refused", "replayed", "accepted"}
BY PlanningAssumption DEF Commands, Verdict, CreateVerdict, MoveVerdict, RemoveVerdict

\* Its result is a plan record.
LEMMA ResultType ==
  ASSUME NEW a \in [Ids -> Plan], NEW c \in Commands, NEW q \in Ask(c), Verdict(c, q, a) = "accepted"
  PROVE  /\ Result(c, q, a) \in Plan
         /\ Result(c, q, a).life \in {"active", "removed"}
         /\ c \in Creates => Result(c, q, a) = Created(q)
         /\ c \in Moves => Result(c, q, a) = Rescheduled(q, a[q.id])
         /\ c \in Removals => Result(c, q, a) = Blank("removed")
<1> USE AskType, PlanningAssumption
<1>1. CASE c \in Creates
  BY <1>1 DEF Result, Created, CreateKey, Plan
<1>2. CASE c \in Moves
  <2>1. a[q.id] \in Plan /\ a[q.id].life = "active"
    BY <1>2, AcceptedCase
  <2>2. RequestKey(q) \in Nat \X Days /\ q.expected + 1 \in Nat
    BY <1>2 DEF RequestKey
  <2>3. Result(c, q, a) = Rescheduled(q, a[q.id])
    BY <1>2 DEF Result
  <2>4. Rescheduled(q, a[q.id]) \in Plan /\ Rescheduled(q, a[q.id]).life = "active"
    <3> HIDE DEF RequestKey
    <3> QED BY <1>2, <2>1, <2>2 DEF Rescheduled, Plan
  <2> QED BY <1>2, <2>3, <2>4
<1>3. CASE c \in Removals
  BY <1>3 DEF Result, Blank, Plan
<1> QED BY <1>1, <1>2, <1>3 DEF Commands

\* Only its own plan changes.
LEMMA AfterPlan ==
  ASSUME NEW a \in [Ids -> Plan], NEW c \in Commands, NEW q \in Ask(c), Verdict(c, q, a) = "accepted"
  PROVE  /\ After(c, q, a) \in [Ids -> Plan]
         /\ After(c, q, a)[q.id] = Result(c, q, a)
         /\ \A p \in Ids : p # q.id => After(c, q, a)[p] = a[p]
BY ResultType, AskType DEF After

\* What the plan acknowledged earlier had is kept.
LEMMA KeepsStep ==
  ASSUME NEW a \in [Ids -> Plan], NEW c \in Commands, NEW q \in Ask(c), Verdict(c, q, a) = "accepted",
         NEW p \in Ids, NEW old \in Plan, Keeps(a[p], old)
  PROVE  Keeps(After(c, q, a)[p], old)
<1>1. CASE p # q.id
  BY <1>1, AfterPlan
<1>2. CASE p = q.id
  <2>0. a[p] \in Plan
    OBVIOUS
  <2>1. CASE c \in Creates
    BY <1>2, <2>1, AcceptedCase DEF Keeps
  <2>2. CASE c \in Moves
    <3>1. After(c, q, a)[p] = Rescheduled(q, a[p]) /\ a[p].life = "active" /\ a[p].revision = q.expected
      BY <1>2, <2>2, AfterPlan, ResultType, AcceptedCase
    <3>2. Rescheduled(q, a[p]).life = "active" /\ Rescheduled(q, a[p]).revision = a[p].revision + 1
      BY <2>0, <3>1 DEF Rescheduled, Plan
    <3> QED BY <2>0, <3>1, <3>2 DEF Keeps, Plan
  <2>3. CASE c \in Removals
    BY <1>2, <2>3, AfterPlan, ResultType DEF Keeps, Blank
  <2> QED BY <2>1, <2>2, <2>3 DEF Commands
<1> QED BY <1>1, <1>2

\* A settled command is never accepted again, ...
LEMMA SettledRefused ==
  ASSUME NEW a \in [Ids -> Plan], NEW c \in Commands, NEW q \in Ask(c), Settled(c, q, a)
  PROVE  Verdict(c, q, a) # "accepted"
<1> SUFFICES ASSUME Verdict(c, q, a) = "accepted" PROVE FALSE
  OBVIOUS
<1> QED BY AcceptedCase, AskType, PlanningAssumption DEF Settled, Commands, Plan

\* ... an accepted one is settled by its own write ...
LEMMA SettledAfter ==
  ASSUME NEW a \in [Ids -> Plan], NEW c \in Commands, NEW q \in Ask(c), Verdict(c, q, a) = "accepted"
  PROVE  Settled(c, q, After(c, q, a))
<1> USE AfterPlan, ResultType, AskType
<1>1. CASE c \in Creates
  BY <1>1 DEF Settled, Created
<1>2. CASE c \in Moves
  <2>1. a[q.id] \in Plan
    OBVIOUS
  <2>2. Rescheduled(q, a[q.id]).revision = q.expected + 1
    BY <2>1 DEF Rescheduled, Plan
  <2> QED BY <1>2, <2>2 DEF Settled
<1>3. CASE c \in Removals
  BY <1>3 DEF Settled, Blank
<1> QED BY <1>1, <1>2, <1>3 DEF Commands

\* ... and stays settled through the writes of the others.
LEMMA SettledStep ==
  ASSUME NEW a \in [Ids -> Plan], NEW c \in Commands, NEW q \in Ask(c), Verdict(c, q, a) = "accepted",
         NEW d \in Commands, NEW r \in Ask(d), Settled(d, r, a)
  PROVE  Settled(d, r, After(c, q, a))
<1> USE AskType
<1>1. CASE r.id # q.id
  BY <1>1, AfterPlan DEF Settled
<1>2. CASE r.id = q.id
  <2>0. a[r.id] \in Plan
    OBVIOUS
  <2>1. CASE c \in Creates
    <3>1. a[r.id].life = "absent"
      BY <1>2, <2>1, AcceptedCase
    <3> QED BY <3>1 DEF Settled
  <2>2. CASE c \in Moves
    <3>1. After(c, q, a)[r.id] = Rescheduled(q, a[r.id]) /\ a[r.id].life = "active" /\ a[r.id].revision = q.expected
      BY <1>2, <2>2, AfterPlan, ResultType, AcceptedCase
    <3>2. Rescheduled(q, a[r.id]).life = "active" /\ Rescheduled(q, a[r.id]).revision = a[r.id].revision + 1
      BY <2>0, <3>1 DEF Rescheduled, Plan
    <3> QED BY <2>0, <3>1, <3>2 DEF Settled, Plan
  <2>3. CASE c \in Removals
    BY <1>2, <2>3, AfterPlan, ResultType DEF Settled, Blank
  <2> QED BY <2>1, <2>2, <2>3 DEF Commands
<1> QED BY <1>1, <1>2

\* The list as the ledger sees it.
Entries(a) == [p \in Ids |-> Entry(a[p])]

\* The instance brings a copy of Cardinality.
LEMMA LedgerCardinality == \A S : Ledger!Cardinality(S) = Cardinality(S)
BY DEF Ledger!Cardinality, Cardinality

\* An accepted command is one legal step of the ledger.
LEMMA LedgerStep ==
  ASSUME plans \in [Ids -> Plan], account = TRUE, account' = account,
         NEW c \in Commands, NEW q \in Ask(c), Verdict(c, q, plans) = "accepted",
         plans' = After(c, q, plans)
  PROVE  Ledger!Next
<1> USE AskType
<1>1. Ledger!Active = Active(plans) /\ Ledger!Known = Known(plans)
  BY DEF Ledger!Active, Ledger!Known, Active, Known, Entry
<1>2. \A o, d : Ledger!Showing(o, d) = Duplicates(plans, o, d)
  BY <1>1 DEF Ledger!Showing, Duplicates, Active, Entry
<1>3. Entries(plans)' = [Entries(plans) EXCEPT ![q.id] = Entry(Result(c, q, plans))]
  <2>1. plans' \in [Ids -> Plan] /\ plans'[q.id] = Result(c, q, plans) /\ \A p \in Ids : p # q.id => plans'[p] = plans[p]
    BY AfterPlan
  <2>2. Entries(plans)' = [p \in Ids |-> Entry(plans'[p])]
    BY DEF Entries
  <2>3. \A p \in Ids : Entry(plans'[p]) = IF p = q.id THEN Entry(Result(c, q, plans)) ELSE Entry(plans[p])
    BY <2>1
  <2> HIDE DEF Entry
  <2> QED BY <2>2, <2>3 DEF Entries
<1>4. Cardinality(Active(plans)) \in Nat /\ Cardinality(Known(plans)) \in Nat
  <2>1. Active(plans) \subseteq Ids /\ Known(plans) \subseteq Ids
    BY DEF Active, Known
  <2> QED BY <2>1, PlanningAssumption, FS_Subset, FS_CardinalityType
<1>5. CASE c \in Creates
  <2>1. Entry(Result(c, q, plans)) = Ledger!Planned(1, q.outfit, q.day)
    BY <1>5, ResultType DEF Entry, Created, Ledger!Planned
  <2>2. Ledger!Add(q.id, q.outfit, q.day)
    <3>1. q.id \notin Known(plans)
      BY <1>5, AcceptedCase DEF Known
    <3>2. Duplicates(plans, q.outfit, q.day) = {}
      BY <1>5, AcceptedCase
    <3>3. Cardinality(Active(plans)) < MaxActive /\ Cardinality(Known(plans)) < MaxIdentities
      BY <1>4, <1>5, AcceptedCase, PlanningAssumption
    <3>4. Entries(plans)' = [Entries(plans) EXCEPT ![q.id] = Ledger!Planned(1, q.outfit, q.day)]
      BY <1>3, <2>1
    <3> QED BY <1>1, <1>2, <3>1, <3>2, <3>3, <3>4, LedgerCardinality DEF Ledger!Add, Entries
  <2> QED BY <1>5, <2>2 DEF Ledger!Next
<1>6. CASE c \in Moves
  <2>1. plans[q.id] \in Plan /\ Result(c, q, plans) = Rescheduled(q, plans[q.id])
    BY <1>6, ResultType
  <2>2. Entry(Rescheduled(q, plans[q.id])) = Ledger!Planned(q.expected + 1, plans[q.id].outfit, q.day)
    <3>1. plans[q.id].life = "active"
      BY <1>6, AcceptedCase
    <3>2. /\ Rescheduled(q, plans[q.id]).life = "active"
          /\ Rescheduled(q, plans[q.id]).outfit = plans[q.id].outfit
          /\ Rescheduled(q, plans[q.id]).day = q.day
          /\ Rescheduled(q, plans[q.id]).revision = q.expected + 1
      BY <2>1, <3>1 DEF Rescheduled, Plan
    <3> QED BY <3>2 DEF Entry, Ledger!Planned
  <2>3. q.id \in Active(plans) /\ plans[q.id].revision = q.expected
    BY <1>6, AcceptedCase DEF Active
  <2>4. Ledger!Move(q.id, q.day)
    <3>1. Ledger!Showing(Entries(plans)[q.id].outfit, q.day) \subseteq {q.id}
      BY <1>2, <1>6, AcceptedCase DEF Entries, Entry
    <3>2. Entries(plans)[q.id].outfit = plans[q.id].outfit /\ Entries(plans)[q.id].revision = q.expected
      BY <2>3 DEF Entries, Entry
    <3>3. Entries(plans)' = [Entries(plans) EXCEPT ![q.id] =
                               Ledger!Planned(@.revision + 1, @.outfit, q.day)]
      BY <1>3, <2>1, <2>2, <3>2
    <3> QED BY <1>1, <2>3, <3>1, <3>3 DEF Ledger!Move, Entries
  <2> QED BY <1>6, <2>4 DEF Ledger!Next
<1>7. CASE c \in Removals
  <2>1. Entry(Result(c, q, plans)) = Ledger!Blank("removed")
    BY <1>7, ResultType DEF Entry, Blank, Ledger!Blank
  <2>2. Ledger!Drop(q.id)
    <3>1. q.id \in Active(plans) \/ (q.id \notin Known(plans) /\ Cardinality(Known(plans)) < MaxIdentities)
      BY <1>4, <1>7, AcceptedCase, PlanningAssumption DEF Active, Known
    <3>2. Entries(plans)' = [Entries(plans) EXCEPT ![q.id] = Ledger!Blank("removed")]
      BY <1>3, <2>1
    <3> QED BY <1>1, <3>1, <3>2, LedgerCardinality DEF Ledger!Drop, Entries
  <2> QED BY <2>2 DEF Ledger!Next
<1> QED BY <1>5, <1>6, <1>7 DEF Commands

-----------------------------------------------------------------------------
(* The inductive invariant. *)

\* A write that takes effect takes effect on the very list it was accepted on.
Lands(c) ==
  /\ account = TRUE /\ account' = account
  /\ ask[c] \in Ask(c) /\ pc[c] # "idle"
  /\ Verdict(c, ask[c], plans) = "accepted"
  /\ plans' = After(c, ask[c], plans)
  /\ version' = version + 1
  /\ applied' = [applied EXCEPT ![c] = @ + 1]
  /\ UNCHANGED <<pc, client>>

\* A compare-and-set in flight takes effect on what was read, or misses and says so.
LEMMA LandLands ==
  ASSUME PlanningInv, NEW c \in Commands, Land(c)
  PROVE  \/ Lands(c) /\ seen[c].version = version /\ seen[c].plans = plans /\ write' = [write EXCEPT ![c] = "applied"]
         \/ /\ UNCHANGED <<plans, version, applied, account>>
            /\ ~(account /\ version = seen[c].version) /\ write' = [write EXCEPT ![c] = "missed"]
<1>1. CASE Matches(seen[c])
  <2>1. Sound(c, ask[c], seen[c]) /\ pc[c] = "writing" /\ account = TRUE
    BY <1>1 DEF Land, PlanningInv, WriteInv, Matches, TypeOK
  <2>2. seen[c].version = version /\ seen[c].plans = plans
    BY <1>1, <2>1 DEF Matches, Sound
  <2> QED BY <1>1, <2>1, <2>2 DEF Land, Lands, Apply, Sound
<1>2. CASE ~Matches(seen[c])
  BY <1>2 DEF Land, Matches
<1> QED BY <1>1, <1>2

\* So does one whose command has lost its answer.
LEMMA LateLandsLands ==
  ASSUME PlanningInv, NEW w \in late, LateLands(w)
  PROVE  w.by \in Commands /\ (Lands(w.by) \/ UNCHANGED <<plans, version, applied, account>>)
<1>1. CASE Matches(w.base)
  <2>1. Sound(w.by, w.ask, w.base) /\ w.by \in Commands /\ w.ask = ask[w.by] /\ pc[w.by] # "idle" /\ account = TRUE
    BY <1>1 DEF PlanningInv, WriteInv, TypeOK, Matches
  <2>2. w.base.version = version /\ w.base.plans = plans
    BY <1>1, <2>1 DEF Matches, Sound
  <2> QED BY <1>1, <2>1, <2>2 DEF LateLands, Lands, Apply, Sound
<1>2. CASE ~Matches(w.base)
  BY <1>2 DEF LateLands, PlanningInv, TypeOK
<1> QED BY <1>1, <1>2

\* Whatever step changes the list is the landing of one accepted command.
LEMMA Effects ==
  ASSUME PlanningInv, [Next]_vars
  PROVE  UNCHANGED <<plans, version, applied>> \/ \E c \in Commands : Lands(c)
<1>1. ASSUME NEW c \in Commands, Command(c) PROVE UNCHANGED <<plans, version, applied>> \/ Lands(c)
  BY <1>1, LandLands DEF Command, Start, Retry, Read, ReadGone, Unavailable, Send, Answered, Missed, Fails, client
<1> QED BY <1>1, LateLandsLands DEF Next, vars, DeleteAccount

\* Every variable keeps its type.
LEMMA TypeStep == PlanningInv /\ [Next]_vars => TypeOK'
<1> SUFFICES ASSUME PlanningInv, [Next]_vars PROVE TypeOK'
  OBVIOUS
<1> USE DEF PlanningInv, TypeOK, client
<1>0. CASE UNCHANGED vars
  BY <1>0 DEF vars
<1>p. plans' \in [Ids -> Plan] /\ version' \in Nat /\ applied' \in [Commands -> Nat]
  <2>1. ASSUME NEW c \in Commands, Lands(c) PROVE plans' \in [Ids -> Plan] /\ version' \in Nat /\ applied' \in [Commands -> Nat]
    BY <2>1, AfterPlan DEF Lands
  <2> QED BY <2>1, Effects
<1>1. ASSUME NEW c \in Commands, Command(c) PROVE TypeOK'
  <2>1. CASE Start(c)
    BY <2>1 DEF Start, Goto
  <2>2. CASE Retry(c)
    BY <2>2 DEF Retry
  <2>3. CASE Read(c)
    <3>1. ask[c].id \in Ids
      BY <2>3, AskType DEF Read, WriteInv
    <3>2. pc' \in [Commands -> {"idle", "read", "ready", "writing", "acked", "refused", "busy", "failed"}]
      BY <2>3, VerdictCases DEF Read
    <3>3. seen' \in [Commands -> Document] /\ began' \in [Commands -> Nat]
      BY <2>3 DEF Read, Document
    <3>4. reply' \in [Commands -> Plan]
      BY <2>3, <3>1 DEF Read
    <3> QED BY <2>3, <3>2, <3>3, <3>4 DEF Read
  <2>4. CASE ReadGone(c)
    BY <2>4 DEF ReadGone, Goto
  <2>5. CASE Unavailable(c)
    BY <2>5 DEF Unavailable, Goto
  <2>6. CASE Send(c)
    BY <2>6 DEF Send, Goto
  <2>7. CASE Land(c)
    <3>1. write' \in [Commands -> {"none", "sent", "applied", "missed"}]
      BY <2>7 DEF Land
    <3> QED BY <2>7, <3>1, <1>p DEF Land
  <2>8. CASE Answered(c)
    <3>1. Result(c, ask[c], seen[c].plans) \in Plan
      <4>1. Sound(c, ask[c], seen[c])
        BY <2>8 DEF Answered, Goto, WriteInv
      <4>2. seen[c].plans \in [Ids -> Plan]
        BY DEF Document
      <4> QED BY <4>1, <4>2, ResultType DEF Sound
    <3> QED BY <2>8, <3>1 DEF Answered, Goto
  <2>9. CASE Missed(c)
    BY <2>9 DEF Missed, Goto
  <2>10. CASE Fails(c)
    <3>1. ask[c] \in Ask(c)
      BY <2>10 DEF Fails, WriteInv
    <3>2. \A w \in late' : w.by \in Commands /\ w.ask \in Ask(w.by) /\ w.base \in Document
      BY <2>10, <3>1 DEF Fails
    <3> QED BY <2>10, <3>2 DEF Fails, Fault
  <2> QED BY <1>1, <2>1, <2>2, <2>3, <2>4, <2>5, <2>6, <2>7, <2>8, <2>9, <2>10 DEF Command
<1>2. ASSUME NEW w \in late, LateLands(w) PROVE TypeOK'
  BY <1>2, <1>p DEF LateLands
<1>3. CASE DeleteAccount
  BY <1>3 DEF DeleteAccount
<1> QED BY <1>0, <1>1, <1>2, <1>3 DEF Next

\* A version that was read stays behind or names the list that was read.
LEMMA SoundStep ==
  ASSUME PlanningInv, [Next]_vars, NEW c \in Commands, NEW q, NEW base \in Document, Sound(c, q, base)
  PROVE  base.version <= version' /\ (base.version = version' => base.plans = plans')
<1>1. base.version \in Nat /\ version \in Nat
  BY DEF Document, PlanningInv, TypeOK
<1>2. CASE UNCHANGED <<plans, version>>
  BY <1>2 DEF Sound
<1>3. CASE \E d \in Commands : Lands(d)
  <2>1. version' = version + 1
    BY <1>3 DEF Lands
  <2> QED BY <1>1, <2>1 DEF Sound
<1> QED BY <1>2, <1>3, Effects

\* The writes to come stay sound.
LEMMA WriteStep == PlanningInv /\ [Next]_vars => WriteInv'
<1> SUFFICES ASSUME PlanningInv, [Next]_vars PROVE WriteInv'
  OBVIOUS
<1>t. TypeOK /\ WriteInv
  BY DEF PlanningInv
<1> DEFINE Mine(c) ==
             /\ pc[c] # "idle" => ask[c] \in Ask(c)
             /\ pc[c] \in {"ready", "writing"} => Sound(c, ask[c], seen[c])
             /\ write[c] # "none" => pc[c] = "writing"
           Late == \A w \in late : pc[w.by] # "idle" /\ w.ask = ask[w.by] /\ Sound(w.by, w.ask, w.base)
           Same(c) == pc'[c] = pc[c] /\ ask'[c] = ask[c] /\ seen'[c] = seen[c] /\ write'[c] = write[c]
<1>1. \A x \in Commands : pc[x] \in {"ready", "writing"} /\ ask'[x] = ask[x] /\ seen'[x] = seen[x]
        => Sound(x, ask[x], seen[x])'
  <2> SUFFICES ASSUME NEW x \in Commands, pc[x] \in {"ready", "writing"}, ask'[x] = ask[x], seen'[x] = seen[x]
               PROVE  Sound(x, ask[x], seen[x])'
    OBVIOUS
  <2>1. Sound(x, ask[x], seen[x]) /\ seen[x] \in Document
    BY <1>t DEF WriteInv, TypeOK
  <2>2. seen[x].version <= version' /\ (seen[x].version = version' => seen[x].plans = plans')
    BY <2>1, SoundStep
  <2> QED BY <2>1, <2>2 DEF Sound
<1>2. \A x \in Commands : Same(x) => Mine(x)'
  BY <1>1, <1>t DEF WriteInv
<1>3. ASSUME \A x \in Commands : pc[x] # "idle" => pc'[x] # "idle" /\ ask'[x] = ask[x], NEW w \in late
      PROVE  pc'[w.by] # "idle" /\ w.ask = ask'[w.by] /\ Sound(w.by, w.ask, w.base)'
  <2>1. w.by \in Commands /\ w.base \in Document /\ pc[w.by] # "idle" /\ w.ask = ask[w.by] /\ Sound(w.by, w.ask, w.base)
    BY <1>t DEF TypeOK, WriteInv
  <2>2. w.base.version <= version' /\ (w.base.version = version' => w.base.plans = plans')
    BY <2>1, SoundStep
  <2> QED BY <1>3, <2>1, <2>2 DEF Sound
<1>4. ASSUME NEW c \in Commands, Mine(c)', pc[c] # "idle" => pc'[c] # "idle" /\ ask'[c] = ask[c],
             \A x \in Commands \ {c} : Same(x), late' = late
      PROVE  WriteInv'
  <2>2. \A x \in Commands : Mine(x)'
    BY <1>2, <1>4
  <2>3. Late'
    BY <1>3, <1>4
  <2> QED BY <2>2, <2>3 DEF WriteInv
<1> HIDE DEF Mine
<1>5. ASSUME NEW c \in Commands, Command(c) PROVE WriteInv'
  <2> USE <1>t DEF TypeOK, client
  <2>1. CASE Start(c)
    <3>1. Mine(c)'
      <4>1. ask'[c] \in Ask(c)
        BY <2>1 DEF Start
      <4>2. pc'[c] = "read" /\ write'[c] = "none"
        BY <2>1 DEF Start, Goto, WriteInv
      <4> QED BY <4>1, <4>2 DEF Mine
    <3> QED BY <2>1, <3>1, <1>4, <1>5 DEF Start, Goto
  <2>2. CASE Retry(c)
    <3>1. Mine(c)'
      BY <2>2 DEF Mine, Retry, WriteInv
    <3> QED BY <2>2, <3>1, <1>4, <1>5 DEF Retry
  <2>3. CASE Read(c)
    <3>1. pc'[c] \in {"ready", "writing"} => Verdict(c, ask[c], plans) = "accepted"
      BY <2>3, VerdictCases DEF Read
    <3>2. seen'[c] = [version |-> version, plans |-> plans] /\ UNCHANGED <<version, plans, ask, write>>
      BY <2>3 DEF Read
    <3>3. pc[c] = "read" /\ ask[c] \in Ask(c) /\ write[c] = "none"
      BY <2>3 DEF Read, WriteInv
    <3>4. Mine(c)'
      BY <3>1, <3>2, <3>3 DEF Mine, Sound
    <3>5. late' = late /\ \A x \in Commands \ {c} : Same(x)
      BY <2>3 DEF Read
    <3>6. pc'[c] # "idle" /\ ask'[c] = ask[c]
      BY <2>3, VerdictCases DEF Read
    <3> QED BY <1>4, <3>4, <3>5, <3>6
  <2>4. CASE ReadGone(c)
    <3>1. Mine(c)'
      BY <2>4 DEF Mine, ReadGone, Goto, WriteInv
    <3> QED BY <2>4, <3>1, <1>4, <1>5 DEF ReadGone, Goto
  <2>5. CASE Unavailable(c)
    <3>1. Mine(c)'
      BY <2>5 DEF Mine, Unavailable, Goto, WriteInv
    <3> QED BY <2>5, <3>1, <1>4, <1>5 DEF Unavailable, Goto
  <2>6. CASE Send(c)
    <3>1. Mine(c)'
      BY <2>6, <1>1 DEF Mine, Send, Goto, WriteInv
    <3> QED BY <2>6, <3>1, <1>4, <1>5 DEF Send, Goto
  <2>7. CASE Land(c)
    <3>1. Mine(c)'
      BY <2>7, <1>1 DEF Mine, Land, WriteInv
    <3> QED BY <2>7, <3>1, <1>4, <1>5 DEF Land
  <2>8. CASE Answered(c)
    <3>1. Mine(c)'
      BY <2>8 DEF Mine, Answered, Goto, WriteInv
    <3> QED BY <2>8, <3>1, <1>4, <1>5 DEF Answered, Goto
  <2>9. CASE Missed(c)
    <3>1. Mine(c)'
      BY <2>9 DEF Mine, Missed, Goto, WriteInv
    <3> QED BY <2>9, <3>1, <1>4, <1>5 DEF Missed, Goto
  <2>10. CASE Fails(c)
    <3>1. Mine(c)' /\ \A x \in Commands \ {c} : Same(x)
      BY <2>10 DEF Mine, Fails, WriteInv
    <3>2. \A x \in Commands : Mine(x)'
      BY <3>1, <1>2
    <3>3. \A x \in Commands : pc[x] # "idle" => pc'[x] # "idle" /\ ask'[x] = ask[x]
      BY <2>10 DEF Fails
    <3>4. write[c] = "sent" => pc'[c] # "idle" /\ ask'[c] = ask[c] /\ Sound(c, ask[c], seen[c])'
      BY <2>10, <1>1 DEF Fails, WriteInv
    <3>5. Late'
      <4>1. CASE write[c] = "sent"
        <5>1. late' = late \cup {[by |-> c, ask |-> ask[c], base |-> seen[c]]}
          BY <2>10, <4>1 DEF Fails
        <5>2. UNCHANGED <<ask, seen>>
          BY <2>10 DEF Fails
        <5> QED BY <1>3, <3>3, <3>4, <4>1, <5>1, <5>2 DEF Sound
      <4>2. CASE write[c] # "sent"
        BY <2>10, <4>2, <1>3, <3>3 DEF Fails
      <4> QED BY <4>1, <4>2
    <3> QED BY <3>2, <3>5 DEF WriteInv, Mine
  <2> QED BY <1>5, <2>1, <2>2, <2>3, <2>4, <2>5, <2>6, <2>7, <2>8, <2>9, <2>10 DEF Command
<1>6. ASSUME \A x \in Commands : Same(x), late' \subseteq late
      PROVE  WriteInv'
  <2>1. \A x \in Commands : Mine(x)'
    BY <1>2, <1>6
  <2>2. Late'
    BY <1>3, <1>6
  <2> QED BY <2>1, <2>2 DEF WriteInv, Mine
<1>7. ASSUME NEW w \in late, LateLands(w) PROVE WriteInv'
  BY <1>6, <1>7 DEF LateLands, client
<1>8. CASE DeleteAccount \/ UNCHANGED vars
  BY <1>6, <1>8 DEF DeleteAccount, vars, client
<1> QED BY <1>5, <1>7, <1>8 DEF Next

\* A command that has started keeps what it asks for.
LEMMA AskKept ==
  ASSUME PlanningInv, [Next]_vars, NEW x \in Commands, pc[x] # "idle"
  PROVE  pc'[x] # "idle" /\ ask'[x] = ask[x]
<1> USE DEF PlanningInv, TypeOK, client
<1>1. ASSUME NEW c \in Commands, Command(c) PROVE pc'[x] # "idle" /\ ask'[x] = ask[x]
  <2>1. CASE Start(c)
    BY <2>1 DEF Start, Goto
  <2>2. CASE Read(c)
    <3>1. pc'[c] # "idle" /\ \A y \in Commands \ {c} : pc'[y] = pc[y]
      BY <2>2, VerdictCases DEF Read
    <3> QED BY <2>2, <3>1 DEF Read
  <2>3. CASE Retry(c) \/ ReadGone(c) \/ Unavailable(c) \/ Send(c)
    BY <2>3 DEF Retry, ReadGone, Unavailable, Send, Goto
  <2>4. CASE Land(c) \/ Answered(c) \/ Missed(c) \/ Fails(c)
    BY <2>4 DEF Land, Answered, Missed, Fails, Goto
  <2> QED BY <1>1, <2>1, <2>2, <2>3, <2>4 DEF Command
<1> QED BY <1>1 DEF Next, vars, LateLands, DeleteAccount

\* No command takes effect again once it is settled.
LEMMA OnceStep == PlanningInv /\ [Next]_vars => OnceInv'
<1> SUFFICES ASSUME PlanningInv, [Next]_vars PROVE OnceInv'
  OBVIOUS
<1>t. TypeOK /\ WriteInv /\ OnceInv
  BY DEF PlanningInv
<1>1. ASSUME NEW c \in Commands, Lands(c) PROVE OnceInv'
  <2>0. plans \in [Ids -> Plan] /\ ask[c] \in Ask(c) /\ pc[c] # "idle" /\ Verdict(c, ask[c], plans) = "accepted"
    BY <1>1, <1>t DEF Lands, TypeOK
  <2>1. applied[c] = 0
    <3>1. ~Settled(c, ask[c], plans)
      BY <2>0, SettledRefused
    <3> QED BY <3>1, <1>t DEF OnceInv, TypeOK
  <2>2. Settled(c, ask[c], plans')
    BY <1>1, <2>0, SettledAfter DEF Lands
  <2>3. ASSUME NEW d \in Commands, d # c
        PROVE  applied'[d] <= 1 /\ (applied'[d] = 1 => pc'[d] # "idle" /\ Settled(d, ask'[d], plans'))
    <3>1. applied'[d] = applied[d]
      BY <1>1, <2>3, <1>t DEF Lands, TypeOK
    <3>2. applied[d] <= 1 /\ (applied[d] = 1 => pc[d] # "idle" /\ ask[d] \in Ask(d) /\ Settled(d, ask[d], plans))
      BY <1>t DEF OnceInv, WriteInv
    <3>3. applied[d] = 1 => Settled(d, ask[d], plans')
      BY <1>1, <2>0, <3>2, SettledStep DEF Lands
    <3> QED BY <3>1, <3>2, <3>3, AskKept
  <2>4. applied'[c] = 1 /\ pc'[c] # "idle" /\ ask'[c] = ask[c]
    BY <1>1, <2>0, <2>1, <1>t, AskKept DEF Lands, TypeOK
  <2> QED BY <2>2, <2>3, <2>4 DEF OnceInv
<1>2. CASE UNCHANGED <<plans, version, applied>>
  BY <1>2, <1>t, AskKept DEF OnceInv, Settled
<1> QED BY <1>1, <1>2, Effects

\* A plan that answers a repeated command is on the list.
LEMMA ReplayedLife ==
  ASSUME NEW a \in [Ids -> Plan], NEW c \in Commands, NEW q \in Ask(c), Verdict(c, q, a) = "replayed"
  PROVE  a[q.id].life \in {"active", "removed"}
<1> USE AskType, PlanningAssumption
<1>1. a[q.id].life \in {"absent", "active", "removed"}
  BY DEF Plan
<1>2. CASE c \in Creates
  BY <1>1, <1>2 DEF Verdict, CreateVerdict
<1>3. CASE c \in Moves
  BY <1>1, <1>3 DEF Verdict, MoveVerdict
<1>4. CASE c \in Removals
  BY <1>1, <1>4 DEF Verdict, RemoveVerdict
<1> QED BY <1>2, <1>3, <1>4 DEF Commands

\* What was acknowledged is kept.
LEMMA AckStep == PlanningInv /\ [Next]_vars => AckInv'
<1> SUFFICES ASSUME PlanningInv, [Next]_vars PROVE AckInv'
  OBVIOUS
<1>t. TypeOK /\ WriteInv /\ AckInv
  BY DEF PlanningInv
<1> DEFINE Mine(c) ==
             /\ write[c] = "applied" => Keeps(plans[ask[c].id], Result(c, ask[c], seen[c].plans))
             /\ pc[c] = "acked" => Keeps(plans[ask[c].id], reply[c])
           Same(c) == /\ pc'[c] = pc[c] /\ ask'[c] = ask[c] /\ seen'[c] = seen[c]
                      /\ write'[c] = write[c] /\ reply'[c] = reply[c]
<1>1. ASSUME NEW p \in Ids, NEW old \in Plan, Keeps(plans[p], old) PROVE Keeps(plans'[p], old)
  <2>1. ASSUME NEW c \in Commands, Lands(c) PROVE Keeps(plans'[p], old)
    BY <1>1, <2>1, <1>t, KeepsStep DEF Lands, TypeOK
  <2> QED BY <1>1, <2>1, Effects
<1>2. \A x \in Commands : write[x] # "none" => Result(x, ask[x], seen[x].plans) \in Plan /\ ask[x].id \in Ids
                                               /\ Result(x, ask[x], seen[x].plans).life \in {"active", "removed"}
  <2> SUFFICES ASSUME NEW x \in Commands, write[x] # "none"
               PROVE  /\ Result(x, ask[x], seen[x].plans) \in Plan /\ ask[x].id \in Ids
                      /\ Result(x, ask[x], seen[x].plans).life \in {"active", "removed"}
    OBVIOUS
  <2>1. Sound(x, ask[x], seen[x]) /\ seen[x].plans \in [Ids -> Plan]
    BY <1>t DEF WriteInv, TypeOK, Document
  <2> QED BY <2>1, ResultType, AskType DEF Sound
<1>3. \A x \in Commands : pc[x] = "acked" => ask[x].id \in Ids /\ reply[x] \in Plan
  BY <1>t, AskType DEF WriteInv, TypeOK
<1>4. ASSUME NEW x \in Commands, Same(x) PROVE Mine(x)'
  <2>1. Mine(x)
    BY <1>t DEF AckInv
  <2>2. write[x] = "applied" => Keeps(plans'[ask[x].id], Result(x, ask[x], seen[x].plans))
    BY <2>1, <1>1, <1>2
  <2>3. pc[x] = "acked" => Keeps(plans'[ask[x].id], reply[x])
    BY <2>1, <1>1, <1>3
  <2> HIDE DEF Mine
  <2>4. Result(x, ask[x], seen[x].plans)' = Result(x, ask'[x], seen'[x].plans)
    BY DEF Result, Created, Rescheduled, Blank, CreateKey, RequestKey
  <2> QED BY <1>4, <2>2, <2>3, <2>4 DEF Mine
<1>5. ASSUME NEW c \in Commands, Mine(c)', \A x \in Commands \ {c} : Same(x) PROVE AckInv'
  BY <1>4, <1>5 DEF AckInv
<1>6. ASSUME NEW c \in Commands, pc'[c] # "acked", write'[c] # "applied", \A x \in Commands \ {c} : Same(x) PROVE AckInv'
  BY <1>5, <1>6
<1> HIDE DEF Mine
<1>7. ASSUME NEW c \in Commands, Command(c) PROVE AckInv'
  <2> USE <1>t DEF TypeOK, client
  <2>1. CASE Start(c)
    BY <2>1, <1>6, <1>t DEF Start, Goto, WriteInv
  <2>2. CASE Retry(c)
    BY <2>2, <1>6, <1>t DEF Retry, WriteInv
  <2>3. CASE Read(c)
    <3>1. write'[c] = "none" /\ plans' = plans /\ ask' = ask /\ ask[c] \in Ask(c) /\ plans \in [Ids -> Plan]
      BY <2>3 DEF Read, WriteInv
    <3>2. pc'[c] = "acked" => Verdict(c, ask[c], plans) = "replayed"
      BY <2>3, VerdictCases DEF Read
    <3>3. pc'[c] = "acked" => reply'[c] = plans[ask[c].id]
      BY <2>3, <3>2 DEF Read
    <3>4. pc'[c] = "acked" => plans[ask[c].id].life \in {"active", "removed"} /\ plans[ask[c].id].revision \in Nat
      BY <3>1, <3>2, ReplayedLife, AskType DEF Plan
    <3>5. Mine(c)'
      BY <3>1, <3>3, <3>4 DEF Mine, Keeps
    <3>6. \A x \in Commands \ {c} : Same(x)
      BY <2>3 DEF Read
    <3> QED BY <1>5, <3>5, <3>6
  <2>4. CASE ReadGone(c) \/ Unavailable(c) \/ Send(c)
    BY <2>4, <1>6, <1>t DEF ReadGone, Unavailable, Send, Goto, WriteInv
  <2>5. CASE Land(c)
    <3>1. pc'[c] = "writing" /\ UNCHANGED <<pc, client>> /\ \A x \in Commands \ {c} : write'[x] = write[x]
      BY <2>5, <1>t DEF Land, WriteInv
    <3>2. CASE write'[c] = "applied"
      <4>1. Lands(c) /\ seen[c].plans = plans
        BY <2>5, <3>2, LandLands
      <4>2. plans'[ask[c].id] = Result(c, ask[c], plans)
        BY <4>1, AfterPlan DEF Lands
      <4>3. Result(c, ask[c], plans).life \in {"active", "removed"} /\ Result(c, ask[c], plans).revision \in Nat
        BY <2>5, <4>1, <1>2 DEF Land, Plan
      <4>4. Keeps(plans'[ask[c].id], Result(c, ask[c], plans))
        BY <4>2, <4>3 DEF Keeps
      <4>5. ask'[c] = ask[c] /\ seen'[c] = seen[c]
        BY <3>1
      <4>6. Result(c, ask[c], seen[c].plans)' = Result(c, ask[c], plans)
        BY <4>1, <4>5 DEF Result, Created, Rescheduled, Blank, CreateKey, RequestKey
      <4>7. Mine(c)'
        BY <3>1, <4>4, <4>5, <4>6 DEF Mine
      <4> QED BY <1>5, <3>1, <4>7
    <3>3. CASE write'[c] # "applied"
      BY <1>6, <3>1, <3>3
    <3> QED BY <3>2, <3>3
  <2>6. CASE Answered(c)
    <3>1. write'[c] = "none" /\ \A x \in Commands \ {c} : Same(x)
      BY <2>6 DEF Answered, Goto
    <3>2. pc'[c] = "acked" => reply'[c] = Result(c, ask[c], seen[c].plans) /\ plans' = plans /\ ask' = ask
      BY <2>6 DEF Answered, Goto
    <3>3. Keeps(plans[ask[c].id], Result(c, ask[c], seen[c].plans))
      BY <2>6, <1>t DEF Answered, AckInv
    <3>4. Mine(c)'
      BY <3>1, <3>2, <3>3 DEF Mine
    <3> QED BY <1>5, <3>1, <3>4
  <2>7. CASE Missed(c)
    BY <2>7, <1>6, <1>t DEF Missed, Goto
  <2>8. CASE Fails(c)
    BY <2>8, <1>6, <1>t DEF Fails
  <2> QED BY <1>7, <2>1, <2>2, <2>3, <2>4, <2>5, <2>6, <2>7, <2>8 DEF Command
<1>8. CASE UNCHANGED <<pc, client, write>>
  BY <1>4, <1>8 DEF client, AckInv, Mine
<1> QED BY <1>7, <1>8 DEF Next, LateLands, DeleteAccount, vars

\* Every miss is another command's write.
LEMMA BusyStep == PlanningInv /\ [Next]_vars => BusyInv'
<1> SUFFICES ASSUME PlanningInv, [Next]_vars, account' PROVE BusyInv'
  BY DEF BusyInv
<1>t. TypeOK /\ WriteInv /\ BusyInv /\ PlanningAssumption
  BY PlanningAssumption DEF PlanningInv
<1> DEFINE Mine(c) ==
             /\ pc[c] = "idle" => attempt[c] = 0
             /\ pc[c] = "read" /\ attempt[c] > 0 => version >= began[c] + attempt[c]
             /\ pc[c] \in {"ready", "writing"} => seen[c].version >= began[c] + attempt[c]
             /\ write[c] = "missed" => version > seen[c].version
             /\ pc[c] = "busy" => version >= began[c] + MaxAttempts
           Same(c) == /\ pc'[c] = pc[c] /\ seen'[c] = seen[c] /\ write'[c] = write[c]
                      /\ attempt'[c] = attempt[c] /\ began'[c] = began[c]
<1>1. version' >= version /\ version' \in Nat /\ version \in Nat
  <2>1. version \in Nat /\ version' \in Nat
    BY <1>t, TypeStep DEF TypeOK
  <2>2. version' = version \/ version' = version + 1
    BY Effects DEF Lands
  <2> QED BY <2>1, <2>2
<1>2. account
  <2>1. ASSUME NEW c \in Commands, Command(c) PROVE account' = account
    BY <2>1 DEF Command, Start, Retry, Read, ReadGone, Unavailable, Send, Land, Answered, Missed, Fails
  <2> QED BY <2>1 DEF Next, LateLands, DeleteAccount, vars
<1>3. \A x \in Commands : Mine(x)
  BY <1>2, <1>t DEF BusyInv
<1>4. \A x \in Commands : attempt[x] \in Nat /\ began[x] \in Nat /\ seen[x].version \in Nat
  BY <1>t DEF TypeOK, Document
<1>5. MaxAttempts \in Nat \ {0}
  BY PlanningAssumption
<1>6. ASSUME NEW x \in Commands, Same(x) PROVE Mine(x)'
  BY <1>1, <1>3, <1>4, <1>5, <1>6
<1>7. ASSUME NEW c \in Commands, Mine(c)', \A x \in Commands \ {c} : Same(x) PROVE BusyInv'
  BY <1>6, <1>7 DEF BusyInv
<1>8. ASSUME NEW c \in Commands, Command(c) PROVE BusyInv'
  <2> USE <1>t DEF TypeOK, client
  <2>0. Mine(c) /\ attempt[c] \in Nat /\ began[c] \in Nat /\ seen[c].version \in Nat
    BY <1>3, <1>4
  <2>a. ASSUME pc'[c] \notin {"ready", "writing", "busy"}, pc'[c] = "read" => attempt'[c] = 0, write'[c] # "missed",
               pc'[c] = "idle" => attempt'[c] = 0, \A x \in Commands \ {c} : Same(x)
        PROVE  BusyInv'
    BY <1>7, <2>a
  <2>1. CASE Start(c)
    <3>1. pc'[c] = "read" /\ attempt'[c] = 0 /\ write'[c] # "missed" /\ \A x \in Commands \ {c} : Same(x)
      BY <2>0, <2>1 DEF Start, Goto, WriteInv
    <3> QED BY <2>a, <3>1
  <2>2. CASE Retry(c)
    <3>1. pc'[c] = "read" /\ attempt'[c] = 0 /\ write'[c] # "missed" /\ \A x \in Commands \ {c} : Same(x)
      BY <2>2 DEF Retry, WriteInv
    <3> QED BY <2>a, <3>1
  <2>3. CASE Read(c)
    <3>1. pc'[c] \in {"refused", "acked", "ready"} /\ write'[c] = "none" /\ pc[c] = "read"
      BY <2>3, VerdictCases DEF Read, WriteInv
    <3>2. began'[c] = IF attempt[c] = 0 THEN version ELSE began[c]
      BY <2>3 DEF Read
    <3>3. seen'[c].version = version /\ attempt'[c] = attempt[c] /\ version' = version
      BY <2>3 DEF Read
    <3>4. version >= began'[c] + attempt'[c]
      BY <1>1, <2>0, <3>1, <3>2, <3>3
    <3>5. Mine(c)'
      BY <3>1, <3>3, <3>4
    <3>6. \A x \in Commands \ {c} : Same(x)
      BY <2>3 DEF Read
    <3> HIDE DEF Mine
    <3> QED BY <1>7, <3>5, <3>6
  <2>4. CASE ReadGone(c) \/ Unavailable(c)
    <3>1. pc'[c] = "refused" /\ write'[c] # "missed" /\ \A x \in Commands \ {c} : Same(x)
      BY <2>4 DEF ReadGone, Unavailable, Goto, WriteInv
    <3> QED BY <2>a, <3>1
  <2>5. CASE Send(c)
    <3>1. pc'[c] = "writing" /\ pc[c] = "ready" /\ write'[c] = "sent" /\ UNCHANGED <<seen, attempt, began>>
      BY <2>5 DEF Send, Goto
    <3>2. Mine(c)'
      BY <2>0, <3>1
    <3>3. \A x \in Commands \ {c} : Same(x)
      BY <2>5 DEF Send, Goto
    <3> HIDE DEF Mine
    <3> QED BY <1>7, <3>2, <3>3
  <2>6. CASE Land(c)
    <3>1. pc'[c] = "writing" /\ pc[c] = "writing" /\ UNCHANGED <<seen, attempt, began>>
      BY <2>6 DEF Land, WriteInv
    <3>2. write'[c] = "missed" => version' > seen[c].version
      <4>1. Sound(c, ask[c], seen[c])
        BY <3>1 DEF WriteInv
      <4>2. write'[c] = "missed" => version # seen[c].version /\ version' = version
        BY <1>2, <2>6, LandLands
      <4> QED BY <1>1, <2>0, <4>1, <4>2 DEF Sound
    <3>3. Mine(c)'
      BY <2>0, <3>1, <3>2
    <3>4. \A x \in Commands \ {c} : Same(x)
      BY <2>6 DEF Land
    <3> HIDE DEF Mine
    <3> QED BY <1>7, <3>3, <3>4
  <2>7. CASE Answered(c)
    <3>1. pc'[c] = "acked" \/ pc'[c] = "refused"
      BY <2>7 DEF Answered, Goto
    <3>2. write'[c] # "missed" /\ \A x \in Commands \ {c} : Same(x)
      BY <2>7 DEF Answered, Goto
    <3> QED BY <2>a, <3>1, <3>2
  <2>8. CASE Missed(c)
    <3>1. /\ pc[c] = "writing" /\ write[c] = "missed" /\ write'[c] = "none"
          /\ pc'[c] = (IF attempt[c] + 1 < MaxAttempts THEN "read" ELSE "busy")
          /\ attempt'[c] = attempt[c] + 1 /\ UNCHANGED <<seen, began, version>>
      BY <2>8 DEF Missed, Goto
    <3>2. version >= began[c] + (attempt[c] + 1)
      BY <1>1, <2>0, <3>1
    <3>3. pc'[c] = "busy" => version >= began[c] + MaxAttempts
      BY <1>1, <1>5, <2>0, <3>1, <3>2
    <3>4. Mine(c)'
      BY <3>1, <3>2, <3>3
    <3>5. \A x \in Commands \ {c} : Same(x)
      BY <2>8 DEF Missed, Goto
    <3> HIDE DEF Mine
    <3> QED BY <1>7, <3>4, <3>5
  <2>9. CASE Fails(c)
    <3>1. pc'[c] = "failed" /\ write'[c] = "none" /\ \A x \in Commands \ {c} : Same(x)
      BY <2>9 DEF Fails
    <3> QED BY <2>a, <3>1
  <2> QED BY <1>8, <2>1, <2>2, <2>3, <2>4, <2>5, <2>6, <2>7, <2>8, <2>9 DEF Command
<1>9. CASE UNCHANGED <<pc, client, write>>
  BY <1>6, <1>9 DEF client, BusyInv
<1> QED BY <1>8, <1>9 DEF Next, LateLands, DeleteAccount, vars

-----------------------------------------------------------------------------
(* The theorems. *)

\* An account starts with an empty list and no commands.
LEMMA InitStep == Init => PlanningInv
<1> SUFFICES ASSUME Init PROVE PlanningInv
  OBVIOUS
<1>1. Blank("absent") \in Plan /\ Empty \in [Ids -> Plan]
  BY DEF Blank, Plan, Empty
<1>2. TypeOK
  BY <1>1 DEF Init, TypeOK, Document
<1>3. WriteInv /\ OnceInv /\ AckInv /\ BusyInv
  BY PlanningAssumption DEF Init, WriteInv, OnceInv, AckInv, BusyInv
<1> QED BY <1>2, <1>3 DEF PlanningInv

\* The invariant is inductive: it holds for any commands, ids, limits and faults.
THEOREM Planning == Spec => []PlanningInv
<1>1. PlanningInv /\ [Next]_vars => PlanningInv'
  BY TypeStep, WriteStep, OnceStep, AckStep, BusyStep DEF PlanningInv
<1> QED BY <1>1, InitStep, PTL DEF Spec

\* However often a client resends a command, it takes effect at most once.
THEOREM OnlyOnce == Spec => []AppliedOnce
<1>1. PlanningInv => AppliedOnce
  BY DEF PlanningInv, OnceInv, AppliedOnce
<1> QED BY <1>1, Planning, PTL

\* An acknowledged plan is neither lost nor rewritten.
THEOREM Acknowledged == Spec => []AcknowledgedKept
<1>1. PlanningInv => AcknowledgedKept
  BY DEF PlanningInv, AckInv, AcknowledgedKept
<1> QED BY <1>1, Planning, PTL

\* A command gives up only because other writes landed.
THEOREM Busy == Spec => []BusyIsContention
<1>1. PlanningInv => BusyIsContention
  BY DEF PlanningInv, BusyInv, BusyIsContention
<1> QED BY <1>1, Planning, PTL

\* The store implements the atomic list of PlanLedger, for any number of commands
\* in flight, attempts and faults.
THEOREM Implements == Spec => ImplementsLedger
<1>1. Init => Ledger!Init
  BY DEF Init, Ledger!Init, Empty, Entry, Blank, Ledger!Blank
<1>2. PlanningInv /\ [Next]_vars => [Ledger!Next]_<<account, Entries(plans)>>
  <2> SUFFICES ASSUME PlanningInv, [Next]_vars PROVE [Ledger!Next]_<<account, Entries(plans)>>
    OBVIOUS
  <2>1. CASE \E c \in Commands : Lands(c)
    <3>1. PICK c \in Commands : Lands(c)
      BY <2>1
    <3>2. Ledger!Next
      BY <3>1, LedgerStep DEF Lands, PlanningInv, TypeOK
    <3> QED BY <3>2
  <2>2. CASE DeleteAccount
    <3>1. plans' = plans /\ account /\ account' = FALSE
      BY <2>2 DEF DeleteAccount
    <3>2. Entries(plans)' = Entries(plans)
      BY <3>1 DEF Entries, Entry
    <3>3. Ledger!Close
      BY <3>1, <3>2 DEF Ledger!Close, Entries
    <3> QED BY <3>3 DEF Ledger!Next
  <2>3. CASE UNCHANGED <<plans, version, applied>> /\ ~DeleteAccount
    <3>1. account' = account
      <4>1. ASSUME NEW c \in Commands, Command(c) PROVE account' = account
        BY <4>1 DEF Command, Start, Retry, Read, ReadGone, Unavailable, Send, Land, Answered, Missed, Fails
      <4> QED BY <2>3, <4>1 DEF Next, LateLands, vars
    <3>2. Entries(plans)' = Entries(plans)
      BY <2>3 DEF Entries, Entry
    <3> QED BY <3>1, <3>2
  <2> QED BY <2>1, <2>2, <2>3, Effects
<1> QED BY <1>1, <1>2, Planning, PTL DEF Spec, ImplementsLedger, Ledger!Spec, Entries

-----------------------------------------------------------------------------
(* What the ledger promises, for any history of its list, and so for the   *)
(* store that implements it.                                               *)

\* The lists that keep the rules, whatever variable holds them.
Row == [life : {"absent", "active", "removed"}, revision : Nat,
        outfit : Outfits \cup {None}, day : Days \cup {None}]

ActiveIn(e) == {p \in Ids : e[p].life = "active"}
KnownIn(e)  == {p \in Ids : e[p].life # "absent"}

Legal(e) ==
  /\ e \in [Ids -> Row]
  /\ Cardinality(ActiveIn(e)) <= MaxActive
  /\ Cardinality(KnownIn(e)) <= MaxIdentities
  /\ \A p, q \in ActiveIn(e) : e[p].outfit = e[q].outfit /\ e[p].day = e[q].day => p = q

\* The counted sets are finite, so the counts are numbers.
LEMMA FiniteParts ==
  ASSUME NEW e
  PROVE  /\ IsFiniteSet(ActiveIn(e)) /\ Cardinality(ActiveIn(e)) \in Nat
         /\ IsFiniteSet(KnownIn(e))  /\ Cardinality(KnownIn(e)) \in Nat
<1>1. ActiveIn(e) \subseteq Ids /\ KnownIn(e) \subseteq Ids
  BY DEF ActiveIn, KnownIn
<1> QED BY <1>1, FS_Subset, FS_CardinalityType, PlanningAssumption

\* An added plan is the only one of its outfit and day.
LEMMA AddKeeps ==
  ASSUME NEW e, Legal(e), NEW p \in Ids, NEW r \in Row, r.life = "active", e[p].life = "absent",
         \A q \in ActiveIn(e) : ~(e[q].outfit = r.outfit /\ e[q].day = r.day),
         Cardinality(ActiveIn(e)) < MaxActive, Cardinality(KnownIn(e)) < MaxIdentities
  PROVE  Legal([e EXCEPT ![p] = r])
<1> DEFINE f == [e EXCEPT ![p] = r]
<1>1. f \in [Ids -> Row] /\ f[p] = r /\ \A q \in Ids \ {p} : f[q] = e[q]
  BY DEF Legal
<1> HIDE DEF f
<1>2. ActiveIn(f) = ActiveIn(e) \cup {p} /\ KnownIn(f) = KnownIn(e) \cup {p}
  BY <1>1 DEF ActiveIn, KnownIn
<1>3. p \notin ActiveIn(e) /\ p \notin KnownIn(e)
  BY DEF ActiveIn, KnownIn
<1>4. /\ Cardinality(ActiveIn(f)) = Cardinality(ActiveIn(e)) + 1
      /\ Cardinality(KnownIn(f)) = Cardinality(KnownIn(e)) + 1
  BY <1>2, <1>3, FiniteParts, FS_AddElement
<1>5. \A q, s \in ActiveIn(f) : f[q].outfit = f[s].outfit /\ f[q].day = f[s].day => q = s
  BY <1>1, <1>2 DEF Legal, ActiveIn
<1>6. Cardinality(ActiveIn(f)) <= MaxActive /\ Cardinality(KnownIn(f)) <= MaxIdentities
  BY <1>4, FiniteParts, PlanningAssumption
<1> QED BY <1>1, <1>5, <1>6 DEF Legal, f

\* A moved plan is the only one of its outfit on its new day.
LEMMA MoveKeeps ==
  ASSUME NEW e, Legal(e), NEW p \in ActiveIn(e), NEW r \in Row, r.life = "active",
         \A q \in ActiveIn(e) \ {p} : ~(e[q].outfit = r.outfit /\ e[q].day = r.day)
  PROVE  Legal([e EXCEPT ![p] = r])
<1> DEFINE f == [e EXCEPT ![p] = r]
<1>0. p \in Ids /\ e[p].life = "active"
  BY DEF ActiveIn
<1>1. f \in [Ids -> Row] /\ f[p] = r /\ \A q \in Ids \ {p} : f[q] = e[q]
  BY <1>0 DEF Legal
<1> HIDE DEF f
<1>2. ActiveIn(f) = ActiveIn(e) /\ KnownIn(f) = KnownIn(e)
  BY <1>0, <1>1 DEF ActiveIn, KnownIn
<1>3. \A q, s \in ActiveIn(f) : f[q].outfit = f[s].outfit /\ f[q].day = f[s].day => q = s
  BY <1>1, <1>2 DEF Legal, ActiveIn
<1> QED BY <1>1, <1>2, <1>3 DEF Legal, f

\* A removal frees an active place and keeps the id known.
LEMMA DropKeeps ==
  ASSUME NEW e, Legal(e), NEW p \in Ids, NEW r \in Row, r.life = "removed",
         p \in ActiveIn(e) \/ Cardinality(KnownIn(e)) < MaxIdentities
  PROVE  Legal([e EXCEPT ![p] = r])
<1> DEFINE f == [e EXCEPT ![p] = r]
<1>1. f \in [Ids -> Row] /\ f[p] = r /\ \A q \in Ids \ {p} : f[q] = e[q]
  BY DEF Legal
<1> HIDE DEF f
<1>2. ActiveIn(f) = ActiveIn(e) \ {p} /\ KnownIn(f) = KnownIn(e) \cup {p}
  BY <1>1 DEF ActiveIn, KnownIn
<1>3. Cardinality(ActiveIn(f)) <= MaxActive
  <2>1. Cardinality(ActiveIn(f)) <= Cardinality(ActiveIn(e))
    BY <1>2, FiniteParts, FS_Subset
  <2> QED BY <2>1, FiniteParts, PlanningAssumption DEF Legal
<1>4. Cardinality(KnownIn(f)) <= MaxIdentities
  <2>1. CASE p \in ActiveIn(e)
    <3>1. p \in KnownIn(e)
      BY <2>1 DEF ActiveIn, KnownIn
    <3>2. KnownIn(f) = KnownIn(e)
      BY <3>1, <1>2
    <3> QED BY <3>2 DEF Legal
  <2>2. CASE Cardinality(KnownIn(e)) < MaxIdentities
    <3>1. IsFiniteSet(KnownIn(e)) /\ Cardinality(KnownIn(e)) \in Nat
      BY FiniteParts
    <3>2. Cardinality(KnownIn(f)) = IF p \in KnownIn(e) THEN Cardinality(KnownIn(e))
                                   ELSE Cardinality(KnownIn(e)) + 1
      BY <1>2, <3>1, FS_AddElement
    <3> QED BY <2>2, <3>1, <3>2, PlanningAssumption
  <2> QED BY <2>1, <2>2
<1>5. \A q, s \in ActiveIn(f) : f[q].outfit = f[s].outfit /\ f[q].day = f[s].day => q = s
  <2>1. \A q \in ActiveIn(f) : q \in ActiveIn(e) /\ f[q] = e[q]
    BY <1>1, <1>2 DEF ActiveIn
  <2> QED BY <2>1 DEF Legal
<1> QED BY <1>1, <1>3, <1>4, <1>5 DEF Legal, f

\* The ledger reads its list.
LEMMA LedgerReads ==
  /\ Ledger!Active = ActiveIn(Entries(plans)) /\ Ledger!Known = KnownIn(Entries(plans))
  /\ \A S : Ledger!Cardinality(S) = Cardinality(S)
BY LedgerCardinality DEF Ledger!Active, Ledger!Known, ActiveIn, KnownIn, Entries

\* A legal list is what the ledger promises.
LEMMA LegalMeans ==
  Legal(Entries(plans)) <=>
    /\ Entries(plans) \in [Ids -> Row]
    /\ Ledger!Bounded /\ Ledger!NoDuplicate
<1>1. Ledger!Bounded <=> /\ Cardinality(ActiveIn(Entries(plans))) <= MaxActive
                         /\ Cardinality(KnownIn(Entries(plans))) <= MaxIdentities
  BY LedgerReads DEF Ledger!Bounded
<1>2. Ledger!NoDuplicate <=>
        \A p, q \in ActiveIn(Entries(plans)) :
          /\ Entries(plans)[p].outfit = Entries(plans)[q].outfit
          /\ Entries(plans)[p].day = Entries(plans)[q].day
          => p = q
  BY LedgerReads DEF Ledger!NoDuplicate, Entries
<1> QED BY <1>1, <1>2 DEF Legal

\* One step of the ledger keeps its list legal, and its removed plans removed.
LEMMA LedgerKeeps ==
  ASSUME Legal(Entries(plans)), Ledger!Next
  PROVE  /\ Legal(Entries(plans)')
         /\ \A p \in Ids : Entries(plans)[p].life = "removed" => Entries(plans)'[p].life = "removed"
<1> DEFINE e == Entries(plans)
<1>0. e \in [Ids -> Row]
  BY DEF Legal
<1>1. ASSUME NEW p \in Ids, NEW o \in Outfits, NEW d \in Days, Ledger!Add(p, o, d)
      PROVE  \E r \in Row : /\ Entries(plans)' = [e EXCEPT ![p] = r] /\ Legal([e EXCEPT ![p] = r])
                            /\ e[p].life # "removed"
  <2> DEFINE r == Ledger!Planned(1, o, d)
  <2>1. r \in Row /\ r.life = "active" /\ r.outfit = o /\ r.day = d
    BY DEF Ledger!Planned, Row
  <2>2. p \notin KnownIn(e) /\ Cardinality(ActiveIn(e)) < MaxActive /\ Cardinality(KnownIn(e)) < MaxIdentities
    BY <1>1, LedgerReads DEF Ledger!Add
  <2>3. \A q \in ActiveIn(e) : ~(e[q].outfit = o /\ e[q].day = d)
    <3>1. Ledger!Showing(o, d) = {}
      BY <1>1 DEF Ledger!Add
    <3> QED BY <3>1, LedgerReads DEF Ledger!Showing, Entries, ActiveIn
  <2>4. Entries(plans)' = [e EXCEPT ![p] = r]
    BY <1>1 DEF Ledger!Add, Entries
  <2>5. e[p].life = "absent"
    BY <2>2 DEF KnownIn
  <2> HIDE DEF r, e
  <2>6. Legal([e EXCEPT ![p] = r])
    BY <2>1, <2>2, <2>3, <2>5, AddKeeps DEF e
  <2> QED BY <2>1, <2>4, <2>5, <2>6
<1>2. ASSUME NEW p \in Ids, NEW d \in Days, Ledger!Move(p, d)
      PROVE  \E r \in Row : /\ Entries(plans)' = [e EXCEPT ![p] = r] /\ Legal([e EXCEPT ![p] = r])
                            /\ e[p].life # "removed"
  <2> DEFINE r == Ledger!Planned(e[p].revision + 1, e[p].outfit, d)
  <2>1. r \in Row /\ r.life = "active" /\ r.outfit = e[p].outfit /\ r.day = d
    BY <1>0 DEF Ledger!Planned, Row
  <2>2. p \in ActiveIn(e)
    BY <1>2, LedgerReads DEF Ledger!Move
  <2>3. \A q \in ActiveIn(e) \ {p} : ~(e[q].outfit = e[p].outfit /\ e[q].day = d)
    <3>1. Ledger!Showing(e[p].outfit, d) \subseteq {p}
      BY <1>2 DEF Ledger!Move, Entries
    <3> QED BY <3>1, LedgerReads DEF Ledger!Showing, Entries, ActiveIn
  <2>4. Entries(plans)' = [e EXCEPT ![p] = r]
    BY <1>2 DEF Ledger!Move, Entries
  <2>5. e[p].life = "active"
    BY <2>2 DEF ActiveIn
  <2> HIDE DEF r, e
  <2>6. Legal([e EXCEPT ![p] = r])
    BY <2>1, <2>2, <2>3, MoveKeeps DEF e
  <2> QED BY <2>1, <2>4, <2>5, <2>6
<1>3. ASSUME NEW p \in Ids, Ledger!Drop(p)
      PROVE  \E r \in Row : /\ Entries(plans)' = [e EXCEPT ![p] = r] /\ Legal([e EXCEPT ![p] = r])
                            /\ r.life = "removed"
  <2> DEFINE r == Ledger!Blank("removed")
  <2>1. r \in Row /\ r.life = "removed"
    BY DEF Ledger!Blank, Row
  <2>2. p \in ActiveIn(e) \/ Cardinality(KnownIn(e)) < MaxIdentities
    BY <1>3, LedgerReads DEF Ledger!Drop
  <2>4. Entries(plans)' = [e EXCEPT ![p] = r]
    BY <1>3 DEF Ledger!Drop, Entries
  <2> HIDE DEF r, e
  <2>6. Legal([e EXCEPT ![p] = r])
    BY <2>1, <2>2, DropKeeps DEF e
  <2> QED BY <2>1, <2>4, <2>6
<1>4. CASE Ledger!Close
  BY <1>4 DEF Ledger!Close, Entries
<1>5. ASSUME NEW p \in Ids, NEW r \in Row, Entries(plans)' = [e EXCEPT ![p] = r],
             Legal([e EXCEPT ![p] = r]), e[p].life # "removed" \/ r.life = "removed"
      PROVE  /\ Legal(Entries(plans)')
             /\ \A q \in Ids : e[q].life = "removed" => Entries(plans)'[q].life = "removed"
  <2> HIDE DEF e
  <2> QED BY <1>0, <1>5
<1> HIDE DEF e
<1> QED BY <1>1, <1>2, <1>3, <1>4, <1>5 DEF Ledger!Next, e

\* The rules of the list hold for any ids, outfits, days and limits.
THEOREM LedgerSafe == Ledger!Spec => []Legal(Entries(plans))
<1>1. Ledger!Init => Legal(Entries(plans))
  <2> SUFFICES ASSUME Ledger!Init PROVE Legal(Entries(plans))
    OBVIOUS
  <2>1. Entries(plans) = [p \in Ids |-> Ledger!Blank("absent")]
    BY DEF Ledger!Init, Entries
  <2>2. Entries(plans) \in [Ids -> Row]
    BY <2>1 DEF Ledger!Blank, Row
  <2>3. ActiveIn(Entries(plans)) = {} /\ KnownIn(Entries(plans)) = {}
    BY <2>1 DEF Ledger!Blank, ActiveIn, KnownIn
  <2> QED BY <2>2, <2>3, FS_EmptySet, PlanningAssumption DEF Legal
<1>2. Legal(Entries(plans)) /\ [Ledger!Next]_<<account, Entries(plans)>> => Legal(Entries(plans))'
  BY LedgerKeeps
<1> QED BY <1>1, <1>2, PTL DEF Ledger!Spec, Entries

\* The list of the ledger keeps its type.
THEOREM LedgerType == Ledger!Spec => [](Entries(plans) \in [Ids -> Row])
<1>1. Legal(Entries(plans)) => Entries(plans) \in [Ids -> Row]
  BY DEF Legal
<1> QED BY <1>1, LedgerSafe, PTL

\* The two limits of the ledger hold in every state.
THEOREM LedgerLimits == Ledger!Spec => []Ledger!Bounded
<1>1. Legal(Entries(plans)) => Ledger!Bounded
  BY LegalMeans
<1> QED BY <1>1, LedgerSafe, PTL

\* No outfit of the ledger is ever planned twice for one day.
THEOREM LedgerNoDuplicates == Ledger!Spec => []Ledger!NoDuplicate
<1>1. Legal(Entries(plans)) => Ledger!NoDuplicate
  BY LegalMeans
<1> QED BY <1>1, LedgerSafe, PTL

\* A plan removed from the ledger never comes back.
THEOREM LedgerRemovedForever == Ledger!Spec => Ledger!RemovedIsFinal
<1> DEFINE Final == \A p \in Ids : Entries(plans)[p].life = "removed" => Entries(plans)'[p].life = "removed"
<1>1. Legal(Entries(plans)) /\ [Ledger!Next]_<<account, Entries(plans)>> => [Final]_<<account, Entries(plans)>>
  BY LedgerKeeps
<1>2. Final <=> \A p \in Ids : [q \in Ids |-> Entry(plans[q])][p].life = "removed" =>
                                  ([q \in Ids |-> Entry(plans[q])])'[p].life = "removed"
  BY DEF Entries
<1> QED BY <1>1, <1>2, LedgerSafe, PTL DEF Ledger!Spec, Ledger!RemovedIsFinal, Entries

\* The limits hold in every state, and no outfit is planned twice for a day.
THEOREM ListIsKept == Spec => []ListKept
BY Implements, LedgerLimits, LedgerNoDuplicates, PTL DEF ImplementsLedger, ListKept

\* A removed plan never comes back.
THEOREM RemovedForever == Spec => RemovedStays
BY Implements, LedgerRemovedForever, PTL DEF ImplementsLedger, RemovedStays
=============================================================================
