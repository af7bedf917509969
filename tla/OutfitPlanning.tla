--------------------------- MODULE OutfitPlanning ---------------------------
(***************************************************************************)
(* OutfitPlanningStore: the planned outfits of one account, kept in an     *)
(* array on the owner document and guarded by planningVersion.             *)
(*                                                                         *)
(* A command reads the document, checks its rules on what it read, asks    *)
(* the suggestion reader whether the outfit is still available, and writes *)
(* the whole array by compare-and-set on planningVersion, up to            *)
(* MaxAttempts times. Clients resend a command whose answer they did not   *)
(* get (canRetryPlanning), with the same ids, while the first write of it  *)
(* may still be on its way.                                                *)
(*                                                                         *)
(* The array is a function from plan ids: its order is not observable,     *)
(* since list sorts. A day stands for plannedFor with its timezone.        *)
(***************************************************************************)
EXTENDS Naturals, FiniteSets

CONSTANTS
  Creates,     \* POST   /api/plans
  Moves,       \* PATCH  /api/plans/[planId]
  Removals,    \* DELETE /api/plans/[planId]
  Ids, Outfits, Days,
  Operations,  \* operationIds of the moves
  None,
  MaxActive, MaxIdentities,
  MaxAttempts, \* compare-and-sets a command tries
  MaxRevision, \* bound of the model: the revision a move may expect
  MaxFaults    \* bound of the model: failed calls and lost answers

Commands == Creates \cup Moves \cup Removals

ASSUME PlanningAssumption ==
  /\ IsFiniteSet(Ids)
  /\ None \notin Days \cup Outfits \cup Operations
  /\ MaxActive \in Nat /\ MaxIdentities \in Nat /\ MaxFaults \in Nat
  /\ MaxAttempts \in Nat \ {0} /\ MaxRevision \in Nat \ {0}
  /\ Creates \cap Moves = {} /\ Creates \cap Removals = {} /\ Moves \cap Removals = {}

VARIABLES
  account,  \* the owner document exists
  plans,    \* outfitPlans
  version,  \* planningVersion
  pc,
  ask,      \* ask[c]: what command c's client asks for
  seen,     \* seen[c]: the owner document as c read it
  attempt,  \* attempt[c]: compare-and-sets that have missed
  write,    \* write[c]: c's compare-and-set as the server sees it
  late,     \* writes on their way whose command has lost its answer
  reply,    \* reply[c]: the plan c has acknowledged
  began,    \* began[c]: planningVersion at c's first read, for the properties
  applied,  \* applied[c]: how many writes of c have taken effect, likewise
  faults

client == <<ask, seen, attempt, reply, began>>
vars   == <<account, plans, version, pc, client, write, late, applied, faults>>

-----------------------------------------------------------------------------
(* A plan record, and what the three commands make of the array. *)

Blank(life) == [life |-> life, revision |-> 0, outfit |-> None, day |-> None,
                createKey |-> None, operationId |-> None, requestKey |-> None]

Active(a) == {p \in Ids : a[p].life = "active"}
Known(a)  == {p \in Ids : a[p].life # "absent"}

\* Mutant of Duplicates: a plan is looked up by the day it was created for.
DuplicatesAsCreated(a, o, d) == {p \in Active(a) : a[p].createKey = <<o, d>>}

Duplicates(a, o, d) == {p \in Active(a) : a[p].outfit = o /\ a[p].day = d}

CreateKey(q)  == <<q.outfit, q.day>>
RequestKey(q) == <<q.expected, q.day>>

CreateVerdict(q, a) ==
  CASE a[q.id].life = "removed" -> "refused"
    [] a[q.id].life = "active"  -> IF a[q.id].createKey = CreateKey(q) THEN "replayed" ELSE "refused"
    [] OTHER -> IF \/ Duplicates(a, q.outfit, q.day) # {}
                   \/ Cardinality(Active(a)) >= MaxActive
                   \/ Cardinality(Known(a)) >= MaxIdentities
                THEN "refused" ELSE "accepted"

MoveVerdict(q, a) ==
  CASE a[q.id].life # "active" -> "refused"
    [] a[q.id].life = "active" /\ a[q.id].operationId = q.operation ->
         IF a[q.id].requestKey = RequestKey(q) THEN "replayed" ELSE "refused"
    [] OTHER -> IF \/ a[q.id].revision # q.expected
                   \/ Duplicates(a, a[q.id].outfit, q.day) \ {q.id} # {}
                THEN "refused" ELSE "accepted"

RemoveVerdict(q, a) ==
  CASE a[q.id].life = "removed" -> "replayed"
    [] a[q.id].life = "absent" /\ Cardinality(Known(a)) >= MaxIdentities -> "refused"
    [] OTHER -> "accepted"

Verdict(c, q, a) ==
  CASE c \in Creates  -> CreateVerdict(q, a)
    [] c \in Moves    -> MoveVerdict(q, a)
    [] c \in Removals -> RemoveVerdict(q, a)

Created(q) ==
  [life |-> "active", revision |-> 1, outfit |-> q.outfit, day |-> q.day,
   createKey |-> CreateKey(q), operationId |-> None, requestKey |-> None]

\* Mutant of Rescheduled: the revision is not advanced.
RescheduledInPlace(q, plan) ==
  [plan EXCEPT !.day = q.day, !.operationId = q.operation, !.requestKey = RequestKey(q)]

Rescheduled(q, plan) ==
  [plan EXCEPT !.day = q.day, !.revision = q.expected + 1,
               !.operationId = q.operation, !.requestKey = RequestKey(q)]

\* Mutant of Result: a removed plan leaves no trace of its id.
ResultForgotten(c, q, a) ==
  CASE c \in Creates  -> Created(q)
    [] c \in Moves    -> Rescheduled(q, a[q.id])
    [] c \in Removals -> Blank("absent")

Result(c, q, a) ==
  CASE c \in Creates  -> Created(q)
    [] c \in Moves    -> Rescheduled(q, a[q.id])
    [] c \in Removals -> Blank("removed")

After(c, q, a) == [a EXCEPT ![q.id] = Result(c, q, a)]

-----------------------------------------------------------------------------

NoAsk == [id |-> None, outfit |-> None, day |-> None, expected |-> 0, operation |-> None]
Empty == [p \in Ids |-> Blank("absent")]

Init ==
  /\ account = TRUE
  /\ plans = Empty
  /\ version = 0
  /\ pc = [c \in Commands |-> "idle"]
  /\ ask = [c \in Commands |-> NoAsk]
  /\ seen = [c \in Commands |-> [version |-> 0, plans |-> Empty]]
  /\ attempt = [c \in Commands |-> 0]
  /\ write = [c \in Commands |-> "none"]
  /\ late = {}
  /\ reply = [c \in Commands |-> Blank("absent")]
  /\ began = [c \in Commands |-> 0]
  /\ applied = [c \in Commands |-> 0]
  /\ faults = 0

Goto(c, from, to) == pc[c] = from /\ pc' = [pc EXCEPT ![c] = to]

Fault == faults < MaxFaults /\ faults' = faults + 1

Ask(c) ==
  CASE c \in Creates  -> [id : Ids, outfit : Outfits, day : Days, expected : {0}, operation : {None}]
    [] c \in Moves    -> [id : Ids, outfit : {None}, day : Days, expected : 1..MaxRevision, operation : Operations]
    [] c \in Removals -> [id : Ids, outfit : {None}, day : {None}, expected : {0}, operation : {None}]

Start(c) ==
  /\ Goto(c, "idle", "read")
  /\ \E q \in Ask(c) : ask' = [ask EXCEPT ![c] = q]
  /\ UNCHANGED <<account, plans, version, seen, attempt, reply, began, write, late, applied, faults>>

\* The client resends what was not answered, or answered planning_busy.
Retry(c) ==
  /\ pc[c] \in {"failed", "busy"}
  /\ pc' = [pc EXCEPT ![c] = "read"]
  /\ attempt' = [attempt EXCEPT ![c] = 0]
  /\ UNCHANGED <<account, plans, version, ask, seen, reply, began, write, late, applied, faults>>

\* One read of the owner document, and the rules applied to it.
Read(c) ==
  /\ pc[c] = "read"
  /\ account
  /\ seen' = [seen EXCEPT ![c] = [version |-> version, plans |-> plans]]
  /\ began' = [began EXCEPT ![c] = IF attempt[c] = 0 THEN version ELSE @]
  /\ LET verdict == Verdict(c, ask[c], plans) IN
       /\ pc' = [pc EXCEPT ![c] = CASE verdict = "refused"  -> "refused"
                                    [] verdict = "replayed" -> "acked"
                                    [] verdict = "accepted" -> "ready"]
       /\ reply' = [reply EXCEPT ![c] = IF verdict = "replayed" THEN plans[ask[c].id] ELSE @]
  /\ UNCHANGED <<account, plans, version, ask, attempt, write, late, applied, faults>>

\* The owner document is gone: 410.
ReadGone(c) ==
  /\ Goto(c, "read", "refused")
  /\ ~account
  /\ UNCHANGED <<account, plans, version, client, write, late, applied, faults>>

\* The day is past, the suggestion is hidden or a piece of it unavailable.
Unavailable(c) ==
  /\ c \notin Removals
  /\ Goto(c, "ready", "refused")
  /\ UNCHANGED <<account, plans, version, client, write, late, applied, faults>>

Send(c) ==
  /\ Goto(c, "ready", "writing")
  /\ write' = [write EXCEPT ![c] = "sent"]
  /\ UNCHANGED <<account, plans, version, client, late, applied, faults>>

\* Mutant of Matches: the array is written whatever the version.
MatchesAny(base) == account

\* The compare-and-set on planningVersion, as the server applies it.
Matches(base) == account /\ version = base.version

Apply(c, q, base) ==
  /\ plans' = After(c, q, base.plans)
  /\ version' = version + 1
  /\ applied' = [applied EXCEPT ![c] = @ + 1]

Land(c) ==
  /\ write[c] = "sent"
  /\ IF Matches(seen[c])
       THEN /\ Apply(c, ask[c], seen[c])
            /\ write' = [write EXCEPT ![c] = "applied"]
       ELSE /\ write' = [write EXCEPT ![c] = "missed"]
            /\ UNCHANGED <<plans, version, applied>>
  /\ UNCHANGED <<account, pc, client, late, faults>>

\* A write to an account deleted meanwhile is not acknowledged.
Answered(c) ==
  /\ write[c] = "applied"
  /\ Goto(c, "writing", IF account THEN "acked" ELSE "refused")
  /\ reply' = [reply EXCEPT ![c] = IF account THEN Result(c, ask[c], seen[c].plans) ELSE @]
  /\ write' = [write EXCEPT ![c] = "none"]
  /\ UNCHANGED <<account, plans, version, ask, seen, attempt, began, late, applied, faults>>

\* Mutant of Missed: one attempt too few.
MissedEarly(c) ==
  /\ write[c] = "missed"
  /\ Goto(c, "writing", IF attempt[c] + 2 < MaxAttempts THEN "read" ELSE "busy")
  /\ attempt' = [attempt EXCEPT ![c] = @ + 1]
  /\ write' = [write EXCEPT ![c] = "none"]
  /\ UNCHANGED <<account, plans, version, ask, seen, reply, began, late, applied, faults>>

Missed(c) ==
  /\ write[c] = "missed"
  /\ Goto(c, "writing", IF attempt[c] + 1 < MaxAttempts THEN "read" ELSE "busy")
  /\ attempt' = [attempt EXCEPT ![c] = @ + 1]
  /\ write' = [write EXCEPT ![c] = "none"]
  /\ UNCHANGED <<account, plans, version, ask, seen, reply, began, late, applied, faults>>

\* A call fails or the answer to the client is lost. A write that was sent may
\* still land, at any time.
Fails(c) ==
  /\ Fault
  /\ pc[c] \in {"read", "ready", "writing"}
  /\ pc' = [pc EXCEPT ![c] = "failed"]
  /\ write' = [write EXCEPT ![c] = "none"]
  /\ late' = IF write[c] = "sent" THEN late \cup {[by |-> c, ask |-> ask[c], base |-> seen[c]]} ELSE late
  /\ UNCHANGED <<account, plans, version, client, applied>>

LateLands(w) ==
  /\ late' = late \ {w}
  /\ IF Matches(w.base)
       THEN Apply(w.by, w.ask, w.base)
       ELSE UNCHANGED <<plans, version, applied>>
  /\ UNCHANGED <<account, pc, client, write, faults>>

\* deleteUserWithData: the list goes with the owner document.
DeleteAccount ==
  /\ account
  /\ account' = FALSE
  /\ UNCHANGED <<plans, version, pc, client, write, late, applied, faults>>

Command(c) ==
  \/ Start(c) \/ Retry(c) \/ Read(c) \/ ReadGone(c) \/ Unavailable(c) \/ Send(c)
  \/ Land(c) \/ Answered(c) \/ Missed(c) \/ Fails(c)

Next ==
  \/ \E c \in Commands : Command(c)
  \/ \E w \in late : LateLands(w)
  \/ DeleteAccount

Spec == Init /\ [][Next]_vars

-----------------------------------------------------------------------------
(* Properties. *)

\* The list as its readers see it.
Entry(plan) == [life |-> plan.life, revision |-> plan.revision, outfit |-> plan.outfit, day |-> plan.day]

Ledger == INSTANCE PlanLedger WITH entry <- [p \in Ids |-> Entry(plans[p])]

\* The list behaves as if every command were atomic: its limits, its duplicate
\* check and its revision check hold when the write lands, not only when the
\* document was read, and the writes of late or repeated commands do no harm.
ImplementsLedger == Ledger!Spec

\* The limits of the list, and that no outfit is planned twice for one day: each
\* is checked on a document read earlier, and commands race between the check and
\* the write.
ListKept == Ledger!Bounded /\ Ledger!NoDuplicate

\* A removed plan never comes back: not from a create whose write was delayed, nor
\* from another command that writes back the whole array it read earlier.
RemovedStays == Ledger!RemovedIsFinal

\* The types of the document and of the commands' local state.
Plan == [life : {"absent", "active", "removed"}, revision : Nat,
         outfit : Outfits \cup {None}, day : Days \cup {None},
         createKey : (Outfits \X Days) \cup {None}, operationId : Operations \cup {None},
         requestKey : (Nat \X Days) \cup {None}]

Document == [version : Nat, plans : [Ids -> Plan]]

TypeOK ==
  /\ account \in BOOLEAN
  /\ plans \in [Ids -> Plan]
  /\ version \in Nat
  /\ pc \in [Commands -> {"idle", "read", "ready", "writing", "acked", "refused", "busy", "failed"}]
  /\ ask \in [Commands -> (UNION {Ask(c) : c \in Commands}) \cup {NoAsk}]
  /\ seen \in [Commands -> Document]
  /\ attempt \in [Commands -> Nat]
  /\ write \in [Commands -> {"none", "sent", "applied", "missed"}]
  /\ \A w \in late : w.by \in Commands /\ w.ask \in Ask(w.by) /\ w.base \in Document
  /\ reply \in [Commands -> Plan]
  /\ began \in [Commands -> Nat]
  /\ applied \in [Commands -> Nat]
  /\ faults \in Nat

\* A command takes effect at most once, although its client resends it and its
\* first write may land before, between or after the writes of the retry.
AppliedOnce == \A c \in Commands : applied[c] <= 1

\* What was acknowledged is not lost and not rewritten: until the plan is removed
\* it has the acknowledged revision or a later one, and one revision is one day.
Keeps(plan, old) ==
  \/ plan.life = "removed"
  \/ /\ plan.life = "active" /\ old.life = "active"
     /\ plan.revision >= old.revision
     /\ plan.revision = old.revision => plan.day = old.day

AcknowledgedKept == \A c \in Commands : pc[c] = "acked" => Keeps(plans[ask[c].id], reply[c])

\* planning_busy is only ever the fault of others: every compare-and-set that
\* missed did so because another write landed, or because the account was gone.
BusyIsContention ==
  \A c \in Commands : pc[c] = "busy" => ~account \/ version >= began[c] + MaxAttempts

\* Invariants behind the properties. The version determines the list, and what
\* is about to be written was accepted on the list of the version it expects.
Sound(c, q, base) ==
  /\ q \in Ask(c)
  /\ base.version <= version
  /\ base.version = version => base.plans = plans
  /\ Verdict(c, q, base.plans) = "accepted"

WriteInv ==
  /\ \A c \in Commands :
       /\ pc[c] # "idle" => ask[c] \in Ask(c)
       /\ pc[c] \in {"ready", "writing"} => Sound(c, ask[c], seen[c])
       /\ write[c] # "none" => pc[c] = "writing"
  /\ \A w \in late : pc[w.by] # "idle" /\ w.ask = ask[w.by] /\ Sound(w.by, w.ask, w.base)

\* A command that took effect is settled for good: no list accepts it again.
Settled(c, q, a) ==
  \/ a[q.id].life = "removed"
  \/ c \in Creates /\ a[q.id].life = "active"
  \/ c \in Moves /\ a[q.id].life = "active" /\ a[q.id].revision > q.expected

OnceInv ==
  \A c \in Commands :
    /\ applied[c] <= 1
    /\ applied[c] = 1 => pc[c] # "idle" /\ Settled(c, ask[c], plans)

AckInv ==
  \A c \in Commands :
    /\ write[c] = "applied" => Keeps(plans[ask[c].id], Result(c, ask[c], seen[c].plans))
    /\ pc[c] = "acked" => Keeps(plans[ask[c].id], reply[c])

\* Each compare-and-set that missed saw the version move past what it had read.
BusyInv ==
  \A c \in Commands :
    account =>
      /\ pc[c] = "idle" => attempt[c] = 0
      /\ pc[c] = "read" /\ attempt[c] > 0 => version >= began[c] + attempt[c]
      /\ pc[c] \in {"ready", "writing"} => seen[c].version >= began[c] + attempt[c]
      /\ write[c] = "missed" => version > seen[c].version
      /\ pc[c] = "busy" => version >= began[c] + MaxAttempts

PlanningInv == TypeOK /\ WriteInv /\ OnceInv /\ AckInv /\ BusyInv
=============================================================================
