--------------------------- MODULE ExperienceStore ---------------------------
(***************************************************************************)
(* The wear memory of one account (lib/outfitExperience/store.ts): what    *)
(* was worn is reported, revised, retracted and erased, while renders      *)
(* derive new proposals from the current revision of a memory.             *)
(*                                                                         *)
(* A memory is one document with all its revisions. Creating and erasing   *)
(* it are transactions that conflict with the account's erasure barrier;   *)
(* a change is one compare-and-set on lifecycle and currentRevision,       *)
(* without the fence. Clients resend a command whose answer they did not   *)
(* get, with the same operation id, while its first write may still be on  *)
(* its way.                                                                *)
(*                                                                         *)
(* A command stands for its own content, so <<op, command>> is the         *)
(* operationId and requestKey of a revision.                               *)
(***************************************************************************)
EXTENDS Naturals, FiniteSets, Sequences

CONSTANTS
  Memories,    \* experienceIds
  Creates,     \* POST   /api/experiences
  Revises,     \* PATCH  /api/experiences/[id]
  Retracts,    \* POST   /api/experiences/[id]/retract
  Erases,      \* DELETE /api/experiences/[id]
  Renders,     \* renders of a variation, one requestId each
  Operations,  \* operationIds
  None,
  MaxRevisions,   \* MAX_EXPERIENCE_REVISIONS
  MaxExperiences, \* MAX_EXPERIENCES_PER_ACCOUNT
  MaxFaults       \* bound of the model: failed calls and lost answers

Changes  == Revises \cup Retracts
Commands == Creates \cup Changes \cup Erases

ASSUME ExperienceAssumption ==
  /\ MaxRevisions \in Nat \ {0} /\ MaxExperiences \in Nat /\ MaxFaults \in Nat
  /\ None \notin Memories
  /\ IsFiniteSet(Memories)
  /\ Creates \cap (Changes \cup Erases) = {}
  /\ Changes \cap Erases = {} /\ Revises \cap Retracts = {}

VARIABLES
  owner,      \* the account: open, erasing (erasureStarted) or gone
  swept,      \* what the account's erasure has deleted: no, rows or all
  memory,     \* memory[m]: lifecycle, currentRevision and revisions
  admissions, \* experienceAdmissions of the owner document
  pc,
  ask,        \* ask[c]: what command c's client asks for
  write,      \* write[c]: c's write, as the server sees it
  late,       \* writes on their way whose command has lost its answer
  reply,      \* reply[c]: the revision c acknowledges
  keep,       \* keep[c]: proposals of older revisions are redacted by c
  row,        \* row[d]: render d's snapshot
  basis,      \* basis[d]: the memory and revision d varies
  step,       \* where render d is
  lateRows,   \* snapshot inserts whose render has lost their answer
  lost,       \* renders that failed at some time, for the properties
  faults

db      == <<owner, swept, memory, admissions>>
client  == <<ask, reply, keep>>
renders == <<basis, step, lateRows, lost>>
vars    == <<db, pc, client, write, late, row, renders, faults>>

-----------------------------------------------------------------------------
(* A memory, and what the writes make of it. *)

Absent == [life |-> "absent", revision |-> 0, revisions |-> <<>>]
Erased == [life |-> "erased", revision |-> 0, revisions |-> <<>>]

Entry(c) == [op |-> ask[c].op, by |-> c]

Reported(c) == [life |-> "active", revision |-> 1, revisions |-> <<Entry(c)>>]

Changed(c, old) ==
  [life |-> IF c \in Retracts THEN "retracted" ELSE "active",
   revision |-> ask[c].expected + 1,
   revisions |-> Append(old.revisions, Entry(c))]

OperationsOf(r) == {r.revisions[k].op : k \in DOMAIN r.revisions}

\* What replay answers of a record: the command was applied as revision k of it,
\* its operationId was used by another request, or it was not applied.
AppliedAs(c, r, k) == k \in DOMAIN r.revisions /\ r.revisions[k] = Entry(c)
Replays(c, r)   == \E k \in DOMAIN r.revisions : AppliedAs(c, r, k)
Conflicts(c, r) == ask[c].op \in OperationsOf(r) /\ ~Replays(c, r)
RevisionOf(c, r) == CHOOSE k \in DOMAIN r.revisions : AppliedAs(c, r, k)

\* Proposals varied from revision k of m are stale from the next revision on.
Current(b) == memory[b.mem].life = "active" /\ memory[b.mem].revision = b.revision

\* snapshotVisible
Visible(d) == row[d] = "shown" /\ Current(basis[d])

\* Redaction spares the evidence of a memory's current revision; of one that
\* is retracted or erased it spares none: every revision is below All.
All == MaxRevisions + 2

KeepOf(r) == IF r.life = "active" THEN r.revision ELSE All

-----------------------------------------------------------------------------

Init ==
  /\ owner = "open" /\ swept = "no"
  /\ memory = [m \in Memories |-> Absent]
  /\ admissions = {}
  /\ pc = [c \in Commands |-> "idle"]
  /\ ask = [c \in Commands |-> [mem |-> None, op |-> None, expected |-> 0]]
  /\ write = [c \in Commands |-> "none"]
  /\ late = {}
  /\ reply = [c \in Commands |-> 0]
  /\ keep = [c \in Commands |-> 0]
  /\ row = [d \in Renders |-> "none"]
  /\ basis = [d \in Renders |-> [mem |-> None, revision |-> 0]]
  /\ step = [d \in Renders |-> "idle"]
  /\ lateRows = {} /\ lost = {}
  /\ faults = 0

Goto(c, from, to) == pc[c] = from /\ pc' = [pc EXCEPT ![c] = to]

Fault == faults < MaxFaults /\ faults' = faults + 1

Ask(c) ==
  [mem : Memories, op : Operations, expected : IF c \in Changes THEN 1..MaxRevisions ELSE {0}]

Start(c) ==
  /\ Goto(c, "idle", "begin")
  /\ \E q \in Ask(c) : ask' = [ask EXCEPT ![c] = q]
  /\ UNCHANGED <<db, reply, keep, write, late, row, renders, faults>>

\* The client resends what was not answered.
Retry(c) ==
  /\ Goto(c, "failed", "begin")
  /\ UNCHANGED <<db, client, write, late, row, renders, faults>>

\* owner(): the account accepts writes, or 410.
CheckOwner(c) ==
  /\ Goto(c, "begin", IF owner = "open" THEN "read" ELSE "refused")
  /\ UNCHANGED <<db, client, write, late, row, renders, faults>>

Refuse(c) ==
  /\ pc' = [pc EXCEPT ![c] = "refused"]
  /\ UNCHANGED <<client, write>>

SendNow(c) ==
  /\ pc' = [pc EXCEPT ![c] = "writing"]
  /\ write' = [write EXCEPT ![c] = "sent"]
  /\ UNCHANGED client

AckCreate(c, r) ==
  /\ pc' = [pc EXCEPT ![c] = "acked"]
  /\ reply' = [reply EXCEPT ![c] = RevisionOf(c, r)]
  /\ UNCHANGED <<ask, keep, write>>

\* A change that has been applied redacts the proposals it made stale, first.
GoRedact(c, r) ==
  /\ pc' = [pc EXCEPT ![c] = "redacting"]
  /\ reply' = [reply EXCEPT ![c] = RevisionOf(c, r)]
  /\ keep' = [keep EXCEPT ![c] = KeepOf(r)]
  /\ UNCHANGED <<ask, write>>
-----------------------------------------------------------------------------
(* The commands. *)

\* create: a replay of what was applied, a conflict, or the way on to the write.
CreateRead(c, r) ==
  \/ Replays(c, r) /\ AckCreate(c, r)
  \/ ~Replays(c, r) /\ r.life # "absent" /\ Refuse(c)
  \/ r.life = "absent" /\ pc' = [pc EXCEPT ![c] = "admitting"] /\ UNCHANGED <<client, write>>

Expected(c, r) == r.life = "active" /\ r.revision = ask[c].expected

Full(c, r) == c \in Revises /\ r.revision >= MaxRevisions

\* change: a replay redacts again, since the first answer may have been lost
\* before it did.
ChangeRead(c, r) ==
  LET accepted == ~Replays(c, r) /\ ~Conflicts(c, r) /\ Expected(c, r) /\ ~Full(c, r) IN
    \/ Replays(c, r) /\ GoRedact(c, r)
    \/ ~Replays(c, r) /\ ~accepted /\ Refuse(c)
    \/ accepted /\ SendNow(c)

\* erase: an id without a record is admitted first, like a new one.
EraseRead(c, r) ==
  \/ r.life # "absent" /\ SendNow(c)
  \/ r.life = "absent" /\ pc' = [pc EXCEPT ![c] = "admitting"] /\ UNCHANGED <<client, write>>

Read(c) ==
  /\ pc[c] = "read"
  /\ LET r == memory[ask[c].mem] IN
       \/ c \in Creates /\ CreateRead(c, r)
       \/ c \in Changes /\ ChangeRead(c, r)
       \/ c \in Erases  /\ EraseRead(c, r)
  /\ UNCHANGED <<db, late, row, renders, faults>>

\* The shown outfit or a piece of it is unavailable to what is reported, or the
\* marker of an unknown id is over its rate.
Unavailable(c) ==
  /\ pc[c] = "read" /\ c \notin Retracts
  /\ ~Replays(c, memory[ask[c].mem])
  /\ (c \in Erases => memory[ask[c].mem].life = "absent")
  /\ Refuse(c)
  /\ UNCHANGED <<db, late, row, renders, faults>>

\* Mutant of Admit: the limit is not looked at.
AdmitAny(c) ==
  /\ pc[c] = "admitting"
  /\ admissions' = admissions \cup {ask[c].mem}
  /\ SendNow(c)
  /\ UNCHANGED <<owner, swept, memory, late, row, renders, faults>>

\* admit: one update of the owner document.
Admit(c) ==
  /\ pc[c] = "admitting"
  /\ IF owner # "gone" /\ (ask[c].mem \in admissions \/ Cardinality(admissions) < MaxExperiences)
       THEN admissions' = admissions \cup {ask[c].mem} /\ SendNow(c)
       ELSE UNCHANGED admissions /\ Refuse(c)
  /\ UNCHANGED <<owner, swept, memory, late, row, renders, faults>>

Matches(c) ==
  /\ Expected(c, memory[ask[c].mem])
  /\ ask[c].op \notin OperationsOf(memory[ask[c].mem])

\* Mutant of Unfenced: no write is fenced.
UnfencedAll(c) == TRUE

Unfenced(c) == c \in Changes \/ owner = "open"

\* Mutant of Written: the marker of an erased memory is not looked at.
WrittenOver(c) ==
  CASE c \in Creates -> IF memory[ask[c].mem].life \in {"absent", "erased"} THEN Reported(c) ELSE memory[ask[c].mem]
    [] c \in Changes -> IF Matches(c) THEN Changed(c, memory[ask[c].mem]) ELSE memory[ask[c].mem]
    [] c \in Erases  -> Erased

\* The three writes: insertOne with duplicates ignored, updateOne, and the
\* marker's replaceOne, which may take a second transaction.
Written(c) ==
  CASE c \in Creates -> IF memory[ask[c].mem].life = "absent" THEN Reported(c) ELSE memory[ask[c].mem]
    [] c \in Changes -> IF Matches(c) THEN Changed(c, memory[ask[c].mem]) ELSE memory[ask[c].mem]
    [] c \in Erases  -> Erased

Write(c) == memory' = IF Unfenced(c) THEN [memory EXCEPT ![ask[c].mem] = Written(c)] ELSE memory

Land(c) ==
  /\ write[c] = "sent"
  /\ Write(c)
  /\ write' = [write EXCEPT ![c] = "landed"]
  /\ UNCHANGED <<owner, swept, admissions, pc, client, late, row, renders, faults>>

\* A second write of c on its way finds what the first one did, so late is a set.
LateLands(c) ==
  /\ late' = late \ {c}
  /\ Write(c)
  /\ UNCHANGED <<owner, swept, admissions, pc, client, write, row, renders, faults>>

Emptied == [m \in Memories |-> Absent]

\* afterWrite: an account that is being erased gets nothing acknowledged, and
\* its memories are deleted, whatever the write did.
Guarded(c) ==
  /\ pc[c] = "writing" /\ write[c] = "landed"
  /\ write' = [write EXCEPT ![c] = "none"]
  /\ IF owner = "open"
       THEN /\ pc' = [pc EXCEPT ![c] = IF c \in Erases THEN "redacting" ELSE "confirming"]
            /\ keep' = [keep EXCEPT ![c] = IF c \in Erases THEN All ELSE @]
            /\ UNCHANGED memory
       ELSE /\ pc' = [pc EXCEPT ![c] = "refused"]
            /\ memory' = Emptied
            /\ UNCHANGED keep
  /\ UNCHANGED <<owner, swept, admissions, ask, reply, late, row, renders, faults>>

\* Mutant of Confirm: whatever is in the record is taken for the command's work.
ConfirmBlindly(c) ==
  /\ pc[c] = "confirming"
  /\ LET r == memory[ask[c].mem] IN
       /\ pc' = [pc EXCEPT ![c] = IF r.life # "active" THEN "refused" ELSE IF c \in Creates THEN "acked" ELSE "redacting"]
       /\ reply' = [reply EXCEPT ![c] = r.revision]
       /\ keep' = [keep EXCEPT ![c] = KeepOf(r)]
  /\ UNCHANGED <<db, ask, write, late, row, renders, faults>>

\* The record is read again: only its own revision is acknowledged.
Confirm(c) ==
  /\ pc[c] = "confirming"
  /\ LET r == memory[ask[c].mem] IN
       \/ Replays(c, r) /\ c \in Creates /\ AckCreate(c, r)
       \/ Replays(c, r) /\ c \in Changes /\ GoRedact(c, r)
       \/ ~Replays(c, r) /\ Refuse(c)
  /\ UNCHANGED <<db, late, row, renders, faults>>

\* redactDerived
Redact(c) ==
  /\ Goto(c, "redacting", "acked")
  /\ row' = [d \in Renders |->
               IF row[d] = "shown" /\ basis[d].mem = ask[c].mem /\ basis[d].revision < keep[c]
                 THEN "redacted" ELSE row[d]]
  /\ UNCHANGED <<db, client, write, late, renders, faults>>

\* A call fails, or the answer to the client is lost. A write that was sent may
\* still land at any time; ownedWrite looks at the owner all the same.
Fails(c) ==
  /\ Fault
  /\ pc[c] \in {"begin", "read", "admitting", "writing", "confirming", "redacting"}
  /\ pc' = [pc EXCEPT ![c] = "failed"]
  /\ write' = [write EXCEPT ![c] = "none"]
  /\ late' = IF write[c] = "sent" THEN late \cup {c} ELSE late
  /\ \/ UNCHANGED memory
     \/ pc[c] = "writing" /\ owner # "open" /\ memory' = Emptied
  /\ UNCHANGED <<owner, swept, admissions, client, row, renders>>

-----------------------------------------------------------------------------
(* The renders that vary a memory. *)

StepTo(d, from, to) == step[d] = from /\ step' = [step EXCEPT ![d] = to]

RenderStart(d) ==
  /\ StepTo(d, "idle", "rendering")
  /\ \E m \in Memories :
       /\ memory[m].life = "active"
       /\ basis' = [basis EXCEPT ![d] = [mem |-> m, revision |-> memory[m].revision]]
  /\ UNCHANGED <<db, pc, client, write, late, row, lateRows, lost, faults>>

\* The client resends the request, which names the revision it expects.
RenderRetry(d) ==
  /\ StepTo(d, "failed", IF Current(basis[d]) THEN "rendering" ELSE "refused")
  /\ UNCHANGED <<db, pc, client, write, late, row, basis, lateRows, lost, faults>>

\* The early read: a finished render is answered again.
RenderReplay(d) ==
  /\ StepTo(d, "rendering", IF Visible(d) THEN "answered" ELSE "refused")
  /\ row[d] # "none"
  /\ UNCHANGED <<db, pc, client, write, late, row, basis, lateRows, lost, faults>>

\* After the engine's answer, or without one: the source is read again.
RenderCheck(d) ==
  /\ row[d] = "none"
  /\ \/ StepTo(d, "rendering", "storing") /\ Current(basis[d])
     \/ StepTo(d, "rendering", "refused")
  /\ UNCHANGED <<db, pc, client, write, late, row, basis, lateRows, lost, faults>>

\* writeSnapshotWithIdempotency: fenced, and a row that is there already stays.
Insert(d) ==
  row' = [row EXCEPT ![d] = IF owner = "open" /\ @ = "none" THEN "shown" ELSE @]

RenderStore(d) ==
  /\ StepTo(d, "storing", IF owner = "open" THEN "stored" ELSE "refused")
  /\ Insert(d)
  /\ UNCHANGED <<db, pc, client, write, late, basis, lateRows, lost, faults>>

\* Mutant of RenderConfirm: the source is not read again after the insert.
RenderConfirmBlindly(d) ==
  /\ StepTo(d, "stored", IF owner = "open" THEN "answered" ELSE "refused")
  /\ row' = IF owner = "open" THEN row ELSE [e \in Renders |-> "none"]
  /\ UNCHANGED <<db, pc, client, write, late, basis, lateRows, lost, faults>>

\* The owner and the source are read again after the insert: the account's
\* snapshots are deleted, or the new one is redacted.
RenderConfirm(d) ==
  /\ StepTo(d, "stored", IF owner = "open" /\ Current(basis[d]) THEN "answered" ELSE "refused")
  /\ row' = CASE owner # "open" -> [e \in Renders |-> "none"]
              [] owner = "open" /\ Current(basis[d])  -> row
              [] owner = "open" /\ ~Current(basis[d]) ->
                   [row EXCEPT ![d] = IF @ = "shown" THEN "redacted" ELSE @]
  /\ UNCHANGED <<db, pc, client, write, late, basis, lateRows, lost, faults>>

RenderFails(d) ==
  /\ Fault
  /\ step[d] \in {"rendering", "storing", "stored"}
  /\ step' = [step EXCEPT ![d] = "failed"]
  /\ lost' = lost \cup {d}
  /\ lateRows' = IF step[d] = "storing" THEN lateRows \cup {d} ELSE lateRows
  /\ UNCHANGED <<db, pc, client, write, late, row, basis>>

LateRowLands(d) ==
  /\ lateRows' = lateRows \ {d}
  /\ Insert(d)
  /\ UNCHANGED <<db, pc, client, write, late, basis, step, lost, faults>>

-----------------------------------------------------------------------------
(* The erasure of the account, in the order of resumeUserErasure. *)

BeginErasure ==
  /\ owner = "open"
  /\ owner' = "erasing"
  /\ UNCHANGED <<swept, memory, admissions, pc, client, write, late, row, renders, faults>>

RedactRows ==
  /\ owner = "erasing"
  /\ row' = [d \in Renders |-> IF row[d] = "shown" THEN "redacted" ELSE row[d]]
  /\ UNCHANGED <<owner, swept, memory, admissions, pc, client, write, late, renders, faults>>

\* cascadeDeleteUserData, which a continuation may repeat.
SweepRows ==
  /\ owner = "erasing"
  /\ row' = [d \in Renders |-> "none"]
  /\ swept' = IF swept = "no" THEN "rows" ELSE swept
  /\ UNCHANGED <<owner, memory, admissions, pc, client, write, late, renders, faults>>

SweepMemories ==
  /\ owner = "erasing" /\ swept # "no"
  /\ memory' = Emptied
  /\ swept' = "all"
  /\ UNCHANGED <<owner, admissions, pc, client, write, late, row, renders, faults>>

DeleteOwner ==
  /\ owner = "erasing" /\ swept = "all"
  /\ owner' = "gone"
  /\ admissions' = {}
  /\ UNCHANGED <<swept, memory, pc, client, write, late, row, renders, faults>>

-----------------------------------------------------------------------------

Command(c) ==
  \/ Start(c) \/ Retry(c) \/ CheckOwner(c) \/ Read(c) \/ Unavailable(c) \/ Admit(c)
  \/ Land(c) \/ Guarded(c) \/ Confirm(c) \/ Redact(c) \/ Fails(c)

Render(d) ==
  \/ RenderStart(d) \/ RenderRetry(d) \/ RenderReplay(d) \/ RenderCheck(d)
  \/ RenderStore(d) \/ RenderConfirm(d) \/ RenderFails(d)

Next ==
  \/ \E c \in Commands : Command(c)
  \/ \E d \in Renders : Render(d)
  \/ \E c \in late : LateLands(c)
  \/ \E d \in lateRows : LateRowLands(d)
  \/ BeginErasure \/ RedactRows \/ SweepRows \/ SweepMemories \/ DeleteOwner

Spec == Init /\ [][Next]_vars
-----------------------------------------------------------------------------
(* Properties. *)

\* The types, and the shape of a record: the revisions are numbered without a
\* gap, no operation is in them twice, a correction never takes the slot that is
\* kept for the retraction, and an erased record has no content.
RecordOK(r) ==
  /\ r \in [life : {"absent", "active", "retracted", "erased"}, revision : Nat,
            revisions : Seq([op : Operations, by : Commands])]
  /\ r.revision = Len(r.revisions)
  /\ \A j, k \in DOMAIN r.revisions : r.revisions[j].op = r.revisions[k].op => j = k
  /\ r.life \in {"absent", "erased"} => r.revision = 0
  /\ r.life = "active" => r.revision \in 1..MaxRevisions
  /\ r.life = "retracted" => r.revision \in 1..(MaxRevisions + 1)

Request == [mem : Memories \cup {None}, op : Operations \cup {None}, expected : 0..MaxRevisions]

TypeOK ==
  /\ owner \in {"open", "erasing", "gone"} /\ swept \in {"no", "rows", "all"}
  /\ memory = [m \in Memories |-> memory[m]] /\ \A m \in Memories : RecordOK(memory[m])
  /\ admissions \subseteq Memories
  /\ pc \in [Commands -> {"idle", "begin", "read", "admitting", "writing", "confirming",
                          "redacting", "acked", "refused", "failed"}]
  /\ ask \in [Commands -> Request]
  /\ \A c \in Commands : pc[c] # "idle" => ask[c] \in Ask(c)
  /\ write \in [Commands -> {"none", "sent", "landed"}]
  /\ late \subseteq Commands
  /\ reply \in [Commands -> Nat] /\ keep \in [Commands -> Nat]
  /\ row \in [Renders -> {"none", "shown", "redacted"}]
  /\ basis \in [Renders -> [mem : Memories \cup {None}, revision : Nat]]
  /\ step \in [Renders -> {"idle", "rendering", "storing", "stored", "answered", "refused", "failed"}]
  /\ lateRows \subseteq Renders /\ lost \subseteq Renders
  /\ faults \in Nat

\* What was acknowledged is not lost: the record has the command's entry at the
\* revision that was answered, whatever other devices and late writes did since,
\* until the memory or the account is erased.
RevisionKept ==
  \A c \in Commands : pc[c] = "acked" /\ owner = "open" =>
    LET r == memory[ask[c].mem] IN
      \/ r.life = "erased"
      \/ c \notin Erases /\ AppliedAs(c, r, reply[c])

\* Every record is counted against the account's storage, erased ones included,
\* and the limit holds although commands are admitted before they write.
StorageBounded ==
  /\ {m \in Memories : memory[m].life # "absent"} \subseteq admissions
  /\ Cardinality(admissions) <= MaxExperiences

\* Once the account's memories are swept none comes back: not from a command or
\* a late write that was on its way, and not from the write that has no fence.
SweptStaysEmpty == swept = "all" => memory = Emptied

\* An erased memory stays erased until the account is: no create, retried or
\* late, takes its id again.
ErasedIsFinal ==
  [][\A m \in Memories :
       memory[m].life = "erased" => memory'[m].life = "erased" \/ owner # "open"]_vars

\* The proposals that an acknowledged command has made stale.
Superseded(c) ==
  {d \in Renders : /\ basis[d].mem = ask[c].mem
                   /\ c \in Revises => basis[d].revision < reply[c]}

\* When a correction, retraction or erasure is acknowledged, no stored proposal
\* of what it replaced is left unredacted, although renders run beside it: one
\* that is stored later redacts itself before it answers. Only a render whose
\* answer was lost can leave one, and that one is not visible either.
SupersededRedacted ==
  \A c \in Changes \cup Erases : pc[c] = "acked" /\ owner = "open" =>
    \A d \in Superseded(c) : row[d] = "shown" => ~Visible(d) /\ (step[d] = "stored" \/ d \in lost)

\* A stored proposal that is hidden from the account is never shown again: its
\* revision does not become current once more, and a late insert or a replay of
\* the request does not bring it back.
HiddenStaysHidden ==
  [][\A d \in Renders : row[d] # "none" /\ ~Visible(d) => ~Visible(d)']_vars
-----------------------------------------------------------------------------
(* The inductive invariant. *)

\* A write that may still land.
Pending(c) == write[c] = "sent" \/ c \in late

\* What is on its way was accepted: a correction below the limit of revisions,
\* a new record admitted. An answer is on its way only while it is awaited.
PendingAccepted ==
  \A c \in Commands :
    /\ write[c] # "none" => pc[c] = "writing"
    /\ pc[c] = "admitting" => c \notin Changes
    /\ Pending(c) => /\ pc[c] # "idle"
                     /\ c \in Revises => ask[c].expected < MaxRevisions
                     /\ c \in Creates \cup Erases /\ owner # "gone" => ask[c].mem \in admissions

\* The barrier is set before anything is swept, and the owner goes last.
BarrierFirst ==
  /\ swept # "no" => owner # "open"
  /\ owner = "gone" => swept = "all"
  /\ SweptStaysEmpty

Admitted ==
  /\ owner # "gone" => {m \in Memories : memory[m].life # "absent"} \subseteq admissions
  /\ Cardinality(admissions) <= MaxExperiences

\* A retraction is the last entry of its record.
RetractedOnce ==
  \A m \in Memories : \A k \in DOMAIN memory[m].revisions :
    memory[m].revisions[k].by \in Retracts => memory[m].life = "retracted"

\* What a command acknowledges, or is about to, is in the record, and it redacts
\* every proposal that is older.
Kept(c) ==
  \/ memory[ask[c].mem].life = "erased"
  \/ c \notin Erases /\ AppliedAs(c, memory[ask[c].mem], reply[c])

AnswersKept ==
  \A c \in Commands : owner = "open" =>
    /\ c \in Erases /\ write[c] = "landed" => memory[ask[c].mem].life = "erased"
    /\ pc[c] \in {"redacting", "acked"} => Kept(c)
    /\ pc[c] = "redacting" => keep[c] = All \/ (c \in Revises /\ keep[c] >= reply[c])

\* A render varies a revision the memory has reached.
BasisReached ==
  \A d \in Renders :
    /\ step[d] = "idle" => row[d] = "none" /\ d \notin lost
    /\ step[d] # "idle" =>
         /\ basis[d].mem \in Memories /\ basis[d].revision \in 1..MaxRevisions
         /\ memory[basis[d].mem].life = "absent" => owner # "open"
         /\ memory[basis[d].mem].life = "active" => memory[basis[d].mem].revision >= basis[d].revision
    /\ d \in lateRows => d \in lost

StoreInv ==
  /\ TypeOK /\ PendingAccepted /\ BarrierFirst /\ Admitted /\ RetractedOnce
  /\ AnswersKept /\ BasisReached /\ SupersededRedacted
=============================================================================
