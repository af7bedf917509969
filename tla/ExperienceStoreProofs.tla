------------------------ MODULE ExperienceStoreProofs ------------------------
(* Proofs that no acknowledged wear memory is lost, that an erased one stays  *)
(* erased, and that no proposal outlives the revision it varies.              *)
EXTENDS ExperienceStore, FiniteSetTheorems, SequenceTheorems, TLAPS

\* Each kind of command is a kind of command, and the kinds are apart.
LEMMA CommandSets ==
  /\ Creates \subseteq Commands /\ Changes \subseteq Commands /\ Erases \subseteq Commands
  /\ Revises \subseteq Changes /\ Retracts \subseteq Changes
  /\ Creates \cap Changes = {} /\ Creates \cap Erases = {} /\ Changes \cap Erases = {}
BY ExperienceAssumption DEF Commands, Changes

\* What may become of one record in one step: nothing, a first report, a change
\* that matched, an erasure, or the deletion of the account's memories.
Reports(m, c) ==
  /\ c \in Creates /\ Pending(c) /\ ask[c].mem = m
  /\ owner = "open" /\ memory[m].life = "absent" /\ memory'[m] = Reported(c)

Alters(m, c) ==
  /\ c \in Changes /\ Pending(c) /\ ask[c].mem = m
  /\ Matches(c) /\ memory'[m] = Changed(c, memory[m])

Erasing(m, c) ==
  /\ c \in Erases /\ Pending(c) /\ ask[c].mem = m
  /\ owner = "open" /\ memory'[m] = Erased

Evolves(m) ==
  \/ memory'[m] = memory[m]
  \/ \E c \in Commands : Reports(m, c) \/ Alters(m, c) \/ Erasing(m, c)
  \/ owner # "open" /\ memory'[m] = Absent

\* A write that lands changes the record it names, and only as it is meant to.
LEMMA WriteEvolves ==
  ASSUME TypeOK, NEW c \in Commands, pc[c] # "idle", Pending(c), Write(c), NEW m \in Memories
  PROVE  Evolves(m)
<1> USE DEF TypeOK
<1>0. ask[c].mem \in Memories
  BY DEF Ask
<1>1. m # ask[c].mem => memory'[m] = memory[m]
  BY DEF Write
<1>3. ASSUME m = ask[c].mem, Unfenced(c) PROVE Evolves(m)
  <2>1. memory'[m] = Written(c)
    BY <1>0, <1>3 DEF Write
  <2>2. CASE c \in Creates
    BY <2>1, <2>2, <1>3, CommandSets DEF Written, Evolves, Reports, Unfenced
  <2>3. CASE c \in Changes
    BY <2>1, <2>3, <1>3, CommandSets DEF Written, Evolves, Alters
  <2>4. CASE c \in Erases
    BY <2>1, <2>4, <1>3, CommandSets DEF Written, Evolves, Erasing, Unfenced
  <2> QED BY <2>2, <2>3, <2>4 DEF Commands
<1>4. ASSUME ~Unfenced(c) PROVE Evolves(m)
  BY <1>4 DEF Write, Evolves
<1> QED BY <1>1, <1>3, <1>4 DEF Evolves

MemoryEvolves == memory' = [m \in Memories |-> memory'[m]] /\ \A m \in Memories : Evolves(m)

\* Every step of the system treats every record in one of these ways.
LEMMA MemoryStep ==
  ASSUME TypeOK, PendingAccepted, [Next]_vars
  PROVE  MemoryEvolves
<1> USE DEF TypeOK, MemoryEvolves
<1>1. ASSUME UNCHANGED memory PROVE MemoryEvolves
  BY <1>1 DEF Evolves
<1>2. ASSUME NEW c \in Commands, Land(c) PROVE MemoryEvolves
  <2>1. Pending(c) /\ pc[c] # "idle" /\ Write(c)
    BY <1>2 DEF Land, Pending, PendingAccepted
  <2> QED BY <2>1, WriteEvolves DEF Write
<1>3. ASSUME NEW c \in late, LateLands(c) PROVE MemoryEvolves
  <2>1. c \in Commands /\ Pending(c) /\ pc[c] # "idle" /\ Write(c)
    BY <1>3 DEF LateLands, Pending, PendingAccepted
  <2> QED BY <2>1, WriteEvolves DEF Write
<1>4. ASSUME owner # "open", memory' = Emptied PROVE MemoryEvolves
  BY <1>4 DEF Emptied, Evolves
<1>5. ASSUME NEW c \in Commands, Guarded(c) PROVE MemoryEvolves
  BY <1>5, <1>1, <1>4 DEF Guarded
<1>6. ASSUME NEW c \in Commands, Fails(c) PROVE MemoryEvolves
  BY <1>6, <1>1, <1>4 DEF Fails
<1>7. ASSUME SweepMemories PROVE MemoryEvolves
  BY <1>7, <1>4 DEF SweepMemories
<1>8. ASSUME NEW c \in Commands,
             \/ Start(c) \/ Retry(c) \/ CheckOwner(c) \/ Read(c) \/ Unavailable(c) \/ Admit(c)
             \/ Confirm(c) \/ Redact(c)
      PROVE  UNCHANGED memory
  BY <1>8 DEF Start, Retry, CheckOwner, Read, Unavailable, Admit, Confirm, Redact, db
<1>9. ASSUME NEW d \in Renders, Render(d) PROVE UNCHANGED memory
  BY <1>9 DEF Render, RenderStart, RenderRetry, RenderReplay, RenderCheck, RenderStore,
              RenderConfirm, RenderFails, db
<1>10. ASSUME \/ UNCHANGED vars
              \/ \E d \in lateRows : LateRowLands(d)
              \/ BeginErasure \/ RedactRows \/ SweepRows \/ DeleteOwner
       PROVE  UNCHANGED memory
  BY <1>10 DEF LateRowLands, BeginErasure, RedactRows, SweepRows, DeleteOwner, vars, db
<1> QED BY <1>1, <1>2, <1>3, <1>5, <1>6, <1>7, <1>8, <1>9, <1>10 DEF Next, Command

\* Appending an entry with a new operation keeps the operations apart.
LEMMA AppendNew ==
  ASSUME NEW s \in Seq([op : Operations, by : Commands]), NEW e \in [op : Operations, by : Commands],
         \A j, k \in DOMAIN s : s[j].op = s[k].op => j = k,
         \A k \in DOMAIN s : s[k].op # e.op
  PROVE  /\ Append(s, e) \in Seq([op : Operations, by : Commands])
         /\ Len(Append(s, e)) = Len(s) + 1
         /\ \A j, k \in DOMAIN Append(s, e) : Append(s, e)[j].op = Append(s, e)[k].op => j = k
<1> DEFINE t == Append(s, e)
<1>1. Len(s) \in Nat /\ DOMAIN s = 1..Len(s)
  OBVIOUS
<1>2. t \in Seq([op : Operations, by : Commands]) /\ Len(t) = Len(s) + 1 /\ DOMAIN t = 1..(Len(s) + 1)
  OBVIOUS
<1>3. t[Len(s) + 1] = e /\ \A k \in 1..Len(s) : t[k] = s[k]
  OBVIOUS
<1> HIDE DEF t
<1>4. ASSUME NEW j \in DOMAIN t, NEW k \in DOMAIN t, t[j].op = t[k].op PROVE j = k
  <2>1. CASE j \in 1..Len(s) /\ k \in 1..Len(s)
    BY <1>1, <1>3, <1>4, <2>1
  <2>2. CASE j = Len(s) + 1 /\ k \in 1..Len(s)
    BY <1>1, <1>3, <1>4, <2>2
  <2>3. CASE j \in 1..Len(s) /\ k = Len(s) + 1
    BY <1>1, <1>3, <1>4, <2>3
  <2> QED BY <1>1, <1>2, <2>1, <2>2, <2>3
<1> QED BY <1>2, <1>4 DEF t

\* A record that a change appends to stays well formed.
LEMMA ChangedOK ==
  ASSUME TypeOK, NEW c \in Changes, NEW m \in Memories, pc[c] # "idle", ask[c].mem = m,
         Matches(c), c \in Revises => ask[c].expected < MaxRevisions
  PROVE  RecordOK(Changed(c, memory[m]))
<1> DEFINE r == memory[m]
<1>1. RecordOK(r) /\ c \in Commands /\ ask[c] \in Ask(c) /\ ask[c].op \in Operations
      /\ ask[c].expected \in 1..MaxRevisions /\ MaxRevisions \in Nat
  BY CommandSets, ExperienceAssumption DEF TypeOK, Ask
<1>2. r.revisions \in Seq([op : Operations, by : Commands]) /\ Len(r.revisions) = ask[c].expected
      /\ r.life = "active"
  BY <1>1 DEF Matches, Expected, RecordOK
<1>3. Entry(c) \in [op : Operations, by : Commands] /\ Entry(c).op = ask[c].op
  BY <1>1 DEF Entry
<1>4. \A k \in DOMAIN r.revisions : r.revisions[k].op # Entry(c).op
  BY <1>3 DEF Matches, OperationsOf
<1>5. \A j, k \in DOMAIN r.revisions : r.revisions[j].op = r.revisions[k].op => j = k
  BY <1>1 DEF RecordOK
<1> DEFINE t == Append(r.revisions, Entry(c))
<1>6. /\ t \in Seq([op : Operations, by : Commands])
      /\ Len(t) = ask[c].expected + 1
      /\ \A j, k \in DOMAIN t : t[j].op = t[k].op => j = k
  BY <1>2, <1>3, <1>4, <1>5, AppendNew
<1> HIDE DEF t
<1> DEFINE n == [life |-> IF c \in Retracts THEN "retracted" ELSE "active",
                 revision |-> ask[c].expected + 1, revisions |-> t]
<1>7. Changed(c, r) = n
  BY DEF Changed, t
<1>8. n.revisions = t /\ n.revision = ask[c].expected + 1
      /\ (c \in Retracts => n.life = "retracted") /\ (c \notin Retracts => n.life = "active")
  OBVIOUS
<1>9. n \in [life : {"absent", "active", "retracted", "erased"}, revision : Nat,
            revisions : Seq([op : Operations, by : Commands])]
  BY <1>1, <1>6
<1>10. c \notin Retracts => c \in Revises
  BY DEF Changes
<1> HIDE DEF n, r
<1>11. RecordOK(n)
  BY <1>1, <1>6, <1>8, <1>9, <1>10 DEF RecordOK
<1> QED BY <1>7, <1>11 DEF r

LEMMA ReportedOK ==
  ASSUME TypeOK, NEW c \in Creates, pc[c] # "idle"
  PROVE  RecordOK(Reported(c))
<1>1. Entry(c) \in [op : Operations, by : Commands]
  BY CommandSets DEF TypeOK, Ask, Entry
<1>2. <<Entry(c)>> \in Seq([op : Operations, by : Commands]) /\ Len(<<Entry(c)>>) = 1
  BY <1>1
<1> QED BY <1>2, ExperienceAssumption DEF Reported, RecordOK

\* Every record stays well formed.
LEMMA RecordStep ==
  ASSUME TypeOK, PendingAccepted, [Next]_vars, NEW m \in Memories
  PROVE  RecordOK(memory'[m])
<1>1. Evolves(m)
  BY MemoryStep DEF MemoryEvolves
<1>2. CASE memory'[m] = memory[m]
  BY <1>2 DEF TypeOK
<1>3. ASSUME NEW c \in Commands, Reports(m, c) PROVE RecordOK(memory'[m])
  BY <1>3, ReportedOK DEF Reports, PendingAccepted
<1>4. ASSUME NEW c \in Commands, Alters(m, c) PROVE RecordOK(memory'[m])
  BY <1>4, ChangedOK DEF Alters, PendingAccepted
<1>5. RecordOK(Absent) /\ RecordOK(Erased)
  <2>1. <<>> \in Seq([op : Operations, by : Commands]) /\ Len(<<>>) = 0
    OBVIOUS
  <2> QED BY <2>1 DEF RecordOK, Absent, Erased
<1> QED BY <1>1, <1>2, <1>3, <1>4, <1>5 DEF Evolves, Erasing

\* A command keeps what it asks for once it has started.
Settled(c) == ask'[c] = ask[c] /\ (pc[c] = "idle" <=> pc'[c] = "idle")

LEMMA AskStep ==
  ASSUME TypeOK, [Next]_vars, NEW c \in Commands
  PROVE  Start(c) \/ Settled(c)
<1> USE DEF TypeOK, Goto, Settled
<1>1. ASSUME NEW x \in Commands, x # c, Start(x) PROVE Settled(c)
  BY <1>1 DEF Start
<1>2. ASSUME NEW x \in Commands, Retry(x) \/ CheckOwner(x) \/ Unavailable(x) \/ Admit(x)
      PROVE Settled(c)
  BY <1>2 DEF Retry, CheckOwner, Unavailable, Admit, Refuse, SendNow, client
<1>3. ASSUME NEW x \in Commands, Read(x) PROVE Settled(c)
  BY <1>3 DEF Read, CreateRead, ChangeRead, EraseRead, AckCreate, GoRedact, Refuse, SendNow, client
<1>4. ASSUME NEW x \in Commands, Confirm(x) PROVE Settled(c)
  BY <1>4 DEF Confirm, AckCreate, GoRedact, Refuse, client
<1>5. ASSUME NEW x \in Commands, Land(x) \/ Redact(x) \/ Fails(x)
      PROVE Settled(c)
  BY <1>5 DEF Land, Redact, Fails, client
<1>6. ASSUME NEW x \in Commands, Guarded(x) PROVE Settled(c)
  BY <1>6 DEF Guarded
<1>7. ASSUME NEW d \in Renders, Render(d) PROVE UNCHANGED <<ask, pc>>
  BY <1>7 DEF Render, RenderStart, RenderRetry, RenderReplay, RenderCheck, RenderStore,
              RenderConfirm, RenderFails, client
<1>8. ASSUME \/ UNCHANGED vars
             \/ \E x \in late : LateLands(x)
             \/ \E d \in lateRows : LateRowLands(d)
             \/ BeginErasure \/ RedactRows \/ SweepRows \/ SweepMemories \/ DeleteOwner
      PROVE  UNCHANGED <<ask, pc>>
  BY <1>8 DEF LateLands, LateRowLands, BeginErasure, RedactRows, SweepRows, SweepMemories, DeleteOwner,
              vars, client
<1> QED BY <1>1, <1>2, <1>3, <1>4, <1>5, <1>6, <1>7, <1>8 DEF Next, Command
\* The types of everything but the records.
Typed ==
  /\ owner \in {"open", "erasing", "gone"} /\ swept \in {"no", "rows", "all"}
  /\ admissions \subseteq Memories
  /\ pc \in [Commands -> {"idle", "begin", "read", "admitting", "writing", "confirming",
                          "redacting", "acked", "refused", "failed"}]
  /\ ask \in [Commands -> Request]
  /\ write \in [Commands -> {"none", "sent", "landed"}]
  /\ late \subseteq Commands
  /\ reply \in [Commands -> Nat] /\ keep \in [Commands -> Nat]
  /\ row \in [Renders -> {"none", "shown", "redacted"}]
  /\ basis \in [Renders -> [mem : Memories \cup {None}, revision : Nat]]
  /\ step \in [Renders -> {"idle", "rendering", "storing", "stored", "answered", "refused", "failed"}]
  /\ lateRows \subseteq Renders /\ lost \subseteq Renders
  /\ faults \in Nat

\* What a replay acknowledges is a revision of the record.
LEMMA ReplayType ==
  ASSUME TypeOK, NEW c \in Commands, NEW m \in Memories, Replays(c, memory[m])
  PROVE  /\ RevisionOf(c, memory[m]) \in DOMAIN memory[m].revisions
         /\ AppliedAs(c, memory[m], RevisionOf(c, memory[m]))
         /\ RevisionOf(c, memory[m]) \in 1..memory[m].revision
         /\ KeepOf(memory[m]) \in Nat
         /\ KeepOf(memory[m]) = All \/ KeepOf(memory[m]) >= RevisionOf(c, memory[m])
<1> DEFINE r == memory[m]
<1>1. RecordOK(r)
  BY DEF TypeOK
<1>2. PICK k \in DOMAIN r.revisions : AppliedAs(c, r, k)
  BY DEF Replays
<1>3. RevisionOf(c, r) \in DOMAIN r.revisions /\ AppliedAs(c, r, RevisionOf(c, r))
  BY <1>2 DEF RevisionOf
<1>4. DOMAIN r.revisions = 1..r.revision /\ r.revision \in Nat
  BY <1>1 DEF RecordOK
<1> HIDE DEF r
<1>5. RevisionOf(c, r) \in 1..r.revision
  BY <1>3, <1>4
<1>6. KeepOf(r) \in Nat /\ (KeepOf(r) = All \/ KeepOf(r) >= RevisionOf(c, r))
  BY <1>4, <1>5, ExperienceAssumption DEF KeepOf, All
<1> QED BY <1>3, <1>5, <1>6 DEF r

LEMMA CommandTyped ==
  ASSUME TypeOK, NEW c \in Commands, Command(c)
  PROVE  Typed'
<1> USE DEF TypeOK, Typed, Goto
<1>1. ASSUME Start(c) PROVE Typed'
  <2>1. Ask(c) \subseteq Request
    BY ExperienceAssumption DEF Ask, Request
  <2> QED BY <1>1, <2>1 DEF Start, db, renders
<1>2. ASSUME Retry(c) PROVE Typed'
  BY <1>2 DEF Retry, db, client, renders
<1>3. ASSUME CheckOwner(c) PROVE Typed'
  BY <1>3 DEF CheckOwner, db, client, renders
<1>4. ASSUME Read(c) \/ Confirm(c) PROVE Typed'
  <2>1. pc[c] # "idle" /\ ask[c].mem \in Memories
    BY <1>4 DEF Read, Confirm, Ask
  <2> DEFINE r == memory[ask[c].mem]
  <2>2. Replays(c, r) => RevisionOf(c, r) \in Nat /\ KeepOf(r) \in Nat
    BY <2>1, ReplayType
  <2>3. UNCHANGED <<db, late, row, renders, faults, ask>>
    BY <1>4 DEF Read, Confirm, CreateRead, ChangeRead, EraseRead, AckCreate, GoRedact, Refuse, SendNow, client
  <2>4. \/ Refuse(c) \/ SendNow(c) \/ (Replays(c, r) /\ (AckCreate(c, r) \/ GoRedact(c, r)))
        \/ pc' = [pc EXCEPT ![c] = "admitting"] /\ UNCHANGED <<client, write>>
    BY <1>4 DEF Read, Confirm, CreateRead, ChangeRead, EraseRead
  <2> HIDE DEF r
  <2>5. /\ pc' \in [Commands -> {"idle", "begin", "read", "admitting", "writing", "confirming",
                          "redacting", "acked", "refused", "failed"}]
        /\ write' \in [Commands -> {"none", "sent", "landed"}]
        /\ reply' \in [Commands -> Nat] /\ keep' \in [Commands -> Nat]
    BY <2>2, <2>4 DEF Refuse, SendNow, AckCreate, GoRedact, client
  <2> QED BY <2>3, <2>5 DEF db, renders
<1>5. ASSUME Unavailable(c) PROVE Typed'
  BY <1>5 DEF Unavailable, Refuse, db, client, renders
<1>6. ASSUME Admit(c) PROVE Typed'
  <2>1. ask[c].mem \in Memories
    BY <1>6 DEF Admit, Ask
  <2> QED BY <1>6, <2>1 DEF Admit, Refuse, SendNow, client, renders
<1>7. ASSUME Land(c) PROVE Typed'
  BY <1>7 DEF Land, client, renders
<1>8. ASSUME Guarded(c) PROVE Typed'
  BY <1>8, ExperienceAssumption DEF Guarded, All, renders
<1>9. ASSUME Redact(c) PROVE Typed'
  BY <1>9 DEF Redact, db, client, renders
<1>10. ASSUME Fails(c) PROVE Typed'
  BY <1>10 DEF Fails, Fault, client, renders
<1> QED BY <1>1, <1>2, <1>3, <1>4, <1>5, <1>6, <1>7, <1>8, <1>9, <1>10 DEF Command

LEMMA RenderTyped ==
  ASSUME TypeOK, NEW d \in Renders, Render(d)
  PROVE  Typed'
<1> USE DEF TypeOK, Typed, StepTo, db, client
<1>1. CASE RenderStart(d)
  BY <1>1 DEF RenderStart, RecordOK
<1>2. CASE RenderRetry(d)
  BY <1>2 DEF RenderRetry
<1>3. CASE RenderReplay(d)
  BY <1>3 DEF RenderReplay
<1>4. CASE RenderCheck(d)
  BY <1>4 DEF RenderCheck
<1>5. CASE RenderStore(d)
  BY <1>5 DEF RenderStore, Insert
<1>6. CASE RenderConfirm(d)
  <2>1. row' \in [Renders -> {"none", "shown", "redacted"}]
    <3>1. CASE owner # "open"
      BY <1>6, <3>1 DEF RenderConfirm
    <3>2. CASE owner = "open" /\ Current(basis[d])
      BY <1>6, <3>2 DEF RenderConfirm
    <3>3. CASE owner = "open" /\ ~Current(basis[d])
      BY <1>6, <3>3 DEF RenderConfirm
    <3> QED BY <3>1, <3>2, <3>3
  <2> QED BY <1>6, <2>1 DEF RenderConfirm
<1>7. CASE RenderFails(d)
  BY <1>7 DEF RenderFails, Fault
<1> QED BY <1>1, <1>2, <1>3, <1>4, <1>5, <1>6, <1>7 DEF Render

LEMMA TypeStep ==
  ASSUME TypeOK, PendingAccepted, [Next]_vars
  PROVE  TypeOK'
<1>1. memory' = [m \in Memories |-> memory'[m]] /\ \A m \in Memories : RecordOK(memory'[m])
  <2>1. \A m \in Memories : RecordOK(memory'[m])
    BY RecordStep
  <2>2. memory' = [m \in Memories |-> memory'[m]]
    BY MemoryStep DEF MemoryEvolves
  <2> QED BY <2>1, <2>2
<1>2. Typed'
  <2> USE DEF TypeOK, Typed
  <2>1. CASE UNCHANGED vars
    BY <2>1 DEF vars, db, client, renders
  <2>2. ASSUME NEW c \in late, LateLands(c) PROVE Typed'
    BY <2>2 DEF LateLands, client, renders
  <2>3. ASSUME NEW d \in lateRows, LateRowLands(d) PROVE Typed'
    BY <2>3 DEF LateRowLands, Insert, db, client
  <2>4. CASE BeginErasure \/ RedactRows \/ SweepRows \/ SweepMemories \/ DeleteOwner
    BY <2>4 DEF BeginErasure, RedactRows, SweepRows, SweepMemories, DeleteOwner, client, renders
  <2> QED BY <2>1, <2>2, <2>3, <2>4, CommandTyped, RenderTyped DEF Next
<1>3. \A c \in Commands : pc'[c] # "idle" => ask'[c] \in Ask(c)
  <2> SUFFICES ASSUME NEW c \in Commands, pc'[c] # "idle" PROVE ask'[c] \in Ask(c)
    OBVIOUS
  <2>1. CASE pc[c] # "idle"
    BY <2>1, AskStep DEF TypeOK, Settled, Start, Goto
  <2>2. CASE pc[c] = "idle"
    BY <2>2, AskStep DEF TypeOK, Settled, Start
  <2> QED BY <2>1, <2>2
<1> QED BY <1>1, <1>2, <1>3 DEF TypeOK, Typed
-----------------------------------------------------------------------------

\* Steps of the renders and of the account leave the commands alone.
LEMMA OthersStep ==
  ASSUME \/ \E d \in Renders : Render(d)
         \/ \E d \in lateRows : LateRowLands(d)
         \/ BeginErasure \/ RedactRows \/ SweepRows \/ SweepMemories \/ DeleteOwner
         \/ UNCHANGED vars
  PROVE  /\ UNCHANGED <<pc, client, write, late>>
         /\ owner' \in {"gone", owner} \/ (owner = "open" /\ owner' = "erasing")
         /\ admissions' = admissions \/ owner' = "gone"
BY DEF Render, RenderStart, RenderRetry, RenderReplay, RenderCheck, RenderStore, RenderConfirm,
       RenderFails, LateRowLands, BeginErasure, RedactRows, SweepRows, SweepMemories, DeleteOwner, vars, db

\* Only accepted commands have a write on its way.
LEMMA PendingStep ==
  ASSUME TypeOK, PendingAccepted, Admitted, [Next]_vars
  PROVE  PendingAccepted'
<1> USE DEF TypeOK, PendingAccepted, Pending, Goto
<1>1. ASSUME NEW x \in Commands, Start(x) PROVE PendingAccepted'
  BY <1>1 DEF Start, db
<1>2. ASSUME NEW x \in Commands,
             Retry(x) \/ CheckOwner(x) \/ Unavailable(x) \/ Confirm(x) \/ Redact(x)
      PROVE  PendingAccepted'
  <2>1. pc[x] \in {"failed", "begin", "read", "confirming", "redacting"}
        /\ pc'[x] \notin {"admitting", "writing", "idle"}
        /\ UNCHANGED <<owner, admissions, ask, write, late>>
        /\ \A c \in Commands : c # x => pc'[c] = pc[c]
    BY <1>2 DEF Retry, CheckOwner, Unavailable, Confirm, Redact, AckCreate, GoRedact, Refuse, client, db
  <2> QED BY <2>1
<1>3. ASSUME NEW x \in Commands, Read(x) PROVE PendingAccepted'
  <2> DEFINE r == memory[ask[x].mem]
  <2>1. pc[x] = "read" /\ UNCHANGED <<owner, admissions, ask, late>>
        /\ \A c \in Commands : c # x => pc'[c] = pc[c] /\ write'[c] = write[c]
    BY <1>3 DEF Read, CreateRead, ChangeRead, EraseRead, AckCreate, GoRedact, Refuse, SendNow, client, db
  <2>2. CASE pc'[x] \notin {"writing", "idle", "admitting"} /\ write' = write
    BY <2>1, <2>2
  <2>3. CASE pc'[x] = "admitting" /\ x \notin Changes /\ write' = write
    BY <2>1, <2>3
  <2>4. ASSUME SendNow(x), x \in Changes, Expected(x, r), ~Full(x, r) PROVE PendingAccepted'
    <3>1. x \in Revises => ask[x].expected < MaxRevisions
      <4>1. ask[x].expected \in Nat /\ MaxRevisions \in Nat
        BY <2>1, ExperienceAssumption DEF Request
      <4> QED BY <2>4, <4>1 DEF Expected, Full
    <3> QED BY <2>1, <2>4, <3>1, CommandSets DEF SendNow
  <2>5. ASSUME SendNow(x), x \in Erases, r.life # "absent" PROVE PendingAccepted'
    <3>1. owner # "gone" => ask[x].mem \in admissions
      BY <2>1, <2>5 DEF Admitted, Ask
    <3> QED BY <2>1, <2>5, <3>1, CommandSets DEF SendNow
  <2>6. \/ pc'[x] \notin {"writing", "idle", "admitting"} /\ write' = write
        \/ pc'[x] = "admitting" /\ x \notin Changes /\ write' = write
        \/ SendNow(x) /\ x \in Changes /\ Expected(x, r) /\ ~Full(x, r)
        \/ SendNow(x) /\ x \in Erases /\ r.life # "absent"
    <3>1. CASE x \in Creates
      BY <1>3, <3>1, CommandSets DEF Read, CreateRead, AckCreate, Refuse
    <3>2. CASE x \in Changes
      BY <1>3, <3>2, CommandSets DEF Read, ChangeRead, GoRedact, Refuse
    <3>3. CASE x \in Erases
      BY <1>3, <3>3, CommandSets DEF Read, EraseRead
    <3> QED BY <3>1, <3>2, <3>3 DEF Commands
  <2> QED BY <2>2, <2>3, <2>4, <2>5, <2>6
<1>4. ASSUME NEW x \in Commands, Admit(x) PROVE PendingAccepted'
  BY <1>4, CommandSets DEF Admit, SendNow, Refuse, client
<1>5. ASSUME NEW x \in Commands, Land(x) PROVE PendingAccepted'
  BY <1>5 DEF Land, client
<1>6. ASSUME NEW x \in Commands, Guarded(x) PROVE PendingAccepted'
  BY <1>6 DEF Guarded
<1>7. ASSUME NEW x \in Commands, Fails(x) PROVE PendingAccepted'
  BY <1>7 DEF Fails, client
<1>8. ASSUME NEW x \in late, LateLands(x) PROVE PendingAccepted'
  BY <1>8 DEF LateLands, client
<1>9. CASE \/ \E d \in Renders : Render(d)
           \/ \E d \in lateRows : LateRowLands(d)
           \/ BeginErasure \/ RedactRows \/ SweepRows \/ SweepMemories \/ DeleteOwner
           \/ UNCHANGED vars
  BY <1>9, OthersStep DEF client
<1> QED BY <1>1, <1>2, <1>3, <1>4, <1>5, <1>6, <1>7, <1>8, <1>9 DEF Next, Command

\* The account's memories are swept behind the barrier, and stay swept.
LEMMA BarrierStep ==
  ASSUME TypeOK, PendingAccepted, BarrierFirst, [Next]_vars
  PROVE  BarrierFirst'
<1>1. ASSUME memory = Emptied, owner # "open" PROVE memory' = Emptied
  <2>1. MemoryEvolves
    BY MemoryStep
  <2>2. ASSUME NEW m \in Memories PROVE memory'[m] = Absent
    <3>1. memory[m] = Absent /\ Absent.life = "absent"
      BY <1>1 DEF Emptied, Absent
    <3> QED BY <1>1, <2>1, <3>1 DEF MemoryEvolves, Evolves, Reports, Alters, Erasing, Matches, Expected
  <2>3. memory' = [m \in Memories |-> memory'[m]]
    BY <2>1 DEF MemoryEvolves
  <2> QED BY <2>2, <2>3 DEF Emptied
<1>2. ASSUME owner' = owner, swept' = swept PROVE BarrierFirst'
  BY <1>1, <1>2 DEF BarrierFirst, SweptStaysEmpty
<1>3. CASE BeginErasure \/ RedactRows \/ SweepRows \/ SweepMemories \/ DeleteOwner
  BY <1>3 DEF BeginErasure, RedactRows, SweepRows, SweepMemories, DeleteOwner, BarrierFirst, SweptStaysEmpty, Emptied
<1>4. ASSUME NEW x \in Commands, Command(x) PROVE owner' = owner /\ swept' = swept
  BY <1>4 DEF Command, Start, Retry, CheckOwner, Read, Unavailable, Admit, Land, Guarded, Confirm,
              Redact, Fails, db
<1>5. ASSUME NEW d \in Renders, Render(d) PROVE owner' = owner /\ swept' = swept
  BY <1>5 DEF Render, RenderStart, RenderRetry, RenderReplay, RenderCheck, RenderStore,
              RenderConfirm, RenderFails, db
<1>6. CASE UNCHANGED vars \/ (\E x \in late : LateLands(x)) \/ (\E d \in lateRows : LateRowLands(d))
  BY <1>2, <1>6 DEF LateLands, LateRowLands, vars, db
<1> QED BY <1>2, <1>3, <1>4, <1>5, <1>6 DEF Next

\* Every record is admitted before it is written, within the limit.
LEMMA AdmittedStep ==
  ASSUME TypeOK, PendingAccepted, Admitted, BarrierFirst, [Next]_vars
  PROVE  Admitted'
<1>1. ASSUME NEW m \in Memories, memory'[m].life # "absent", memory[m].life = "absent", owner # "gone"
      PROVE  m \in admissions
  <2>1. Evolves(m)
    BY MemoryStep DEF MemoryEvolves
  <2> QED BY <1>1, <2>1, CommandSets DEF Evolves, Reports, Alters, Erasing, Matches, Expected,
             PendingAccepted, Absent
<1>2. ASSUME admissions \subseteq admissions', owner' # "gone" => owner # "gone" PROVE
        owner' # "gone" => {m \in Memories : memory'[m].life # "absent"} \subseteq admissions'
  BY <1>1, <1>2 DEF Admitted
<1>3. ASSUME UNCHANGED <<owner, admissions>> PROVE Admitted'
  BY <1>2, <1>3 DEF Admitted
<1>4. ASSUME NEW x \in Commands, Admit(x) PROVE Admitted'
  <2>1. CASE admissions' = admissions
    BY <1>3, <1>4, <2>1 DEF Admit
  <2>2. CASE /\ admissions' = admissions \cup {ask[x].mem}
             /\ ask[x].mem \in admissions \/ Cardinality(admissions) < MaxExperiences
    <3>1. IsFiniteSet(admissions)
      BY ExperienceAssumption, FS_Subset DEF TypeOK
    <3>2. Cardinality(admissions') <= MaxExperiences
      <4>1. CASE ask[x].mem \in admissions
        <5>1. admissions' = admissions
          BY <2>2, <4>1
        <5> QED BY <5>1 DEF Admitted
      <4>2. CASE ask[x].mem \notin admissions
        <5>1. Cardinality(admissions') = Cardinality(admissions) + 1
          BY <2>2, <3>1, <4>2, FS_AddElement
        <5> QED BY <2>2, <3>1, <4>2, <5>1, FS_CardinalityType, ExperienceAssumption
      <4> QED BY <4>1, <4>2
    <3>3. owner' = owner /\ admissions \subseteq admissions'
      BY <1>4, <2>2 DEF Admit
    <3> QED BY <1>2, <3>2, <3>3 DEF Admitted
  <2> QED BY <1>4, <2>1, <2>2 DEF Admit
<1>5. CASE DeleteOwner
  BY <1>5, FS_EmptySet, ExperienceAssumption DEF DeleteOwner, Admitted
<1>6. CASE BeginErasure \/ RedactRows \/ SweepRows \/ SweepMemories
  <2>1. admissions' = admissions /\ owner' # "gone"
    BY <1>6 DEF BeginErasure, RedactRows, SweepRows, SweepMemories
  <2>2. owner # "gone"
    BY <1>6 DEF BeginErasure, RedactRows, SweepRows, SweepMemories
  <2> QED BY <1>2, <2>1, <2>2 DEF Admitted
<1>7. ASSUME NEW x \in Commands, Command(x), ~Admit(x) PROVE UNCHANGED <<owner, admissions>>
  BY <1>7 DEF Command, Start, Retry, CheckOwner, Read, Unavailable, Land, Guarded, Confirm,
              Redact, Fails, db
<1>8. ASSUME NEW d \in Renders, Render(d) PROVE UNCHANGED <<owner, admissions>>
  BY <1>8 DEF Render, RenderStart, RenderRetry, RenderReplay, RenderCheck, RenderStore,
              RenderConfirm, RenderFails, db
<1>9. CASE UNCHANGED vars \/ (\E x \in late : LateLands(x)) \/ (\E d \in lateRows : LateRowLands(d))
  BY <1>3, <1>9 DEF LateLands, LateRowLands, vars, db
<1> QED BY <1>3, <1>4, <1>5, <1>6, <1>7, <1>8, <1>9 DEF Next
-----------------------------------------------------------------------------

\* A change keeps the entries of the record and adds its own at the end.
LEMMA ChangedEntries ==
  ASSUME TypeOK, NEW m \in Memories, NEW c, Alters(m, c)
  PROVE  /\ DOMAIN memory'[m].revisions = 1..(memory[m].revision + 1)
         /\ \A k \in 1..memory[m].revision : memory'[m].revisions[k] = memory[m].revisions[k]
         /\ memory'[m].revisions[memory[m].revision + 1] = Entry(c)
<1> DEFINE s == memory[m].revisions
<1>1. s \in Seq([op : Operations, by : Commands]) /\ memory[m].revision = Len(s)
  BY DEF TypeOK, RecordOK
<1>2. memory'[m].revisions = Append(s, Entry(c))
  BY DEF Alters, Changed
<1> HIDE DEF s
<1>3. /\ DOMAIN Append(s, Entry(c)) = 1..(Len(s) + 1)
      /\ \A k \in 1..Len(s) : Append(s, Entry(c))[k] = s[k]
      /\ Append(s, Entry(c))[Len(s) + 1] = Entry(c)
  BY <1>1
<1> QED BY <1>1, <1>2, <1>3 DEF s

LEMMA Entries ==
  ASSUME TypeOK, NEW m \in Memories
  PROVE  DOMAIN memory[m].revisions = 1..memory[m].revision /\ memory[m].revision \in Nat
BY DEF TypeOK, RecordOK

\* While the account is open no entry of a record is lost but by its erasure.
LEMMA EntriesKept ==
  ASSUME TypeOK, PendingAccepted, [Next]_vars, owner = "open",
         NEW m \in Memories, NEW k \in DOMAIN memory[m].revisions
  PROVE  \/ memory'[m].life = "erased"
         \/ k \in DOMAIN memory'[m].revisions /\ memory'[m].revisions[k] = memory[m].revisions[k]
<1>1. Evolves(m)
  BY MemoryStep DEF MemoryEvolves
<1>2. ASSUME NEW c \in Commands, Reports(m, c) PROVE FALSE
  <2>1. memory[m].revision = 0
    BY <1>2 DEF Reports, TypeOK, RecordOK
  <2> QED BY <2>1, Entries
<1>3. ASSUME NEW c \in Commands, Alters(m, c)
      PROVE  k \in DOMAIN memory'[m].revisions /\ memory'[m].revisions[k] = memory[m].revisions[k]
  <2>1. k \in 1..memory[m].revision /\ memory[m].revision \in Nat
    BY Entries
  <2> QED BY <1>3, <2>1, ChangedEntries
<1>4. ASSUME NEW c \in Commands, Erasing(m, c) PROVE memory'[m].life = "erased"
  BY <1>4 DEF Erasing, Erased
<1> QED BY <1>1, <1>2, <1>3, <1>4 DEF Evolves

\* While the account is open an erased record stays erased.
LEMMA ErasedStays ==
  ASSUME TypeOK, PendingAccepted, [Next]_vars, owner = "open", NEW m \in Memories,
         memory[m].life = "erased"
  PROVE  memory'[m].life = "erased"
<1>1. Evolves(m)
  BY MemoryStep DEF MemoryEvolves
<1> QED BY <1>1 DEF Evolves, Reports, Alters, Erasing, Matches, Expected, Erased

\* Nothing follows the retraction of a record.
LEMMA RetractedStep ==
  ASSUME TypeOK, PendingAccepted, RetractedOnce, [Next]_vars
  PROVE  RetractedOnce'
<1> SUFFICES ASSUME NEW m \in Memories, NEW k \in DOMAIN memory'[m].revisions,
                    memory'[m].revisions[k].by \in Retracts
             PROVE  memory'[m].life = "retracted"
  BY DEF RetractedOnce
<1>1. Evolves(m)
  BY MemoryStep DEF MemoryEvolves
<1>2. ASSUME NEW c \in Commands, Reports(m, c) PROVE FALSE
  <2>1. memory'[m].revisions = <<Entry(c)>> /\ c \in Creates
    BY <1>2 DEF Reports, Reported
  <2>2. memory'[m].revisions[k] = Entry(c)
    BY <2>1
  <2> QED BY <2>1, <2>2, CommandSets DEF Entry
<1>3. ASSUME NEW c \in Commands, Alters(m, c) PROVE memory'[m].life = "retracted"
  <2>1. c \in Changes /\ Matches(c) /\ ask[c].mem = m /\ memory'[m] = Changed(c, memory[m])
    BY <1>3 DEF Alters
  <2>2. CASE c \in Retracts
    BY <2>1, <2>2 DEF Changed
  <2>3. CASE c \notin Retracts
    <3>1. k = memory[m].revision + 1
      <4>1. memory[m].life = "active"
        BY <2>1 DEF Matches, Expected
      <4>2. \A j \in 1..memory[m].revision : memory[m].revisions[j].by \notin Retracts
        BY <4>1, Entries DEF RetractedOnce
      <4>3. k \in 1..(memory[m].revision + 1) /\ memory[m].revision \in Nat
        BY <1>3, ChangedEntries, Entries
      <4>4. k \notin 1..memory[m].revision
        BY <1>3, <4>2, ChangedEntries
      <4> QED BY <4>3, <4>4
    <3>2. memory'[m].revisions[k] = Entry(c)
      BY <1>3, <3>1, ChangedEntries
    <3> QED BY <2>3, <3>2 DEF Entry
  <2> QED BY <2>2, <2>3
<1>4. ASSUME memory'[m] \in {Absent, Erased} PROVE FALSE
  BY <1>4 DEF Absent, Erased
<1> QED BY <1>1, <1>2, <1>3, <1>4 DEF Evolves, Erasing, RetractedOnce

\* A step of another actor leaves a command where it is.
Framed(c) ==
  /\ ask'[c] = ask[c] /\ pc'[c] = pc[c] /\ write'[c] = write[c]
  /\ reply'[c] = reply[c] /\ keep'[c] = keep[c]

LEMMA FrameStep ==
  ASSUME TypeOK, [Next]_vars, NEW c \in Commands
  PROVE  Framed(c) \/ Command(c)
<1> USE DEF TypeOK, Framed, Goto
<1>1. ASSUME NEW x \in Commands, x # c, Command(x) PROVE Framed(c)
  <2>1. CASE Start(x) \/ Retry(x) \/ CheckOwner(x) \/ Unavailable(x) \/ Admit(x)
    BY <1>1, <2>1 DEF Start, Retry, CheckOwner, Unavailable, Admit, Refuse, SendNow, client
  <2>2. CASE Read(x)
    BY <1>1, <2>2 DEF Read, CreateRead, ChangeRead, EraseRead, AckCreate, GoRedact, Refuse, SendNow, client
  <2>3. CASE Confirm(x)
    BY <1>1, <2>3 DEF Confirm, AckCreate, GoRedact, Refuse, client
  <2>4. CASE Land(x) \/ Redact(x) \/ Fails(x)
    BY <1>1, <2>4 DEF Land, Redact, Fails, client
  <2>5. CASE Guarded(x)
    BY <1>1, <2>5 DEF Guarded
  <2> QED BY <1>1, <2>1, <2>2, <2>3, <2>4, <2>5 DEF Command
<1>2. ASSUME NEW x \in late, LateLands(x) PROVE Framed(c)
  BY <1>2 DEF LateLands, client
<1>3. CASE \/ \E d \in Renders : Render(d)
           \/ \E d \in lateRows : LateRowLands(d)
           \/ BeginErasure \/ RedactRows \/ SweepRows \/ SweepMemories \/ DeleteOwner
           \/ UNCHANGED vars
  BY <1>3, OthersStep DEF client
<1> QED BY <1>1, <1>2, <1>3 DEF Next

\* An account that is being erased does not open again.
LEMMA OwnerStep ==
  ASSUME [Next]_vars, owner' = "open"
  PROVE  owner = "open"
<1>1. ASSUME NEW x \in Commands, Command(x) PROVE owner' = owner
  BY <1>1 DEF Command, Start, Retry, CheckOwner, Read, Unavailable, Admit, Land, Guarded, Confirm,
              Redact, Fails, db
<1>2. ASSUME NEW x \in late, LateLands(x) PROVE owner' = owner
  BY <1>2 DEF LateLands
<1> QED BY <1>1, <1>2, OthersStep DEF Next

\* What a command has acknowledged stays in the record.
LEMMA KeptStays ==
  ASSUME TypeOK, PendingAccepted, [Next]_vars, owner = "open",
         NEW c \in Commands, pc[c] # "idle", Kept(c), ask'[c] = ask[c], reply'[c] = reply[c]
  PROVE  Kept(c)'
<1> DEFINE m == ask[c].mem
<1>1. m \in Memories
  BY DEF TypeOK, Ask
<1>2. CASE memory[m].life = "erased"
  BY <1>1, <1>2, ErasedStays DEF Kept
<1>3. CASE c \notin Erases /\ AppliedAs(c, memory[m], reply[c])
  BY <1>1, <1>3, EntriesKept DEF Kept, AppliedAs, Entry
<1> QED BY <1>2, <1>3 DEF Kept
\* Answers stand in the record when they are given, and redaction covers them.
LEMMA AnswersStep ==
  ASSUME TypeOK, PendingAccepted, RetractedOnce, AnswersKept, [Next]_vars
  PROVE  AnswersKept'
<1> SUFFICES ASSUME NEW c \in Commands, owner' = "open"
             PROVE  /\ c \in Erases /\ write'[c] = "landed" => memory'[ask'[c].mem].life = "erased"
                    /\ pc'[c] \in {"redacting", "acked"} => Kept(c)'
                    /\ pc'[c] = "redacting" => keep'[c] = All \/ (c \in Revises /\ keep'[c] >= reply'[c])
  BY DEF AnswersKept, All
<1> USE DEF Goto
<1>0. owner = "open"
  BY OwnerStep
<1> DEFINE Good == /\ c \in Erases /\ write'[c] = "landed" => memory'[ask'[c].mem].life = "erased"
                   /\ pc'[c] \in {"redacting", "acked"} => Kept(c)'
                   /\ pc'[c] = "redacting" => keep'[c] = All \/ (c \in Revises /\ keep'[c] >= reply'[c])
<1> DEFINE m == ask[c].mem
<1>1. pc[c] # "idle" => m \in Memories
  BY DEF TypeOK, Ask
<1>2. CASE Framed(c)
  <2>1. c \in Erases /\ write'[c] = "landed" => memory'[ask'[c].mem].life = "erased"
    BY <1>0, <1>1, <1>2, ErasedStays DEF Framed, AnswersKept, PendingAccepted
  <2>2. pc'[c] \in {"redacting", "acked"} => Kept(c)'
    BY <1>0, <1>2, KeptStays DEF Framed, AnswersKept
  <2>3. pc'[c] = "redacting" => keep'[c] = All \/ (c \in Revises /\ keep'[c] >= reply'[c])
    BY <1>0, <1>2 DEF Framed, AnswersKept
  <2> QED BY <2>1, <2>2, <2>3
<1>3. ASSUME write'[c] # "landed" \/ c \notin Erases, pc'[c] \notin {"redacting", "acked"} PROVE Good
  BY <1>3
<1>4. CASE Start(c) \/ Retry(c) \/ CheckOwner(c) \/ Unavailable(c) \/ Admit(c) \/ Fails(c)
  <2>1. pc'[c] \notin {"redacting", "acked"} /\ write'[c] # "landed"
    BY <1>4 DEF Start, Retry, CheckOwner, Unavailable, Admit, Fails, Refuse, SendNow, TypeOK,
                PendingAccepted, client
  <2> QED BY <1>3, <2>1
<1>5. CASE Read(c) \/ Confirm(c)
  <2> DEFINE r == memory[m]
  <2>1. m \in Memories /\ memory' = memory /\ ask' = ask /\ write'[c] # "landed"
    BY <1>1, <1>5 DEF Read, Confirm, CreateRead, ChangeRead, EraseRead, AckCreate, GoRedact, Refuse,
                SendNow, TypeOK, PendingAccepted, client, db
  <2>2. CASE Replays(c, r) /\ c \in Creates /\ AckCreate(c, r)
    <3>1. c \notin Erases /\ pc'[c] = "acked" /\ reply'[c] = RevisionOf(c, r)
      BY <2>2, CommandSets DEF AckCreate, TypeOK
    <3>2. AppliedAs(c, r, RevisionOf(c, r))
      BY <2>1, <2>2, ReplayType
    <3>3. Kept(c)'
      BY <2>1, <3>1, <3>2 DEF Kept, AppliedAs, Entry
    <3> QED BY <2>1, <3>1, <3>3
  <2>3. CASE Replays(c, r) /\ c \in Changes /\ GoRedact(c, r)
    <3>1. c \notin Erases /\ pc'[c] = "redacting" /\ reply'[c] = RevisionOf(c, r) /\ keep'[c] = KeepOf(r)
      BY <2>3, CommandSets DEF GoRedact, TypeOK
    <3>2. AppliedAs(c, r, RevisionOf(c, r)) /\ (KeepOf(r) = All \/ KeepOf(r) >= RevisionOf(c, r))
      BY <2>1, <2>3, ReplayType
    <3>3. Kept(c)'
      BY <2>1, <3>1, <3>2 DEF Kept, AppliedAs, Entry
    <3>4. c \in Retracts => KeepOf(r) = All
      <4>1. c \in Retracts => r.life = "retracted"
        BY <2>1, <3>2 DEF RetractedOnce, AppliedAs, Entry
      <4> QED BY <4>1 DEF KeepOf
    <3> QED BY <2>1, <2>3, <3>1, <3>2, <3>3, <3>4 DEF Changes
  <2>4. CASE pc'[c] \in {"refused", "admitting", "writing"}
    BY <2>1, <2>4
  <2>5. \/ Replays(c, r) /\ c \in Creates /\ AckCreate(c, r)
        \/ Replays(c, r) /\ c \in Changes /\ GoRedact(c, r)
        \/ pc'[c] \in {"refused", "admitting", "writing"}
    BY <1>5 DEF Read, Confirm, CreateRead, ChangeRead, EraseRead, Refuse, SendNow, TypeOK
  <2> QED BY <2>2, <2>3, <2>4, <2>5
<1>6. CASE Land(c)
  <2>1. pc[c] = "writing" /\ pc' = pc /\ ask' = ask /\ m \in Memories
    BY <1>1, <1>6 DEF Land, client, PendingAccepted
  <2>2. c \in Erases => memory'[m].life = "erased"
    <3>1. c \in Erases => c \notin Creates /\ c \notin Changes
      BY CommandSets
    <3>2. c \in Erases => memory' = [memory EXCEPT ![m] = Erased]
      BY <1>0, <1>6, <3>1 DEF Land, Write, Unfenced, Written
    <3> QED BY <2>1, <3>2 DEF TypeOK, Erased
  <2> QED BY <2>1, <2>2
<1>7. CASE Guarded(c)
  <2>1. memory' = memory /\ ask' = ask /\ write'[c] = "none"
        /\ pc[c] = "writing" /\ write[c] = "landed"
    BY <1>0, <1>7 DEF Guarded, TypeOK
  <2>2. c \in Erases => pc'[c] = "redacting" /\ keep'[c] = All
    BY <1>0, <1>7 DEF Guarded, TypeOK
  <2>3. c \notin Erases => pc'[c] = "confirming"
    BY <1>0, <1>7 DEF Guarded, TypeOK
  <2>4. c \in Erases => Kept(c)'
    BY <1>0, <2>1 DEF AnswersKept, Kept
  <2> QED BY <2>1, <2>2, <2>3, <2>4
<1>8. CASE Redact(c)
  <2>1. pc[c] = "redacting" /\ pc'[c] = "acked" /\ UNCHANGED <<memory, ask, reply, write>>
    BY <1>8 DEF Redact, client, db, TypeOK
  <2>2. Kept(c) /\ write[c] # "landed"
    BY <1>0, <2>1 DEF AnswersKept, PendingAccepted
  <2> QED BY <2>1, <2>2 DEF Kept, AppliedAs, Entry
<1> QED BY <1>2, <1>4, <1>5, <1>6, <1>7, <1>8, FrameStep DEF Command

\* The record a render varies never falls behind the revision it started from.
LEMMA BasisKept ==
  ASSUME TypeOK, PendingAccepted, BasisReached, [Next]_vars, NEW d \in Renders, step[d] # "idle"
  PROVE  LET m == basis[d].mem IN
           /\ m \in Memories /\ basis[d].revision \in 1..MaxRevisions
           /\ memory'[m].life = "absent" => owner' # "open"
           /\ memory'[m].life = "active" => memory'[m].revision >= basis[d].revision
<1> DEFINE m == basis[d].mem
<1>1. /\ m \in Memories /\ basis[d].revision \in 1..MaxRevisions
      /\ memory[m].life = "absent" => owner # "open"
      /\ memory[m].life = "active" => memory[m].revision >= basis[d].revision
  BY DEF BasisReached
<1>2. Evolves(m)
  BY <1>1, MemoryStep DEF MemoryEvolves
<1>3. CASE memory'[m] = memory[m]
  BY <1>1, <1>3, OwnerStep
<1>4. ASSUME NEW c \in Commands, Reports(m, c) PROVE FALSE
  BY <1>1, <1>4 DEF Reports
<1>5. ASSUME NEW c \in Commands, Alters(m, c)
      PROVE memory'[m].life # "absent" /\ memory'[m].revision >= basis[d].revision
  <2>1. memory[m].life = "active" /\ memory'[m].revision = memory[m].revision + 1
        /\ memory'[m].life # "absent"
    BY <1>5 DEF Alters, Matches, Expected, Changed
  <2> QED BY <1>1, <2>1, Entries
<1>6. ASSUME NEW c \in Commands, Erasing(m, c) PROVE memory'[m].life = "erased"
  BY <1>6 DEF Erasing, Erased
<1>7. CASE owner # "open" /\ memory'[m] = Absent
  BY <1>1, <1>7, OwnerStep DEF Absent
<1>8. \/ memory'[m] = memory[m]
      \/ \E c \in Commands : Reports(m, c) \/ Alters(m, c) \/ Erasing(m, c)
      \/ owner # "open" /\ memory'[m] = Absent
  BY <1>2 DEF Evolves
<1> HIDE DEF m
<1>9. CASE \E c \in Commands : Reports(m, c) \/ Alters(m, c) \/ Erasing(m, c)
  BY <1>1, <1>4, <1>5, <1>6, <1>9 DEF m
<1> QED BY <1>3, <1>7, <1>8, <1>9 DEF m
\* What others do to a render and its snapshot: hide or delete the row, or let a
\* lost insert of it land.
Bystander(d) ==
  /\ step'[d] = step[d] /\ basis'[d] = basis[d]
  /\ d \in lost' <=> d \in lost
  /\ d \in lateRows' => d \in lateRows
  /\ \/ row'[d] \in {row[d], "none"}
     \/ row[d] = "shown" /\ row'[d] = "redacted"
     \/ d \in lateRows /\ row[d] = "none" /\ row'[d] = "shown"

LEMMA BystanderStep ==
  ASSUME TypeOK, [Next]_vars, NEW d \in Renders
  PROVE  Render(d) \/ Bystander(d)
<1> USE DEF TypeOK, Bystander, StepTo
<1>1. ASSUME NEW x \in Renders, x # d, Render(x) PROVE Bystander(d)
  <2>1. CASE RenderStart(x) \/ RenderRetry(x) \/ RenderReplay(x) \/ RenderCheck(x)
    BY <1>1, <2>1 DEF RenderStart, RenderRetry, RenderReplay, RenderCheck
  <2>2. CASE RenderStore(x)
    BY <1>1, <2>2 DEF RenderStore, Insert
  <2>3. CASE RenderConfirm(x)
    <3>1. row'[d] \in {row[d], "none"}
      <4>1. CASE owner # "open"
        BY <2>3, <4>1 DEF RenderConfirm
      <4>2. CASE owner = "open" /\ Current(basis[x])
        BY <2>3, <4>2 DEF RenderConfirm
      <4>3. CASE owner = "open" /\ ~Current(basis[x])
        BY <1>1, <2>3, <4>3 DEF RenderConfirm
      <4> QED BY <4>1, <4>2, <4>3
    <3> QED BY <1>1, <2>3, <3>1 DEF RenderConfirm
  <2>4. CASE RenderFails(x)
    BY <1>1, <2>4 DEF RenderFails
  <2> QED BY <1>1, <2>1, <2>2, <2>3, <2>4 DEF Render
<1>2. ASSUME NEW c \in Commands, Redact(c) PROVE Bystander(d)
  BY <1>2 DEF Redact, renders
<1>3. ASSUME NEW c \in Commands, Command(c), ~Redact(c) PROVE UNCHANGED <<row, renders>>
  BY <1>3 DEF Command, Start, Retry, CheckOwner, Read, Unavailable, Admit, Land, Guarded, Confirm, Fails
<1>4. ASSUME NEW x \in lateRows, LateRowLands(x) PROVE Bystander(d)
  BY <1>4 DEF LateRowLands, Insert
<1>5. CASE RedactRows \/ SweepRows
  BY <1>5 DEF RedactRows, SweepRows, renders
<1>6. CASE UNCHANGED vars \/ (\E x \in late : LateLands(x)) \/ BeginErasure \/ SweepMemories \/ DeleteOwner
  BY <1>6 DEF LateLands, BeginErasure, SweepMemories, DeleteOwner, vars, renders
<1> QED BY <1>1, <1>2, <1>3, <1>4, <1>5, <1>6 DEF Next, renders

\* A step of a render but its first keeps what it varies.
LEMMA RenderKeepsBasis ==
  ASSUME NEW d \in Renders, Render(d)
  PROVE  RenderStart(d) \/ (basis' = basis /\ step[d] # "idle" /\ lost \subseteq lost')
BY DEF Render, RenderRetry, RenderReplay, RenderCheck, RenderStore, RenderConfirm, RenderFails, StepTo

LEMMA BasisStep ==
  ASSUME TypeOK, PendingAccepted, BasisReached, [Next]_vars
  PROVE  BasisReached'
<1> SUFFICES ASSUME NEW d \in Renders
             PROVE  /\ step'[d] = "idle" => row'[d] = "none" /\ d \notin lost'
                    /\ step'[d] # "idle" =>
                         /\ basis'[d].mem \in Memories /\ basis'[d].revision \in 1..MaxRevisions
                         /\ memory'[basis'[d].mem].life = "absent" => owner' # "open"
                         /\ memory'[basis'[d].mem].life = "active" => memory'[basis'[d].mem].revision >= basis'[d].revision
                    /\ d \in lateRows' => d \in lost'
  BY DEF BasisReached
<1>1. CASE Bystander(d)
  BY <1>1, BasisKept DEF Bystander, BasisReached
<1>2. CASE RenderStart(d)
  <2>1. PICK m \in Memories :
          memory[m].life = "active" /\ basis'[d] = [mem |-> m, revision |-> memory[m].revision]
    BY <1>2 DEF RenderStart, TypeOK
  <2>2. memory[m].revision \in 1..MaxRevisions
    BY <2>1 DEF TypeOK, RecordOK
  <2>3. step'[d] = "rendering" /\ memory' = memory /\ lateRows' = lateRows /\ lost' = lost
    BY <1>2 DEF RenderStart, StepTo, TypeOK, db
  <2> QED BY <2>1, <2>2, <2>3 DEF BasisReached
<1>3. CASE Render(d) /\ ~RenderStart(d)
  <2>1. basis' = basis /\ step[d] # "idle" /\ lost \subseteq lost'
    BY <1>3, RenderKeepsBasis
  <2>2. step'[d] # "idle" /\ (d \in lateRows' => d \in lateRows \/ d \in lost')
    BY <1>3 DEF Render, RenderRetry, RenderReplay, RenderCheck, RenderStore, RenderConfirm,
                RenderFails, StepTo, TypeOK
  <2> QED BY <2>1, <2>2, BasisKept DEF BasisReached
<1> QED BY <1>1, <1>2, <1>3, BystanderStep

\* An acknowledged command's proposals are stale.
LEMMA SupersededStale ==
  TypeOK /\ RetractedOnce /\ AnswersKept =>
    \A c \in Changes \cup Erases : pc[c] = "acked" /\ owner = "open" =>
      \A d \in Superseded(c) : ~Visible(d)
<1> SUFFICES ASSUME TypeOK, RetractedOnce, AnswersKept, NEW c \in Changes \cup Erases,
                    pc[c] = "acked", owner = "open", NEW d \in Superseded(c)
             PROVE  ~Current(basis[d])
  BY DEF Visible
<1> DEFINE m == ask[c].mem
<1>1. c \in Commands /\ m \in Memories /\ basis[d].mem = m /\ d \in Renders
  BY CommandSets DEF TypeOK, Ask, Superseded
<1>2. Kept(c)
  BY <1>1 DEF AnswersKept
<1>3. CASE memory[m].life = "erased"
  BY <1>1, <1>3 DEF Current
<1>4. CASE c \notin Erases /\ AppliedAs(c, memory[m], reply[c])
  <2>1. reply[c] \in 1..memory[m].revision /\ memory[m].revision \in Nat
    BY <1>1, <1>4, Entries DEF AppliedAs
  <2>2. c \in Retracts => memory[m].life = "retracted"
    BY <1>1, <1>4 DEF AppliedAs, Entry, RetractedOnce
  <2>3. c \in Revises => basis[d].revision < reply[c] /\ basis[d].revision \in Nat
    BY <1>1 DEF Superseded, TypeOK
  <2> QED BY <1>1, <1>4, <2>1, <2>2, <2>3 DEF Current, Changes
<1> QED BY <1>2, <1>3, <1>4 DEF Kept

LEMMA SupersededStaleNext ==
  (TypeOK /\ RetractedOnce /\ AnswersKept =>
    \A c \in Changes \cup Erases : pc[c] = "acked" /\ owner = "open" =>
      \A d \in Superseded(c) : ~Visible(d))'
BY SupersededStale, PTL
\* The proposals an acknowledged command has made stale stay redacted.
LEMMA SupersededStep ==
  ASSUME StoreInv, [Next]_vars, TypeOK', RetractedOnce', AnswersKept'
  PROVE  SupersededRedacted'
<1> USE DEF StoreInv
<1> SUFFICES ASSUME NEW c \in Changes \cup Erases, pc'[c] = "acked", owner' = "open",
                    NEW d \in Superseded(c)', row'[d] = "shown"
             PROVE  ~Visible(d)' /\ (step'[d] = "stored" \/ d \in lost')
  BY DEF SupersededRedacted
<1>1. ~Visible(d)'
  BY SupersededStaleNext
<1>2. owner = "open" /\ c \in Commands /\ d \in Renders
  BY OwnerStep, CommandSets DEF Superseded
<1>3. ASSUME Command(c) PROVE FALSE
  <2>1. Redact(c)
    <3>1. pc[c] # "acked"
      BY <1>2, <1>3 DEF Command, Start, Retry, CheckOwner, Read, Unavailable, Admit, Land, Guarded,
                  Confirm, Redact, Fails, Goto, PendingAccepted
    <3>2. ~(Start(c) \/ Retry(c) \/ CheckOwner(c) \/ Unavailable(c) \/ Admit(c) \/ Guarded(c) \/ Fails(c))
      BY <1>2 DEF Start, Retry, CheckOwner, Unavailable, Admit, Guarded, Fails, Refuse, SendNow, Goto, TypeOK
    <3>3. ~Land(c)
      BY <3>1 DEF Land
    <3>4. ~Read(c) /\ ~Confirm(c)
      BY <1>2, CommandSets DEF Read, Confirm, CreateRead, ChangeRead, EraseRead, Refuse, SendNow,
                  GoRedact, TypeOK
    <3> QED BY <1>3, <3>2, <3>3, <3>4 DEF Command
  <2>2. /\ pc[c] = "redacting" /\ UNCHANGED <<ask, reply, basis, step>>
        /\ row[d] = "shown" /\ ~(basis[d].mem = ask[c].mem /\ basis[d].revision < keep[c])
    BY <1>2, <2>1 DEF Redact, Goto, client, renders
  <2>3. basis[d].mem = ask[c].mem /\ (c \in Revises => basis[d].revision < reply[c])
    BY <2>2 DEF Superseded
  <2>4. basis[d].revision \in 1..MaxRevisions
    BY <1>2, <2>2 DEF BasisReached
  <2>5. keep[c] = All \/ (c \in Revises /\ keep[c] >= reply[c])
    BY <1>2, <2>2 DEF AnswersKept
  <2>6. keep[c] \in Nat /\ reply[c] \in Nat /\ basis[d].revision < All
    BY <1>2, <2>4, ExperienceAssumption DEF TypeOK, All
  <2> QED BY <2>2, <2>3, <2>4, <2>5, <2>6
<1>4. CASE Framed(c)
  <2>1. pc[c] = "acked" /\ ask'[c] = ask[c] /\ reply'[c] = reply[c]
    BY <1>4 DEF Framed
  <2>2. ASSUME basis'[d] = basis[d], row[d] = "shown"
        PROVE  ~Visible(d) /\ (step[d] = "stored" \/ d \in lost)
    <3>1. d \in Superseded(c)
      BY <1>2, <2>1, <2>2 DEF Superseded
    <3> QED BY <1>2, <2>1, <2>2, <3>1 DEF SupersededRedacted
  <2>3. CASE Bystander(d)
    <3>1. step'[d] = step[d] /\ basis'[d] = basis[d] /\ (d \in lost => d \in lost')
      BY <2>3 DEF Bystander
    <3>2. CASE row[d] = "shown"
      BY <1>1, <2>2, <3>1, <3>2
    <3>3. CASE row[d] # "shown"
      <4>1. d \in lateRows
        BY <2>3, <3>3 DEF Bystander
      <4>2. d \in lost
        BY <1>2, <4>1 DEF BasisReached
      <4> QED BY <1>1, <3>1, <4>2
    <3> QED BY <3>2, <3>3
  <2>4. CASE RenderStart(d)
    BY <1>2, <2>4 DEF RenderStart, StepTo, BasisReached
  <2>5. CASE RenderRetry(d) \/ RenderReplay(d) \/ RenderCheck(d)
    BY <1>1, <2>2, <2>5 DEF RenderRetry, RenderReplay, RenderCheck, StepTo
  <2>6. CASE RenderStore(d)
    BY <1>1, <1>2, <2>6 DEF RenderStore, StepTo, TypeOK
  <2>7. CASE RenderConfirm(d)
    <3>1. ASSUME Current(basis[d]) PROVE FALSE
      <4>1. row' = row /\ basis' = basis
        BY <1>2, <2>7, <3>1 DEF RenderConfirm
      <4> QED BY <2>2, <3>1, <4>1 DEF Visible
    <3>2. ASSUME ~Current(basis[d]) PROVE FALSE
      BY <1>2, <2>7, <3>2 DEF RenderConfirm, TypeOK
    <3> QED BY <3>1, <3>2
  <2>8. CASE RenderFails(d)
    BY <1>1, <2>8 DEF RenderFails
  <2> QED BY <1>2, <2>3, <2>4, <2>5, <2>6, <2>7, <2>8, BystanderStep DEF Render
<1> QED BY <1>2, <1>3, <1>4, FrameStep

\* A revision that is not current does not become current again.
LEMMA StaleStays ==
  ASSUME StoreInv, [Next]_vars, NEW d \in Renders, step[d] # "idle", ~Current(basis[d])
  PROVE  LET m == basis[d].mem IN
           ~(memory'[m].life = "active" /\ memory'[m].revision = basis[d].revision)
<1> DEFINE m == basis[d].mem
<1> USE DEF StoreInv
<1>1. /\ m \in Memories /\ basis[d].revision \in 1..MaxRevisions
      /\ memory[m].life = "absent" => owner # "open"
      /\ memory[m].life = "active" => memory[m].revision > basis[d].revision
  <2>1. /\ m \in Memories /\ basis[d].revision \in 1..MaxRevisions
        /\ memory[m].life = "absent" => owner # "open"
        /\ memory[m].life = "active" => memory[m].revision >= basis[d].revision
    BY DEF BasisReached
  <2> QED BY <2>1, Entries DEF Current
<1>2. \/ memory'[m] = memory[m]
      \/ \E c \in Commands : Reports(m, c) \/ Alters(m, c) \/ Erasing(m, c)
      \/ owner # "open" /\ memory'[m] = Absent
  BY <1>1, MemoryStep DEF MemoryEvolves, Evolves
<1>3. CASE memory'[m] = memory[m]
  BY <1>1, <1>3, Entries
<1>4. ASSUME NEW c \in Commands, Reports(m, c) PROVE FALSE
  BY <1>1, <1>4 DEF Reports
<1>5. ASSUME NEW c \in Commands, Alters(m, c) PROVE memory'[m].revision > basis[d].revision
  <2>1. memory[m].life = "active" /\ memory'[m].revision = memory[m].revision + 1
    BY <1>5 DEF Alters, Matches, Expected, Changed
  <2> QED BY <1>1, <2>1, Entries
<1>6. ASSUME NEW c \in Commands, Erasing(m, c) PROVE memory'[m].life = "erased"
  BY <1>6 DEF Erasing, Erased
<1>7. CASE owner # "open" /\ memory'[m] = Absent
  BY <1>7 DEF Absent
<1>8. basis[d].revision \in Nat
  BY <1>1
<1> HIDE DEF m
<1>9. CASE \E c \in Commands : Reports(m, c) \/ Alters(m, c) \/ Erasing(m, c)
  BY <1>4, <1>5, <1>6, <1>8, <1>9 DEF m
<1> QED BY <1>2, <1>3, <1>7, <1>9 DEF m

\* A hidden proposal stays hidden.
LEMMA HiddenStep ==
  ASSUME StoreInv, [Next]_vars, NEW d \in Renders, row[d] # "none", ~Visible(d)
  PROVE  ~Visible(d)'
<1> USE DEF StoreInv
<1>1. step[d] # "idle" /\ row[d] \in {"shown", "redacted"}
  BY DEF BasisReached, TypeOK
<1>2. CASE row[d] = "redacted"
  <2>1. row'[d] # "shown"
    <3>1. CASE Bystander(d)
      BY <1>2, <3>1 DEF Bystander
    <3>2. CASE RenderRetry(d) \/ RenderReplay(d) \/ RenderCheck(d) \/ RenderFails(d) \/ RenderStart(d)
      BY <1>2, <3>2 DEF RenderStart, RenderRetry, RenderReplay, RenderCheck, RenderFails
    <3>3. CASE RenderStore(d)
      BY <1>2, <3>3 DEF RenderStore, Insert, TypeOK
    <3>4. CASE RenderConfirm(d)
      <4>1. CASE owner # "open"
        BY <3>4, <4>1 DEF RenderConfirm
      <4>2. CASE owner = "open" /\ Current(basis[d])
        BY <1>2, <3>4, <4>2 DEF RenderConfirm
      <4>3. CASE owner = "open" /\ ~Current(basis[d])
        BY <1>2, <3>4, <4>3 DEF RenderConfirm, TypeOK
      <4> QED BY <4>1, <4>2, <4>3
    <3> QED BY <3>1, <3>2, <3>3, <3>4, BystanderStep DEF Render
  <2> QED BY <2>1 DEF Visible
<1>3. CASE row[d] = "shown"
  <2>1. ~Current(basis[d])
    BY <1>3 DEF Visible
  <2>2. basis'[d] = basis[d]
    BY <1>1, BystanderStep, RenderKeepsBasis DEF Bystander, RenderStart, StepTo
  <2> QED BY <1>1, <2>1, <2>2, StaleStays DEF Visible, Current
<1> QED BY <1>1, <1>2, <1>3

-----------------------------------------------------------------------------

LEMMA StoreInit == Init => StoreInv
<1> SUFFICES ASSUME Init PROVE StoreInv
  OBVIOUS
<1> USE ExperienceAssumption DEF Init
<1>1. RecordOK(Absent) /\ Absent.life = "absent" /\ DOMAIN Absent.revisions = {}
  <2>1. <<>> \in Seq([op : Operations, by : Commands]) /\ Len(<<>>) = 0 /\ DOMAIN <<>> = {}
    OBVIOUS
  <2> QED BY <2>1 DEF RecordOK, Absent
<1>2. TypeOK
  BY <1>1 DEF TypeOK, Request
<1>3. PendingAccepted /\ AnswersKept /\ BasisReached /\ SupersededRedacted
  BY CommandSets DEF PendingAccepted, Pending, AnswersKept, BasisReached, SupersededRedacted
<1>4. BarrierFirst /\ RetractedOnce
  BY <1>1 DEF BarrierFirst, SweptStaysEmpty, RetractedOnce
<1>5. Admitted
  BY <1>1, FS_EmptySet DEF Admitted
<1> QED BY <1>2, <1>3, <1>4, <1>5 DEF StoreInv

\* Every step keeps the inductive invariant.
LEMMA StoreStep == StoreInv /\ [Next]_vars => StoreInv'
<1> SUFFICES ASSUME StoreInv, [Next]_vars PROVE StoreInv'
  OBVIOUS
<1>1. TypeOK' /\ PendingAccepted' /\ BarrierFirst' /\ Admitted' /\ RetractedOnce' /\ AnswersKept' /\ BasisReached'
  BY TypeStep, PendingStep, BarrierStep, AdmittedStep, RetractedStep, AnswersStep, BasisStep DEF StoreInv
<1> QED BY <1>1, SupersededStep DEF StoreInv

\* The records stay well formed, with no operation in them twice, and every other
\* clause of the inductive invariant holds, in every instance of the store.
THEOREM StoreSafe == Spec => []StoreInv
BY StoreInit, StoreStep, PTL DEF Spec

\* What create, revise, retract and erase acknowledge is in the record until it
\* or the account is erased.
THEOREM NothingAcknowledgedIsLost == Spec => []RevisionKept
<1>1. StoreInv => RevisionKept
  BY DEF StoreInv, AnswersKept, RevisionKept, Kept
<1> QED BY <1>1, StoreSafe, PTL

\* Every record is counted and the account's limit holds.
THEOREM StorageIsBounded == Spec => []StorageBounded
<1>1. StoreInv => StorageBounded
  <2> SUFFICES ASSUME StoreInv PROVE StorageBounded
    OBVIOUS
  <2>1. CASE owner = "gone"
    <3>1. \A m \in Memories : memory[m].life = "absent"
      BY <2>1 DEF StoreInv, BarrierFirst, SweptStaysEmpty, Emptied, Absent
    <3> QED BY <3>1 DEF StoreInv, Admitted, StorageBounded
  <2>2. CASE owner # "gone"
    BY <2>2 DEF StoreInv, Admitted, StorageBounded
  <2> QED BY <2>1, <2>2
<1> QED BY <1>1, StoreSafe, PTL

\* No memory comes back to an account whose memories were swept.
THEOREM SweptAccountStaysEmpty == Spec => []SweptStaysEmpty
<1>1. StoreInv => SweptStaysEmpty
  BY DEF StoreInv, BarrierFirst
<1> QED BY <1>1, StoreSafe, PTL

\* An acknowledged correction, retraction or erasure leaves no proposal of what
\* it replaced, but the one of a render whose answer was lost, and that is hidden.
THEOREM StaleProposalsAreRedacted == Spec => []SupersededRedacted
<1>1. StoreInv => SupersededRedacted
  BY DEF StoreInv
<1> QED BY <1>1, StoreSafe, PTL

\* No step takes the id of an erased memory again.
THEOREM ErasureIsFinal == Spec => ErasedIsFinal
<1>1. StoreInv /\ [Next]_vars =>
        [\A m \in Memories : memory[m].life = "erased" => memory'[m].life = "erased" \/ owner # "open"]_vars
  BY ErasedStays DEF StoreInv
<1> QED BY <1>1, StoreSafe, PTL DEF Spec, ErasedIsFinal

\* No step shows a proposal again that was hidden.
THEOREM HiddenForGood == Spec => HiddenStaysHidden
<1>1. StoreInv /\ [Next]_vars => [\A d \in Renders : row[d] # "none" /\ ~Visible(d) => ~Visible(d)']_vars
  BY HiddenStep
<1> QED BY <1>1, StoreSafe, PTL DEF Spec, HiddenStaysHidden
=============================================================================
