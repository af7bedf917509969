------------------------- MODULE TransferLookProofs -------------------------
(* Proofs of the safety of the transfer look: one sample for each look, the *)
(* condition on the second, and records that stand and reproduce.           *)
EXTENDS TransferLook, TLAPS

Embedded == [files : Files, photos : Exports]

Scorings == [look : Looks, manifest : Exports, rows : Exports, as_of : Dates,
             embedded : Embedded, verify : BOOLEAN]

Verdicts == {"ESTABLISHED", "SUGGESTIVE (LOFO-sensitive)", "NOT-ESTABLISHED (well-powered null)",
             "NOT-ESTABLISHED (proceed to Look 2)", "NOT-ESTABLISHED (underpowered)",
             "NOT-ESTABLISHED (keep collecting)"}

LookRecord == [manifest : Exports, rows : Exports, as_of : Dates, decommissioned : BOOLEAN,
               verdict : Verdicts, embedded : Embedded]

\* Where a run is past the reading of the manifest, of the rows, the gate, the
\* freeze, the inventory of the photos, the scoring.
AfterManifest  == Pcs \ {"idle", "manifest"}
AfterRows      == AfterManifest \ {"rows"}
AfterGate      == AfterRows \ {"agree", "gate"}
AfterFreeze    == AfterGate \ {"freeze"}
AfterInventory == AfterFreeze \ {"embed", "inventory"}
AfterScore     == {"transfer", "finish"}

Typed ==
  /\ TypeOK
  /\ record \in [Looks -> LookRecord \cup {None}]
  /\ scored \subseteq Scorings
  /\ pc # "idle" => args \in Args

\* Exports only grow, and what a run has loaded is no newer than the disk.
OrderInv ==
  /\ disk.rows <= made /\ disk.manifest <= made
  /\ bundle.rows <= disk.rows /\ bundle.manifest <= disk.manifest
  /\ pc # "idle" => disk.rows # 0 /\ disk.manifest # 0
  /\ pc \in AfterManifest => bundle.manifest # 0
  /\ pc \in AfterRows => bundle.rows # 0

\* The cache of a run past its inventory is of files between those it loaded
\* and those on disk; past the scoring, of the former.
CacheInv ==
  /\ pc \in AfterInventory =>
       /\ cache.state # "none"
       /\ cache.of.photos = bundle.rows
       /\ bundle.rows <= cache.of.files.rows /\ cache.of.files.rows <= disk.rows
       /\ bundle.manifest <= cache.of.files.manifest
       /\ cache.of.files.manifest <= disk.manifest
  /\ pc \in AfterScore => cache.of = [files |-> bundle, photos |-> bundle.rows]

\* What the gate asked of the records stays so while the run lasts.
GateInv ==
  pc \in AfterGate =>
    /\ Powered
    /\ args.look = 2 => PriorRecord
    /\ ~args.verify => record[args.look] = None
    /\ args.verify => /\ record[args.look] # None
                      /\ record[args.look].manifest = bundle.manifest
                      /\ record[args.look].rows = bundle.rows
                      /\ record[args.look].as_of = args.as_of
    /\ pc # "freeze" => sample[args.look] = SampleOf
    /\ pc \in AfterScore => \E s \in scored : s.look = args.look /\ s.verify = args.verify

\* The verdict that follows from the rows and the dates of a record.
VerdictOf(l, r) ==
  LET content == exports[r.rows]
  IN  CASE content.reads = "clears"    -> "ESTABLISHED"
        [] content.reads = "sensitive" -> "SUGGESTIVE (LOFO-sensitive)"
        [] l = 2                       -> "NOT-ESTABLISHED (well-powered null)"
        [] content.arm >= Floor(2)     -> "NOT-ESTABLISHED (proceed to Look 2)"
        [] r.as_of = "after" \/ r.decommissioned
                                       -> "NOT-ESTABLISHED (underpowered)"
        [] OTHER                       -> "NOT-ESTABLISHED (keep collecting)"

\* A record is of its look's sample, was scored, and says what follows from it.
RecordInv ==
  \A l \in Looks :
    record[l] # None =>
      /\ sample[l] = [manifest |-> record[l].manifest, rows |-> record[l].rows,
                      as_of |-> record[l].as_of]
      /\ \E s \in scored : s.look = l
      /\ record[l].embedded = [files  |-> [manifest |-> record[l].manifest,
                                           rows |-> record[l].rows],
                               photos |-> record[l].rows]
      /\ record[l].verdict = VerdictOf(l, record[l])

\* Once the second look has scored, the record that allowed it is in place.
SecondInv ==
  \A s \in scored : s.look = 2 => PriorRecord /\ exports[s.rows].arm >= Floor(2)

LookInv ==
  /\ Typed /\ OrderInv /\ CacheInv /\ GateInv /\ RecordInv
  /\ OneSamplePerLook /\ SecondInv

-----------------------------------------------------------------------------

\* The initial state.
LEMMA Initially == Init => LookInv
<1> SUFFICES ASSUME Init PROVE LookInv
  OBVIOUS
<1>1. Typed
  <2>1. NoFiles \in Files
    BY TransferAssumption DEF NoFiles, Files
  <2>2. made \in 0 .. MaxExports /\ pc \in Pcs /\ today \in Dates
    BY TransferAssumption DEF Init, Pcs, Dates
  <2>3. sample \in [Looks -> SampleRecord \cup {None}]
    BY DEF Init
  <2>4. TypeOK
    BY <2>1, <2>2, <2>3, Zenon DEF Init, TypeOK
  <2> QED BY <2>4 DEF Init, Typed
<1>2. OrderInv /\ CacheInv /\ GateInv
  BY DEF Init, OrderInv, CacheInv, GateInv, NoFiles, AfterManifest, AfterRows, AfterGate,
         AfterFreeze, AfterInventory, AfterScore
<1>3. RecordInv /\ OneSamplePerLook /\ SecondInv
  BY DEF Init, RecordInv, OneSamplePerLook, SecondInv
<1> QED BY <1>1, <1>2, <1>3 DEF LookInv

\* Which steps touch the ledger and the scorings at all.
LEMMA Quiet ==
  ASSUME Next, ~Freeze, ~Score, ~Finish
  PROVE  UNCHANGED <<sample, record, scored, exports>>
BY DEF Next, World, Run, Crash, ExportRows, ExportManifest, HorizonPasses, Commit, RemoveCache,
       Start, ReadManifest, ReadRows, Load, Gate, Embed, Inventory, SaveCache, Prepare, Transfer,
       Stopped, Ended, data, ledger, run

\* What can be exported never changes.
LEMMA ExportsFixed == ASSUME Next PROVE exports' = exports
BY DEF Next, World, Run, Crash, ExportRows, ExportManifest, HorizonPasses, Commit, RemoveCache,
       Start, ReadManifest, ReadRows, Load, Gate, Freeze, Embed, Inventory, SaveCache, Prepare,
       Score, Transfer, Finish, Stopped, Ended, data, ledger, run

\* What a run past the reading has loaded is an export, and makes a sample.
LEMMA Loaded ==
  ASSUME Typed, OrderInv, pc \in AfterRows
  PROVE  /\ bundle.manifest \in Exports /\ bundle.rows \in Exports
         /\ args \in Args /\ SampleOf \in SampleRecord
<1>1. bundle.manifest \in Exports /\ bundle.rows \in Exports /\ args \in Args
  BY TransferAssumption DEF Typed, TypeOK, OrderInv, AfterRows, AfterManifest, Files, Exports
<1> QED BY <1>1 DEF SampleOf, SampleRecord, Args

\* A cache that is there is of some files and photos.
LEMMA CacheType ==
  ASSUME Typed, cache.state # "none"
  PROVE  cache.of \in Embedded /\ cache = [state |-> cache.state, of |-> cache.of]
BY DEF Typed, TypeOK, NoCache, Embedded

\* Fields of their types make a record.
LEMMA RecordShape ==
  ASSUME NEW m \in Exports, NEW r \in Exports, NEW a \in Dates, NEW d \in BOOLEAN,
         NEW v \in Verdicts, NEW e \in Embedded
  PROVE  [manifest |-> m, rows |-> r, as_of |-> a, decommissioned |-> d, verdict |-> v,
          embedded |-> e] \in LookRecord
BY DEF LookRecord

\* A record is a record.
LEMMA RecordType ==
  ASSUME Typed, OrderInv, CacheInv, GateInv, pc = "finish"
  PROVE  Record \in LookRecord
<1>1. /\ bundle.manifest \in Exports /\ bundle.rows \in Exports /\ args \in Args
      /\ cache.of \in Embedded
  BY Loaded, CacheType DEF CacheInv, AfterInventory, AfterFreeze, AfterGate, AfterRows, AfterManifest, Pcs
<1>2. Decommissioned \in BOOLEAN
  <2>1. CASE args.verify
    <3>1. record[args.look] \in LookRecord
      BY <2>1, <1>1 DEF GateInv, AfterGate, AfterRows, AfterManifest, Pcs, Typed, Args
    <3> QED BY <3>1, <2>1 DEF Decommissioned, LookRecord
  <2>2. CASE ~args.verify
    BY <2>2, <1>1 DEF Decommissioned, Args
  <2> QED BY <2>1, <2>2
<1>3. Verdict \in Verdicts
  BY DEF Verdict, Verdicts
<1>4. args.as_of \in Dates
  BY <1>1 DEF Args
<1> QED BY <1>1, <1>2, <1>3, <1>4, RecordShape DEF Record

\* Every step of the world keeps the types.
LEMMA TypedWorld == ASSUME Typed, OrderInv, World PROVE Typed'
<1>1. CASE ExportRows
  BY <1>1, TransferAssumption DEF ExportRows, Typed, TypeOK, OrderInv, Files, Exports, Dates, NoCache, data, ledger, run
<1>2. CASE ExportManifest
  BY <1>2, TransferAssumption DEF ExportManifest, Typed, TypeOK, OrderInv, Files, Exports, Dates, NoCache, data, ledger, run
<1>3. CASE HorizonPasses
  BY <1>3, TransferAssumption DEF HorizonPasses, Typed, TypeOK, OrderInv, Files, Exports, Dates, NoCache, data, ledger, run
<1>4. CASE Commit
  BY <1>4, TransferAssumption DEF Commit, Typed, TypeOK, OrderInv, Files, Exports, Dates, NoCache, data, ledger, run
<1>5. CASE RemoveCache
  BY <1>5, TransferAssumption DEF RemoveCache, Typed, TypeOK, OrderInv, Files, Exports, Dates, NoCache, data, ledger, run
<1> QED BY <1>1, <1>2, <1>3, <1>4, <1>5 DEF World

\* So does every step of a run.
LEMMA TypedRun == ASSUME Typed, OrderInv, CacheInv, GateInv, Run \/ Crash PROVE Typed'
<1>1. CASE Start
  BY <1>1, TransferAssumption DEF Start, Stopped, Ended, Typed, TypeOK, OrderInv, Files, NoFiles, Pcs, Dates, data, ledger, run
<1>2. CASE ReadManifest
  BY <1>2, TransferAssumption DEF ReadManifest, Stopped, Ended, Typed, TypeOK, OrderInv, Files, NoFiles, Pcs, Dates, data, ledger, run
<1>3. CASE ReadRows
  BY <1>3, TransferAssumption DEF ReadRows, Stopped, Ended, Typed, TypeOK, OrderInv, Files, NoFiles, Pcs, Dates, data, ledger, run
<1>4. CASE Load
  BY <1>4, TransferAssumption DEF Load, Stopped, Ended, Typed, TypeOK, OrderInv, Files, NoFiles, Pcs, Dates, data, ledger, run
<1>5. CASE Gate
  BY <1>5, TransferAssumption DEF Gate, Stopped, Ended, Typed, TypeOK, OrderInv, Files, NoFiles, Pcs, Dates, data, ledger, run
<1>6. CASE Freeze
  <2>1. SampleOf \in SampleRecord /\ args \in Args
    BY <1>6, Loaded DEF Freeze, AfterRows, AfterManifest, Pcs
  <2>2. sample' \in [Looks -> SampleRecord \cup {None}]
    BY <1>6, <2>1 DEF Freeze, Typed, TypeOK, Args
  <2> QED BY <1>6, <2>2, TransferAssumption DEF Freeze, Stopped, Ended, Typed, TypeOK, OrderInv, Files, NoFiles, Pcs, Dates, data, ledger, run
<1>7. CASE Embed
  BY <1>7, TransferAssumption DEF Embed, Stopped, Ended, Typed, TypeOK, OrderInv, Files, NoFiles, Pcs, Dates, data, ledger, run
<1>8. CASE Inventory
  <2>1. bundle.rows \in Exports
    BY <1>8, Loaded DEF Inventory, AfterRows, AfterManifest, Pcs
  <2>2. cache' \in {NoCache} \cup [state : {"half", "full"}, of : [files : Files, photos : Exports]]
    BY <1>8, <2>1 DEF Inventory, Ended, Stopped, Source, Typed, TypeOK
  <2> QED BY <1>8, <2>2, TransferAssumption DEF Inventory, Stopped, Ended, Typed, TypeOK, OrderInv, Files, NoFiles, Pcs, Dates, data, ledger, run
<1>9. CASE SaveCache
  <2>1. cache.state # "none"
    BY <1>9 DEF SaveCache, CacheInv, AfterInventory, AfterFreeze, AfterGate, AfterRows, AfterManifest, Pcs
  <2>2. cache' = [state |-> "full", of |-> cache.of] /\ cache.of \in Embedded
    BY <1>9, <2>1, CacheType DEF SaveCache
  <2>3. cache' \in {NoCache} \cup [state : {"half", "full"}, of : [files : Files, photos : Exports]]
    BY <2>2 DEF Embedded
  <2> QED BY <1>9, <2>3, TransferAssumption DEF SaveCache, Stopped, Ended, Typed, TypeOK, OrderInv, Files, NoFiles, Pcs, Dates, data, ledger, run
<1>10. CASE Prepare
  BY <1>10, TransferAssumption DEF Prepare, Stopped, Ended, Typed, TypeOK, OrderInv, Files, NoFiles, Pcs, Dates, data, ledger, run
<1>11. CASE Score
  <2>1. /\ bundle.manifest \in Exports /\ bundle.rows \in Exports /\ args \in Args
        /\ cache.of \in Embedded
    BY <1>11, Loaded, CacheType DEF Score, CacheInv, AfterInventory, AfterFreeze, AfterGate, AfterRows, AfterManifest, Pcs
  <2>2. Scoring \in Scorings
    BY <2>1 DEF Scoring, Scorings, Args
  <2> QED BY <1>11, <2>2, TransferAssumption DEF Score, Stopped, Ended, Typed, TypeOK, OrderInv, Files, NoFiles, Pcs, Dates, data, ledger, run
<1>12. CASE Transfer
  BY <1>12, TransferAssumption DEF Transfer, Stopped, Ended, Typed, TypeOK, OrderInv, Files, NoFiles, Pcs, Dates, data, ledger, run
<1>13. CASE Finish
  <2>1. Record \in LookRecord
    BY <1>13, RecordType DEF Finish
  <2>2. record' \in [Looks -> LookRecord \cup {None}]
    BY <1>13, <2>1 DEF Finish, Typed
  <2> QED BY <1>13, <2>2, TransferAssumption DEF Finish, Stopped, Ended, Typed, TypeOK, OrderInv, Files, NoFiles, Pcs, Dates, data, ledger, run
<1>14. CASE Crash
  BY <1>14, TransferAssumption DEF Crash, Stopped, Ended, Typed, TypeOK, OrderInv, Files, NoFiles, Pcs, Dates, data, ledger, run
<1> QED BY <1>1, <1>2, <1>3, <1>4, <1>5, <1>6, <1>7, <1>8, <1>9, <1>10, <1>11, <1>12, <1>13, <1>14 DEF Run

\* What is loaded stays behind the disk, and the disk behind what was made.
LEMMA OrderStep == ASSUME Typed, OrderInv, Next PROVE OrderInv'
<1>1. /\ made \in Nat /\ disk.rows \in Nat /\ disk.manifest \in Nat
      /\ bundle.rows \in Nat /\ bundle.manifest \in Nat
      /\ disk \in Files /\ bundle \in Files
  BY TransferAssumption DEF Typed, TypeOK, Files
<1>2. CASE ExportRows
  BY <1>1, <1>2 DEF ExportRows, OrderInv, Files, run
<1>3. CASE ExportManifest
  BY <1>1, <1>3 DEF ExportManifest, OrderInv, Files, run
<1>4. CASE HorizonPasses \/ Commit \/ RemoveCache
  BY <1>1, <1>4 DEF HorizonPasses, Commit, RemoveCache, OrderInv, data, run
<1>5. CASE Start
  BY <1>1, <1>5 DEF Start, OrderInv, AfterManifest, AfterRows, data
<1>6. CASE ReadManifest
  BY <1>1, <1>6 DEF ReadManifest, OrderInv, Files, AfterManifest, AfterRows, data
<1>7. CASE ReadRows
  BY <1>1, <1>7 DEF ReadRows, OrderInv, Files, AfterManifest, AfterRows, Pcs, data
<1>8. CASE Stopped /\ UNCHANGED data
  BY <1>1, <1>8 DEF Stopped, OrderInv, NoFiles, AfterManifest, AfterRows, data
<1>9. CASE pc \in AfterRows /\ UNCHANGED <<data, run>>
  BY <1>1, <1>9 DEF OrderInv, AfterManifest, AfterRows, data, run
<1> QED
  BY <1>2, <1>3, <1>4, <1>5, <1>6, <1>7, <1>8, <1>9
     DEF Next, World, Run, Crash, Load, Gate, Freeze, Embed, Inventory, SaveCache, Prepare, Score,
         Transfer, Finish, Ended, AfterManifest, AfterRows, Pcs, data

\* A step that only moves a run along keeps what its cache is of.
LEMMA CacheStep == ASSUME Typed, OrderInv, CacheInv, Next PROVE CacheInv'
<1>1. /\ made \in Nat /\ disk.rows \in Nat /\ disk.manifest \in Nat
      /\ bundle.rows \in Nat /\ bundle.manifest \in Nat
      /\ disk \in Files /\ bundle \in Files
  BY TransferAssumption DEF Typed, TypeOK, Files
<1>2. cache.state # "none" => /\ cache.of.files \in Files
                              /\ cache.of.files.rows \in Nat /\ cache.of.files.manifest \in Nat
                              /\ cache.of = [files |-> cache.of.files, photos |-> cache.of.photos]
  BY CacheType DEF Embedded, Files
<1> USE DEF AfterScore, AfterInventory, AfterFreeze, AfterGate, AfterRows, AfterManifest, Pcs
<1>3. CASE ExportRows
  BY <1>1, <1>2, <1>3 DEF ExportRows, CacheInv, OrderInv, Files, run
<1>4. CASE ExportManifest
  BY <1>1, <1>2, <1>4 DEF ExportManifest, CacheInv, OrderInv, Files, run
<1>5. CASE HorizonPasses \/ Commit
  BY <1>5 DEF HorizonPasses, Commit, CacheInv, data, run
<1>6. CASE RemoveCache
  BY <1>6 DEF RemoveCache, CacheInv
<1>7. CASE Start \/ ReadManifest \/ ReadRows \/ Load \/ Gate \/ Freeze \/ Embed
  BY <1>7 DEF Start, ReadManifest, ReadRows, Load, Gate, Freeze, Embed, Ended, Stopped, CacheInv
<1>8. CASE Inventory
  BY <1>1, <1>8 DEF Inventory, CacheFits, Source, Ended, Stopped, CacheInv, OrderInv, data, run
<1>9. CASE SaveCache
  BY <1>9, CacheType DEF SaveCache, CacheInv, data, run
<1>10. CASE Prepare \/ Finish \/ Crash
  BY <1>10 DEF Prepare, Finish, Crash, Ended, Stopped, CacheInv, data, run
<1>11. CASE Score \/ Transfer
  <2>1. CASE pc' = "idle"
    BY <2>1 DEF CacheInv
  <2>2. CASE pc' # "idle"
    <3>1. /\ disk = bundle /\ cache.state # "none" /\ cache.of.photos = bundle.rows
          /\ UNCHANGED <<cache, disk, bundle>>
      BY <1>11, <2>2 DEF Score, Transfer, DiskUnchanged, Ended, Stopped, CacheInv, data, run
    <3>2. cache.of.files.rows = bundle.rows /\ cache.of.files.manifest = bundle.manifest
      BY <1>1, <1>2, <1>11, <3>1 DEF Score, Transfer, CacheInv
    <3>3. cache.of.files = bundle
      BY <1>1, <1>2, <3>1, <3>2 DEF Files
    <3> QED BY <1>1, <1>2, <3>1, <3>2, <3>3 DEF CacheInv
  <2> QED BY <2>1, <2>2
<1> QED BY <1>3, <1>4, <1>5, <1>6, <1>7, <1>8, <1>9, <1>10, <1>11 DEF Next, World, Run

-----------------------------------------------------------------------------

\* A frozen sample is never replaced.
LEMMA SampleStays ==
  ASSUME Typed, Next, NEW l \in Looks, sample[l] # None
  PROVE  sample'[l] = sample[l]
<1>1. CASE Freeze
  BY <1>1 DEF Freeze, SampleAllows, Ended, Typed, TypeOK
<1>2. CASE ~Freeze
  BY <1>2, Quiet DEF Score, Finish, ledger
<1> QED BY <1>1, <1>2

\* A record is written where none was, by a run that was not a verification
\* and had scored its sample.
LEMMA RecordWritten ==
  ASSUME Typed, CacheInv, GateInv, Next, NEW l \in Looks, record'[l] # record[l]
  PROVE  /\ Finish /\ ~args.verify /\ l = args.look /\ record'[l] = Record
         /\ record[l] = None /\ sample[l] = SampleOf /\ Powered
         /\ \E s \in scored : s.look = l /\ ~s.verify
<1>1. Finish
  BY Quiet DEF Freeze, Score, ledger
<1>2. pc = "finish" /\ pc \in AfterGate /\ pc \in AfterScore
  BY <1>1 DEF Finish, AfterScore, AfterGate, AfterRows, AfterManifest, Pcs
<1>3. ~args.verify /\ l = args.look /\ record'[l] = Record
  BY <1>1 DEF Finish, Typed
<1> QED BY <1>1, <1>2, <1>3 DEF GateInv

\* The record that allows a second look stays in place.
LEMMA PriorStays ==
  ASSUME Typed, CacheInv, GateInv, Next, PriorRecord
  PROVE  PriorRecord'
<1>1. record'[1] = record[1]
  BY RecordWritten DEF PriorRecord, Looks
<1>2. head' = head
  <2>1. CASE Commit
    BY <2>1 DEF Commit, PriorRecord
  <2>2. CASE ~Commit
    BY <2>2 DEF Next, World, Run, Crash, ExportRows, ExportManifest, HorizonPasses, RemoveCache, Start,
            ReadManifest, ReadRows, Load, Gate, Freeze, Embed, Inventory, SaveCache, Prepare,
            Score, Transfer, Finish, ledger
  <2> QED BY <2>1, <2>2
<1> QED BY <1>1, <1>2 DEF PriorRecord

\* While a run is past its gate and goes on, what it has loaded and how it was
\* called are what they were.
LEMMA RunKept ==
  ASSUME Next, pc' \in AfterGate, pc' # "freeze" \/ pc # "gate"
  PROVE  UNCHANGED <<args, bundle>>
BY DEF Next, World, Run, Crash, ExportRows, ExportManifest, HorizonPasses, Commit, RemoveCache,
       Start, ReadManifest, ReadRows, Load, Gate, Freeze, Embed, Inventory, SaveCache, Prepare,
       Score, Transfer, Finish, Stopped, Ended, data, ledger, run,
       AfterGate, AfterRows, AfterManifest, Pcs

\* The gate's clearance holds when it is given.
LEMMA GateOpens ==
  ASSUME Typed, OrderInv, RecordInv, Gate, pc' # "idle"
  PROVE  GateInv'
<1>1. /\ args \in Args /\ UNCHANGED <<args, bundle, record, head, sample, exports>>
      /\ pc' \in {"freeze", "embed"} /\ pc' \notin AfterScore
  BY DEF Gate, Typed, Ended, Stopped, data, ledger, run, AfterScore
<1>2. CASE args.verify
  <2>1. VerifyClears /\ pc' = "embed"
    BY <1>2 DEF Gate, Ended, Stopped
  <2>2. sample[args.look] = SampleOf
    BY <1>1, <2>1 DEF VerifyClears, RecordInv, SampleOf, Args
  <2> QED BY <1>1, <1>2, <2>1, <2>2
          DEF VerifyClears, GateInv, Powered, PriorRecord, Arm, Content, SampleOf
<1>3. CASE ~args.verify
  <2>1. FreshClears /\ pc' = "freeze"
    BY <1>3 DEF Gate, Ended, Stopped
  <2> QED BY <1>1, <1>3, <2>1
          DEF FreshClears, GateInv, Powered, PriorRecord, Arm, Content
<1> QED BY <1>2, <1>3

\* And it stays while the run lasts.
LEMMA GateStep ==
  ASSUME Typed, OrderInv, CacheInv, GateInv, RecordInv, Next
  PROVE  GateInv'
<1> SUFFICES ASSUME pc' \in AfterGate
             PROVE  GateInv'
  BY DEF GateInv
<1>1. CASE Gate
  BY <1>1, GateOpens DEF AfterGate, AfterRows, AfterManifest
<1>2. CASE ~Gate
  <2>1. (pc \in AfterGate /\ pc' # "freeze") \/ pc = pc'
    BY <1>2 DEF Next, World, Run, Crash, ExportRows, ExportManifest, HorizonPasses, Commit, RemoveCache,
       Start, ReadManifest, ReadRows, Load, Freeze, Embed, Inventory, SaveCache, Prepare,
       Score, Transfer, Finish, Stopped, Ended, AfterGate, AfterRows, AfterManifest, Pcs
  <2>2. pc \in AfterGate /\ args \in Args
    BY <2>1 DEF Typed, AfterGate, AfterRows, AfterManifest, Pcs
  <2>3. UNCHANGED <<args, bundle, exports>>
    BY <1>2, <2>1, <2>2, RunKept, ExportsFixed DEF AfterGate, AfterRows, AfterManifest, Pcs
  <2>4. UNCHANGED <<Powered, SampleOf>>
    BY <2>3 DEF Powered, Arm, Content, SampleOf
  <2>5. record'[args.look] = record[args.look]
    <3>1. ~Finish
      BY DEF Finish, Ended, Stopped, AfterGate, AfterRows, AfterManifest
    <3> QED BY <2>2, <3>1, RecordWritten DEF Args
  <2>6. args.look = 2 => PriorRecord'
    BY <2>2, PriorStays DEF GateInv
  <2>7. pc' # "freeze" => sample'[args.look] = SampleOf
    <3>1. CASE Freeze
      BY <3>1, <2>2 DEF Freeze, Ended, Stopped, Typed, TypeOK, Args, AfterGate, AfterRows, AfterManifest
    <3>2. CASE ~Freeze
      <4>1. UNCHANGED sample
        BY <3>2, Quiet DEF Score, Finish, ledger
      <4>2. pc' # "freeze" => pc # "freeze"
        BY <3>2, <1>2 DEF Next, World, Run, Crash, ExportRows, ExportManifest, HorizonPasses, Commit, RemoveCache,
           Start, ReadManifest, ReadRows, Load, Embed, Inventory, SaveCache, Prepare,
           Score, Transfer, Finish, Stopped, Ended, AfterGate, AfterRows, AfterManifest
      <4> QED BY <4>1, <4>2, <2>2 DEF GateInv
    <3> QED BY <3>1, <3>2
  <2>8. pc' \in AfterScore => \E s \in scored' : s.look = args.look /\ s.verify = args.verify
    <3>1. CASE Score
      <4>1. pc' \in AfterScore => Scoring \in scored'
        BY <3>1 DEF Score, Ended, Stopped, AfterScore
      <4>2. Scoring.look = args.look /\ Scoring.verify = args.verify
        BY DEF Scoring
      <4> QED BY <4>1, <4>2
    <3>2. CASE ~Score
      <4>1. pc' \in AfterScore => pc \in AfterScore
        BY <3>2, <1>2 DEF Next, World, Run, Crash, ExportRows, ExportManifest, HorizonPasses, Commit, RemoveCache,
           Start, ReadManifest, ReadRows, Load, Freeze, Embed, Inventory, SaveCache, Prepare,
           Transfer, Finish, Stopped, Ended, AfterScore
      <4>2. scored \subseteq scored'
        BY <3>2, Quiet DEF Freeze, Finish
      <4> QED BY <4>1, <4>2, <2>2 DEF GateInv
    <3> QED BY <3>1, <3>2
  <2> QED BY <2>2, <2>3, <2>4, <2>5, <2>6, <2>7, <2>8 DEF GateInv
<1> QED BY <1>1, <1>2

-----------------------------------------------------------------------------

\* Nothing that was scored is forgotten.
LEMMA ScoredGrows == ASSUME Next PROVE scored \subseteq scored'
BY Quiet DEF Freeze, Score, Finish

\* The verdict a run computes is the one its record has.
LEMMA VerdictHolds == Verdict = VerdictOf(args.look, Record)
BY DEF Verdict, VerdictOf, Record, HorizonReached, Content, Arm

\* Records keep to their sample and their verdict.
LEMMA RecordStep ==
  ASSUME Typed, OrderInv, CacheInv, GateInv, RecordInv, Next
  PROVE  RecordInv'
<1> SUFFICES ASSUME NEW l \in Looks, record'[l] # None
             PROVE  /\ sample'[l] = [manifest |-> record'[l].manifest, rows |-> record'[l].rows,
                                     as_of |-> record'[l].as_of]
                    /\ \E s \in scored' : s.look = l
                    /\ record'[l].embedded = [files  |-> [manifest |-> record'[l].manifest,
                                                         rows |-> record'[l].rows],
                                              photos |-> record'[l].rows]
                    /\ record'[l].verdict = VerdictOf(l, record[l])'
  BY DEF RecordInv
<1>1. CASE record'[l] = record[l]
  <2>1. record[l] \in LookRecord /\ record[l] # None
    BY <1>1 DEF Typed
  <2>2. sample[l] \in SampleRecord
    <3>1. record[l].manifest \in Exports /\ record[l].rows \in Exports /\ record[l].as_of \in Dates
      BY <2>1 DEF LookRecord
    <3>2. sample[l] = [manifest |-> record[l].manifest, rows |-> record[l].rows,
                       as_of |-> record[l].as_of]
      BY <2>1 DEF RecordInv
    <3> QED BY <3>1, <3>2 DEF SampleRecord
  <2>3. sample'[l] = sample[l]
    BY <2>2, SampleStays, TransferAssumption
  <2>4. VerdictOf(l, record[l])' = VerdictOf(l, record[l])
    BY <1>1, ExportsFixed DEF VerdictOf
  <2> QED BY <1>1, <2>1, <2>3, <2>4, ScoredGrows DEF RecordInv
<1>2. CASE record'[l] # record[l]
  <2>1. /\ Finish /\ l = args.look /\ record'[l] = Record /\ sample[l] = SampleOf
        /\ \E s \in scored : s.look = l
    BY <1>2, RecordWritten
  <2>2. UNCHANGED <<sample, scored, exports>>
    BY <2>1 DEF Finish, data
  <2>3. cache.of = [files |-> bundle, photos |-> bundle.rows] /\ bundle \in Files
    BY <2>1 DEF Finish, CacheInv, AfterScore, Typed, TypeOK
  <2>4. bundle = [manifest |-> bundle.manifest, rows |-> bundle.rows]
    BY <2>3 DEF Files
  <2>5. VerdictOf(l, record[l])' = VerdictOf(args.look, Record)
    BY <2>1, <2>2 DEF VerdictOf
  <2>6. Record.verdict = Verdict
    BY DEF Record
  <2>7. /\ Record.embedded = cache.of /\ Record.manifest = bundle.manifest
        /\ Record.rows = bundle.rows /\ Record.as_of = args.as_of
    BY DEF Record
  <2> QED BY <2>1, <2>2, <2>3, <2>4, <2>5, <2>6, <2>7, VerdictHolds DEF SampleOf
<1> QED BY <1>1, <1>2

\* Labels are scored on the sample of their look.
LEMMA SampleStep ==
  ASSUME Typed, OrderInv, CacheInv, GateInv, OneSamplePerLook, Next
  PROVE  OneSamplePerLook'
<1> SUFFICES ASSUME NEW s \in scored'
             PROVE  /\ sample'[s.look] = [manifest |-> s.manifest, rows |-> s.rows, as_of |-> s.as_of]
                    /\ s.embedded = [files  |-> [manifest |-> s.manifest, rows |-> s.rows],
                                     photos |-> s.rows]
  BY DEF OneSamplePerLook
<1>1. CASE s \in scored
  <2>1. s \in Scorings
    BY <1>1 DEF Typed
  <2>2. sample[s.look] \in SampleRecord /\ s.look \in Looks
    <3>1. /\ s.look \in Looks /\ s.manifest \in Exports /\ s.rows \in Exports
          /\ s.as_of \in Dates
      BY <2>1 DEF Scorings
    <3>2. sample[s.look] = [manifest |-> s.manifest, rows |-> s.rows, as_of |-> s.as_of]
      BY <1>1 DEF OneSamplePerLook
    <3> QED BY <3>1, <3>2 DEF SampleRecord
  <2>3. sample'[s.look] = sample[s.look]
    BY <2>2, SampleStays, TransferAssumption
  <2> QED BY <1>1, <2>3 DEF OneSamplePerLook
<1>2. CASE s \notin scored
  <2>1. Score /\ s = Scoring /\ DiskUnchanged /\ pc' = "transfer"
    BY <1>2, Quiet DEF Freeze, Score, Finish
  <2>2. pc = "score" /\ pc \in AfterGate /\ pc' \in AfterScore
    BY <2>1 DEF Score, AfterGate, AfterRows, AfterManifest, AfterScore, Pcs
  <2>3. sample[args.look] = SampleOf
    BY <2>2 DEF GateInv
  <2>4. UNCHANGED <<sample, bundle, cache>> /\ bundle \in Files
    BY <2>1 DEF Score, Ended, Stopped, ledger, run, Typed, TypeOK
  <2>5. cache'.of = [files |-> bundle', photos |-> bundle'.rows]
    BY <2>2, CacheStep DEF CacheInv
  <2>6. bundle = [manifest |-> bundle.manifest, rows |-> bundle.rows]
    BY <2>4 DEF Files
  <2>7. /\ s.look = args.look /\ s.manifest = bundle.manifest /\ s.rows = bundle.rows
        /\ s.as_of = args.as_of /\ s.embedded = cache.of
    BY <2>1 DEF Scoring
  <2> QED BY <2>3, <2>4, <2>5, <2>6, <2>7 DEF SampleOf
<1> QED BY <1>1, <1>2

\* The second look scores only past its gate.
LEMMA SecondStep ==
  ASSUME Typed, OrderInv, CacheInv, GateInv, SecondInv, Next
  PROVE  SecondInv'
<1> SUFFICES ASSUME NEW s \in scored', s.look = 2
             PROVE  PriorRecord' /\ exports'[s.rows].arm >= Floor(2)
  BY DEF SecondInv
<1>1. CASE s \in scored
  BY <1>1, PriorStays, ExportsFixed DEF SecondInv
<1>2. CASE s \notin scored
  <2>1. Score /\ s = Scoring
    BY <1>2, Quiet DEF Freeze, Score, Finish
  <2>2. pc \in AfterGate
    BY <2>1 DEF Score, AfterGate, AfterRows, AfterManifest, Pcs
  <2>3. args.look = 2 /\ s.rows = bundle.rows
    BY <2>1 DEF Scoring
  <2>4. PriorRecord /\ Powered
    BY <2>2, <2>3 DEF GateInv
  <2> QED BY <2>3, <2>4, PriorStays, ExportsFixed DEF Powered, Arm, Content
<1> QED BY <1>1, <1>2

\* LookInv is inductive.
LEMMA Inductive == LookInv /\ [Next]_vars => LookInv'
<1> SUFFICES ASSUME LookInv, [Next]_vars PROVE LookInv'
  OBVIOUS
<1> USE DEF LookInv
<1>1. CASE Next
  <2>1. Typed'
    BY <1>1, TypedWorld, TypedRun DEF Next
  <2> QED BY <1>1, <2>1, OrderStep, CacheStep, GateStep, RecordStep, SampleStep, SecondStep
<1>2. CASE UNCHANGED vars
  <2> USE <1>2 DEF vars, data, ledger, run
  <2>1. Typed' /\ OrderInv' /\ CacheInv'
    BY DEF Typed, TypeOK, OrderInv, CacheInv
  <2>2. GateInv' /\ OneSamplePerLook' /\ SecondInv'
    BY DEF GateInv, OneSamplePerLook, SecondInv, Powered, PriorRecord, SampleOf, Arm, Content
  <2>3. ASSUME NEW l \in Looks PROVE VerdictOf(l, record[l])' = VerdictOf(l, record[l])
    BY DEF VerdictOf
  <2>4. RecordInv'
    BY <2>3 DEF RecordInv
  <2> QED BY <2>1, <2>2, <2>4
<1> QED BY <1>1, <1>2

\* The invariant of a look: for any exports, however runs are killed.
THEOREM Looked == Spec => []LookInv
BY Initially, Inductive, PTL DEF Spec

\* Every variable keeps its type.
THEOREM TypeCorrect == Spec => []TypeOK
<1>1. LookInv => TypeOK
  BY DEF LookInv, Typed
<1> QED BY <1>1, Looked, PTL

\* The labels of a look are only ever scored on its frozen sample.
THEOREM LabelsScoredOnce == Spec => []OneSamplePerLook
<1>1. LookInv => OneSamplePerLook
  BY DEF LookInv
<1> QED BY <1>1, Looked, PTL

\* The second look follows a committed first that did not establish.
THEOREM SecondLookAllowed == Spec => []LookTwoAllowed
<1>1. LookInv => LookTwoAllowed
  <2> SUFFICES ASSUME LookInv, NEW s \in scored, s.look = 2
               PROVE  /\ head # None /\ head.verdict # "ESTABLISHED"
                      /\ \E t \in scored : t.look = 1
                      /\ exports[s.rows].arm >= Floor(2)
    BY DEF LookTwoAllowed
  <2>1. PriorRecord /\ exports[s.rows].arm >= Floor(2)
    BY DEF LookInv, SecondInv
  <2> QED BY <2>1 DEF LookInv, RecordInv, PriorRecord, Looks
<1> QED BY <1>1, Looked, PTL

\* A verification that comes to its end reproduces the record.
THEOREM VerificationReproduces == Spec => []VerifyReproduces
<1>1. LookInv => VerifyReproduces
  <2> SUFFICES ASSUME LookInv, pc = "finish", args.verify
               PROVE  Record = record[args.look]
    BY DEF VerifyReproduces
  <2> DEFINE r == record[args.look]
  <2>1. /\ Typed /\ OrderInv /\ CacheInv /\ GateInv /\ RecordInv
        /\ pc \in AfterGate /\ pc \in AfterScore /\ args \in Args
    BY DEF LookInv, Typed, AfterScore, AfterGate, AfterRows, AfterManifest, Pcs
  <2>2. /\ r # None /\ args.look \in Looks /\ r \in LookRecord
        /\ r.manifest = bundle.manifest /\ r.rows = bundle.rows /\ r.as_of = args.as_of
    BY <2>1 DEF GateInv, Args, Typed
  <2>3. r.verdict = VerdictOf(args.look, r)
        /\ r.embedded = [files |-> [manifest |-> r.manifest, rows |-> r.rows], photos |-> r.rows]
    BY <2>1, <2>2 DEF RecordInv
  <2>4. cache.of = [files |-> bundle, photos |-> bundle.rows] /\ bundle \in Files
    BY <2>1 DEF CacheInv, Typed, TypeOK
  <2>5. bundle = [manifest |-> bundle.manifest, rows |-> bundle.rows]
    BY <2>4 DEF Files
  <2>6. Decommissioned = r.decommissioned
    BY DEF Decommissioned
  <2>7. Verdict = VerdictOf(args.look, r)
    BY <2>2, <2>6 DEF Verdict, VerdictOf, HorizonReached, Content, Arm
  <2>8. /\ Record \in LookRecord
        /\ Record.manifest = r.manifest /\ Record.rows = r.rows /\ Record.as_of = r.as_of
        /\ Record.decommissioned = r.decommissioned /\ Record.verdict = r.verdict
        /\ Record.embedded = r.embedded
    BY <2>1, <2>2, <2>3, <2>4, <2>5, <2>6, <2>7, RecordType DEF Record
  <2> HIDE DEF r
  <2> QED BY <2>2, <2>8 DEF LookRecord, r
<1> QED BY <1>1, Looked, PTL

\* A record is of its frozen sample, was scored, and stays.
THEOREM RecordsStand == Spec => RecordStands
<1>1. LookInv /\ [Next]_vars =>
        [\A l \in Looks :
           record'[l] # record[l] =>
             /\ record[l] = None
             /\ sample[l] = [manifest |-> record'[l].manifest, rows |-> record'[l].rows,
                             as_of |-> record'[l].as_of]
             /\ \E s \in scored : s.look = l /\ ~s.verify]_vars
  <2> SUFFICES ASSUME LookInv, Next, NEW l \in Looks, record'[l] # record[l]
               PROVE  /\ record[l] = None
                      /\ sample[l] = [manifest |-> record'[l].manifest, rows |-> record'[l].rows,
                                      as_of |-> record'[l].as_of]
                      /\ \E s \in scored : s.look = l /\ ~s.verify
    OBVIOUS
  <2>1. /\ record'[l] = Record /\ record[l] = None /\ sample[l] = SampleOf
        /\ \E s \in scored : s.look = l /\ ~s.verify
    BY RecordWritten DEF LookInv
  <2> QED BY <2>1 DEF Record, SampleOf
<1> QED BY <1>1, Looked, PTL DEF Spec, RecordStands
=============================================================================
