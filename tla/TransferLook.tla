---------------------------- MODULE TransferLook ----------------------------
(* The once-only reading of the Track-2 transfer experiment:                *)
(* ml-system/experiments/track2_transfer.                                   *)
(*                                                                          *)
(* An export is written file by file into one bundle directory. An operator *)
(* runs run_look.py by hand, one run at a time: it loads the bundle, passes *)
(* the gate, freezes the analysis sample, embeds the photos, prepares the   *)
(* secondary pairs, scores and writes a record; or, with --verify, does it  *)
(* again and compares. A run can be killed before any step, a new export    *)
(* can land between any two, and what is on disk is what the next run       *)
(* finds. The contents of an export are abstracted to what decides: how     *)
(* many clusters the smaller arm has, whether the concentration cap holds,  *)
(* and how the interval of the pooled AUC falls.                            *)
EXTENDS Naturals, FiniteSets

CONSTANTS
  MaxExports,  \* how many exports are ever made
  Contents,    \* what an export may contain: [arm, capOk, reads]
  None

Exports == 1 .. MaxExports
Looks   == 1 .. 2
Dates   == {"before", "after"}    \* of the frozen horizon

\* PRIMARY_MIN_LOOK1 and PRIMARY_MIN_LOOK2 fall between the sizes of an arm.
Few  == 24
Some == 25
Many == 50
Floor(look) == IF look = 1 THEN 25 ELSE 50

ContentsAssumption ==
  Contents \subseteq [arm : {Few, Some, Many}, capOk : BOOLEAN,
                      reads : {"clears", "sensitive", "straddles"}]

\* A frozen sample: the hashes, the snapshots and the clusters of two files.
SampleRecord == [manifest : Exports, rows : Exports, as_of : Dates]

ASSUME TransferAssumption ==
  MaxExports \in Nat /\ ContentsAssumption /\ None \notin SampleRecord

VARIABLES
  exports,   \* what each export contains: fixed by the data, never changed
  made,      \* how many exports have been started
  disk,      \* which export manifest.json and training_examples.jsonl are of
  cache,     \* the embedding cache in the bundle directory
  sample,    \* per look, the frozen analysis sample
  record,    \* per look, the look record
  head,      \* the look-1 record in the committed HEAD
  today,     \* before or after the horizon
  pc,        \* where the run is
  args,      \* its command line
  hashed,    \* the hashes its load began with
  bundle,    \* what it has loaded
  killed,    \* the last run was killed
  scored     \* ghost: every primary scoring of labels ever made

data   == <<exports, made, disk>>
ledger == <<sample, record, head>>
run    == <<args, hashed, bundle, killed>>
vars   == <<data, cache, ledger, today, pc, run, scored>>

Pcs == {"idle", "manifest", "rows", "agree", "gate", "freeze", "embed",
        "inventory", "save", "prepare", "score", "transfer", "finish"}

Args == [look : Looks, as_of : Dates, decommissioned : BOOLEAN, verify : BOOLEAN]
Files == [manifest : 0 .. MaxExports, rows : 0 .. MaxExports]

-----------------------------------------------------------------------------
(* What a bundle says. *)

\* The certificate the manifest carries and derive_certificate recomputes.
Yield(v) == <<exports[v].arm, exports[v].capOk>>

Content == exports[bundle.rows]
Arm     == Content.arm

\* Mutant of SampleOf: the analysis date is not part of the frozen sample.
SampleOfFiles == [manifest |-> bundle.manifest, rows |-> bundle.rows, as_of |-> "before"]

\* The sample of a look: hashes, snapshots and clusters come with the files.
SampleOf == [manifest |-> bundle.manifest, rows |-> bundle.rows, as_of |-> args.as_of]

\* Mutant of Decommissioned: a verification uses the frozen horizon alone.
DecommissionedIgnored == ~args.verify /\ args.decommissioned

\* The decommission date a reading uses: a verification takes the recorded one.
Decommissioned == IF args.verify THEN record[args.look].decommissioned
                                 ELSE args.decommissioned

HorizonReached == args.as_of = "after" \/ Decommissioned

\* primary_verdict.
Verdict ==
  CASE Content.reads = "clears"    -> "ESTABLISHED"
    [] Content.reads = "sensitive" -> "SUGGESTIVE (LOFO-sensitive)"
    [] args.look = 2               -> "NOT-ESTABLISHED (well-powered null)"
    [] Arm >= Floor(2)             -> "NOT-ESTABLISHED (proceed to Look 2)"
    [] HorizonReached              -> "NOT-ESTABLISHED (underpowered)"
    [] OTHER                       -> "NOT-ESTABLISHED (keep collecting)"

\* build_record, down to what later runs read of it.
Record == [manifest |-> bundle.manifest, rows |-> bundle.rows, as_of |-> args.as_of,
           decommissioned |-> Decommissioned, verdict |-> Verdict,
           embedded |-> cache.of]

\* _check_disk_hashes: the two files are still those that were loaded.
DiskUnchanged == disk = bundle

\* Mutant of PriorRecord: the record need not be committed.
PriorRecordOnDisk == record[1] # None /\ record[1].verdict # "ESTABLISHED"

\* _prior_record: a committed, unchanged look-1 record that did not establish.
PriorRecord ==
  record[1] # None /\ head = record[1] /\ record[1].verdict # "ESTABLISHED"

Powered == Arm >= Floor(args.look) /\ Content.capOk

-----------------------------------------------------------------------------
(* Initially nothing has been exported: no look has been taken.             *)

NoFiles == [manifest |-> 0, rows |-> 0]
NoCache == [state |-> "none", of |-> None]

Init ==
  /\ exports \in [Exports -> Contents]
  /\ made = 0
  /\ disk = NoFiles
  /\ cache = NoCache
  /\ sample = [l \in Looks |-> None]
  /\ record = [l \in Looks |-> None]
  /\ head = None
  /\ today = "before"
  /\ pc = "idle"
  /\ args = None
  /\ hashed = NoFiles
  /\ bundle = NoFiles
  /\ killed = FALSE
  /\ scored = {}

-----------------------------------------------------------------------------
(* The world around a run. *)

\* exportTrack2 writes the rows, then the manifest (external to this module's
\* subject). A killed export leaves new rows under an old manifest.
ExportRows ==
  /\ made < MaxExports
  /\ made' = made + 1
  /\ disk' = [disk EXCEPT !.rows = made + 1]
  /\ UNCHANGED <<exports, cache, ledger, today, pc, run, scored>>

ExportManifest ==
  /\ disk.rows = made /\ disk.manifest # made
  /\ disk' = [disk EXCEPT !.manifest = made]
  /\ UNCHANGED <<exports, made, cache, ledger, today, pc, run, scored>>

HorizonPasses ==
  /\ today = "before"
  /\ today' = "after"
  /\ UNCHANGED <<data, cache, ledger, pc, run, scored>>

\* The operator commits the look-1 record.
Commit ==
  /\ record[1] # None /\ head # record[1]
  /\ head' = record[1]
  /\ UNCHANGED <<data, cache, sample, record, today, pc, run, scored>>

\* The operator removes cache files the embedding stage refuses.
RemoveCache ==
  /\ pc = "idle"
  /\ \/ cache.state = "half"
     \/ cache.state = "full" /\ cache.of # [files |-> disk, photos |-> disk.rows]
  /\ cache' = NoCache
  /\ UNCHANGED <<data, ledger, today, pc, run, scored>>

-----------------------------------------------------------------------------
(* One run. Every refusal is an exception that ends it. *)

Stopped == pc' = "idle" /\ args' = None /\ hashed' = NoFiles /\ bundle' = NoFiles
Ended   == Stopped /\ UNCHANGED killed

\* Killed, or any error the later steps do not name.
Crash ==
  /\ pc # "idle"
  /\ Stopped
  /\ killed' = TRUE
  /\ UNCHANGED <<data, cache, ledger, today, scored>>

\* main, run and the first hashes of load_bundle.
Start ==
  /\ pc = "idle"
  /\ disk.manifest # 0 /\ disk.rows # 0
  /\ \E a \in Args :
       /\ today = "before" => a.as_of = "before"
       /\ a.verify => ~a.decommissioned
       /\ args' = a
  /\ hashed' = disk
  /\ killed' = FALSE
  /\ pc' = "manifest"
  /\ UNCHANGED <<data, cache, ledger, today, bundle, scored>>

ReadManifest ==
  /\ pc = "manifest"
  /\ bundle' = [bundle EXCEPT !.manifest = disk.manifest]
  /\ pc' = "rows"
  /\ UNCHANGED <<data, cache, ledger, today, args, hashed, killed, scored>>

ReadRows ==
  /\ pc = "rows"
  /\ bundle' = [bundle EXCEPT !.rows = disk.rows]
  /\ pc' = "agree"
  /\ UNCHANGED <<data, cache, ledger, today, args, hashed, killed, scored>>

\* derive_certificate, _assert_certificate_agreement and the second hashes.
Agrees == Yield(bundle.manifest) = Yield(bundle.rows) /\ disk = hashed

Load ==
  /\ pc = "agree"
  /\ IF Agrees THEN pc' = "gate" /\ UNCHANGED run ELSE Ended
  /\ UNCHANGED <<data, cache, ledger, today, scored>>

\* check_look_trigger.
FreshClears ==
  /\ DiskUnchanged
  /\ record[args.look] = None
  /\ args.look = 2 => PriorRecord
  /\ Powered

\* verify_record_clearance.
VerifyClears ==
  LET r == record[args.look] IN
  /\ r # None
  /\ r.as_of = args.as_of
  /\ DiskUnchanged
  /\ r.manifest = bundle.manifest /\ r.rows = bundle.rows
  /\ Powered
  /\ args.look = 2 => PriorRecord

Gate ==
  /\ pc = "gate"
  /\ IF args.verify
       THEN IF VerifyClears THEN pc' = "embed" /\ UNCHANGED run ELSE Ended
       ELSE IF FreshClears THEN pc' = "freeze" /\ UNCHANGED run ELSE Ended
  /\ UNCHANGED <<data, cache, ledger, today, scored>>

\* Mutant of SampleAllows: a sample already frozen is not compared.
SampleReplaced == TRUE

\* Mutant of SampleAllows: a sample that exists refuses every further run.
SampleOnce == sample[args.look] = None

\* The sample that must be found, or nothing: an interrupted look is resumed.
SampleAllows == sample[args.look] \in {None, SampleOf}

Freeze ==
  /\ pc = "freeze"
  /\ IF SampleAllows
       THEN /\ sample' = [sample EXCEPT ![args.look] = SampleOf]
            /\ pc' = "embed"
            /\ UNCHANGED run
       ELSE Ended /\ UNCHANGED sample
  /\ UNCHANGED <<data, cache, record, head, today, scored>>

\* embed_bundle begins: the clearance is asked for again.
Embed ==
  /\ pc = "embed"
  /\ IF DiskUnchanged THEN pc' = "inventory" /\ UNCHANGED run ELSE Ended
  /\ UNCHANGED <<data, cache, ledger, today, scored>>

\* What a cache must be of: the photos of the loaded rows, next to the files
\* that are on disk when the photos have been read.
Source == [files |-> disk, photos |-> bundle.rows]

\* A cache is used when it is complete and of these photos and files.
CacheFits == cache.state = "full" /\ cache.of = Source

\* The photos are read; a fitting cache is used, one that is absent is begun
\* (np.save), and any other is refused.
Inventory ==
  /\ pc = "inventory"
  /\ \/ /\ CacheFits
        /\ pc' = "prepare"
        /\ UNCHANGED <<cache, run>>
     \/ /\ cache.state = "none"
        /\ cache' = [state |-> "half", of |-> Source]
        /\ pc' = "save"
        /\ UNCHANGED run
     \/ /\ cache.state # "none" /\ ~CacheFits
        /\ Ended
        /\ UNCHANGED cache
  /\ UNCHANGED <<data, ledger, today, scored>>

\* The embedding manifest completes the cache.
SaveCache ==
  /\ pc = "save"
  /\ cache' = [cache EXCEPT !.state = "full"]
  /\ pc' = "prepare"
  /\ UNCHANGED <<data, ledger, today, run, scored>>

\* prepare_transfer: the secondary's inputs are resolved before any score.
Prepare ==
  /\ pc = "prepare"
  /\ IF DiskUnchanged THEN pc' = "score" /\ UNCHANGED run ELSE Ended
  /\ UNCHANGED <<data, cache, ledger, today, scored>>

Scoring == [look |-> args.look, manifest |-> bundle.manifest, rows |-> bundle.rows,
            as_of |-> args.as_of, embedded |-> cache.of, verify |-> args.verify]

\* score_bundle: the labels are scored.
Score ==
  /\ pc = "score"
  /\ IF DiskUnchanged
       THEN pc' = "transfer" /\ scored' = scored \cup {Scoring} /\ UNCHANGED run
       ELSE Ended /\ UNCHANGED scored
  /\ UNCHANGED <<data, cache, ledger, today>>

\* transfer_read.
Transfer ==
  /\ pc = "transfer"
  /\ IF DiskUnchanged THEN pc' = "finish" /\ UNCHANGED run ELSE Ended
  /\ UNCHANGED <<data, cache, ledger, today, scored>>

\* _atomic_json of the record, or _records_equal.
Finish ==
  /\ pc = "finish"
  /\ IF args.verify
       THEN UNCHANGED record
       ELSE record' = [record EXCEPT ![args.look] = Record]
  /\ Ended
  /\ UNCHANGED <<data, cache, sample, head, today, scored>>

-----------------------------------------------------------------------------
World == ExportRows \/ ExportManifest \/ HorizonPasses \/ Commit \/ RemoveCache
Run   == Start \/ ReadManifest \/ ReadRows \/ Load \/ Gate \/ Freeze \/ Embed
           \/ Inventory \/ SaveCache \/ Prepare \/ Score \/ Transfer \/ Finish

Next == World \/ Run \/ Crash
Spec == Init /\ [][Next]_vars

\* The operator starts an interrupted look again as it was begun, and removes
\* a cache that is refused; a run that is not killed takes its next step.
Resume(l) ==
  /\ Start
  /\ args'.look = l /\ ~args'.verify
  /\ sample[l] # None => args'.as_of = sample[l].as_of

FairSpec ==
  /\ Spec
  /\ WF_vars(pc # "idle" /\ Run)
  /\ SF_vars(RemoveCache)
  /\ \A l \in Looks : SF_vars(Resume(l))

-----------------------------------------------------------------------------
(* Properties. *)

TypeOK ==
  /\ exports \in [Exports -> Contents]
  /\ made \in 0 .. MaxExports
  /\ disk \in Files /\ hashed \in Files /\ bundle \in Files
  /\ cache \in {NoCache} \cup [state : {"half", "full"},
                                of : [files : Files, photos : Exports]]
  /\ sample \in [Looks -> SampleRecord \cup {None}]
  /\ pc \in Pcs
  /\ killed \in BOOLEAN
  /\ today \in Dates
  /\ args \in Args \cup {None}

\* However often a look is interrupted and started again, and whatever is
\* exported in between, its labels are only ever scored on one sample: the
\* frozen one, at the frozen analysis date, with embeddings of those files.
OneSamplePerLook ==
  \A s \in scored :
    /\ sample[s.look] = [manifest |-> s.manifest, rows |-> s.rows, as_of |-> s.as_of]
    /\ s.embedded = [files  |-> [manifest |-> s.manifest, rows |-> s.rows],
                    photos |-> s.rows]

\* A record, once written, is of the frozen sample, was scored, and stays.
RecordStands ==
  [][\A l \in Looks :
       record'[l] # record[l] =>
         /\ record[l] = None
         /\ sample[l] = [manifest |-> record'[l].manifest, rows |-> record'[l].rows,
                         as_of |-> record'[l].as_of]
         /\ \E s \in scored : s.look = l /\ ~s.verify]_vars

\* The labels are scored a second time on a larger sample only when a first
\* look, committed as it stands, powered and recorded, did not establish.
LookTwoAllowed ==
  \A s \in scored :
    s.look = 2 =>
      /\ head # None /\ head.verdict # "ESTABLISHED"
      /\ \E t \in scored : t.look = 1
      /\ exports[s.rows].arm >= Floor(2)

\* A verification that passes its gate and is not stopped reproduces the record.
VerifyReproduces ==
  pc = "finish" /\ args.verify => Record = record[args.look]

\* An interrupted look is never stuck: while its export stays where it was and
\* runs stop being killed, the record is written in the end, whatever the
\* earlier attempts left behind.
FrozenStays(l) ==
  /\ sample[l] # None
  /\ disk = [manifest |-> sample[l].manifest, rows |-> sample[l].rows]

InterruptedLookFinishes ==
  \A l \in Looks :
    <>[](FrozenStays(l) /\ ~killed) => <>(record[l] # None)

\* The preregistration: a verdict of the horizon is terminal, so once it is
\* recorded nothing more is scored.
Terminal == record[1] # None /\ record[1].verdict = "NOT-ESTABLISHED (underpowered)"

TerminalStops ==
  [][Terminal => \A s \in scored' \ scored : s.verify]_vars
=============================================================================
