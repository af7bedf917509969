# A TLA+ verification of Fitted

Fitted keeps a wardrobe, renders outfit suggestions from it, and remembers what
was liked, planned and worn; beside it live the experiments that decide which
model may rank outfits. This directory holds TLA+ specifications of the parts of
it where requests, commands and failures meet each other, and of the engine that
makes the outfits, the TLC configurations that check them on small instances, and
theorems about them proved with TLAPS.

Paths below are relative to `fitted/` unless they start with `ml-system/`.

## 1. The system

The server is a set of Next.js route handlers (`app/api/**`) over MongoDB and
Firebase, which may run in any number of instances at once. A handler is a
sequence of awaited calls: between two of them every other request may run, and
each call may be applied although its answer is lost, or fail, or be the last
thing the process does. Almost nothing is locked. What keeps the data right is
a small number of devices:

* compare-and-set updates of one document (`lib/imageAttachments.ts`,
  `lib/outfitPlanning/store.ts`, `lib/outfitExperience/store.ts`);
* reference marks on the photos, read before they are deleted
  (`lib/imageRetention.ts`);
* the *owner fence*, a transaction that writes the owner document together with
  the row (`lib/ownerWriteFence.ts`), against which an erasure's barrier
  conflicts (`lib/userErasure.ts`);
* ids chosen by the client and kept in unique indexes or in the document, which
  make a resent command a replay.

A suggestion is made by a second service (`ml-system/service`), one HTTP call
away: a single event loop with a token bucket in front of the engine
`ml-system/fitted_core`, which is a deterministic function of one request and of
the language model's replies. Every render it pays for must leave a record.

The experiments (`ml-system/experiments`) are commands started by hand that run
for hours and may be killed. Their protocols are preregistered: a label is scored
once, on a sample frozen before; a row of the paid judge, once written, is never
lost, and a question that is complete is never bought again. (A question that a
killed run left half done is bought again whole, and the answers of a batch that
dies before `write_ledger` are lost.) What holds them to it is files: frozen
samples, records, hashes and the comparison with what git has.

### 1.1 Inventory

| component | state | operations | what makes it correct |
|---|---|---|---|
| Garment photo retention: `lib/imageRetention.ts`, `imageAttachments.ts`, `imageReferences.ts`, `imageStorage.ts`, `clearWardrobe.ts`, the photo, item and clear routes | `wardrobeimages` rows with `attachmentLease`, `generationLeases`, `snapshotRetained`; the photo fields of the garments; the photos a snapshot quotes | upload, replace and remove a photo; delete a garment; clear the wardrobe; pin, promote and release by a render; reclaim | no bytes are deleted that a garment shows or a snapshot quotes; what nobody needs is deleted |
| Account erasure: `lib/userErasure.ts`, `resumeUserErasure.ts`, `ownerWriteFence.ts`, `db.ts`, `models/User.ts`, the account route, an operator script | the owner document with `erasureStarted`, the five owned collections, the identity in Firebase | barrier, redact, cascade, delete the identity, remove the owner; every fenced insert | a finished erasure leaves nothing, is never undone, and can be continued from every point at which it stopped |
| Sign-in: `lib/identityAdmission.ts`, the sync route | the unique identity of an owner document | look up, reserve, verify, commit | one owner per identity, none after its erasure |
| Planned outfits: `lib/outfitPlanning/` | `outfitPlans` and `planningVersion` on the owner document | create, move, remove, list; the client's retries | each command takes effect once, on the list of that moment; limits and duplicates are checked at the write |
| Wear memory: `lib/outfitExperience/` | one document per memory with its revisions; admissions on the owner; redaction of derived snapshots | create, revise, retract, erase | one revision per operation, erased stays erased, nothing derived from an older revision stays visible |
| Render route: `lib/mlRecommend.ts`, `mlSnapshotWrite.ts` | `generationsnapshots`, unique by owner and request id | replay, pin, call the service, write, answer | one snapshot per request id; a repeated request answers as the first one |
| Feedback: `lib/interactions.ts`, `latestFeedbackState.ts` | `outfitinteractions` rows, one token bucket per process | post, list, delete | bound to what was shown; the newest row of a candidate wins everywhere |
| Wardrobe routes: `app/api/wardrobe/**` | `wardrobeitems` | create, edit, delete, clear | the caps; warmth and slot follow the fields they are derived from |
| Render service: `ml-system/service/app.py`, `config.py` | one token bucket and one event loop; the count of provider calls of the request in hand | authorize, throttle, read a capped body, render, assemble, salvage, answer | the rate ceiling is neither passed nor undercut; what was paid is recorded however a render ends; no client holds up another |
| Outfit engine: `ml-system/fitted_core` (sampler, generation, validator, ranker, response, rescue, reducers, slot maps, keys, layers, snapshot) | none across requests | preflight, sample, scope, ask, validate, drop, score, relax, order, spread, file | what is shown is wearable, asked for and not refused by the wearer; the model is paid only when an outfit is possible; every draft is accounted for |
| Track-2 transfer look: `ml-system/experiments/track2_transfer` | the bundle's two files, the embedding cache, per look the frozen sample and the record, HEAD | load, gate, freeze, embed, prepare, score, record, verify | one sample per look; the second look only after a committed first; records stand and reproduce; a killed look can be finished |
| H26 judge ledgers: `ml-system/experiments/h26` (`run_judge.py`, `gpt_judge.py`, `evaluate.py`, `gate_b_extension.py`) | two append-only ledgers, their versions in HEAD, the freeze, two metrics files | gate-b, run, freeze, emit, analyze | no written row is lost, no complete question is bought again; a question is not voted on by two runs; what a recorded hash is of is in git |
| Rate limit of the CV routes, snapshot shaping, CV proxy, weather, sessions, pages, scripts, other experiments | none, or the browser's | | see section 6 |

### 1.2 How they meet

The owner document is the meeting point. Planning keeps its list in it, wear
memory its admissions, every insert of an owned row touches it through the
fence, and the erasure removes it last. Photos are shared between the garments,
which come and go, and the snapshots, which stay as evidence until the account
does: a render pins photos before it calls the service and settles the pins
after its insert, while the wardrobe routes may be deleting the same garments.

The render route hands the service the closet, the newest feedback rows and the
latest renders; the service answers with outfits and with the funnel of every
draft, which becomes the snapshot. A reaction to a shown outfit comes back as a
row of the next request, where the reducers turn it into a cooldown, a liking or
a fine.

The exports of the product feed the transfer look, one directory of files that a
new export replaces file by file. The commands of the judge share their ledgers
with each other and with the operator's commits.

The hard behaviours are therefore races between handlers of one account, lost
answers, retries by clients and operators, crashes between two steps, two
databases without a common transaction, parts of a render that break after it was
paid for, long sequences of filters that must agree with each other, and commands
of several hours whose files change under them. `PROJECT.json` lists each hazard
at its line, with the properties that would show it going wrong.

## 2. Modules

| module | what it is |
|---|---|
| `PhotoRetention` | photos, leases, pins, reclaims; uploads, removals, deletions, clears, renders |
| `PhotoRetentionProofs` | its inductive invariant and safety theorems |
| `AccountErasure` | erasure, fenced writers, sign-ins |
| `AccountErasureProofs` | its inductive invariant and safety theorems |
| `PlanLedger` | the abstract list of planned outfits: every command is one step |
| `OutfitPlanning` | the planning store: optimistic loop, retries, late writes |
| `OutfitPlanningProofs` | what `PlanLedger` promises, that this implements it, and that commands take effect once |
| `ExperienceStore` | the wear memory, the renders that vary it, the account's erasure |
| `ExperienceStoreProofs` | its inductive invariant and safety theorems |
| `Outfits` | the engine's vocabulary: garments, slot maps, keys, the reserved layer |
| `Sampler` | which part of a closet one prompt may hold, and how many drafts to ask for |
| `Reply` | what the language model answers, and what validation keeps of it |
| `Signals` | what earlier renders and reactions are reduced to |
| `Ranker` | filters, score, diversity, the fallback ladder, the final order |
| `Response` | path and risk of an outfit, and the spread that is shown |
| `RenderPipeline` | one render from the preflight to the snapshot, composed of the six |
| `RenderPipelineProofs` | the engine's operators, the history of a render, all its properties |
| `RenderService` | the HTTP service: bucket, bodies, the loop, the chain of records |
| `RenderServiceProofs` | its inductive invariant and safety theorems |
| `TransferLook` | the once-only looks of the transfer experiment |
| `TransferLookProofs` | its inductive invariant and safety theorems |
| `JudgeLedger` | the paid judge ledgers and the commands around them |
| `JudgeLedgerProofs` | its inductive invariant; all its properties |
| `MC*` | instances for TLC; who takes part is set in the `.cfg` files |

Operators called *Mutant of X* are variations of `X` with a plausible mistake.
No specification uses them. Putting one in the place of `X` must break the
property it is listed with in `PROJECT.json`, which shows that the property
depends on that piece of code.

### 2.1 PhotoRetention

A request is an element of `Uploads`, `Removals`, `Deletes`, `Clears` or
`Renders`; `pc` says where it is. Every database call is an action of its own,
so that any two requests interleave at any call. An upload gives its name to
the photo it stores (each mints a fresh id), a render to its snapshot.

* `garment[g]` has the status, the primary photo and the additional views. The
  code keeps the primary photo in two fields, `imagePath` and `imageUrl`, which
  it always writes together; the model has one.
* `stored`, `leased`, `pins`, `retained` are the rows and their three marks;
  `Unretained` is `unretainedImageFilter`, the condition of every deletion.
* `reclaim[h][i]` walks through `reclaimWardrobeImage`: read the marks, read the
  attachments, read the snapshots, delete under the marks' condition. An upload,
  a removal and an item deletion await one photo after the other. Clears and
  renders use `withImageConcurrency`, whose batches of eight are one batch here.
* `link[u]` is the upload's compare-and-set (`attachmentCAS`) as the server sees
  it. `UploadLinkLost` is `linkUncertain`: the handler goes away and the update
  may land at any time, which is why the lease must stay.
* A render (`RenderRead` to `RenderDone`) pins the primary photo of each garment
  it read, quotes a subset of what it pinned, sends the snapshot, and in
  `finishImageLeases` promotes or drops each pin. `uncertain` is
  `uncertainSnapshotWrite`.
* Failures: `ReclaimFails`, `UploadStoreLost`, `UploadReleaseLost`,
  `RemovalLost`, `DeleteLost`, `RenderPinFails`, `RenderAnswerLost`,
  `RenderReleaseFails`, and `Crash` anywhere. Updates sent by a handler that has
  gone on without an answer wait in `late`, and may land at any later time or
  never; a reclaim's deletion that lost its answer is `"astray"`.
* `LegacySnapshots` are snapshots written before pins existed, whose photos have
  no mark at all: they are what the third read of a reclaim is for.

The account is not under erasure here. Erasure purges photos whatever marks
they have; it is the subject of the next module.

### 2.2 AccountErasure

`owner[o]` is the life of an owner document; `"reserved"` is an insert inside an
open sign-in transaction. `holder[o]` is the open transaction that has written
the document: MongoDB lets no second transaction and no other update of the
document commit before it ends, which is what `Barrier`, `Admit` and `Remove`
wait for.

* A writer authenticates, opens the fence, inserts and commits, and looks at the
  owner again before it answers (`Acknowledge`, `Refuse`). `into[w]` is the
  collection it writes to. A refused writer deletes all rows of its collection
  (`Emptied`); the routes for garments and photos delete both, as the code does.
* An eraser starts in `DELETE /api/account` (`EraseRequest`, `Begin`) or as an
  operator's run of the script (`EraseResume`), and goes through
  `resumeUserErasure`: read the owner, barrier again, redact the snapshots,
  cascade over the five collections one at a time, delete the identity with one
  retry, and delete the owner document, whose hook repeats the barrier and the
  cascade. Failed erasers may start again (`Retry`).
* A sign-in looks the identity up, reserves it, asks Firebase whether the token
  is still good (the only check that sees a deletion), and commits.

### 2.3 PlanLedger and OutfitPlanning

`PlanLedger` has one action per command, with its rules as guards. In
`OutfitPlanning` a command reads the document, applies the rules to what it read
(`CreateVerdict`, `MoveVerdict`, `RemoveVerdict`), checks that the outfit is
available, and writes the whole list under the version it read; a miss starts
over, up to `MaxAttempts` times. Clients resend what was not answered or was
answered `planning_busy` with the same ids (`canRetryPlanning`), while an
earlier write may still be in `late`. `ImplementsLedger` maps the stored array
to the abstract list by leaving out the keys that recognise a repeated command.

### 2.4 ExperienceStore

A memory is one document: `memory[m]` has its lifecycle, its current revision and
the sequence of its revisions. What a revision says is left out; an entry is the
operation id and the command that wrote it, which stands for the `requestKey`,
so `Replays` and `Conflicts` are the two verdicts of `replay` on a used id.

* `Creates`, `Revises`, `Retracts` and `Erases` are commands of any number of
  devices. `ask[c]` is drawn at the start and resent unchanged (`Retry`), as the
  forms do, which keep the pending command until it is answered or refused. A
  command reads, is admitted if its id is new (`Admit`), sends its write, lets it
  `Land`, looks at the owner (`Guarded`), reads the record again (`Confirm`) and
  redacts what it made stale (`Redact`). Every arrow is an awaited call.
* `Written` has the three native writes. Creating and erasing run inside the
  owner fence; a change does not (`Unfenced`), and is a compare-and-set on
  lifecycle, revision and operation id.
* A command whose answer or connection is lost goes to `failed`, and a write it
  had sent goes to `late`, from where it may land at any time. `late` is a set: a
  second copy of a write finds what the first one left and changes nothing.
* A render names the revision it varies (`basis[d]`), looks at it before
  (`RenderCheck`) and after (`RenderConfirm`) its fenced insert, and keeps its
  request id when it is resent (`RenderReplay` answers what is stored). `Visible`
  is `snapshotVisible`. The engine's call and the rest of the render route are
  between two of these actions; photo pins are in `PhotoRetention`.
* The account's erasure runs beside all this with its barrier, redaction and two
  of the sweeps, in the order of `resumeUserErasure`; its continuation and the
  identity are in `AccountErasure`.

`lost` only records which renders failed at some time, for `SupersededRedacted`.
The checks of a report against the closet and its source are one choice,
`Unavailable`.

### 2.5 The engine: Outfits, Sampler, Reply, Signals, Ranker, Response

These have no variables. Each is one file of `fitted_core` (two small ones share
`Outfits`), its functions as operators of the same name in camel case.

* A garment id is a number, whose order stands for the order of the id strings;
  0 is the reserved `"none"`. A slot map is a function from slots to ids, and a
  signature the tuple of what fills them (`keys.py` joins the same parts).
* `Sampler`: a pool maps a type to a set of garments. The seeded draws are *any*
  draw, so the operators return sets of pools: nothing here rests on the seed.
* `Reply`: a draft is its list of (item, role) pairs and its style move. The
  issue codes are those of `validator.py`, in the order in which they decide.
* `Signals`: `Standing` keeps the newest reaction to each shown outfit within the
  scan; the windows are distinct elements in order of appearance.
* `Ranker`: scores are counted in tenths and kept as named terms, as in
  `ScoreBreakdown`. `FallbackPool` is the ladder of `_select_fallback_pool`. The
  tie break of the final order is a draw given with the context.
* `Response`: shares are counted in sixtieths and weights in hundredths, so that
  all scores are whole numbers; the thresholds of `config.py` are compared on that
  scale. Colour names, style words and rationales are left out, and what is read
  of them kept as attributes of a garment.

The lists these files sort, filter and search are built in `Outfits` from sets,
orders and places (`InOrder`, `At`, `Where`, `Firstly`), because a list described
by what is in it, and in which order, can be reasoned about. The one thing that
is recursive in the code's own terms, the final order that takes out one outfit
after another, is a recursive function (`Emitted`, each step being `NextOut`).

### 2.6 RenderPipeline

One action per stage of `rescue.py`: `RefuseRescue` (the sufficiency of a rescue
on the whole closet), `SamplePool`, `ScopePool` (narrowing to what must be worn,
and the check that controls leave an outfit), `Generate` (with one repair of a
text that is no JSON), `ValidateReply` (with the drops before the ranker),
`RankSurvivors` and `Respond` (the spread, and the snapshot's rows of
`snapshot.py`). `Preflight` is the check the service makes of the controls before
it starts, so `Init` lets through only requests that pass it. Nondeterministic
are the seeded draws and the model's replies. `Requests` and `Replies` are any
sets that `RequestAssumption` and `ReplyAssumption` describe: a closet is finite,
and neither what a request names nor what a draft names need be in it. `Evidence`
is what a render has to file.

### 2.7 RenderService

`loop` is the request that holds the event loop, from the last byte of its body
to its answer; a request that waits for its body does not. The bucket is counted
in shares of a token. `Call` is a provider call: `calls` is the service's count,
made before the call, and `paid` what reached the provider. Every other step of
`handle_render` may break (`Break`), at most `MaxFaults` of them in one request,
and leads to the next record of the chain: the assembled snapshot, the one
salvaged from the trace, its wire form, the one built without a trace.
`RenderPipeline` is what happens inside `Call` and `Return`.

### 2.8 TransferLook

`disk` is which export the manifest and the rows on disk are of; `bundle` is what
a run has loaded, `hashed` the hashes its load began with. An action is a step of
`execute_stages` between two of which the disk may change or the run be killed.
An export's contents are three values: the size of the smaller arm, whether the
concentration cap holds and how the interval falls; `Verdict` is
`primary_verdict` on them. `scored` is a history variable of every scoring of
labels. `head` is the committed record of the first look. One operator runs one
look at a time, as the frozen instructions say; exports and commits interleave
with everything. The photos of an export do not change once written: the code
names them by id.

### 2.9 JudgeLedger

A row is the run that paid for it, its question, order and sample number; what
the judge answered is left out. `todo` holds the places of the questions and orders
a run has before it, `Upcoming` is the next of them in the frozen order; `Batch` is
what `run_question_order` appends at once, and `Killed` leaves its first rows.
`Latest` is keep-last: of the rows of one place the last one counts. `ledger` is
the working tree and `head` what git has; `history` remembers all that was ever
committed, and `paid` all that was ever written. `emit` and `analyze` remember in `seen` the ledger they hashed
and in `held` the rows they read. Before the retrain `emit` asks git whether the
ledger is committed (`EmitPreflight`) and hashes it (`EmitHash`), after it it asks
git again (`EmitRecheck`), hashes again and compares (`EmitRehash`), and only then
reads the rows (`EmitRead`): five openings of a file that the other commands may
replace or extend between any two of them. Each command runs in one process at a
time, which is how the operator uses them and nothing enforces; the four may
overlap.

## 3. What is checked

Every run but the last two finds no error. Requests and commands end, so a state in
which all have ended is no deadlock, and the configurations say `CHECK_DEADLOCK
FALSE`; the two of `TransferLook` do not, since there an operator can always start
another run.

| run | instance | what it shows |
|---|---|---|
| `Photos` | one garment, two uploads, a removal, a deletion, a clear, two renders, one fault, an old photo and an old snapshot | no photo a garment shows or a snapshot quotes loses its bytes; a settled photo is not attached again |
| `PhotoGarbage` | one garment, an upload, a clear, a render, no fault, fair | unneeded bytes are deleted in the end |
| `Erasure` | two erasers, a writer, two sign-ins, one fault, fair | completeness, redaction before deletion, acknowledged rows, no resurrection, the barrier; a continuation ends in success or in its own failure |
| `Plans` | a create, and two moves or a move and a removal of one plan, one fault; or three creates and a move, no fault; two days, two places for active plans | once only, acknowledged is kept, limits and no duplicate at the write, busy only under contention, every landing write is a step of `PlanLedger` |
| `WearRetries` | two reports, a retraction, an erasure on two ids, one place, one fault, the account's erasure | acknowledged is kept, the storage limit, erased is final, swept stays empty |
| `WearDerived` | a report, a correction, an erasure and a render of one memory, two faults, the account's erasure | stale proposals are redacted and stay hidden |
| `RenderPipeline` | eight garments, three of them tops over a cap of two; about 150 requests that pass the preflight; replies of up to five drafts, good and bad | paid only when possible, empty only when impossible, controls kept, the layer offered, rejected outfits rest, every draft accounted for |
| `RenderService` | three clients, one of whom may never finish his body; burst one, clock three, three broken parts | the ceiling from above and from below, spending recorded, nobody blocks |
| `TransferLook` | two exports of six kinds, both looks and verifications, kills, commits, the horizon | one sample, the second look, verification, records, interrupted looks finish |
| `JudgeLedger` | one question judged before, two that the extension adds, two samples, four paid runs | written rows kept, one run per question, what is behind the emitted hash is in git, complete is not repaid |
| `TransferTerminal` | the instance of `TransferLook` | the first finding of section 5 |
| `EmissionRace` | the instance of `JudgeLedger` with two paid runs | the second finding of section 5 |

**Bounds.** `MaxFaults` is one in most runs: every property is a statement about
what one lost answer or crash leaves behind for the *others*, and the theorems
hold for any number. Two requests of a kind are enough for each race the code
has (reader against writer, writer against writer), one garment and one
account because nothing relates two of them except photos, which are never
shared between garments. `Photos` has the constraint `OneMix`: in one behaviour
either the uploads and the removal run, or the deletion, the clear and the renders
do. An upload meets a clear and a render in `PhotoGarbage`, and every mix in the
theorems. Where a run says `SYMMETRY`, the values permuted are requests of one
kind, ids, days or memories, nothing orders them, and the run states no liveness.
`Erasure` has one writer, whose rows go to the snapshots or to the collection swept
last; the theorems have any number. `MaxSupplemental` is one, so that an append can
be refused. `Plans` has the constraint `OneMix`, too: either at most three commands
for one plan and a failure, or three creates and a move without one. There, with
three ids and one outfit on two days, two plans are active at once, a create races a
move onto its day, and a third create finds no place. More commands for one plan are
in the theorems. The wear memory has `MaxRevisions` one, so that a
retraction takes the slot behind the last revision, and two, so that a correction
is accepted and the next one is not; `MaxExperiences` one makes two ids compete.
`WearDerived` allows two faults, because a correction cut off before it redacts
and a render cut off before it confirms must meet.

`RenderPipeline` shrinks the caps with the closet, so that each is passed: two
tops of three in a prompt, one outfit of a silhouette (`VariantCap`), an overuse
rule that starts at three outfits, windows of one, a scan of four of five rows. The
ranker is asked for three outfits (`K`), of which the spread shows two
(`NSurfaced`), so that the last cut happens too; replies with as many plain outfits as the ranker is asked
for show that a layered one in cooldown is taken back before the ladder stops.
The drafts cover both templates, with and without a layer, each kind of
invalid draft before a good one, repetitions, more drafts than asked for and texts
that are no JSON. The requests cover each lens, locks and dislikes that leave
little or nothing, an exclusion, rain, closets that miss a type, and histories
with rejections that stand and that were taken back.

`RenderService` has a burst of one, so that the ceiling is met at once; three
broken parts reach the last resort of `handle_render`. In `TransferLook` two
exports suffice, since a run compares what it finds with one earlier state only:
its sample, its record or its cache. In `JudgeLedger` four runs let a question
die twice and be regenerated; two samples in two orders are the least in which a
batch can be cut and a question be half done.

**Fairness.** Node's event loop resumes a handler whose call has been answered,
and MongoDB answers: so a request that has started is carried on
(`WF` on its steps). Nothing obliges a client to start or to resend anything, an
operator to retry, or a call whose handler is gone to land. `PhotoGarbage` has
no faults, because a crash between the insert and the link leaks the bytes on
purpose, and a later clear finds them only when the lease is gone. The render
service's loop runs whatever is ready and its provider calls time out
(`WF(Admission)`, `WF(Handle)`); bodies arrive in the end only from the clients in
`Prompt`, and `NobodyBlocks` is about those. A look that is not killed takes its
next step (`WF`); the operator starts an interrupted look again as it was begun
(`SF(Resume)`) and removes a cache that is refused (`SF(RemoveCache)`), which is
what the messages of `run_look.py` tell him. `InterruptedLookFinishes` supposes
that the export stays and the kills stop.

## 4. What is proved

All theorems are about `Spec` for every value of the constants, under the
assumption named in the module (the sets of requests are disjoint, bounds are
natural numbers; the planning proofs need finitely many plan ids). Each module
proves an inductive invariant, with one lemma per action or small group of
actions, and derives the properties from it.

* **PhotoRetention** (`Retention`). The property `AttachedPhotosStored` is not
  inductive: one needs to know why a reclaim may still delete after its reads.
  `LeaseInv`: a photo an upload may still attach is leased from birth.
  `ReclaimInv`: what a reclaim has read stays true, since a photo without a lease
  is never attached again (`NeverReattached`) and a photo without a mark is never
  quoted by a new snapshot. `EvidenceInv`: a snapshot's photos are pinned from the
  pin to the promotion. `LateInv`: updates still to land were safe when sent and
  stay so. From these follow `AttachedSafe`, `EvidenceSafe`, `TypeCorrect`.
* **AccountErasure** (`Erasure`). `FenceInv`: while a fence is open its owner is
  active, so a row's owner exists when it is inserted, and no barrier commits in
  between. `SweepInv`: what an eraser at each point has behind it for good.
  `IdentityInv`: an active owner has a living identity, and a reservation belongs
  to its transaction. From these follow `Complete`, `RedactionFirst`, `RowsKept`,
  `UniqueOwner`, and the two action properties `NeverResurrected` and
  `BarrierStays`.
* **PlanLedger** (`LedgerSafe`, beside the refinement): limits and no duplicate, by counting one element
  more or less; `RemovedForever`.
* **OutfitPlanning** (`Planning`). The version determines the list: a pending
  write was accepted on the list of its version (`WriteInv`), so if the version
  still matches, the verdict holds for the present list, and the write is a step
  of `PlanLedger` (`Implements`). `OnceInv`: a command that took effect leaves a
  list on which it is never accepted again. `AckInv`, `BusyInv` give
  `Acknowledged` and `Busy`.

* **ExperienceStore** (`StoreSafe`). A record only grows by one entry, is retracted
  or erased, or is swept with its account (`MemoryStep`); so an entry once there
  stays at its number. `PendingAccepted`: a write still to land was admitted and
  within the limit of revisions, which is what lets a late one land. `Admitted`
  counts records by ids admitted, one element more at a time. `AnswersKept`: between
  the confirmation and the redaction a command holds a true answer, and redacts up
  to at least that revision. `BasisReached`: no render varies a revision that is
  still to come, so a stale proposal stays stale. With these `SupersededRedacted`
  is inductive, and the two action properties `ErasureIsFinal` and `HiddenForGood`
  follow from the invariant and one step. The assumption is that the commands'
  kinds are disjoint and the ids finitely many.

* **RenderService** (`Served`). `RateBound` speaks of any two admissions, so the
  invariant speaks of the balance and every admission: `Credit`, the balance and
  what was admitted since never exceed the burst and the refill, gives
  `CeilingHolds`; `Ceiling`, the balance is full or reaches that sum for some
  admission, gives `RefusalsJustified`. `Spending`, what every stage of the chain
  has cost and how many parts broke on the way to it, gives `SpendIsRecorded`.
* **TransferLook** (`Looked`). Exports only grow, so what a run has loaded is no
  newer than the disk (`OrderInv`); a cache that was checked against files in
  between can only be of the loaded ones once the disk is found unchanged at the
  scoring (`CacheInv`). `GateInv`: what the gate saw of the records and the frozen
  sample stays so while the run lasts, for a record is written only where none was,
  and a frozen sample is never replaced. `RecordInv`: a record is of its look's
  sample and its verdict follows from the rows and the dates in it, so a
  verification, which is of the same rows and dates, computes it again. From these
  follow `LabelsScoredOnce`, `SecondLookAllowed`, `VerificationReproduces` and the
  action property `RecordsStand`. The assumption `None \notin SampleRecord` says
  that no sample is mistaken for a missing one.
* **JudgeLedger** (`JudgeSafe`). A ledger only grows at its end, or is removed when
  HEAD has it (`CommittedKept` gives `PaidIsKept`). `ExtensionInv`: the last sample
  of the reverse order is written last of a question, so it is there only if the
  question is complete, and then both orders were written whole by one run
  (`Whole`); what a run has before it is not complete, and of the question it is in
  the middle of, the forward order is its own (`Ahead`). This gives `NeverPaidTwice`.
  The original ledger is of one run (`OriginalInv`), and the questions of the two
  lists differ, so what counts of a question is one run's (`ScoresOfBoth`,
  `VotesOfOneRun`). What `emit` hashed can be traced from then on (`Traceable`): each of
  its rows is still in the ledger, or was committed before the ledger was
  regenerated and the ledger is of a later run, because the file only grows or is
  removed when HEAD has it (`TraceStep`). When git is asked again the ledger is
  committed, so either way the hashed rows are in git; and whenever the file is read
  they are in it, or all it holds is of a later run (`EmissionIsInGit`). More than that needs quiet: `EmissionBoundWhenQuiet` is about
  `QuietSpec`, the specification whose steps leave the ledgers alone between the
  second hash and the read, and says that then the hash is of the bytes scored,
  whatever was done during the retrain.
  The assumption says that no sequence of rows is mistaken for an absent file.
* **RenderPipeline** (`EngineHistory`). The invariant `EngineInv` is the history of
  one render: what each stage holds is what its operator makes of what the stage
  before it held (`SampleKept`, `ScopeKept`, `ReplyKept`, `AcceptedKept`,
  `RankingKept`, `AnswerKept`, `RefusalKept`). The work is in the lemmas about the
  operators, which hold for every closet, reply and reaction.
  * *Lists.* A finite order has places (`OrderRanks`), so a list sorted, filtered or
    cut holds what it should, once each (`AtIs`, `KeepIs`, `FirstlyIs`).
  * *Money.* The gates count garments by type, the promise is of outfits: an outfit
    within a pool has a base of it, and the other way round (`WearableIs`,
    `BaseIsWearable`, `WearableHasBase`). This gives `SpendsWhenPossible` and
    `RefusesWhenImpossible`.
  * *Controls.* What is accepted honours them (`AcceptedIs`), and neither filters,
    diversity, the ladder, the final order nor the spread make an outfit of their
    own (`RankingIs`, `BuildVariantsIs`): `ControlsAreKept`, `LayerIsOffered`. The
    final order is shown total and free of repetition by a least counterexample.
  * *Funnel.* A draft that passed validation is removed before the ranker, dropped by
    it or kept in the funnel, one of these and for one reason (`DroppedOnce`,
    `WentIs`, `ReasonIs`): `FunnelIsAccounted`.
  * *Rest.* The windows of reactions are reductions of one list of rows, so each is a
    part of it in its order (`TraceOfScan`, `TraceOfStanding`, `WindowIs`); hence the
    latest rejections a reader counts in the rows are the ones that cool an outfit
    (`RejectedSilhouettesRest`).

  It rests on the assumptions on the constants: `PipelineAssumption`,
  `RequestAssumption`, `ReplyAssumption`, and those of `Sampler`, `Signals` and
  `Ranker` on their limits.

Proved and not run, because the theorem says more than a run would: the type
invariants, the inductive invariants themselves (they were run while the proofs
were made), `OneOwner`, `RemovedStays`, the properties of `PlanLedger`, and
`EmissionBoundWhenQuiet`, whose specification is not the code's.

Only model-checked: the liveness properties (`GarbageIsReclaimed`,
`ContinuationSucceeds`, `NobodyBlocks`, `InterruptedLookFinishes`), since liveness
under fairness and `ENABLED` are beyond the prover. Every invariant and action
property the passing runs check is a theorem.

## 5. Findings

**A verdict of the horizon does not end the experiment** (`TransferTerminal`).
`ml-system/experiments/track2_transfer/preregistration.md:106` says "Verdicts
(terminal in every branch)" and lists "NOT-ESTABLISHED (underpowered)" among them;
`preregistration.json:39` says "horizon-terminal". The gate of the second look
accepts a first look with that verdict (`gate.py:117-122` refuses only
ESTABLISHED), and looks at the horizon only when an arm is under its floor
(`gate.py:158-165`). So when a larger export lands after the horizon, the labels
are scored again. TLC's behaviour: an export with a small arm, the horizon
passes, a first look records the terminal verdict, its record is committed, a
second export lands, the second look passes the gate and scores.

**The hash in the metrics may be of fewer rows than were scored** (`EmissionRace`).
`ml-system/experiments/h26/evaluate.py:661-662` says of the check before the
scoring "so the recorded provenance sha is provably the sha of the consumed bytes,
never a stale preflight value." The check hashes the file (`evaluate.py:1298`), and
`read_ledger` opens it again (1299). TLC's behaviour: a gate-b run has all but its
last batch, what it has is committed, `emit` asks git and hashes, before and after
the retrain, with the same answer; gate-b appends its last batch; `emit` reads a
complete ledger and scores it under the hash of the shorter one. What holds is
`EmissionInGit`: the rows behind the recorded hash are in git, and each of them is
among the scored ones unless those are all of a later run. Reading the bytes once, and hashing
those, would make the sentence true.

Observations that contradict no document, or that no run can show here:

* `gate_b_extension.py` `analyze` hashes both ledgers (365) before it loads the
  corpus and the head, and reads them afterwards (379, 413) without looking again,
  unlike `emit`. A `run` that appends in between makes the recorded hash one of
  other rows than those scored, although the docstring (353) says the hashes bind
  real bytes. This is why no property speaks of `extended.ledgers`.
* `rescue.py:1436-1438` tells the wearer that the controls rule out every outfit
  of the closet; this was decided on the sampled pool. `EmptyOnlyWhenImpossible`
  says what does hold: of the sample and the pinned garments.
* `gate.py`: the refusal of an underpowered look at the horizon is recorded
  nowhere, and the decommission date is not part of the frozen sample.
* `evaluate.py`: an emission that ends late replaces a newer one.
* `models/User.ts:61-62` ("other writers' uncertain late outcomes remain a separate
  lifecycle limit") and `app/api/account/route.ts:228` ("Arbitrarily delayed
  non-image writes remain a separate lifecycle limit") are out of date: every
  insert of an owned row goes through the owner fence now, and a late transaction
  does not commit after the barrier. `ErasureComplete` holds for all collections.
* Regenerating gate-b after the extension was frozen stops the extension for good
  (`require_extension_freeze`); nothing is lost.

## 6. Not modelled, and why

* Field validation, wire formats and snapshot shaping
  (`lib/wardrobeRequestValidation.ts`, `mlRequestAdapter.ts`,
  `mlSnapshotMerge.ts`, `mlSnapshotValidation.ts`, `models/GenerationSnapshot.ts`,
  `ml-system/fitted_core/snapshot*.py` apart from the funnel, the request contract
  of `service/app.py`): functions from one document to one document, where the
  unit tests enumerate the cases.
* The engine's prompt, explanations, colour and style vocabulary, and the rounding
  of its floating point scores (they are exact here).
* The CV proxy and its rate limit, weather, sessions and Firebase helpers: a
  single external call.
* The pages: React state in one browser. Only the rule by which the planning
  client resends is modelled.
* Migrations, exports, `fitted_core/evaluation.py` and the other scripts under
  `ml-system/experiments`: offline, without concurrent actors.
* Reading the wear memory (pages, search) and what a report may say of its source
  and closet: functions of what is stored.
* The garment edit, the profile edit, the caps on garments and feedback rows and
  feedback on derived renders: listed as hazards without a property. The caps are
  soft, nothing in the code relies on them.
* The render route's replay against another render's identity, and a client that
  closes its connection during a render (`docs/DEFECTS.md:38`).
* Within the modelled parts: the byte budget of an account (a courtesy by its
  comment), the contents and formats of photos, the photo removal's look at the
  owner (it inserts nothing), parsing of dates; of the service the health probe,
  the rounding of the bucket's clock and the encoding of a finished answer
  (`_send_json`, `app.py:1004`), which comes after the chain of fallbacks and which
  nothing catches; of the transfer look the statistics, the
  rehearsal on synthetic data and a clone that never had the uncommitted sample;
  of the judge the pilot, two processes of one command at a time, the answers and
  statistics, the letter applied to them, a torn last line and rows of foreign
  questions, which the readers refuse.

## 7. What is left

In this order: feedback rows with their caps and visibility check; the garment
and profile edits; the render route's replay; the request contract of the
service; a refinement of `RenderService` against an abstract meter that knows only
admissions and time.

## 8. Running it

    tlc -workers 2 -config Photos.cfg MCPhotoRetention.tla
    tlapm PhotoRetentionProofs.tla

Each `.cfg` belongs to the MC module listed with its run in `PROJECT.json`. The
longest run takes two to three minutes, the longest proof about five.
