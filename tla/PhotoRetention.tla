--------------------------- MODULE PhotoRetention ---------------------------
(***************************************************************************)
(* Who may delete the bytes of a garment photo.                            *)
(*                                                                         *)
(* A WardrobeImage row holds the bytes of one photo. It is kept by an      *)
(* upload's attachmentLease, by the generationLeases of the renders that   *)
(* pinned it, and for good once snapshotRetained is set. Garments point at *)
(* photos (primary and supplemental views) and generation snapshots quote  *)
(* them as evidence, but nothing in the database ties the three            *)
(* collections together: every request below runs as a sequence of single  *)
(* document operations that interleave with those of the others.           *)
(*                                                                         *)
(* One owner, whose account is not being erased (AccountErasure has that   *)
(* story: it purges photos whatever holds them). A request is an element   *)
(* of one of the handler sets; it runs once. The photo an upload stores is *)
(* named by the upload, because every upload mints a fresh image id.       *)
(***************************************************************************)
EXTENDS Naturals, FiniteSets

CONSTANTS
  Garments,         \* wardrobe items
  Uploads,          \* POST   /api/wardrobe/[id]/image, and the photo each one stores
  Removals,         \* DELETE /api/wardrobe/[id]/image
  Deletes,          \* DELETE /api/wardrobe/[id]
  Clears,           \* DELETE /api/wardrobe/clear
  Renders,          \* POST   /api/recommend, and the snapshot each one writes
  Legacy,           \* photos stored before leases and pins existed
  LegacySnapshots,  \* snapshots written then: they hold no pin and set no retained flag
  None,             \* no photo in the primary slot
  MaxSupplemental,  \* MAX_SUPPLEMENTAL_IMAGES
  MaxFaults         \* bound of the model: lost answers, failed calls and crashes

Images   == Uploads \cup Legacy
Handlers == Uploads \cup Removals \cup Deletes \cup Clears \cup Renders

ASSUME RetentionAssumption ==
  /\ Uploads \cap Legacy = {}
  /\ Renders \cap LegacySnapshots = {}
  /\ None \notin Images
  /\ MaxSupplemental \in Nat
  /\ MaxFaults \in Nat
  \* a handler belongs to one route
  /\ Uploads \cap (Removals \cup Deletes \cup Clears \cup Renders) = {}
  /\ Removals \cap (Deletes \cup Clears \cup Renders) = {}
  /\ Deletes \cap (Clears \cup Renders) = {}
  /\ Clears \cap Renders = {}

VARIABLES
  \* the database
  garment,    \* garment[g]: its status, primary photo and supplemental views
  stored,     \* the photos whose WardrobeImage row exists
  leased,     \* ... with attachmentLease set
  pins,       \* pins[i]: generationLeases, each named by its render
  retained,   \* ... with snapshotRetained = true
  recorded,   \* the snapshots that exist
  evidence,   \* evidence[s]: the photos snapshot s quotes
  \* the requests
  pc,         \* pc[h]: where handler h is
  reclaim,    \* reclaim[h][i]: where h's reclaimWardrobeImage(i) is
  target,     \* target[h]: the garment an upload or a removal works on
  captured,   \* captured[h]: that garment as the handler read it
  view,       \* view[u]: "primary", "append", or the supplemental view u replaces
  link,       \* link[u]: the compare-and-set that attaches u, as the server sees it
  scope,      \* scope[c]: the garments clear c's deleteMany has still to delete
  want,       \* want[r]: photos render r has read and not yet tried to pin
  ids,        \* ids[r]: activeLease.ids, photos r tried to pin and not yet settled
  kept,       \* kept[r]: photos r pinned, the only ones its snapshot may quote
  write,      \* write[r]: r's snapshot insert, as the server sees it
  uncertain,  \* uncertain[r]: uncertainSnapshotWrite
  refs,       \* refs[r]: referencedImageIds as finishImageLeases read them
  late,       \* single updates that failed for their handler and may still land
  faults      \* how many faults have happened

db       == <<garment, stored, leased, pins, retained, recorded, evidence>>
upVars   == <<target, captured, view, link>>
rendVars == <<want, ids, kept, write, uncertain, refs>>
vars     == <<db, pc, reclaim, upVars, scope, rendVars, late, faults>>

-----------------------------------------------------------------------------
(* Garments and their photos. *)

Garment == [status : {"absent", "live", "gone"},
            primary : Images \cup {None}, views : SUBSET Images]

Bare(status) == [status |-> status, primary |-> None, views |-> {}]

\* attachmentImageIds: every photo a garment document names.
ImageIds(doc) == ({doc.primary} \cup doc.views) \ {None}

Live     == {g \in Garments : garment[g].status = "live"}
Attached == UNION {ImageIds(garment[g]) : g \in Live}

\* isImagePathReferenced and referencedImageIds: quoted by a stored snapshot.
Referenced == UNION {evidence[s] : s \in recorded}

\* unretainedImageFilter: the predicate of every destructive operation.
Unretained ==
  {i \in stored : i \notin leased /\ pins[i] = {} /\ i \notin retained}

\* The document an upload's compare-and-set leaves behind.
WithPhoto(doc, v, i) ==
  CASE v = "primary" -> [doc EXCEPT !.primary = i]
    [] v = "append"  -> [doc EXCEPT !.views = @ \cup {i}]
    [] OTHER         -> [doc EXCEPT !.views = (@ \ {v}) \cup {i}]

WithoutPhoto(doc, v) ==
  IF v = "primary" THEN [doc EXCEPT !.primary = None]
                   ELSE [doc EXCEPT !.views = @ \ {v}]

-----------------------------------------------------------------------------
(* Initially some garments exist, with photos older than the lease fields. *)

InitialGarment == [status : {"absent", "live"}, primary : Legacy \cup {None}, views : SUBSET Legacy]

Init ==
  /\ garment \in [Garments -> InitialGarment]
  /\ \A g \in Garments :
       /\ garment[g].status = "absent" => garment[g] = Bare("absent")
       /\ garment[g].primary \notin garment[g].views
       /\ Cardinality(garment[g].views) <= MaxSupplemental
  /\ \A g, h \in Garments : g # h => ImageIds(garment[g]) \cap ImageIds(garment[h]) = {}
  /\ stored = Legacy
  /\ leased = {}
  /\ pins = [i \in Images |-> {}]
  /\ retained = {}
  /\ recorded = LegacySnapshots
  /\ evidence \in [Renders \cup LegacySnapshots -> SUBSET Legacy]
  /\ \A r \in Renders : evidence[r] = {}
  /\ Legacy \subseteq Attached \cup Referenced
  /\ pc = [h \in Handlers |-> "idle"]
  /\ reclaim = [h \in Handlers |-> [i \in Images |-> "none"]]
  /\ target \in [Uploads \cup Removals -> Garments]
  /\ captured = [h \in Uploads \cup Removals |-> Bare("absent")]
  /\ view = [h \in Uploads \cup Removals |-> "primary"]
  /\ link = [u \in Uploads |-> "unsent"]
  /\ scope = [c \in Clears |-> {}]
  /\ want = [r \in Renders |-> {}]
  /\ ids = [r \in Renders |-> {}]
  /\ kept = [r \in Renders |-> {}]
  /\ write = [r \in Renders |-> "unsent"]
  /\ uncertain = [r \in Renders |-> FALSE]
  /\ refs = [r \in Renders |-> {}]
  /\ late = {}
  /\ faults = 0

Goto(h, from, to) == pc[h] = from /\ pc' = [pc EXCEPT ![h] = to]

Fail  == faults < MaxFaults /\ faults' = faults + 1
Fault == Fail /\ UNCHANGED late

\* An update fails or its answer is lost: it reaches the server some time, or never.
Lost(op, h, i) == Fail /\ late' = late \cup {[op |-> op, by |-> h, image |-> i]}

-----------------------------------------------------------------------------
(* reclaimWardrobeImage, one database operation at a time. A caller queues *)
(* the photos it wants gone. An upload, a removal and an item deletion     *)
(* await them one by one; a clear and a render run them concurrently.      *)

Queue(h, S) == [reclaim EXCEPT ![h] = [i \in Images |-> IF i \in S THEN "queued" ELSE @[i]]]

InTurn(h, i) ==
  h \in Uploads \cup Removals \cup Deletes =>
    \A j \in Images \ {i} : reclaim[h][j] \in {"none", "queued", "astray"}

Quiet(h) == \A i \in Images : reclaim[h][i] \in {"none", "astray"}

ReclaimSettled(h, i) ==
  /\ reclaim[h][i] = "queued"
  /\ InTurn(h, i)
  /\ reclaim' = [reclaim EXCEPT ![h][i] = IF i \in Unretained THEN "settled" ELSE "none"]
  /\ UNCHANGED <<db, pc, upVars, scope, rendVars, late, faults>>

ReclaimAttached(h, i) ==
  /\ reclaim[h][i] = "settled"
  /\ reclaim' = [reclaim EXCEPT ![h][i] = IF i \in Attached THEN "none" ELSE "unattached"]
  /\ UNCHANGED <<db, pc, upVars, scope, rendVars, late, faults>>

ReclaimReferenced(h, i) ==
  /\ reclaim[h][i] = "unattached"
  /\ reclaim' = [reclaim EXCEPT ![h][i] = IF i \in Referenced THEN "none" ELSE "unreferenced"]
  /\ UNCHANGED <<db, pc, upVars, scope, rendVars, late, faults>>

\* The conditional deleteOne. An "astray" one was sent by a handler that has
\* lost its answer and moved on; it may still reach the server, or never.
ReclaimDelete(h, i) ==
  /\ reclaim[h][i] \in {"unreferenced", "astray"}
  /\ reclaim' = [reclaim EXCEPT ![h][i] = "none"]
  /\ stored' = stored \ ({i} \cap Unretained)
  /\ UNCHANGED <<garment, leased, pins, retained, recorded, evidence>>
  /\ UNCHANGED <<pc, upVars, scope, rendVars, late, faults>>

\* What is left of a handler's reclaims when step i throws.
Abandoned(step) == IF step \in {"unreferenced", "astray"} THEN "astray" ELSE "none"

\* A failed operation ends the caller's loop. DELETE /api/wardrobe/[id] catches
\* it photo by photo, and the concurrent callers lose that photo only.
ReclaimFails(h, i) ==
  /\ Fault
  /\ reclaim[h][i] \notin {"none", "astray"}
  /\ InTurn(h, i)
  /\ reclaim' = [reclaim EXCEPT ![h] = [j \in Images |->
                   IF j = i \/ h \in Uploads \cup Removals THEN Abandoned(@[j]) ELSE @[j]]]
  /\ UNCHANGED <<db, pc, upVars, scope, rendVars>>

Reclaim(h, i) ==
  \/ ReclaimSettled(h, i)
  \/ ReclaimAttached(h, i)
  \/ ReclaimReferenced(h, i)
  \/ ReclaimDelete(h, i)

-----------------------------------------------------------------------------
(* POST /api/wardrobe: a new garment has no photos. *)

AddGarment(g) ==
  /\ garment[g].status = "absent"
  /\ garment' = [garment EXCEPT ![g] = Bare("live")]
  /\ UNCHANGED <<stored, leased, pins, retained, recorded, evidence>>
  /\ UNCHANGED <<pc, reclaim, upVars, scope, rendVars, late, faults>>

-----------------------------------------------------------------------------
(* POST /api/wardrobe/[id]/image: store the bytes leased, attach them by   *)
(* compare-and-set on what was read, reclaim what they replaced, and at    *)
(* the end (finishMutation) drop the lease and reclaim the new photo too,  *)
(* unless the compare-and-set has an unknown outcome.                      *)

UploadRead(u, g, v) ==
  /\ Goto(u, "idle", "read")
  /\ g \in Live
  /\ \/ v = "primary"
     \/ v = "append" /\ Cardinality(garment[g].views) < MaxSupplemental
     \/ v \in garment[g].views
  /\ target' = [target EXCEPT ![u] = g]
  /\ captured' = [captured EXCEPT ![u] = garment[g]]
  /\ view' = [view EXCEPT ![u] = v]
  /\ UNCHANGED <<db, reclaim, link, scope, rendVars, late, faults>>

\* Over the storage budget, or bytes that are no photo.
UploadRefused(u) ==
  /\ Goto(u, "read", "done")
  /\ UNCHANGED <<db, reclaim, upVars, scope, rendVars, late, faults>>

\* uploadWardrobeImage: the row is born with its lease.
StoreLeased(u) ==
  /\ stored' = stored \cup {u}
  /\ leased' = leased \cup {u}

UploadStore(u) ==
  /\ Goto(u, "read", "stored")
  /\ StoreLeased(u)
  /\ UNCHANGED <<garment, pins, retained, recorded, evidence>>
  /\ UNCHANGED <<reclaim, upVars, scope, rendVars, late, faults>>

\* The insert's answer is lost: the handler reconciles by the id it preassigned.
UploadStoreLost(u) ==
  /\ Lost("store", u, u)
  /\ Goto(u, "read", "release")
  /\ UNCHANGED <<db, reclaim, upVars, scope, rendVars>>

UploadSend(u) ==
  /\ Goto(u, "stored", "linking")
  /\ link' = [link EXCEPT ![u] = "sent"]
  /\ UNCHANGED <<db, reclaim, target, captured, view, scope, rendVars, late, faults>>

\* Mutant of LinkLands: the update is keyed by the garment's id alone.
LinkLandsBlindly(u) ==
  /\ link[u] = "sent"
  /\ IF garment[target[u]].status = "live"
       THEN /\ garment' = [garment EXCEPT ![target[u]] = WithPhoto(captured[u], view[u], u)]
            /\ link' = [link EXCEPT ![u] = "applied"]
       ELSE /\ link' = [link EXCEPT ![u] = "missed"]
            /\ UNCHANGED garment
  /\ UNCHANGED <<stored, leased, pins, retained, recorded, evidence>>
  /\ UNCHANGED <<pc, reclaim, target, captured, view, scope, rendVars, late, faults>>

\* attachmentCAS as the server applies it: exact equality with what was read.
LinkLands(u) ==
  /\ link[u] = "sent"
  /\ IF garment[target[u]] = captured[u]
       THEN /\ garment' = [garment EXCEPT ![target[u]] = WithPhoto(captured[u], view[u], u)]
            /\ link' = [link EXCEPT ![u] = "applied"]
       ELSE /\ link' = [link EXCEPT ![u] = "missed"]
            /\ UNCHANGED garment
  /\ UNCHANGED <<stored, leased, pins, retained, recorded, evidence>>
  /\ UNCHANGED <<pc, reclaim, target, captured, view, scope, rendVars, late, faults>>

Replaced(u) == ImageIds(captured[u]) \ ImageIds(WithPhoto(captured[u], view[u], u))

UploadLinked(u) ==
  /\ \/ /\ link[u] = "applied"
        /\ Goto(u, "linking", "replacing")
        /\ reclaim' = Queue(u, Replaced(u))
     \/ /\ link[u] = "missed"
        /\ Goto(u, "linking", "release")
        /\ UNCHANGED reclaim
  /\ UNCHANGED <<db, upVars, scope, rendVars, late, faults>>

\* Mutant of UploadLinkLost: a lost answer is taken for a missed compare-and-set.
UploadLinkForgotten(u) ==
  /\ Fault
  /\ Goto(u, "linking", "release")
  /\ UNCHANGED <<db, reclaim, upVars, scope, rendVars>>

\* linkUncertain: the compare-and-set may land later, so the lease stays.
UploadLinkLost(u) ==
  /\ Fault
  /\ Goto(u, "linking", "done")
  /\ UNCHANGED <<db, reclaim, upVars, scope, rendVars>>

UploadReplaced(u) ==
  /\ Quiet(u)
  /\ Goto(u, "replacing", "release")
  /\ UNCHANGED <<db, reclaim, upVars, scope, rendVars, late, faults>>

UploadRelease(u) ==
  /\ Goto(u, "release", "settling")
  /\ leased' = leased \ {u}
  /\ reclaim' = Queue(u, {u})
  /\ UNCHANGED <<garment, stored, pins, retained, recorded, evidence>>
  /\ UNCHANGED <<upVars, scope, rendVars, late, faults>>

UploadReleaseLost(u) ==
  /\ Lost("unlease", u, u)
  /\ Goto(u, "release", "done")
  /\ UNCHANGED <<db, reclaim, upVars, scope, rendVars>>

UploadDone(u) ==
  /\ Quiet(u)
  /\ Goto(u, "settling", "done")
  /\ UNCHANGED <<db, reclaim, upVars, scope, rendVars, late, faults>>

Upload(u) ==
  \/ \E g \in Garments : \E v \in {"primary", "append"} \cup Images : UploadRead(u, g, v)
  \/ UploadRefused(u) \/ UploadStore(u) \/ UploadStoreLost(u)
  \/ UploadSend(u) \/ LinkLands(u) \/ UploadLinked(u) \/ UploadLinkLost(u)
  \/ UploadReplaced(u) \/ UploadRelease(u) \/ UploadReleaseLost(u) \/ UploadDone(u)

-----------------------------------------------------------------------------
(* DELETE /api/wardrobe/[id]/image: detach one view by compare-and-set. *)

RemovalRead(d, g, v) ==
  /\ Goto(d, "idle", "read")
  /\ g \in Live
  /\ \/ v = "primary" /\ garment[g].primary # None
     \/ v \in garment[g].views
  /\ target' = [target EXCEPT ![d] = g]
  /\ captured' = [captured EXCEPT ![d] = garment[g]]
  /\ view' = [view EXCEPT ![d] = v]
  /\ UNCHANGED <<db, reclaim, link, scope, rendVars, late, faults>>

Removed(d) == ImageIds(captured[d]) \ ImageIds(WithoutPhoto(captured[d], view[d]))

RemovalDetach(d) ==
  /\ IF garment[target[d]] = captured[d]
       THEN /\ Goto(d, "read", "reclaiming")
            /\ garment' = [garment EXCEPT ![target[d]] = WithoutPhoto(captured[d], view[d])]
            /\ reclaim' = Queue(d, Removed(d))
       ELSE /\ Goto(d, "read", "done")
            /\ UNCHANGED <<garment, reclaim>>
  /\ UNCHANGED <<stored, leased, pins, retained, recorded, evidence>>
  /\ UNCHANGED <<upVars, scope, rendVars, late, faults>>

\* The update lands, its answer does not: nothing is reclaimed.
RemovalLost(d) ==
  /\ Fault
  /\ Goto(d, "read", "done")
  /\ garment[target[d]] = captured[d]
  /\ garment' = [garment EXCEPT ![target[d]] = WithoutPhoto(captured[d], view[d])]
  /\ UNCHANGED <<stored, leased, pins, retained, recorded, evidence>>
  /\ UNCHANGED <<reclaim, upVars, scope, rendVars>>

Removal(d) ==
  \/ \E g \in Garments : \E v \in {"primary"} \cup Images : RemovalRead(d, g, v)
  \/ RemovalDetach(d)
  \/ RemovalLost(d)

(* DELETE /api/wardrobe/[id]: delete the garment, then reclaim its photos. *)

DeleteGarment(d, g) ==
  /\ Goto(d, "idle", "reclaiming")
  /\ g \in Live
  /\ garment' = [garment EXCEPT ![g] = Bare("gone")]
  /\ reclaim' = Queue(d, ImageIds(garment[g]))
  /\ UNCHANGED <<stored, leased, pins, retained, recorded, evidence>>
  /\ UNCHANGED <<upVars, scope, rendVars, late, faults>>

DeleteLost(d, g) ==
  /\ Fault
  /\ Goto(d, "idle", "done")
  /\ g \in Live
  /\ garment' = [garment EXCEPT ![g] = Bare("gone")]
  /\ UNCHANGED <<stored, leased, pins, retained, recorded, evidence>>
  /\ UNCHANGED <<reclaim, upVars, scope, rendVars>>

(* DELETE /api/wardrobe/clear: delete every garment, one document at a     *)
(* time, then sweep the settled photos. A delete whose answer was lost may *)
(* still be running, and then the sweep does not take place.               *)

ClearStart(c) ==
  /\ Goto(c, "idle", "deleting")
  /\ scope' = [scope EXCEPT ![c] = Live]
  /\ UNCHANGED <<db, reclaim, upVars, rendVars, late, faults>>

ClearDelete(c, g) ==
  /\ g \in scope[c]
  /\ scope' = [scope EXCEPT ![c] = @ \ {g}]
  /\ garment' = [garment EXCEPT ![g] = Bare("gone")]
  /\ UNCHANGED <<stored, leased, pins, retained, recorded, evidence>>
  /\ UNCHANGED <<pc, reclaim, upVars, rendVars, late, faults>>

ClearAcknowledged(c) ==
  /\ scope[c] = {}
  /\ Goto(c, "deleting", "listing")
  /\ UNCHANGED <<db, reclaim, upVars, scope, rendVars, late, faults>>

ClearSweep(c) ==
  /\ Goto(c, "listing", "reclaiming")
  /\ reclaim' = Queue(c, Unretained)
  /\ UNCHANGED <<db, upVars, scope, rendVars, late, faults>>

Clear(c) ==
  \/ ClearStart(c) \/ ClearAcknowledged(c) \/ ClearSweep(c)
  \/ \E g \in Garments : ClearDelete(c, g)

\* The end of the three routes whose last step is to reclaim.
Finish(h) ==
  /\ Quiet(h)
  /\ Goto(h, "reclaiming", "done")
  /\ UNCHANGED <<db, reclaim, upVars, scope, rendVars, late, faults>>

-----------------------------------------------------------------------------
(* POST /api/recommend, as far as photos go: read the garments, pin each   *)
(* primary photo, call the service, write the snapshot, and in the finally *)
(* block (finishImageLeases) turn the pins into snapshotRetained or drop   *)
(* them. What the route does with request ids is in ExperienceStore.        *)

RenderRead(r, G) ==
  /\ Goto(r, "idle", "pinning")
  /\ want' = [want EXCEPT ![r] = {garment[g].primary : g \in G} \ {None}]
  /\ UNCHANGED <<db, reclaim, upVars, scope, ids, kept, write, uncertain, refs, late, faults>>

Pinned(r, i) == [pins EXCEPT ![i] = IF i \in stored THEN @ \cup {r} ELSE @]

\* A photo whose row is gone is left out of the evidence.
RenderPin(r, i) ==
  /\ pc[r] = "pinning"
  /\ i \in want[r]
  /\ want' = [want EXCEPT ![r] = @ \ {i}]
  /\ ids' = [ids EXCEPT ![r] = @ \cup {i}]
  /\ pins' = Pinned(r, i)
  /\ kept' = [kept EXCEPT ![r] = @ \cup ({i} \cap stored)]
  /\ UNCHANGED <<garment, stored, leased, retained, recorded, evidence>>
  /\ UNCHANGED <<pc, reclaim, upVars, scope, write, uncertain, refs, late, faults>>

\* The pin may have landed all the same: its id is already in activeLease.ids.
RenderPinFails(r, i) ==
  /\ Lost("pin", r, i)
  /\ Goto(r, "pinning", "finish")
  /\ i \in want[r]
  /\ want' = [want EXCEPT ![r] = {}]
  /\ ids' = [ids EXCEPT ![r] = @ \cup {i}]
  /\ UNCHANGED <<db, reclaim, upVars, scope, kept, write, uncertain, refs>>

\* Every early return and degraded state between the pins and the write.
RenderDegraded(r) ==
  /\ want[r] = {}
  /\ Goto(r, "pinning", "finish")
  /\ UNCHANGED <<db, reclaim, upVars, scope, rendVars, late, faults>>

RenderSend(r, E) ==
  /\ want[r] = {}
  /\ Goto(r, "pinning", "writing")
  /\ write' = [write EXCEPT ![r] = "sent"]
  /\ evidence' = [evidence EXCEPT ![r] = E]
  /\ UNCHANGED <<garment, stored, leased, pins, retained, recorded>>
  /\ UNCHANGED <<reclaim, upVars, scope, want, ids, kept, uncertain, refs, late, faults>>

SnapshotLands(r) ==
  /\ write[r] = "sent"
  /\ write' = [write EXCEPT ![r] = "landed"]
  /\ recorded' = recorded \cup {r}
  /\ UNCHANGED <<garment, stored, leased, pins, retained, evidence>>
  /\ UNCHANGED <<pc, reclaim, upVars, scope, want, ids, kept, uncertain, refs, late, faults>>

\* Another render holds the request id, or the row or its owner is refused.
SnapshotRejected(r) ==
  /\ write[r] = "sent"
  /\ write' = [write EXCEPT ![r] = "rejected"]
  /\ UNCHANGED <<db, pc, reclaim, upVars, scope, want, ids, kept, uncertain, refs, late, faults>>

RenderAnswered(r) ==
  /\ write[r] \in {"landed", "rejected"}
  /\ Goto(r, "writing", "finish")
  /\ UNCHANGED <<db, reclaim, upVars, scope, rendVars, late, faults>>

RenderAnswerLost(r) ==
  /\ Fault
  /\ Goto(r, "writing", "finish")
  /\ uncertain' = [uncertain EXCEPT ![r] = TRUE]
  /\ UNCHANGED <<db, reclaim, upVars, scope, want, ids, kept, write, refs>>

RenderReconcile(r) ==
  /\ Goto(r, "finish", "releasing")
  /\ refs' = [refs EXCEPT ![r] = Referenced]
  /\ UNCHANGED <<db, reclaim, upVars, scope, want, ids, kept, write, uncertain, late, faults>>

\* Promotion and removal of this render's pin are one update.
Promote(r, i) ==
  /\ pins' = [pins EXCEPT ![i] = @ \ {r}]
  /\ retained' = IF i \in refs[r] THEN retained \cup ({i} \cap stored) ELSE retained

\* Mutant of Releasable: an uncertain snapshot write is treated as a failed one.
AlwaysReleasable(r, i) == TRUE

\* An image no snapshot quotes keeps its pin while the write is uncertain.
Releasable(r, i) == i \in refs[r] \/ ~uncertain[r]

\* Mutant of RenderRelease: the last pin goes and nobody reclaims the photo.
RenderReleaseOnly(r, i) ==
  /\ pc[r] = "releasing"
  /\ i \in ids[r]
  /\ ids' = [ids EXCEPT ![r] = @ \ {i}]
  /\ IF Releasable(r, i) THEN Promote(r, i) ELSE UNCHANGED <<pins, retained>>
  /\ UNCHANGED <<garment, stored, leased, recorded, evidence, reclaim>>
  /\ UNCHANGED <<pc, upVars, scope, want, kept, write, uncertain, refs, late, faults>>

RenderRelease(r, i) ==
  /\ pc[r] = "releasing"
  /\ i \in ids[r]
  /\ ids' = [ids EXCEPT ![r] = @ \ {i}]
  /\ IF Releasable(r, i)
       THEN /\ Promote(r, i)
            /\ reclaim' = Queue(r, {i} \ refs[r])
       ELSE UNCHANGED <<pins, retained, reclaim>>
  /\ UNCHANGED <<garment, stored, leased, recorded, evidence>>
  /\ UNCHANGED <<pc, upVars, scope, want, kept, write, uncertain, refs, late, faults>>

\* The update fails, or its answer is lost: the image is not reclaimed.
RenderReleaseFails(r, i) ==
  /\ Lost("promote", r, i)
  /\ pc[r] = "releasing"
  /\ i \in ids[r]
  /\ Releasable(r, i)
  /\ ids' = [ids EXCEPT ![r] = @ \ {i}]
  /\ UNCHANGED <<db, pc, reclaim, upVars, scope, want, kept, write, uncertain, refs>>

RenderDone(r) ==
  /\ ids[r] = {}
  /\ Quiet(r)
  /\ Goto(r, "releasing", "done")
  /\ UNCHANGED <<db, reclaim, upVars, scope, rendVars, late, faults>>

Render(r) ==
  \/ \E G \in SUBSET Live : RenderRead(r, G)
  \/ \E i \in Images : \/ RenderPin(r, i) \/ RenderPinFails(r, i)
                       \/ RenderRelease(r, i) \/ RenderReleaseFails(r, i)
  \/ RenderDegraded(r)
  \/ \E E \in SUBSET kept[r] : RenderSend(r, E)
  \/ SnapshotLands(r) \/ SnapshotRejected(r) \/ RenderAnswered(r) \/ RenderAnswerLost(r)
  \/ RenderReconcile(r) \/ RenderDone(r)

-----------------------------------------------------------------------------
(* The process dies, or a read throws where the handler only reports it.   *)
(* What was already sent may still reach the server: an upload's           *)
(* compare-and-set, a snapshot, a reclaim's delete, and the updates below. *)

Crash(h) ==
  /\ Fault
  /\ pc[h] \notin {"idle", "done"}
  /\ pc' = [pc EXCEPT ![h] = "done"]
  /\ reclaim' = [reclaim EXCEPT ![h] = [i \in Images |-> Abandoned(@[i])]]
  /\ UNCHANGED <<db, upVars, scope, rendVars>>

LateLands(w) ==
  /\ late' = late \ {w}
  /\ \/ w.op = "store" /\ StoreLeased(w.image) /\ UNCHANGED <<pins, retained>>
     \/ w.op = "unlease" /\ leased' = leased \ {w.image} /\ UNCHANGED <<stored, pins, retained>>
     \/ w.op = "pin" /\ pins' = Pinned(w.by, w.image) /\ UNCHANGED <<stored, leased, retained>>
     \/ w.op = "promote" /\ Promote(w.by, w.image) /\ UNCHANGED <<stored, leased>>
  /\ UNCHANGED <<garment, recorded, evidence, pc, reclaim, upVars, scope, rendVars, faults>>

Next ==
  \/ \E g \in Garments : AddGarment(g)
  \/ \E u \in Uploads : Upload(u)
  \/ \E d \in Removals : Removal(d)
  \/ \E d \in Deletes : \E g \in Garments : DeleteGarment(d, g) \/ DeleteLost(d, g)
  \/ \E c \in Clears : Clear(c)
  \/ \E r \in Renders : Render(r)
  \/ \E h \in Handlers : Crash(h) \/ Finish(h)
  \/ \E h \in Handlers : \E i \in Images : Reclaim(h, i) \/ ReclaimFails(h, i)
  \/ \E w \in late : LateLands(w)

Spec == Init /\ [][Next]_vars

-----------------------------------------------------------------------------
(* Fairness: a request that has started is carried on by the event loop,   *)
(* and the server answers it. Starting one, and the late landing of a      *)
(* write whose handler has moved on, are nobody's obligation.              *)

Running(h) == pc[h] \notin {"idle", "done"}

Fairness ==
  /\ \A u \in Uploads  : WF_vars(Running(u) /\ Upload(u))
  /\ \A d \in Removals : WF_vars(Running(d) /\ Removal(d))
  /\ \A c \in Clears   : WF_vars(Running(c) /\ Clear(c))
  /\ \A r \in Renders  : WF_vars(Running(r) /\ Render(r))
  /\ \A h \in Handlers : WF_vars(Finish(h))
  /\ \A h \in Handlers : \A i \in Images : WF_vars(Running(h) /\ Reclaim(h, i))

FairSpec == Spec /\ Fairness

-----------------------------------------------------------------------------
(* Properties. *)

UploadPC == {"idle", "read", "stored", "linking", "replacing", "release", "settling", "done"}
RenderPC == {"idle", "pinning", "writing", "finish", "releasing", "done"}
RoutePC  == {"idle", "read", "deleting", "listing", "reclaiming", "done"}
PCs      == UploadPC \cup RenderPC \cup RoutePC
Steps    == {"none", "queued", "settled", "unattached", "unreferenced", "astray"}

LateWrites == [op : {"store", "unlease"}, by : Uploads, image : Uploads]
              \cup [op : {"pin", "promote"}, by : Renders, image : Images]

\* The types of the collections and of the requests' local state.
TypeOK ==
  /\ garment \in [Garments -> Garment]
  /\ stored \subseteq Images
  /\ leased \subseteq Uploads
  /\ pins \in [Images -> SUBSET Renders]
  /\ retained \subseteq Images
  /\ recorded \subseteq Renders \cup LegacySnapshots
  /\ evidence \in [Renders \cup LegacySnapshots -> SUBSET Images]
  /\ pc \in [Handlers -> PCs]
  /\ reclaim \in [Handlers -> [Images -> Steps]]
  /\ target \in [Uploads \cup Removals -> Garments]
  /\ captured \in [Uploads \cup Removals -> Garment]
  /\ view \in [Uploads \cup Removals -> {"primary", "append"} \cup Images]
  /\ link \in [Uploads -> {"unsent", "sent", "applied", "missed"}]
  /\ scope \in [Clears -> SUBSET Garments]
  /\ want \in [Renders -> SUBSET Images]
  /\ ids \in [Renders -> SUBSET Images]
  /\ kept \in [Renders -> SUBSET Images]
  /\ write \in [Renders -> {"unsent", "sent", "landed", "rejected"}]
  /\ uncertain \in [Renders -> BOOLEAN]
  /\ refs \in [Renders -> SUBSET Images]
  /\ late \subseteq LateWrites
  /\ faults \in Nat

\* Invariants behind the properties below. A photo that an upload can still
\* hang on a garment is leased from the moment its bytes exist.
Attachable(i) ==
  /\ i \in Uploads
  /\ \/ link[i] = "sent"
     \/ link[i] = "unsent" /\ pc[i] \in {"idle", "read", "stored"}

LeaseInv ==
  \A u \in Uploads :
    /\ pc[u] = "stored" \/ link[u] = "sent" => u \in stored
    /\ Attachable(u) /\ u \in stored => u \in leased
    /\ link[u] = "sent" => pc[u] \in {"linking", "done"}
    /\ pc[u] \in {"idle", "read", "stored"} => link[u] = "unsent"

\* What a reclaim has read stays true until it deletes: the photo is out of
\* every upload's hands, off every garment, and quoted by no snapshot that is
\* not protected by a pin or the retained flag.
ReclaimInv ==
  \A h \in Handlers : \A i \in Images :
    /\ reclaim[h][i] \notin {"none", "queued"} => ~Attachable(i)
    /\ reclaim[h][i] \in {"unattached", "unreferenced", "astray"} => i \notin Attached
    /\ reclaim[h][i] \in {"unreferenced", "astray"} =>
         \A s \in LegacySnapshots : i \notin evidence[s]

Protected(r, i) == i \in stored /\ (r \in pins[i] \/ i \in retained)

\* A render's evidence is protected from the pin to the promotion, and a pin is
\* dropped unpromoted only when the snapshot is known not to quote the photo.
EvidenceInv ==
  /\ LegacySnapshots \subseteq recorded
  /\ \A s \in LegacySnapshots : evidence[s] \subseteq stored
  /\ \A r \in Renders :
       /\ r \in recorded <=> write[r] = "landed"
       /\ write[r] \in {"sent", "landed"} => \A i \in evidence[r] : Protected(r, i)
       /\ pc[r] \in {"idle", "pinning"} => write[r] = "unsent"
       /\ pc[r] = "idle" => kept[r] = {}
       /\ pc[r] = "pinning" => \A i \in kept[r] : i \in stored /\ r \in pins[i]
       /\ pc[r] \in {"finish", "releasing"} /\ ~uncertain[r] => write[r] # "sent"
       /\ pc[r] = "releasing" /\ ~uncertain[r] /\ write[r] = "landed" => evidence[r] \subseteq refs[r]

\* An update that is still to land was safe when it was sent, and stays so.
Unneeded(r, i) ==
  /\ pc[r] \in {"releasing", "done"}
  /\ i \in refs[r] \/ (write[r] # "sent" /\ (write[r] = "landed" => i \notin evidence[r]))

LateInv ==
  \A w \in late :
    /\ w.op = "unlease" => ~Attachable(w.image)
    /\ w.op = "promote" => Unneeded(w.by, w.image)

\* A garment never shows a photo whose bytes are gone: whatever the uploads,
\* removals, deletions, clears and renders do to each other, and whatever
\* answers are lost, no reclaim deletes an attached photo.
AttachedPhotosStored == Attached \subseteq stored

\* A stored snapshot's evidence stays resolvable: the bytes it quotes outlive
\* the garments, the leases and every sweep, also when the snapshot's insert
\* is acknowledged late or never, and for snapshots older than the pins.
EvidencePhotosStored == Referenced \subseteq stored

\* Settled ids cannot be reattached: once a stored photo has no lease and hangs
\* on no garment, no later step hangs it on one. It is what makes the reads of
\* reclaimWardrobeImage safe to act on after they were taken.
Settled(i) == i \in stored /\ i \notin leased /\ i \notin Attached

SettledNeverReattached ==
  [][\A i \in Images : Settled(i) => i \notin Attached']_vars

\* Bytes do not leak: while no call fails, a stored photo on no garment and in
\* no snapshot is deleted, attached or quoted in the end, although each reclaim
\* gives up as soon as it meets another request's lease or pin.
Garbage(i) == i \in stored /\ i \notin Attached \cup Referenced

GarbageIsReclaimed ==
  \A i \in Images : (faults = 0 /\ Garbage(i)) ~> (faults > 0 \/ ~Garbage(i))

RetentionInv ==
  /\ TypeOK
  /\ LeaseInv
  /\ ReclaimInv
  /\ AttachedPhotosStored
  /\ EvidenceInv
  /\ LateInv
=============================================================================
