------------------------ MODULE PhotoRetentionProofs ------------------------
(* Proofs that no reclaim deletes a photo a garment or a snapshot still needs. *)
EXTENDS PhotoRetention, TLAPS

\* Attaching a photo adds that photo and nothing else to the garment.
LEMMA WithPhotoDoc ==
  ASSUME NEW doc \in Garment, NEW v \in {"primary", "append"} \cup Images, NEW i \in Images
  PROVE  /\ WithPhoto(doc, v, i) \in Garment
         /\ WithPhoto(doc, v, i).status = doc.status
         /\ ImageIds(WithPhoto(doc, v, i)) \subseteq ImageIds(doc) \cup {i}
BY RetentionAssumption DEF WithPhoto, ImageIds, Garment

\* Detaching a view adds nothing.
LEMMA WithoutPhotoDoc ==
  ASSUME NEW doc \in Garment, NEW v \in {"primary", "append"} \cup Images
  PROVE  /\ WithoutPhoto(doc, v) \in Garment
         /\ WithoutPhoto(doc, v).status = doc.status
         /\ ImageIds(WithoutPhoto(doc, v)) \subseteq ImageIds(doc)
BY RetentionAssumption DEF WithoutPhoto, ImageIds, Garment

\* A garment that was just created or deleted names no photo.
LEMMA BareDoc ==
  ASSUME NEW st \in {"absent", "live", "gone"}
  PROVE  Bare(st) \in Garment /\ ImageIds(Bare(st)) = {} /\ Bare(st).status = st
BY DEF Bare, Garment, ImageIds

\* Queueing photos only moves steps of the caller.
LEMMA QueueType ==
  ASSUME reclaim \in [Handlers -> [Images -> Steps]], NEW h \in Handlers, NEW S
  PROVE  Queue(h, S) \in [Handlers -> [Images -> Steps]]
BY DEF Queue, Steps

\* A handler that moves on is at a known place.
LEMMA GotoType ==
  ASSUME pc \in [Handlers -> PCs], NEW h \in Handlers, NEW from, NEW to \in PCs, Goto(h, from, to)
  PROVE  pc' \in [Handlers -> PCs]
BY DEF Goto

\* A fault leaves the count of faults a natural number, and no update to land late.
LEMMA FaultType ==
  ASSUME faults \in Nat, Fault
  PROVE  faults' \in Nat /\ late' = late
BY DEF Fault, Fail

\* A lost update is remembered by its handler and its photo.
LEMMA LostType ==
  ASSUME faults \in Nat, late \subseteq LateWrites, NEW op, NEW h, NEW i, Lost(op, h, i),
         \/ op \in {"store", "unlease"} /\ h \in Uploads /\ i \in Uploads
         \/ op \in {"pin", "promote"} /\ h \in Renders /\ i \in Images
  PROVE  faults' \in Nat /\ late' \subseteq LateWrites
<1>1. [op |-> op, by |-> h, image |-> i] \in LateWrites
  BY DEF LateWrites
<1> QED BY <1>1 DEF Lost, Fail

\* What an update that may land late is about.
LEMMA LateType ==
  ASSUME TypeOK, NEW w \in late
  PROVE  \/ w.op \in {"store", "unlease"} /\ w.by \in Uploads /\ w.image \in Uploads
         \/ w.op \in {"pin", "promote"} /\ w.by \in Renders /\ w.image \in Images
<1>1. w \in LateWrites
  BY DEF TypeOK, LateWrites
<1> QED BY <1>1 DEF LateWrites

\* Each kind of request is a kind of handler.
LEMMA HandlerSets ==
  /\ Uploads \subseteq Handlers /\ Removals \subseteq Handlers /\ Deletes \subseteq Handlers
  /\ Clears \subseteq Handlers /\ Renders \subseteq Handlers
  /\ Uploads \subseteq Images
BY DEF Handlers, Images

\* Every place a request can be at is a legal value of pc.
LEMMA PCNames ==
  PCs = {"idle", "read", "stored", "linking", "replacing", "release", "settling", "done",
         "pinning", "writing", "finish", "releasing", "deleting", "listing", "reclaiming"}
BY DEF PCs, UploadPC, RenderPC, RoutePC

\* Every collection and every request's local state keeps its type.
LEMMA TypeStep == TypeOK /\ [Next]_vars => TypeOK'
<1> SUFFICES ASSUME TypeOK, [Next]_vars PROVE TypeOK'
  OBVIOUS
<1> USE DEF TypeOK, db, upVars, rendVars
<1> USE HandlerSets, PCNames
<1>0. ASSUME UNCHANGED vars PROVE TypeOK'
  BY <1>0 DEF vars
<1>1. ASSUME NEW g \in Garments, AddGarment(g) PROVE TypeOK'
  BY <1>1, BareDoc DEF AddGarment
<1>2. ASSUME NEW u \in Uploads, Upload(u) PROVE TypeOK'
  <2>1. ASSUME NEW g \in Garments, NEW v \in {"primary", "append"} \cup Images, UploadRead(u, g, v)
        PROVE TypeOK'
    BY <2>1, GotoType DEF UploadRead
  <2>2. CASE UploadRefused(u)
    BY <2>2, GotoType DEF UploadRefused
  <2>3. CASE UploadStore(u)
    BY <2>3, GotoType DEF UploadStore, StoreLeased
  <2>4. CASE UploadStoreLost(u)
    BY <2>4, GotoType, LostType DEF UploadStoreLost, LateWrites
  <2>5. CASE UploadSend(u)
    BY <2>5, GotoType DEF UploadSend
  <2>6. CASE LinkLands(u)
    <3>1. garment' \in [Garments -> Garment]
      <4>1. WithPhoto(captured[u], view[u], u) \in Garment
        BY WithPhotoDoc
      <4> QED BY <2>6, <4>1 DEF LinkLands
    <3>2. link' \in [Uploads -> {"unsent", "sent", "applied", "missed"}]
      BY <2>6 DEF LinkLands
    <3> QED BY <2>6, <3>1, <3>2 DEF LinkLands
  <2>7. CASE UploadLinked(u)
    BY <2>7, QueueType, GotoType DEF UploadLinked
  <2>8. CASE UploadLinkLost(u)
    BY <2>8, GotoType, FaultType DEF UploadLinkLost
  <2>9. CASE UploadReplaced(u)
    BY <2>9, GotoType DEF UploadReplaced
  <2>10. CASE UploadRelease(u)
    BY <2>10, GotoType, QueueType DEF UploadRelease
  <2>11. CASE UploadReleaseLost(u)
    BY <2>11, GotoType, LostType DEF UploadReleaseLost, LateWrites
  <2>12. CASE UploadDone(u)
    BY <2>12, GotoType DEF UploadDone
  <2> QED BY <1>2, <2>1, <2>2, <2>3, <2>4, <2>5, <2>6, <2>7, <2>8, <2>9, <2>10, <2>11, <2>12 DEF Upload
<1>3. ASSUME NEW d \in Removals, Removal(d) PROVE TypeOK'
  <2>1. ASSUME NEW g \in Garments, NEW v \in {"primary"} \cup Images, RemovalRead(d, g, v)
        PROVE TypeOK'
    BY <2>1, GotoType DEF RemovalRead
  <2>2. CASE RemovalDetach(d)
    <3>1. garment' \in [Garments -> Garment]
      <4>1. WithoutPhoto(captured[d], view[d]) \in Garment
        BY WithoutPhotoDoc
      <4> QED BY <2>2, <4>1 DEF RemovalDetach
    <3>2. reclaim' \in [Handlers -> [Images -> Steps]] /\ pc' \in [Handlers -> PCs]
      BY <2>2, QueueType, GotoType DEF RemovalDetach
    <3> QED BY <2>2, <3>1, <3>2 DEF RemovalDetach
  <2>3. CASE RemovalLost(d)
    BY <2>3, GotoType, FaultType, WithoutPhotoDoc DEF RemovalLost
  <2> QED BY <1>3, <2>1, <2>2, <2>3 DEF Removal
<1>4. ASSUME NEW d \in Deletes, NEW g \in Garments, DeleteGarment(d, g) \/ DeleteLost(d, g) PROVE TypeOK'
  <2>1. CASE DeleteGarment(d, g)
    BY <2>1, GotoType, QueueType, BareDoc DEF DeleteGarment
  <2>2. CASE DeleteLost(d, g)
    BY <2>2, GotoType, FaultType, BareDoc DEF DeleteLost
  <2> QED BY <1>4, <2>1, <2>2
<1>5. ASSUME NEW c \in Clears, Clear(c) PROVE TypeOK'
  <2>1. CASE ClearStart(c)
    BY <2>1, GotoType DEF ClearStart, Live
  <2>2. CASE ClearAcknowledged(c)
    BY <2>2, GotoType DEF ClearAcknowledged
  <2>3. CASE ClearSweep(c)
    BY <2>3, GotoType, QueueType DEF ClearSweep
  <2>4. ASSUME NEW g \in Garments, ClearDelete(c, g) PROVE TypeOK'
    BY <2>4, BareDoc DEF ClearDelete
  <2> QED BY <1>5, <2>1, <2>2, <2>3, <2>4 DEF Clear
<1>6. ASSUME NEW r \in Renders, Render(r) PROVE TypeOK'
  <2>1. ASSUME NEW G \in SUBSET Live, RenderRead(r, G) PROVE TypeOK'
    BY <2>1, GotoType DEF RenderRead, Live, Garment
  <2>2. ASSUME NEW i \in Images, RenderPin(r, i) PROVE TypeOK'
    BY <2>2 DEF RenderPin, Pinned
  <2>3. ASSUME NEW i \in Images, RenderPinFails(r, i) PROVE TypeOK'
    BY <2>3, GotoType, LostType DEF RenderPinFails, LateWrites
  <2>4. ASSUME NEW i \in Images, RenderRelease(r, i) PROVE TypeOK'
    <3>1. pins' \in [Images -> SUBSET Renders] /\ retained' \subseteq Images
      <4>1. CASE Promote(r, i)
        BY <4>1 DEF Promote
      <4>2. CASE UNCHANGED <<pins, retained>>
        BY <4>2
      <4> QED BY <2>4, <4>1, <4>2 DEF RenderRelease
    <3>2. reclaim' \in [Handlers -> [Images -> Steps]]
      BY <2>4, QueueType DEF RenderRelease
    <3> QED BY <2>4, <3>1, <3>2 DEF RenderRelease
  <2>5. ASSUME NEW i \in Images, RenderReleaseFails(r, i) PROVE TypeOK'
    BY <2>5, LostType DEF RenderReleaseFails, LateWrites
  <2>6. ASSUME NEW E \in SUBSET kept[r], RenderSend(r, E) PROVE TypeOK'
    BY <2>6, GotoType DEF RenderSend
  <2>7. CASE RenderDegraded(r)
    BY <2>7, GotoType DEF RenderDegraded
  <2>8. CASE RenderAnswered(r)
    BY <2>8, GotoType DEF RenderAnswered
  <2>9. CASE RenderAnswerLost(r)
    BY <2>9, GotoType, FaultType DEF RenderAnswerLost
  <2>10. CASE RenderDone(r)
    BY <2>10, GotoType DEF RenderDone
  <2>11. CASE SnapshotLands(r)
    BY <2>11 DEF SnapshotLands
  <2>12. CASE SnapshotRejected(r)
    BY <2>12 DEF SnapshotRejected
  <2>13. CASE RenderReconcile(r)
    BY <2>13, GotoType DEF RenderReconcile, Referenced
  <2> QED BY <1>6, <2>1, <2>2, <2>3, <2>4, <2>5, <2>6, <2>7, <2>8, <2>9, <2>10, <2>11, <2>12, <2>13 DEF Render
<1>7. ASSUME NEW h \in Handlers, Crash(h) \/ Finish(h) PROVE TypeOK'
  <2>1. CASE Crash(h)
    BY <2>1, FaultType DEF Crash, Abandoned, Steps
  <2>2. CASE Finish(h)
    BY <2>2, GotoType DEF Finish
  <2> QED BY <1>7, <2>1, <2>2
<1>8. ASSUME NEW h \in Handlers, NEW i \in Images, Reclaim(h, i) \/ ReclaimFails(h, i) PROVE TypeOK'
  <2>1. CASE ReclaimSettled(h, i)
    BY <2>1 DEF ReclaimSettled, Steps
  <2>2. CASE ReclaimAttached(h, i)
    BY <2>2 DEF ReclaimAttached, Steps
  <2>3. CASE ReclaimReferenced(h, i)
    BY <2>3 DEF ReclaimReferenced, Steps
  <2>4. CASE ReclaimDelete(h, i)
    BY <2>4 DEF ReclaimDelete, Steps
  <2>5. CASE ReclaimFails(h, i)
    BY <2>5, FaultType DEF ReclaimFails, Abandoned, Steps
  <2> QED BY <1>8, <2>1, <2>2, <2>3, <2>4, <2>5 DEF Reclaim
<1>9. ASSUME NEW w \in late, LateLands(w) PROVE TypeOK'
  <2>1. stored' \subseteq Images /\ leased' \subseteq Uploads
    BY <1>9, LateType DEF LateLands, StoreLeased
  <2>2. pins' \in [Images -> SUBSET Renders] /\ retained' \subseteq Images
    <3>1. CASE UNCHANGED <<pins, retained>>
      BY <3>1
    <3>2. CASE pins' = Pinned(w.by, w.image) /\ retained' = retained
      BY <3>2, LateType, <1>9 DEF Pinned, LateLands
    <3>3. CASE Promote(w.by, w.image)
      BY <3>3 DEF Promote
    <3> QED BY <1>9, <3>1, <3>2, <3>3 DEF LateLands
  <2> QED BY <1>9, <2>1, <2>2 DEF LateLands
<1> QED BY <1>0, <1>1, <1>2, <1>3, <1>4, <1>5, <1>6, <1>7, <1>8, <1>9 DEF Next

-----------------------------------------------------------------------------
(* What a step may change of the database, whatever action it is. *)

\* A handler of one route is no handler of another.
LEMMA Disjoint ==
  /\ \A u \in Uploads : u \notin Removals /\ u \notin Deletes /\ u \notin Clears /\ u \notin Renders
  /\ \A r \in Renders : r \notin Uploads /\ r \notin Removals /\ r \notin Deletes /\ r \notin Clears
BY RetentionAssumption

\* Only an upload's own compare-and-set puts a photo on a garment.
LEMMA AttachedStep ==
  ASSUME TypeOK, [Next]_vars
  PROVE  \A i \in Attached' : i \in Attached \/ (i \in Uploads /\ link[i] = "sent")
<1> USE DEF db, upVars, rendVars
<1>0. CASE garment' = garment
  BY <1>0 DEF Attached, Live
<1> DEFINE Dropped(g) == \E st \in {"live", "gone"} : garment' = [garment EXCEPT ![g] = Bare(st)]
<1>1. ASSUME NEW g \in Garments, Dropped(g) PROVE Attached' \subseteq Attached
  <2>1. PICK st \in {"live", "gone"} : garment' = [garment EXCEPT ![g] = Bare(st)]
    BY <1>1
  <2>2. ImageIds(Bare(st)) = {}
    BY BareDoc
  <2> QED BY <2>1, <2>2 DEF Attached, Live, TypeOK
<1>2. ASSUME NEW u \in Uploads, LinkLands(u) PROVE Attached' \subseteq Attached \cup {u}
  <2>1. CASE garment[target[u]] # captured[u]
    BY <1>2, <2>1 DEF LinkLands, Attached, Live
  <2>2. CASE garment[target[u]] = captured[u]
    <3> DEFINE doc == WithPhoto(captured[u], view[u], u)
    <3>1. /\ doc.status = captured[u].status
          /\ ImageIds(doc) \subseteq ImageIds(captured[u]) \cup {u}
      BY WithPhotoDoc, HandlerSets DEF TypeOK
    <3>2. garment' = [garment EXCEPT ![target[u]] = doc] /\ target[u] \in Garments
      BY <1>2, <2>2 DEF LinkLands, TypeOK
    <3> HIDE DEF doc
    <3> QED BY <2>2, <3>1, <3>2 DEF Attached, Live, TypeOK
  <2> QED BY <2>1, <2>2
<1>3. ASSUME NEW d \in Removals, RemovalDetach(d) \/ RemovalLost(d) PROVE Attached' \subseteq Attached
  <2>1. CASE garment[target[d]] # captured[d]
    BY <1>3, <2>1 DEF RemovalDetach, RemovalLost, Attached, Live
  <2>2. CASE garment[target[d]] = captured[d]
    <3> DEFINE doc == WithoutPhoto(captured[d], view[d])
    <3>1. doc.status = captured[d].status /\ ImageIds(doc) \subseteq ImageIds(captured[d])
      BY WithoutPhotoDoc DEF TypeOK
    <3>2. garment' = [garment EXCEPT ![target[d]] = doc] /\ target[d] \in Garments
      BY <1>3, <2>2 DEF RemovalDetach, RemovalLost, TypeOK
    <3> HIDE DEF doc
    <3> QED BY <2>2, <3>1, <3>2 DEF Attached, Live, TypeOK
  <2> QED BY <2>1, <2>2
<1>4. \/ garment' = garment
      \/ \E g \in Garments : Dropped(g)
      \/ \E u \in Uploads : LinkLands(u)
      \/ \E d \in Removals : RemovalDetach(d) \/ RemovalLost(d)
  <2>1. ASSUME NEW u \in Uploads, Upload(u) PROVE garment' = garment \/ LinkLands(u)
    BY <2>1 DEF Upload, UploadRead, UploadRefused, UploadStore, UploadStoreLost, UploadSend, UploadLinked,
                UploadLinkLost, UploadReplaced, UploadRelease, UploadReleaseLost, UploadDone
  <2>2. ASSUME NEW d \in Removals, Removal(d) PROVE garment' = garment \/ RemovalDetach(d) \/ RemovalLost(d)
    BY <2>2 DEF Removal, RemovalRead
  <2>3. ASSUME NEW c \in Clears, Clear(c) PROVE garment' = garment \/ \E g \in Garments : Dropped(g)
    BY <2>3 DEF Clear, ClearStart, ClearAcknowledged, ClearSweep, ClearDelete
  <2>4. ASSUME NEW r \in Renders, Render(r) PROVE garment' = garment
    BY <2>4 DEF Render, RenderRead, RenderPin, RenderPinFails, RenderRelease, RenderReleaseFails,
                RenderDegraded, RenderSend, SnapshotLands, SnapshotRejected, RenderAnswered,
                RenderAnswerLost, RenderReconcile, RenderDone
  <2>5. ASSUME NEW h \in Handlers, NEW i \in Images, Reclaim(h, i) \/ ReclaimFails(h, i)
        PROVE garment' = garment
    BY <2>5 DEF Reclaim, ReclaimSettled, ReclaimAttached, ReclaimReferenced,
                ReclaimDelete, ReclaimFails
  <2>6. ASSUME NEW h \in Handlers, Crash(h) \/ Finish(h) PROVE garment' = garment
    BY <2>6 DEF Crash, Finish
  <2>7. ASSUME NEW g \in Garments, AddGarment(g) PROVE Dropped(g)
    BY <2>7 DEF AddGarment
  <2>8. ASSUME NEW d \in Deletes, NEW g \in Garments, DeleteGarment(d, g) \/ DeleteLost(d, g) PROVE Dropped(g)
    BY <2>8 DEF DeleteGarment, DeleteLost
  <2>9. ASSUME NEW w \in late, LateLands(w) PROVE garment' = garment
    BY <2>9 DEF LateLands
  <2>10. CASE UNCHANGED vars
    BY <2>10 DEF vars
  <2> QED BY <2>1, <2>2, <2>3, <2>4, <2>5, <2>6, <2>7, <2>8, <2>9, <2>10 DEF Next
<1>5. \A u \in Uploads : LinkLands(u) => link[u] = "sent"
  BY DEF LinkLands
<1> HIDE DEF Dropped
<1> QED BY <1>0, <1>1, <1>2, <1>3, <1>4, <1>5

\* Only a reclaim that has passed all its checks deletes bytes, and only bytes
\* nothing retains.
LEMMA StoredStep ==
  ASSUME TypeOK, [Next]_vars
  PROVE  \A i \in stored \ stored' :
           /\ i \in Unretained
           /\ \E h \in Handlers : reclaim[h][i] \in {"unreferenced", "astray"}
<1> USE DEF db, upVars, rendVars
<1>1. ASSUME NEW u \in Uploads, Upload(u) PROVE stored \subseteq stored'
  BY <1>1 DEF Upload, UploadRead, UploadRefused, UploadStore, UploadStoreLost, StoreLeased, UploadSend,
              LinkLands, UploadLinked, UploadLinkLost, UploadReplaced, UploadRelease,
              UploadReleaseLost, UploadDone
<1>2. ASSUME NEW d \in Removals, Removal(d) PROVE stored' = stored
  BY <1>2 DEF Removal, RemovalRead, RemovalDetach, RemovalLost
<1>3. ASSUME NEW c \in Clears, Clear(c) PROVE stored' = stored
  BY <1>3 DEF Clear, ClearStart, ClearAcknowledged, ClearSweep, ClearDelete
<1>4. ASSUME NEW r \in Renders, Render(r) PROVE stored' = stored
  BY <1>4 DEF Render, RenderRead, RenderPin, RenderPinFails, RenderRelease, RenderReleaseFails,
              RenderDegraded, RenderSend, SnapshotLands, SnapshotRejected, RenderAnswered,
              RenderAnswerLost, RenderReconcile, RenderDone
<1>5. ASSUME NEW h \in Handlers, Crash(h) \/ Finish(h) PROVE stored' = stored
  BY <1>5 DEF Crash, Finish
<1>6. ASSUME NEW h \in Handlers, NEW j \in Images, Reclaim(h, j) \/ ReclaimFails(h, j)
      PROVE  \A i \in stored \ stored' : i \in Unretained /\ reclaim[h][i] \in {"unreferenced", "astray"}
  BY <1>6 DEF Reclaim, ReclaimSettled, ReclaimAttached, ReclaimReferenced, ReclaimDelete, ReclaimFails
<1>7. ASSUME NEW g \in Garments, AddGarment(g) PROVE stored' = stored
  BY <1>7 DEF AddGarment
<1>8. ASSUME NEW d \in Deletes, NEW g \in Garments, DeleteGarment(d, g) \/ DeleteLost(d, g) PROVE stored' = stored
  BY <1>8 DEF DeleteGarment, DeleteLost
<1>9. CASE UNCHANGED vars
  BY <1>9 DEF vars
<1>w. ASSUME NEW w \in late, LateLands(w) PROVE stored \subseteq stored'
  BY <1>w DEF LateLands, StoreLeased
<1> QED BY <1>1, <1>2, <1>3, <1>4, <1>5, <1>6, <1>7, <1>8, <1>9, <1>w DEF Next

\* An upload that can no longer attach its photo never can again.
LEMMA AttachableStep ==
  ASSUME TypeOK, LeaseInv, [Next]_vars
  PROVE  \A i \in Uploads : Attachable(i)' => Attachable(i)
<1> USE Disjoint, HandlerSets DEF TypeOK, db, upVars, rendVars, Goto, Attachable
<1> DEFINE Same == link' = link /\ \A u \in Uploads : pc'[u] = pc[u]
<1>1. ASSUME NEW u \in Uploads, Upload(u) PROVE \A i \in Uploads : Attachable(i)' => Attachable(i)
  <2>1. ASSUME NEW from, NEW to, Goto(u, from, to), link' = link,
               from \in {"idle", "read", "stored"} \/ to \notin {"idle", "read", "stored"}
        PROVE  \A i \in Uploads : Attachable(i)' => Attachable(i)
    BY <2>1
  <2>2. CASE UploadSend(u)
    BY <2>2 DEF UploadSend, LeaseInv
  <2>3. CASE LinkLands(u)
    BY <2>3 DEF LinkLands
  <2> HIDE DEF Goto, Attachable, TypeOK
  <2>4. UploadSend(u) \/ LinkLands(u) \/
        \E from, to : /\ Goto(u, from, to) /\ link' = link
                      /\ from \in {"idle", "read", "stored"} \/ to \notin {"idle", "read", "stored"}
    BY <1>1
       DEF Upload, UploadRead, UploadRefused, UploadStore, UploadStoreLost, UploadLinked,
            UploadLinkLost, UploadReplaced, UploadRelease, UploadReleaseLost, UploadDone
  <2> QED BY <2>1, <2>2, <2>3, <2>4
<1>2. ASSUME NEW d \in Removals, Removal(d) PROVE Same
  BY <1>2 DEF Removal, RemovalRead, RemovalDetach, RemovalLost
<1>3. ASSUME NEW c \in Clears, Clear(c) PROVE Same
  BY <1>3 DEF Clear, ClearStart, ClearAcknowledged, ClearSweep, ClearDelete
<1>4. ASSUME NEW r \in Renders, Render(r) PROVE Same
  BY <1>4 DEF Render, RenderRead, RenderPin, RenderPinFails, RenderRelease, RenderReleaseFails,
              RenderDegraded, RenderSend, SnapshotLands, SnapshotRejected, RenderAnswered,
              RenderAnswerLost, RenderReconcile, RenderDone
<1>5. ASSUME NEW h \in Handlers, Crash(h) \/ Finish(h)
      PROVE  link' = link /\ \A u \in Uploads : pc'[u] \in {pc[u], "done"}
  BY <1>5 DEF Crash, Finish
<1>6. ASSUME NEW h \in Handlers, NEW j \in Images, Reclaim(h, j) \/ ReclaimFails(h, j) PROVE Same
  BY <1>6 DEF Reclaim, ReclaimSettled, ReclaimAttached, ReclaimReferenced, ReclaimDelete, ReclaimFails
<1>7. ASSUME NEW g \in Garments, AddGarment(g) PROVE Same
  BY <1>7 DEF AddGarment
<1>8. ASSUME NEW d \in Deletes, NEW g \in Garments, DeleteGarment(d, g) \/ DeleteLost(d, g) PROVE Same
  BY <1>8 DEF DeleteGarment, DeleteLost
<1>9. CASE UNCHANGED vars
  BY <1>9 DEF vars
<1>w. ASSUME NEW w \in late, LateLands(w) PROVE Same
  BY <1>w DEF LateLands
<1> QED BY <1>1, <1>2, <1>3, <1>4, <1>5, <1>6, <1>7, <1>8, <1>9, <1>w DEF Next

\* How one reclaim moves: forward through its checks, or back to rest.
Moves(h, i) ==
  \/ reclaim'[h][i] \in {"none", "queued", reclaim[h][i]}
  \/ reclaim'[h][i] = "settled" /\ i \in Unretained
  \/ reclaim[h][i] = "settled" /\ reclaim'[h][i] = "unattached" /\ i \notin Attached
  \/ reclaim[h][i] = "unattached" /\ reclaim'[h][i] = "unreferenced" /\ i \notin Referenced
  \/ reclaim[h][i] = "unreferenced" /\ reclaim'[h][i] = "astray"

\* What a reclaim has read stays true through every step of the others.
LEMMA ReclaimStep ==
  ASSUME TypeOK, [Next]_vars
  PROVE  \A h \in Handlers : \A i \in Images : Moves(h, i)
<1> USE HandlerSets DEF TypeOK, db, upVars, rendVars
<1> DEFINE Calm == \A h \in Handlers : \A i \in Images :
                     reclaim'[h][i] \in {"none", "queued", reclaim[h][i]}
<1>q. ASSUME NEW h \in Handlers, NEW S, reclaim' = Queue(h, S) PROVE Calm
  BY <1>q DEF Queue
<1>n. ASSUME reclaim' = reclaim PROVE Calm
  BY <1>n
<1>1. ASSUME NEW u \in Uploads, Upload(u) PROVE Calm
  <2>1. \/ reclaim' = reclaim \/ reclaim' = Queue(u, {u}) \/ reclaim' = Queue(u, Replaced(u))
    BY <1>1 DEF Upload, UploadRead, UploadRefused, UploadStore, UploadStoreLost, UploadSend, LinkLands,
              UploadLinked, UploadLinkLost, UploadReplaced, UploadRelease, UploadReleaseLost, UploadDone
  <2> QED BY <2>1, <1>q, <1>n
<1>2. ASSUME NEW d \in Removals, Removal(d) PROVE Calm
  <2>1. reclaim' = reclaim \/ reclaim' = Queue(d, Removed(d))
    BY <1>2 DEF Removal, RemovalRead, RemovalDetach, RemovalLost
  <2> QED BY <2>1, <1>q, <1>n
<1>3. ASSUME NEW c \in Clears, Clear(c) PROVE Calm
  <2>1. reclaim' = reclaim \/ reclaim' = Queue(c, Unretained)
    BY <1>3 DEF Clear, ClearStart, ClearAcknowledged, ClearSweep, ClearDelete
  <2> QED BY <2>1, <1>q, <1>n
<1>4. ASSUME NEW r \in Renders, Render(r) PROVE Calm
  <2>1. reclaim' = reclaim \/ \E i \in Images : reclaim' = Queue(r, {i} \ refs[r])
    BY <1>4 DEF Render, RenderRead, RenderPin, RenderPinFails, RenderRelease, RenderReleaseFails,
              RenderDegraded, RenderSend, SnapshotLands, SnapshotRejected, RenderAnswered,
              RenderAnswerLost, RenderReconcile, RenderDone
  <2> QED BY <2>1, <1>q, <1>n
<1>5. ASSUME NEW h \in Handlers, Crash(h) \/ Finish(h), NEW g \in Handlers, NEW i \in Images PROVE Moves(g, i)
  <2>1. CASE Crash(h)
    BY <2>1 DEF Crash, Abandoned, Moves
  <2>2. CASE Finish(h)
    BY <2>2 DEF Finish, Moves
  <2> QED BY <1>5, <2>1, <2>2
<1>6. ASSUME NEW h \in Handlers, NEW j \in Images, Reclaim(h, j) \/ ReclaimFails(h, j),
             NEW g \in Handlers, NEW i \in Images
      PROVE  Moves(g, i)
  <2>1. CASE ReclaimSettled(h, j)
    BY <2>1 DEF ReclaimSettled, Moves
  <2>2. CASE ReclaimAttached(h, j)
    BY <2>2 DEF ReclaimAttached, Moves
  <2>3. CASE ReclaimReferenced(h, j)
    BY <2>3 DEF ReclaimReferenced, Moves
  <2>4. CASE ReclaimDelete(h, j)
    BY <2>4 DEF ReclaimDelete, Moves
  <2>5. CASE ReclaimFails(h, j)
    BY <2>5 DEF ReclaimFails, Abandoned, Moves
  <2> QED BY <1>6, <2>1, <2>2, <2>3, <2>4, <2>5 DEF Reclaim
<1>7. ASSUME NEW g \in Garments, AddGarment(g) PROVE Calm
  BY <1>7, <1>n DEF AddGarment
<1>8. ASSUME NEW d \in Deletes, NEW g \in Garments, DeleteGarment(d, g) \/ DeleteLost(d, g) PROVE Calm
  BY <1>8, <1>q, <1>n DEF DeleteGarment, DeleteLost
<1>9. ASSUME UNCHANGED vars PROVE Calm
  BY <1>9, <1>n DEF vars
<1>10. Calm => \A h \in Handlers : \A i \in Images : Moves(h, i)
  BY DEF Moves
<1>w. ASSUME NEW w \in late, LateLands(w) PROVE Calm
  BY <1>w, <1>n DEF LateLands
<1> QED BY <1>1, <1>2, <1>3, <1>4, <1>5, <1>6, <1>7, <1>8, <1>9, <1>10, <1>w DEF Next

-----------------------------------------------------------------------------
(* The inductive invariant, part by part. *)

\* An upload keeps its photo leased until its compare-and-set is settled.
LEMMA LeaseStep == ASSUME TypeOK, LeaseInv, LateInv, [Next]_vars PROVE LeaseInv'
<1> USE Disjoint, HandlerSets DEF db, upVars, rendVars
<1> DEFINE Untouched == /\ link' = link /\ leased' = leased /\ stored' \subseteq stored
                        /\ \A u \in Uploads : pc'[u] \in {pc[u], "done"}
<1>0. ASSUME Untouched PROVE LeaseInv'
  <2>1. \A u \in Uploads : u \in stored \ stored' => u \notin leased
    BY StoredStep DEF Unretained
  <2> QED BY <1>0, <2>1 DEF LeaseInv, Attachable
<1>1. ASSUME NEW u \in Uploads, Upload(u) PROVE LeaseInv'
  <2> USE DEF TypeOK, LeaseInv, Attachable, Goto
  <2>1. ASSUME NEW g \in Garments, NEW v \in {"primary", "append"} \cup Images, UploadRead(u, g, v)
        PROVE LeaseInv'
    BY <2>1 DEF UploadRead
  <2>2. CASE UploadRefused(u)
    BY <2>2 DEF UploadRefused
  <2>3. CASE UploadStore(u)
    BY <2>3 DEF UploadStore, StoreLeased
  <2>4. CASE UploadStoreLost(u)
    BY <2>4 DEF UploadStoreLost, StoreLeased
  <2>5. CASE UploadSend(u)
    BY <2>5 DEF UploadSend
  <2>6. CASE LinkLands(u)
    BY <2>6 DEF LinkLands
  <2>7. CASE UploadLinked(u)
    BY <2>7 DEF UploadLinked
  <2>8. CASE UploadLinkLost(u)
    BY <2>8 DEF UploadLinkLost
  <2>9. CASE UploadReplaced(u)
    BY <2>9 DEF UploadReplaced
  <2>10. CASE UploadRelease(u)
    BY <2>10 DEF UploadRelease
  <2>11. CASE UploadReleaseLost(u)
    BY <2>11 DEF UploadReleaseLost
  <2>12. CASE UploadDone(u)
    BY <2>12 DEF UploadDone
  <2> HIDE DEF TypeOK, LeaseInv, Attachable, Goto
  <2> QED BY <1>1, <2>1, <2>2, <2>3, <2>4, <2>5, <2>6, <2>7, <2>8, <2>9, <2>10, <2>11, <2>12 DEF Upload
<1> USE DEF TypeOK, Goto
<1>2. ASSUME NEW d \in Removals, Removal(d) PROVE Untouched
  BY <1>2 DEF Removal, RemovalRead, RemovalDetach, RemovalLost
<1>3. ASSUME NEW c \in Clears, Clear(c) PROVE Untouched
  BY <1>3 DEF Clear, ClearStart, ClearAcknowledged, ClearSweep, ClearDelete
<1>4. ASSUME NEW r \in Renders, Render(r) PROVE Untouched
  <2> HIDE DEF TypeOK
  <2>1. /\ UNCHANGED <<link, leased, stored>>
        /\ pc' = pc \/ \E to : pc' = [pc EXCEPT ![r] = to]
    BY <1>4 DEF Render, RenderRead, RenderPin, RenderPinFails, RenderRelease, RenderReleaseFails,
                RenderDegraded, RenderSend, SnapshotLands, SnapshotRejected, RenderAnswered,
                RenderAnswerLost, RenderReconcile, RenderDone
  <2> QED BY <2>1 DEF TypeOK
<1>5. ASSUME NEW h \in Handlers, Crash(h) \/ Finish(h) PROVE Untouched
  <2>1. CASE Crash(h)
    BY <2>1 DEF Crash
  <2>2. CASE Finish(h)
    BY <2>2 DEF Finish
  <2> QED BY <1>5, <2>1, <2>2
<1>6. ASSUME NEW h \in Handlers, NEW j \in Images, Reclaim(h, j) \/ ReclaimFails(h, j) PROVE Untouched
  BY <1>6 DEF Reclaim, ReclaimSettled, ReclaimAttached, ReclaimReferenced, ReclaimDelete, ReclaimFails
<1>7. ASSUME NEW g \in Garments, AddGarment(g) PROVE Untouched
  BY <1>7 DEF AddGarment
<1>8. ASSUME NEW d \in Deletes, NEW g \in Garments, DeleteGarment(d, g) \/ DeleteLost(d, g) PROVE Untouched
  BY <1>8 DEF DeleteGarment, DeleteLost
<1>9. ASSUME UNCHANGED vars PROVE Untouched
  BY <1>9 DEF vars
<1>w. ASSUME NEW w \in late, LateLands(w) PROVE LeaseInv'
  <2>1. link' = link /\ pc' = pc
    BY <1>w DEF LateLands
  <2>2. CASE w.op = "store"
    <3>1. stored' = stored \cup {w.image} /\ leased' = leased \cup {w.image}
      BY <1>w, <2>2 DEF LateLands, StoreLeased
    <3> HIDE DEF TypeOK
    <3> QED BY <2>1, <3>1 DEF LeaseInv, Attachable
  <2>3. CASE w.op = "unlease"
    <3>1. stored' = stored /\ leased' = leased \ {w.image} /\ ~Attachable(w.image)
      BY <1>w, <2>3 DEF LateLands, LateInv
    <3> HIDE DEF TypeOK
    <3> QED BY <2>1, <3>1 DEF LeaseInv, Attachable
  <2>4. CASE UNCHANGED <<stored, leased>>
    BY <2>1, <2>4, <1>0
  <2> QED BY <1>w, <2>2, <2>3, <2>4 DEF LateLands
<1> HIDE DEF Untouched, TypeOK, Goto
<1> QED BY <1>0, <1>1, <1>2, <1>3, <1>4, <1>5, <1>6, <1>7, <1>8, <1>9, <1>w DEF Next

\* No step attaches a photo without bytes or deletes an attached one.
LEMMA AttachStep ==
  ASSUME TypeOK, LeaseInv, ReclaimInv, AttachedPhotosStored, [Next]_vars
  PROVE  AttachedPhotosStored'
<1> SUFFICES ASSUME NEW i \in Attached' PROVE i \in stored'
  BY DEF AttachedPhotosStored
<1>1. i \in Attached \/ (i \in Uploads /\ link[i] = "sent")
  BY AttachedStep
<1>2. i \in stored
  BY <1>1 DEF AttachedPhotosStored, LeaseInv
<1>3. ASSUME i \notin stored' PROVE FALSE
  <2>1. PICK h \in Handlers : reclaim[h][i] \in {"unreferenced", "astray"}
    BY <1>2, <1>3, StoredStep
  <2>2. i \notin Attached /\ ~Attachable(i)
    BY <2>1, <1>2 DEF ReclaimInv, TypeOK
  <2> QED BY <1>1, <2>2 DEF Attachable
<1> QED BY <1>3

\* The evidence of the oldest snapshots is never rewritten.
LEMMA LegacyEvidenceStep ==
  ASSUME TypeOK, [Next]_vars
  PROVE  \A s \in LegacySnapshots : evidence'[s] = evidence[s]
<1> USE DEF db, upVars, rendVars
<1>1. ASSUME NEW u \in Uploads, Upload(u) PROVE evidence' = evidence
  BY <1>1 DEF Upload, UploadRead, UploadRefused, UploadStore, UploadStoreLost, UploadSend,
              LinkLands, UploadLinked, UploadLinkLost, UploadReplaced, UploadRelease,
              UploadReleaseLost, UploadDone
<1>2. ASSUME NEW d \in Removals, Removal(d) PROVE evidence' = evidence
  BY <1>2 DEF Removal, RemovalRead, RemovalDetach, RemovalLost
<1>3. ASSUME NEW c \in Clears, Clear(c) PROVE evidence' = evidence
  BY <1>3 DEF Clear, ClearStart, ClearAcknowledged, ClearSweep, ClearDelete
<1>4. ASSUME NEW r \in Renders, Render(r) PROVE evidence' = evidence \/ \E E : evidence' = [evidence EXCEPT ![r] = E]
  BY <1>4 DEF Render, RenderRead, RenderPin, RenderPinFails, RenderRelease, RenderReleaseFails,
              RenderDegraded, RenderSend, SnapshotLands, SnapshotRejected, RenderAnswered,
              RenderAnswerLost, RenderReconcile, RenderDone
<1>5. ASSUME NEW h \in Handlers, Crash(h) \/ Finish(h) PROVE evidence' = evidence
  BY <1>5 DEF Crash, Finish
<1>6. ASSUME NEW h \in Handlers, NEW j \in Images, Reclaim(h, j) \/ ReclaimFails(h, j) PROVE evidence' = evidence
  BY <1>6 DEF Reclaim, ReclaimSettled, ReclaimAttached, ReclaimReferenced, ReclaimDelete, ReclaimFails
<1>7. ASSUME NEW g \in Garments, AddGarment(g) PROVE evidence' = evidence
  BY <1>7 DEF AddGarment
<1>8. ASSUME NEW d \in Deletes, NEW g \in Garments, DeleteGarment(d, g) \/ DeleteLost(d, g) PROVE evidence' = evidence
  BY <1>8 DEF DeleteGarment, DeleteLost
<1>9. ASSUME UNCHANGED vars PROVE evidence' = evidence
  BY <1>9 DEF vars
<1>10. ASSUME NEW r \in Renders, NEW E, evidence' = [evidence EXCEPT ![r] = E]
       PROVE  \A s \in LegacySnapshots : evidence'[s] = evidence[s]
  BY <1>10, RetentionAssumption DEF TypeOK
<1>w. ASSUME NEW w \in late, LateLands(w) PROVE evidence' = evidence
  BY <1>w DEF LateLands
<1> QED BY <1>1, <1>2, <1>3, <1>4, <1>5, <1>6, <1>7, <1>8, <1>9, <1>10, <1>w DEF Next

\* What a reclaim has established about its photo no other request can undo.
LEMMA ReclaimInvStep ==
  ASSUME TypeOK, LeaseInv, ReclaimInv, EvidenceInv, [Next]_vars
  PROVE  ReclaimInv'
<1> SUFFICES ASSUME NEW h \in Handlers, NEW i \in Images
             PROVE  /\ reclaim'[h][i] \notin {"none", "queued"} => ~Attachable(i)'
                    /\ reclaim'[h][i] \in {"unattached", "unreferenced", "astray"} => i \notin Attached'
                    /\ reclaim'[h][i] \in {"unreferenced", "astray"} =>
                         \A s \in LegacySnapshots : i \notin evidence'[s]
  BY DEF ReclaimInv
<1>1. Moves(h, i)
  BY ReclaimStep
<1>2. Attachable(i)' => Attachable(i)
  BY AttachableStep DEF Attachable
<1>3. reclaim[h][i] \notin {"none", "queued"} => ~Attachable(i)
  BY DEF ReclaimInv
<1>4. i \in Unretained => ~Attachable(i)
  BY DEF Unretained, LeaseInv, Attachable
<1>5. reclaim'[h][i] \notin {"none", "queued"} => ~Attachable(i)'
  BY <1>1, <1>2, <1>3, <1>4 DEF Moves
<1>6. ~Attachable(i) /\ i \notin Attached => i \notin Attached'
  BY AttachedStep DEF Attachable
<1>7. reclaim'[h][i] \in {"unattached", "unreferenced", "astray"} => i \notin Attached'
  BY <1>1, <1>3, <1>6 DEF Moves, ReclaimInv
<1>8. i \notin Referenced => \A s \in LegacySnapshots : i \notin evidence[s]
  BY DEF Referenced, EvidenceInv
<1>9. reclaim'[h][i] \in {"unreferenced", "astray"} => \A s \in LegacySnapshots : i \notin evidence'[s]
  BY <1>1, <1>8, LegacyEvidenceStep DEF Moves, ReclaimInv
<1> QED BY <1>5, <1>7, <1>9

\* A render that settles a photo knows that its snapshot does not quote it, or promotes it.
LEMMA ReleasableUnneeded ==
  ASSUME EvidenceInv, NEW r \in Renders, NEW i \in Images, pc[r] = "releasing", Releasable(r, i)
  PROVE  Unneeded(r, i)
BY DEF EvidenceInv, Releasable, Unneeded

\* Dropping a pin promotes the photo unless no snapshot of this render needs it.
LEMMA Promotion ==
  ASSUME TypeOK, EvidenceInv, NEW r \in Renders, NEW i \in Images, Unneeded(r, i), Promote(r, i),
         UNCHANGED <<pc, stored, recorded, evidence, kept, write, uncertain, refs>>
  PROVE  EvidenceInv'
<1> USE DEF TypeOK, EvidenceInv, Promote, Unneeded
<1>1. \A q \in Renders \ {r} : \A j \in Images : Protected(q, j) => Protected(q, j)'
  BY DEF Protected
<1>2. \A j \in Images \ {i} : Protected(r, j) => Protected(r, j)'
  BY DEF Protected
<1>3. i \in refs[r] => (Protected(r, i) => Protected(r, i)')
  BY DEF Protected
<1>4. i \notin refs[r] /\ write[r] \in {"sent", "landed"} => i \notin evidence[r]
  OBVIOUS
<1>5. write[r] \in {"sent", "landed"} => \A j \in evidence[r] : Protected(r, j)'
  BY <1>2, <1>3, <1>4
<1>6. \A q \in Renders \ {r} : \A j \in Images : r # q /\ q \in pins[j] => q \in pins'[j]
  OBVIOUS
<1> HIDE DEF Promote
<1> QED BY <1>1, <1>5, <1>6

\* Evidence stays protected, from the pin that precedes the snapshot to the
\* promotion that follows it.
LEMMA EvidenceStep ==
  ASSUME TypeOK, ReclaimInv, EvidenceInv, LateInv, [Next]_vars
  PROVE  EvidenceInv'
<1> USE Disjoint, HandlerSets, RetentionAssumption DEF db, upVars, rendVars
<1> DEFINE Untouched ==
      /\ UNCHANGED <<pins, retained, recorded, evidence, kept, write, uncertain, refs>>
      /\ \A r \in Renders : pc'[r] \in {pc[r], "done"}
<1>0. ASSUME Untouched PROVE EvidenceInv'
  <2>1. \A i \in Images : i \in stored /\ i \notin stored' => pins[i] = {} /\ i \notin retained
    BY StoredStep DEF Unretained
  <2>2. \A i \in Images : i \in stored /\ i \notin stored' => \A s \in LegacySnapshots : i \notin evidence[s]
    BY StoredStep DEF ReclaimInv
  <2>3. \A s \in LegacySnapshots : evidence'[s] \subseteq stored'
    BY <1>0, <2>2 DEF EvidenceInv, TypeOK
  <2>4. \A r \in Renders : \A i \in Images : Protected(r, i) => Protected(r, i)'
    BY <1>0, <2>1 DEF Protected
  <2>5. \A r \in Renders : \A i \in kept[r] : i \in stored /\ r \in pins[i] => i \in stored'
    BY <2>1 DEF TypeOK
  <2> QED BY <1>0, <2>3, <2>4, <2>5 DEF EvidenceInv, TypeOK
<1>1. ASSUME NEW u \in Uploads, Upload(u) PROVE Untouched
  <2>1. /\ UNCHANGED <<pins, retained, recorded, evidence, kept, write, uncertain, refs>>
        /\ pc' = pc \/ \E to : pc' = [pc EXCEPT ![u] = to]
    BY <1>1 DEF Upload, UploadRead, UploadRefused, UploadStore, UploadStoreLost, UploadSend, Goto,
              LinkLands, UploadLinked, UploadLinkLost, UploadReplaced, UploadRelease,
              UploadReleaseLost, UploadDone
  <2> QED BY <2>1 DEF TypeOK
<1>2. ASSUME NEW d \in Removals, Removal(d) PROVE Untouched
  <2>1. /\ UNCHANGED <<pins, retained, recorded, evidence, kept, write, uncertain, refs>>
        /\ \E to : pc' = [pc EXCEPT ![d] = to]
    BY <1>2 DEF Removal, RemovalRead, RemovalDetach, RemovalLost, Goto
  <2> QED BY <2>1 DEF TypeOK
<1>3. ASSUME NEW c \in Clears, Clear(c) PROVE Untouched
  <2>1. /\ UNCHANGED <<pins, retained, recorded, evidence, kept, write, uncertain, refs>>
        /\ pc' = pc \/ \E to : pc' = [pc EXCEPT ![c] = to]
    BY <1>3 DEF Clear, ClearStart, ClearAcknowledged, ClearSweep, ClearDelete, Goto
  <2> QED BY <2>1 DEF TypeOK
<1>4. ASSUME NEW r \in Renders, Render(r) PROVE EvidenceInv'
  <2> USE DEF Goto, TypeOK, EvidenceInv, Protected
  <2>1. ASSUME NEW G \in SUBSET Live, RenderRead(r, G) PROVE EvidenceInv'
    BY <2>1 DEF RenderRead
  <2>2. ASSUME NEW i \in Images, RenderPin(r, i) PROVE EvidenceInv'
    BY <2>2 DEF RenderPin, Pinned
  <2>3. ASSUME NEW i \in Images, RenderPinFails(r, i) PROVE EvidenceInv'
    BY <2>3 DEF RenderPinFails
  <2>4. ASSUME NEW i \in Images, RenderRelease(r, i) PROVE EvidenceInv'
    <3>1. CASE Releasable(r, i)
      <4>1. Promote(r, i) /\ Unneeded(r, i)
        BY <2>4, <3>1, ReleasableUnneeded DEF RenderRelease
      <4> QED BY <2>4, <3>1, <4>1, Promotion DEF RenderRelease
    <3>2. CASE ~Releasable(r, i)
      BY <2>4, <3>2 DEF RenderRelease
    <3> QED BY <3>1, <3>2
  <2>5. ASSUME NEW i \in Images, RenderReleaseFails(r, i) PROVE EvidenceInv'
    BY <2>5 DEF RenderReleaseFails
  <2>6. ASSUME NEW E \in SUBSET kept[r], RenderSend(r, E) PROVE EvidenceInv'
    BY <2>6 DEF RenderSend
  <2>7. CASE RenderDegraded(r)
    BY <2>7 DEF RenderDegraded
  <2>8. CASE RenderAnswered(r)
    BY <2>8 DEF RenderAnswered
  <2>9. CASE RenderAnswerLost(r)
    BY <2>9 DEF RenderAnswerLost
  <2>10. CASE RenderDone(r)
    BY <2>10 DEF RenderDone
  <2>11. CASE SnapshotLands(r)
    BY <2>11 DEF SnapshotLands
  <2>12. CASE SnapshotRejected(r)
    BY <2>12 DEF SnapshotRejected
  <2>13. CASE RenderReconcile(r)
    BY <2>13 DEF RenderReconcile, Referenced
  <2> HIDE DEF Goto, TypeOK, EvidenceInv, Protected
  <2> QED BY <1>4, <2>1, <2>2, <2>3, <2>4, <2>5, <2>6, <2>7, <2>8, <2>9, <2>10, <2>11, <2>12, <2>13 DEF Render
<1>5. ASSUME NEW h \in Handlers, Crash(h) \/ Finish(h) PROVE Untouched
  <2>1. /\ UNCHANGED <<pins, retained, recorded, evidence, kept, write, uncertain, refs>>
        /\ pc' = [pc EXCEPT ![h] = "done"]
    BY <1>5 DEF Crash, Finish, Goto
  <2> QED BY <2>1 DEF TypeOK
<1>6. ASSUME NEW h \in Handlers, NEW j \in Images, Reclaim(h, j) \/ ReclaimFails(h, j) PROVE Untouched
  BY <1>6 DEF Reclaim, ReclaimSettled, ReclaimAttached, ReclaimReferenced, ReclaimDelete, ReclaimFails
<1>7. ASSUME NEW g \in Garments, AddGarment(g) PROVE Untouched
  BY <1>7 DEF AddGarment
<1>8. ASSUME NEW d \in Deletes, NEW g \in Garments, DeleteGarment(d, g) \/ DeleteLost(d, g) PROVE Untouched
  <2>1. /\ UNCHANGED <<pins, retained, recorded, evidence, kept, write, uncertain, refs>>
        /\ \E to : pc' = [pc EXCEPT ![d] = to]
    BY <1>8 DEF DeleteGarment, DeleteLost, Goto
  <2> QED BY <2>1 DEF TypeOK
<1>9. ASSUME UNCHANGED vars PROVE Untouched
  BY <1>9 DEF vars
<1>w. ASSUME NEW w \in late, LateLands(w) PROVE EvidenceInv'
  <2>1. UNCHANGED <<pc, recorded, evidence, kept, write, uncertain, refs>>
    BY <1>w DEF LateLands
  <2>2. CASE UNCHANGED <<pins, retained>>
    BY <2>1, <2>2, <1>0
  <2>3. CASE w.op = "pin"
    <3>1. pins' = Pinned(w.by, w.image) /\ UNCHANGED <<stored, retained>>
      BY <1>w, <2>3 DEF LateLands
    <3>2. \A j \in Images : pins[j] \subseteq pins'[j]
      <4>1. \A j \in Images : pins[j] \subseteq Pinned(w.by, w.image)[j]
        BY DEF Pinned, TypeOK
      <4> QED BY <3>1, <4>1
    <3>3. \A q \in Renders : \A j \in Images : Protected(q, j) => Protected(q, j)'
      BY <3>1, <3>2 DEF Protected
    <3>4. \A r \in Renders : kept[r] \subseteq Images /\ evidence[r] \subseteq Images
      BY DEF TypeOK
    <3> HIDE DEF Untouched
    <3> QED BY <2>1, <3>1, <3>2, <3>3, <3>4 DEF EvidenceInv
  <2>4. CASE w.op = "promote"
    <3>1. Unneeded(w.by, w.image) /\ Promote(w.by, w.image) /\ UNCHANGED stored
      BY <1>w, <2>4 DEF LateLands, LateInv
    <3>2. w.by \in Renders /\ w.image \in Images
      BY <2>4, LateType
    <3> QED BY <2>1, <3>1, <3>2, Promotion
  <2> QED BY <1>w, <2>2, <2>3, <2>4 DEF LateLands
<1> HIDE DEF Untouched
<1> QED BY <1>0, <1>1, <1>2, <1>3, <1>4, <1>5, <1>6, <1>7, <1>8, <1>9, <1>w DEF Next

\* Once a render can do without its pin on a photo, it always can.
LEMMA UnneededStep ==
  ASSUME TypeOK, EvidenceInv, [Next]_vars
  PROVE  \A r \in Renders : \A i \in Images : Unneeded(r, i) => Unneeded(r, i)'
<1> USE Disjoint, HandlerSets DEF TypeOK, db, upVars, rendVars, Goto
<1> DEFINE Same == /\ UNCHANGED <<write, evidence, refs>>
                   /\ \A r \in Renders : pc'[r] \in {pc[r], "done"}
           Goal == \A r \in Renders : \A i \in Images : Unneeded(r, i) => Unneeded(r, i)'
<1>0. Same => Goal
  BY DEF Unneeded
<1>1. ASSUME NEW u \in Uploads, Upload(u) PROVE Same
  <2> HIDE DEF TypeOK
  <2>1. /\ UNCHANGED <<write, evidence, refs>>
        /\ pc' = pc \/ \E to : pc' = [pc EXCEPT ![u] = to]
    BY <1>1 DEF Upload, UploadRead, UploadRefused, UploadStore, UploadStoreLost, UploadSend,
                LinkLands, UploadLinked, UploadLinkLost, UploadReplaced, UploadRelease,
                UploadReleaseLost, UploadDone
  <2> QED BY <2>1 DEF TypeOK
<1>2. ASSUME NEW d \in Removals, Removal(d) PROVE Same
  BY <1>2 DEF Removal, RemovalRead, RemovalDetach, RemovalLost
<1>3. ASSUME NEW c \in Clears, Clear(c) PROVE Same
  BY <1>3 DEF Clear, ClearStart, ClearAcknowledged, ClearSweep, ClearDelete
<1>4. ASSUME NEW r \in Renders, Render(r) PROVE Goal
  <2>1. ASSUME NEW G \in SUBSET Live, RenderRead(r, G) PROVE Goal
    BY <2>1 DEF RenderRead, Unneeded
  <2>2. ASSUME NEW i \in Images, RenderPin(r, i) PROVE Same
    BY <2>2 DEF RenderPin
  <2>3. ASSUME NEW i \in Images, RenderPinFails(r, i) PROVE Goal
    BY <2>3 DEF RenderPinFails, Unneeded
  <2>4. ASSUME NEW i \in Images, RenderRelease(r, i) \/ RenderReleaseFails(r, i) PROVE Same
    BY <2>4 DEF RenderRelease, RenderReleaseFails
  <2>5. CASE RenderDegraded(r)
    BY <2>5 DEF RenderDegraded, Unneeded
  <2>6. ASSUME NEW E \in SUBSET kept[r], RenderSend(r, E) PROVE Goal
    BY <2>6 DEF RenderSend, Unneeded
  <2>7. CASE SnapshotLands(r)
    BY <2>7 DEF SnapshotLands, Unneeded
  <2>8. CASE SnapshotRejected(r)
    BY <2>8 DEF SnapshotRejected, Unneeded
  <2>9. CASE RenderAnswered(r)
    BY <2>9 DEF RenderAnswered, Unneeded
  <2>10. CASE RenderAnswerLost(r)
    BY <2>10 DEF RenderAnswerLost, Unneeded
  <2>11. CASE RenderReconcile(r)
    BY <2>11 DEF RenderReconcile, Unneeded
  <2>12. CASE RenderDone(r)
    BY <2>12 DEF RenderDone, Unneeded
  <2> HIDE DEF Same, Goal, TypeOK, Goto
  <2> QED BY <1>0, <1>4, <2>1, <2>2, <2>3, <2>4, <2>5, <2>6, <2>7, <2>8, <2>9, <2>10, <2>11, <2>12 DEF Render
<1>5. ASSUME NEW h \in Handlers, Crash(h) \/ Finish(h) PROVE Same
  BY <1>5 DEF Crash, Finish
<1>6. ASSUME NEW h \in Handlers, NEW j \in Images, Reclaim(h, j) \/ ReclaimFails(h, j) PROVE Same
  BY <1>6 DEF Reclaim, ReclaimSettled, ReclaimAttached, ReclaimReferenced, ReclaimDelete, ReclaimFails
<1>7. ASSUME NEW g \in Garments, AddGarment(g) PROVE Same
  BY <1>7 DEF AddGarment
<1>8. ASSUME NEW d \in Deletes, NEW g \in Garments, DeleteGarment(d, g) \/ DeleteLost(d, g) PROVE Same
  BY <1>8 DEF DeleteGarment, DeleteLost
<1>9. ASSUME UNCHANGED vars PROVE Same
  BY <1>9 DEF vars
<1>10. ASSUME NEW w \in late, LateLands(w) PROVE Same
  BY <1>10 DEF LateLands
<1> HIDE DEF Same, Goal, TypeOK, Goto
<1>11. Goal
  BY <1>0, <1>1, <1>2, <1>3, <1>4, <1>5, <1>6, <1>7, <1>8, <1>9, <1>10 DEF Next
<1> QED BY <1>11 DEF Goal

\* Which updates a step may leave to land late.
LEMMA NewlyLate ==
  ASSUME [Next]_vars, NEW w \in late' \ late
  PROVE  \/ w.op \in {"store", "pin"}
         \/ \E u \in Uploads : UploadReleaseLost(u) /\ w = [op |-> "unlease", by |-> u, image |-> u]
         \/ \E r \in Renders, i \in Images :
              RenderReleaseFails(r, i) /\ w = [op |-> "promote", by |-> r, image |-> i]
<1> USE DEF Fault, db, upVars, rendVars
<1>1. ASSUME NEW u \in Uploads, Upload(u) PROVE late' = late \/ UploadStoreLost(u) \/ UploadReleaseLost(u)
  BY <1>1 DEF Upload, UploadRead, UploadRefused, UploadStore, UploadSend, LinkLands,
              UploadLinked, UploadLinkLost, UploadReplaced, UploadRelease, UploadDone
<1>2. ASSUME NEW d \in Removals, Removal(d) PROVE late' = late
  BY <1>2 DEF Removal, RemovalRead, RemovalDetach, RemovalLost
<1>3. ASSUME NEW c \in Clears, Clear(c) PROVE late' = late
  BY <1>3 DEF Clear, ClearStart, ClearAcknowledged, ClearSweep, ClearDelete
<1>4. ASSUME NEW r \in Renders, Render(r)
      PROVE  late' = late \/ \E i \in Images : RenderPinFails(r, i) \/ RenderReleaseFails(r, i)
  BY <1>4 DEF Render, RenderRead, RenderPin, RenderRelease, RenderDegraded, RenderSend, SnapshotLands,
              SnapshotRejected, RenderAnswered, RenderAnswerLost, RenderReconcile, RenderDone
<1>5. ASSUME NEW h \in Handlers, Crash(h) \/ Finish(h) PROVE late' = late
  BY <1>5 DEF Crash, Finish
<1>6. ASSUME NEW h \in Handlers, NEW j \in Images, Reclaim(h, j) \/ ReclaimFails(h, j) PROVE late' = late
  BY <1>6 DEF Reclaim, ReclaimSettled, ReclaimAttached, ReclaimReferenced, ReclaimDelete, ReclaimFails
<1>7. ASSUME NEW g \in Garments, AddGarment(g) PROVE late' = late
  BY <1>7 DEF AddGarment
<1>8. ASSUME NEW d \in Deletes, NEW g \in Garments, DeleteGarment(d, g) \/ DeleteLost(d, g) PROVE late' = late
  BY <1>8 DEF DeleteGarment, DeleteLost
<1>9. ASSUME NEW v \in late, LateLands(v) PROVE late' \subseteq late
  BY <1>9 DEF LateLands
<1>10. CASE UNCHANGED vars
  BY <1>10 DEF vars
<1>11. ASSUME NEW u \in Uploads, UploadStoreLost(u) PROVE w.op = "store"
  BY <1>11 DEF UploadStoreLost, Lost
<1>12. ASSUME NEW u \in Uploads, UploadReleaseLost(u) PROVE w = [op |-> "unlease", by |-> u, image |-> u]
  BY <1>12 DEF UploadReleaseLost, Lost
<1>13. ASSUME NEW r \in Renders, NEW i \in Images, RenderPinFails(r, i) PROVE w.op = "pin"
  BY <1>13 DEF RenderPinFails, Lost
<1>14. ASSUME NEW r \in Renders, NEW i \in Images, RenderReleaseFails(r, i)
       PROVE  w = [op |-> "promote", by |-> r, image |-> i]
  BY <1>14 DEF RenderReleaseFails, Lost
<1> QED BY <1>1, <1>2, <1>3, <1>4, <1>5, <1>6, <1>7, <1>8, <1>9, <1>10, <1>11, <1>12, <1>13, <1>14 DEF Next

\* What may still land late is harmless when it is lost, and stays so.
LEMMA LateStep ==
  ASSUME TypeOK, LeaseInv, EvidenceInv, LateInv, [Next]_vars
  PROVE  LateInv'
<1> SUFFICES ASSUME NEW w \in late'
             PROVE  /\ w.op = "unlease" => ~Attachable(w.image)'
                    /\ w.op = "promote" => Unneeded(w.by, w.image)'
  BY DEF LateInv
<1>1. CASE w \in late
  <2>1. w.op = "unlease" => w.image \in Uploads
    BY <1>1, LateType
  <2>2. w.op = "promote" => w.by \in Renders /\ w.image \in Images
    BY <1>1, LateType
  <2> QED BY <1>1, <2>1, <2>2, AttachableStep, UnneededStep DEF LateInv
<1>2. ASSUME NEW u \in Uploads, UploadReleaseLost(u) PROVE ~Attachable(u)'
  BY <1>2, HandlerSets DEF UploadReleaseLost, Goto, TypeOK, LeaseInv, Attachable, upVars
<1>3. ASSUME NEW r \in Renders, NEW i \in Images, RenderReleaseFails(r, i) PROVE Unneeded(r, i)'
  <2>1. Unneeded(r, i)
    BY <1>3, ReleasableUnneeded DEF RenderReleaseFails
  <2> QED BY <2>1, UnneededStep
<1>4. CASE w \notin late
  BY <1>2, <1>3, <1>4, NewlyLate
<1> QED BY <1>1, <1>4

\* The invariant holds of a database from before the leases.
LEMMA RetentionInit == Init => RetentionInv
<1> SUFFICES ASSUME Init PROVE RetentionInv
  OBVIOUS
<1> USE HandlerSets, PCNames DEF Init
<1>1. TypeOK
  <2>1. garment \in [Garments -> Garment]
    BY DEF InitialGarment, Garment, Images
  <2>2. stored \subseteq Images /\ evidence \in [Renders \cup LegacySnapshots -> SUBSET Images]
    BY DEF Images
  <2>3. captured \in [Uploads \cup Removals -> Garment]
    BY BareDoc
  <2>4. pc \in [Handlers -> PCs] /\ reclaim \in [Handlers -> [Images -> Steps]]
    BY DEF Steps
  <2> QED BY <2>1, <2>2, <2>3, <2>4 DEF TypeOK
<1>2. LeaseInv
  BY RetentionAssumption DEF LeaseInv, Attachable
<1>3. ReclaimInv
  BY DEF ReclaimInv
<1>4. AttachedPhotosStored
  BY DEF AttachedPhotosStored, Attached, Live, ImageIds, InitialGarment
<1>5. EvidenceInv
  BY RetentionAssumption DEF EvidenceInv, Protected
<1>6. LateInv
  BY DEF LateInv
<1> QED BY <1>1, <1>2, <1>3, <1>4, <1>5, <1>6 DEF RetentionInv

\* The invariant is inductive, for any number of requests, photos and faults.
THEOREM Retention == Spec => []RetentionInv
<1>1. RetentionInv /\ [Next]_vars => RetentionInv'
  BY TypeStep, LeaseStep, ReclaimInvStep, AttachStep, EvidenceStep, LateStep DEF RetentionInv
<1> QED BY RetentionInit, <1>1, PTL DEF Spec

\* Every request and collection keeps its type.
THEOREM TypeCorrect == Spec => []TypeOK
<1>1. RetentionInv => TypeOK
  BY DEF RetentionInv
<1> QED BY Retention, <1>1, PTL

\* No garment ever shows a photo whose bytes were deleted.
THEOREM AttachedSafe == Spec => []AttachedPhotosStored
<1>1. RetentionInv => AttachedPhotosStored
  BY DEF RetentionInv
<1> QED BY Retention, <1>1, PTL

\* No stored snapshot ever quotes a photo whose bytes were deleted.
THEOREM EvidenceSafe == Spec => []EvidencePhotosStored
<1>1. RetentionInv => EvidencePhotosStored
  BY DEF RetentionInv, TypeOK, EvidenceInv, Protected, EvidencePhotosStored, Referenced
<1> QED BY Retention, <1>1, PTL

\* A settled photo off every garment stays off every garment.
THEOREM NeverReattached == Spec => SettledNeverReattached
<1>1. RetentionInv /\ [Next]_vars => [\A i \in Images : Settled(i) => i \notin Attached']_vars
  <2> SUFFICES ASSUME RetentionInv, [Next]_vars, NEW i \in Images, Settled(i), i \in Attached'
               PROVE  FALSE
    OBVIOUS
  <2>1. i \in Uploads /\ link[i] = "sent"
    BY AttachedStep DEF Settled, RetentionInv
  <2> QED BY <2>1 DEF Settled, RetentionInv, LeaseInv, Attachable
<1> QED BY Retention, <1>1, PTL DEF Spec, SettledNeverReattached
=============================================================================
