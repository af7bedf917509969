-------------------------- MODULE MCPhotoRetention --------------------------
(* An instance of PhotoRetention for TLC. All handlers of the server are    *)
(* present; in one behaviour either the uploads run together, with a        *)
(* removal, or the garment's deletion, the clearing of the wardrobe and the *)
(* renders do. Photos and evidence from before leases are there in both.    *)
EXTENDS PhotoRetention, TLC

Started == {h \in Handlers : pc[h] # "idle"}

OneMix == \/ Started \subseteq Uploads \cup Removals
          \/ Started \subseteq Deletes \cup Clears \cup Renders

\* Uploads and renders are interchangeable.
Symmetry == Permutations(Uploads) \cup Permutations(Renders)
=============================================================================
