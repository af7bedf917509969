-------------------------- MODULE MCOutfitPlanning --------------------------
(* Instances of OutfitPlanning for TLC: the commands are set in the .cfg.   *)
EXTENDS OutfitPlanning, TLC

\* Ids, days and the commands of one kind are interchangeable.
Symmetry == Permutations(Creates) \cup Permutations(Moves) \cup Permutations(Removals)
              \cup Permutations(Ids) \cup Permutations(Days)

Started(commands) == {c \in commands : pc[c] # "idle"}

\* In one behaviour either a plan is created, and moved twice or moved and removed,
\* with a failure; or three plans are created and one is moved, without.
OneMix ==
  \/ /\ Cardinality(Started(Creates)) <= 1 /\ Cardinality(Started(Commands)) <= 3
     /\ \A c, d \in Started(Commands) : ask[c].id = ask[d].id
  \/ /\ Cardinality(Started(Moves)) <= 1 /\ Started(Removals) = {}
     /\ \A m \in Started(Moves) : ask[m].expected = 1
     /\ faults = 0
=============================================================================
