------------------------- MODULE MCExperienceStore -------------------------
(* Instances of ExperienceStore for TLC: the commands are set in the .cfg.  *)
EXTENDS ExperienceStore, TLC

\* Ids, operations, renders and the commands of one kind are interchangeable.
Symmetry == Permutations(Creates) \cup Permutations(Revises) \cup Permutations(Retracts)
              \cup Permutations(Erases) \cup Permutations(Memories)
              \cup Permutations(Operations) \cup Permutations(Renders)
=============================================================================
