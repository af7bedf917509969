-------------------------- MODULE MCAccountErasure --------------------------
(* Instances of AccountErasure for TLC: who takes part is set in the .cfg,  *)
(* and the rows are inserted into the snapshots, which are also redacted,   *)
(* or into the collection the cascade sweeps last.                          *)
EXTENDS AccountErasure

RacesInit == Init /\ \A w \in Writers : into[w] \in {Last - 1, Last}

Races == RacesInit /\ [][Next]_vars /\ Fairness
=============================================================================
