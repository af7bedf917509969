------------------------------- MODULE Sampler -------------------------------
(***************************************************************************)
(* fitted_core/sampler.py: the part of a closet that one prompt may hold,  *)
(* and how many outfits to ask for. A pool is a function from the types of *)
(* garment to sets of ids, which the code keeps sorted. The seeded draw is *)
(* any draw: the operators return the set of the pools it can give.        *)
(*                                                                         *)
(* A signal is [count, available, scores]: the feedback seen so far,       *)
(* whether the scorer says it can score, and the finite scores it gives; a *)
(* garment without one made the scorer raise or answer with no number.     *)
(***************************************************************************)
EXTENDS Outfits, FiniteSets

CONSTANTS Cap,                  \* CAP_BY_TYPE: the cap of each type
          MinSignal,            \* MIN_SIGNAL_THRESHOLD, 5
          MaxCandidates         \* MAX_CANDIDATES, 40

Types == ToSet(ItemTypes)

ASSUME SamplerAssumption ==
  Cap \in [Types -> Nat \ {0}] /\ MinSignal \in Nat /\ MaxCandidates \in Nat \ {0}

Partition(closet) == [t \in Types |-> {g \in DOMAIN closet : closet[g].type = t}]

\* Seven tenths of a cap, rounded half up.
RandomCount(cap) == (cap * 7 + 5) \div 10

Draws(garments, n) == {S \in SUBSET garments : Cardinality(S) = n}

SelectionKind(garments, cap, signal) ==
  CASE Cardinality(garments) <= cap              -> "include_all"
    [] signal.count < MinSignal                  -> "coldStart"
    [] ~signal.available                         -> "signalUnavailable"
    [] ~(garments \subseteq DOMAIN signal.scores) -> "scorerFault"
    [] OTHER                                     -> "signal"

Foremost(garments, n, scores) ==
  LET ahead(g) == {h \in garments : \/ scores[h] > scores[g]
                                    \/ scores[h] = scores[g] /\ h < g}
  IN  {g \in garments : Cardinality(ahead(g)) < n}

SamplesOf(garments, cap, signal) ==
  LET best == Foremost(garments, cap - RandomCount(cap), signal.scores)
  IN  CASE SelectionKind(garments, cap, signal) = "include_all" -> {garments}
        [] SelectionKind(garments, cap, signal) = "signal"      ->
             {best \cup S : S \in Draws(garments \ best, RandomCount(cap))}
        [] OTHER                                                -> Draws(garments, cap)

\* With a mid-layer top in the closet, both kinds of top stay in the sample:
\* the last of it gives its place to the first of the missing kind.
WithBothKinds(sample, tops, closet) ==
  LET has(S, kind) == \E g \in S : closet[g].mid = kind
      repaired(S, kind) ==
        IF has(tops, kind) /\ ~has(S, kind)
        THEN (S \ {Max(S)}) \cup {Min({g \in tops : closet[g].mid = kind})}
        ELSE S
  IN  IF has(tops, TRUE) THEN repaired(repaired(sample, TRUE), FALSE) ELSE sample

CandidatePools(closet, signal) ==
  LET all        == Partition(closet)
      samples(t) == SamplesOf(all[t], Cap[t], signal)
  IN  {[top    |-> WithBothKinds(tops, all["top"], closet),
        bottom |-> bottoms, dress |-> dresses, outer |-> outers, shoes |-> pairs] :
         tops \in samples("top"), bottoms \in samples("bottom"), dresses \in samples("dress"),
         outers \in samples("outer"), pairs \in samples("shoes")}

\* Only a base counts: a top with a bottom, or a dress.
Bases(pool) ==
  Cardinality(pool["top"]) * Cardinality(pool["bottom"]) + Cardinality(pool["dress"])

AtMost(limit, n) == IF n < limit THEN n ELSE limit

CandidateRequested(pool) ==
  IF Bases(pool) <= 5 THEN 3 * Bases(pool) ELSE AtMost(MaxCandidates, 3 * Bases(pool))
=============================================================================
