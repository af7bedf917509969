------------------------------- MODULE Signals -------------------------------
(***************************************************************************)
(* fitted_core/reducers.py: what the engine remembers of earlier renders   *)
(* and of the reactions to them. Rows come newest first. A feedback row is *)
(* [snapshot, candidate, action, slots, disliked]; snapshot 0 is a row     *)
(* bound to no shown outfit, and an action outside the two counted ones    *)
(* (worn, saved) is neutral. A render row is [shown], the signatures it    *)
(* surfaced.                                                               *)
(***************************************************************************)
EXTENDS Outfits, FiniteSets

CONSTANTS ScanLimit,         \* INTERACTION_ROWS_SCAN_LIMIT, 500
          SnapshotLimit,     \* REPETITION_WINDOW_SNAPSHOTS, 50
          CooldownBuffer,    \* COOLDOWN_BUFFER_SIZE, 10
          DislikeWindow,     \* DISLIKE_WINDOW_SIZE, 20
          RepetitionWindow   \* REPETITION_WINDOW_SIZE, 10

ASSUME SignalsAssumption ==
  {ScanLimit, SnapshotLimit, CooldownBuffer, DislikeWindow, RepetitionWindow} \subseteq Nat

\* The distinct elements in order of first appearance, no more than limit.
Window(elements, limit) ==
  Firstly(At(elements, {i \in DOMAIN elements : \A j \in 1..(i - 1) : elements[j] # elements[i]}),
          limit)

Reaction(row) == row.snapshot # 0 /\ row.action \in {"accepted", "rejected"}

\* Mutant of Standing: a later reaction does not take an earlier one back.
EveryReaction(rows) == Where(Firstly(rows, ScanLimit), Reaction)

\* The latest reaction to each shown outfit: the first one in the scan.
Standing(rows) ==
  LET scanned == Where(Firstly(rows, ScanLimit), Reaction)
      about(i) == <<scanned[i].snapshot, scanned[i].candidate>>
  IN  At(scanned, {i \in DOMAIN scanned : \A j \in 1..(i - 1) : about(j) # about(i)})

WithAction(rows, action) == Where(Standing(rows), LAMBDA r : r.action = action)

Affinity(rows) ==
  LET likes == WithAction(rows, "accepted")
      worn  == UNION {Filled(likes[i].slots) : i \in DOMAIN likes}
  IN  [g \in worn |-> Cardinality({i \in DOMAIN likes : g \in Filled(likes[i].slots)})]

\* A signature counts as liked when the latest standing reaction to it, of
\* whatever shown outfit, is a like.
LikedSignatures(rows) ==
  LET all  == Standing(rows)
      sig(i) == FullSignature(all[i].slots)
  IN  {sig(i) : i \in {j \in DOMAIN all :
                         /\ all[j].action = "accepted"
                         /\ \A h \in 1..(j - 1) : sig(h) # sig(j)}}

CooledKeys(rows) ==
  LET no == WithAction(rows, "rejected")
  IN  Window([i \in DOMAIN no |-> BaseKey(no[i].slots)], CooldownBuffer)

DislikedItems(rows) ==
  Window(FlattenSeq([i \in DOMAIN WithAction(rows, "rejected") |->
                       WithAction(rows, "rejected")[i].disliked]),
         DislikeWindow)

ShownSignatures(renders) ==
  LET recent == Firstly(renders, SnapshotLimit)
  IN  Window(FlattenSeq([i \in DOMAIN recent |-> recent[i].shown]), RepetitionWindow)

BehavioralSignals(rows, renders) ==
  [affinity |-> Affinity(rows),
   liked    |-> LikedSignatures(rows),
   shown    |-> ShownSignatures(renders),
   cooled   |-> CooledKeys(rows),
   disliked |-> DislikedItems(rows)]
=============================================================================
