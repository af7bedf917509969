-------------------------------- MODULE Reply --------------------------------
(***************************************************************************)
(* What the language model answers and what fitted_core/validator.py keeps *)
(* of it. A reply is [parsed, root, drafts]: whether the text is JSON,     *)
(* whether its envelope has exactly the required fields, and its drafts    *)
(*   [wellFormed, items, move]                                             *)
(* where items is the sequence of [id, role] the draft lists, and move the *)
(* sequence of ids its style move changes, empty when the move is absent   *)
(* or has not the required shape.                                          *)
(***************************************************************************)
EXTENDS Outfits, FiniteSets

Unparsed == [parsed |-> FALSE, root |-> FALSE, drafts |-> <<>>]
Answer(drafts) == [parsed |-> TRUE, root |-> TRUE, drafts |-> drafts]

MaxItems == 5

TypeOfSlot == [dress |-> "dress", top |-> "top", bottom |-> "bottom",
               mid   |-> "top", outer |-> "outer", shoes |-> "shoes"]

SlotOrder == <<"dress", "top", "bottom", "mid", "outer", "shoes">>

\* Slot by slot: a garment the model was not shown, or one whose type or
\* layer the role does not fit.
PoolIssue(m, shown, closet) ==
  LET misfit(g, s) == closet[g].type # TypeOfSlot[s] \/ (s = "mid" /\ ~closet[g].mid)
      issue(s) == CASE m[s] # Nothing /\ m[s] \notin shown                   -> "itemOutsideSampledPool"
                    [] m[s] # Nothing /\ m[s] \in shown /\ misfit(m[s], s) -> "roleTypeMismatch"
                    [] OTHER                                               -> "ok"
      broken == {i \in DOMAIN SlotOrder : issue(SlotOrder[i]) # "ok"}
  IN  CASE broken # {}                                 -> issue(SlotOrder[Min(broken)])
        [] m.mid # Nothing /\ closet[m.top].mid        -> "roleTypeMismatch"
        [] OTHER                                       -> "ok"

\* The first check that fails decides.
StructureIssue(draft, shown, closet) ==
  CASE ~draft.wellFormed                             -> "invalidItems"
    [] Len(draft.items) > MaxItems                   -> "invalidItems"
    [] RoleIssue(draft.items) # "ok"                 -> RoleIssue(draft.items)
    [] SlotIssue(SlotMapOf(draft.items)) # "ok"      -> SlotIssue(SlotMapOf(draft.items))
    [] OTHER                                         ->
         PoolIssue(SlotMapOf(draft.items), shown, closet)

\* Worth nothing to the candidate itself: an unusable move is dropped.
StyleMove(draft, m) ==
  IF ToSet(draft.move) \subseteq Filled(m) /\ Cardinality(ToSet(draft.move)) = Len(draft.move)
  THEN ToSet(draft.move) ELSE {}

Verdict(drafts, i, shown, closet) ==
  LET issue(j) == StructureIssue(drafts[j], shown, closet)
      sig(j)   == FullSignature(SlotMapOf(drafts[j].items))
  IN  CASE issue(i) # "ok"                                            -> issue(i)
        [] \E j \in 1..(i - 1) : issue(j) = "ok" /\ sig(j) = sig(i)   -> "duplicateFullSignature"
        [] OTHER                                                      -> "accepted"

\* validate_gpt_payload: a bad draft never stops the ones after it.
Validated(reply, bound, shown, closet) ==
  LET drafts   == IF reply.root THEN Firstly(reply.drafts, bound) ELSE <<>>
      accepted == Ascending({i \in DOMAIN drafts : Verdict(drafts, i, shown, closet) = "accepted"})
  IN  [n \in DOMAIN accepted |->
         LET i == accepted[n]
             m == SlotMapOf(drafts[i].items)
         IN  [index |-> i, slots |-> m, move |-> StyleMove(drafts[i], m)]]
=============================================================================
