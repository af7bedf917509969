------------------------------- MODULE Outfits -------------------------------
(***************************************************************************)
(* The vocabulary of the outfit engine (src/ml-system/fitted_core): the    *)
(* garments of models.py, the slot maps of slotmap.py and their two keys   *)
(* of keys.py, and the practical removable-layer choice of                 *)
(* layer_policy.py.                                                        *)
(*                                                                         *)
(* A garment id is a positive number, standing for the place of the id in  *)
(* the order the code sorts strings by. 0 is an empty slot: the literal    *)
(* "none" that keys.py reserves and refuses as an id. A closet is a        *)
(* function from ids to garments [type, mid], where mid says that the      *)
(* garment is marked layer_role "mid".                                     *)
(***************************************************************************)
EXTENDS Integers, Sequences, FiniteSets, SequencesExt

(***************************************************************************)
(* Lists. Which elements of a list go on is said by their places, and an   *)
(* order is a set of pairs: a list is built from a set by giving each      *)
(* element the place it has in the order, without recursion.               *)
(***************************************************************************)
InOrder(S, order) ==
  [n \in 1..Cardinality(S) |-> CHOOSE x \in S : Cardinality({y \in S : <<y, x>> \in order}) = n - 1]

Sorted(S, Precedes(_,_)) == InOrder(S, {p \in S \X S : Precedes(p[1], p[2])})

Ascending(places) == Sorted(places, <)

At(list, places) == [n \in DOMAIN Ascending(places) |-> list[Ascending(places)[n]]]

Where(list, Test(_)) == At(list, {i \in DOMAIN list : Test(list[i])})

Firstly(list, limit) == SubSeq(list, 1, IF limit < Len(list) THEN limit ELSE Len(list))

-----------------------------------------------------------------------------

Nothing == 0

\* The order in which the enum lists them is the order the sampler visits.
ItemTypes == <<"top", "bottom", "dress", "outer", "shoes">>

SlotOf == [base_top    |-> "top",   base_bottom |-> "bottom",
           one_piece   |-> "dress", outer_layer |-> "outer",
           shoes       |-> "shoes", mid_layer   |-> "mid"]

Roles == DOMAIN SlotOf
Slots == {SlotOf[r] : r \in Roles}

SlotMaps(Ids) == [Slots -> Ids \cup {Nothing}]

Filled(m) == {m[s] : s \in Slots} \ {Nothing}

(***************************************************************************)
(* slotmap.py: what GPT's list of (item, role) pairs collapses into. The   *)
(* pairs are read in order and the first bad one decides: a role nobody    *)
(* knows, or a role whose slot is taken.                                   *)
(***************************************************************************)
RoleIssue(items) ==
  LET bad(i)   == \/ items[i].role \notin Roles
                  \/ \E j \in 1..(i - 1) : items[j].role = items[i].role
      broken   == {i \in DOMAIN items : bad(i)}
      first    == CHOOSE i \in broken : \A j \in broken : i <= j
  IN  CASE broken = {}                    -> "ok"
        [] items[first].role \notin Roles -> "unknownRole"
        [] OTHER                          -> "duplicateRoleSlot"

SlotMapOf(items) ==
  [s \in Slots |->
     IF \E i \in DOMAIN items : SlotOf[items[i].role] = s
     THEN (CHOOSE e \in ToSet(items) : SlotOf[e.role] = s).id
     ELSE Nothing]

\* A dress, or a top with a bottom; a middle layer only over a top; no
\* garment worn twice. The first rule broken names the issue.
SlotIssue(m) ==
  LET worn(s) == m[s] # Nothing
  IN  CASE worn("dress") /\ (worn("top") \/ worn("bottom") \/ worn("mid")) -> "mixedTemplate"
        [] ~worn("dress") /\ ~worn("top") /\ ~worn("bottom")               -> "emptyBase"
        [] ~worn("dress") /\ ~(worn("top") /\ worn("bottom"))              -> "incompleteTwoPiece"
        [] \E s, t \in Slots : s # t /\ worn(s) /\ m[s] = m[t]             -> "duplicateItemId"
        [] OTHER                                                           -> "ok"

TemplateOf(m) == IF m.dress # Nothing THEN "one_piece" ELSE "two_piece"

\* keys.py: the silhouette, and the variant of it that is worn.
BaseKey(m) == IF m.dress # Nothing THEN <<m.dress>> ELSE <<m.top, m.bottom>>

FullSignature(m) == <<BaseKey(m), m.outer, m.shoes, m.mid>>

\* Some total order of signatures: the code compares the key strings.
Before(a, b) ==
  LET flat(m) == <<m.dress, m.top, m.bottom, m.outer, m.shoes, m.mid>>
  IN  \E i \in 1..6 : /\ flat(a)[i] < flat(b)[i]
                      /\ \A j \in 1..(i - 1) : flat(a)[j] = flat(b)[j]

(***************************************************************************)
(* layer_policy.py. With rain or wind in mild or cold weather the request  *)
(* wants one outfit that carries a removable layer; the eligible ones are  *)
(* those that carry it and respect the controls. reserve_choice keeps one  *)
(* of them within a budget by moving the best to the last place in it.     *)
(***************************************************************************)
NeedsLayer(req) == req.weather \in {"mild", "cold"} /\ (req.rain \/ req.wind)

LocksOf(req) == req.locked \cup ({req.forced} \ {Nothing})

Excluded(req, m) == req.excluded # {} /\ Filled(m) = req.excluded

\* One difference matters: here an empty exclusion excludes nothing either,
\* since no valid slot map is empty.
EligibleOutfit(req, m) ==
  /\ NeedsLayer(req)
  /\ m.outer \in DOMAIN req.closet
  /\ req.closet[m.outer].type = "outer"
  /\ LocksOf(req) \subseteq Filled(m)
  /\ Filled(m) \cap req.disliked = {}
  /\ Filled(m) # req.excluded

ReserveChoice(ordered, limit, eligible) ==
  LET reach  == IF limit < Len(ordered) THEN limit ELSE Len(ordered)
      wanted == {i \in DOMAIN ordered : ordered[i] \in eligible}
      chosen == CHOOSE i \in wanted : \A j \in wanted : i <= j
      rest   == RemoveAt(ordered, chosen)
      place  == IF limit - 1 < Len(rest) THEN limit ELSE Len(rest) + 1
  IN  IF wanted = {} \/ wanted \cap (1..reach) # {}
      THEN ordered
      ELSE InsertAt(rest, place, ordered[chosen])

LayerChoice(req, shown) ==
  CASE ~NeedsLayer(req)                          -> "off"
    [] \E i \in DOMAIN shown : shown[i].outer # Nothing -> "offered"
    [] OTHER                                     -> "gap"
=============================================================================
