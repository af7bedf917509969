------------------------------ MODULE Response ------------------------------
(***************************************************************************)
(* fitted_core/response.py: the two content scores of a ranked outfit, the *)
(* path and the risk they are put into, and the few outfits that are       *)
(* surfaced. Shares are counted in sixtieths, which every count of at most *)
(* six garments and every count of their pairs divides, and weights in     *)
(* hundredths, so a score runs from 0 to Whole. A garment of the closet    *)
(* says what the scores read of it:                                        *)
(*   warmth band 0..2, neutral, families (of its other colours, empty when *)
(*   nothing is known), formal (a rank, or -1), bold, and suits, whether   *)
(*   its occasion tags are absent or share a word with the request.        *)
(***************************************************************************)
EXTENDS Ranker

Whole == 6000
MaxFormalitySpread == 5

Share(n, of) == (60 * n) \div of

PairsOf(worn) == {p \in SUBSET worn : Cardinality(p) = 2}

ColourKnown(g) == g.neutral \/ g.families # {}

\* Two garments clash when nothing excuses it: a neutral, an unknown colour
\* or a shared family.
Clashes(p, closet) ==
  \A a, b \in p : a # b =>
    /\ ~closet[a].neutral /\ ~closet[b].neutral
    /\ ColourKnown(closet[a]) /\ ColourKnown(closet[b])
    /\ closet[a].families \cap closet[b].families = {}

FormalitySpread(worn, closet) ==
  LET ranks == {closet[g].formal : g \in {h \in worn : closet[h].formal >= 0}}
  IN  IF Cardinality({g \in worn : closet[g].formal >= 0}) < 2 THEN 0
      ELSE Max(ranks) - Min(ranks)

TargetBand(weather) ==
  CASE weather = "hot"  -> 0
    [] weather = "mild" -> 1
    [] weather = "cold" -> 2
    [] OTHER            -> -1

WeatherPenalty(worn, req) ==
  LET target    == TargetBand(req.weather)
      distance(g) == LET d == req.closet[g].warmth - target IN IF d < 0 THEN -d ELSE d
  IN  IF target < 0 THEN 0 ELSE (Whole \div 2) * Max({distance(g) : g \in worn})

Clamped(x) == IF x < 0 THEN 0 ELSE IF x > Whole THEN Whole ELSE x

Compatibility(m, req) ==
  LET worn  == Filled(m)
      n     == Cardinality(worn)
      pairs == PairsOf(worn)
      calm  == IF pairs = {} THEN 60
               ELSE Share(Cardinality({p \in pairs : ~Clashes(p, req.closet)}), Cardinality(pairs))
  IN  Clamped(25 * Share(Cardinality({g \in worn : req.closet[g].neutral}), n)
              + 25 * calm
              + 25 * (60 - Share(FormalitySpread(worn, req.closet), MaxFormalitySpread))
              + 25 * Share(Cardinality({g \in worn : req.closet[g].suits}), n)
              - WeatherPenalty(worn, req))

Visibility(m, req) ==
  LET worn  == Filled(m)
      pairs == PairsOf(worn)
      loud  == IF pairs = {} THEN 0
               ELSE Share(Cardinality({p \in pairs : Clashes(p, req.closet)}), Cardinality(pairs))
  IN  Clamped(40 * loud
              + 40 * Share(Cardinality({g \in worn : req.closet[g].bold}), Cardinality(worn))
              + 20 * Share(FormalitySpread(worn, req.closet), MaxFormalitySpread))

\* The scores place an outfit; they never forbid one.
AssignPath(compat) ==
  IF compat >= 66 * 60 THEN "reliable" ELSE IF compat <= 40 * 60 THEN "stretch" ELSE "bridge"

AssignRisk(vis) ==
  IF vis >= 66 * 60 THEN "bold" ELSE IF vis <= 33 * 60 THEN "safe" ELSE "noticeable"

(***************************************************************************)
(* An outfit as it is answered. In rain or wind the generator's style move *)
(* is replaced by one that points at what the outfit is made of.           *)
(***************************************************************************)
OrderedItems(m) ==
  Where(<<m.dress, m.top, m.bottom, m.mid, m.outer, m.shoes>>, LAMBDA g : g # Nothing)

MoveShown(outfit, req) ==
  LET m == outfit.cand.slots
  IN  CASE ~(req.rain \/ req.wind) -> outfit.cand.move
        [] m.outer # Nothing       -> {m.outer}
        [] m.top # Nothing         -> {m.top}
        [] OTHER                   -> {m.dress}

AssembleVariant(outfit, req) ==
  LET compat == Compatibility(outfit.cand.slots, req)
  IN  [slots  |-> outfit.cand.slots,
       index  |-> outfit.cand.index,
       move   |-> MoveShown(outfit, req),
       score  |-> Score(outfit.terms),
       compat |-> compat,
       cell   |-> <<AssignPath(compat), AssignRisk(Visibility(outfit.cand.slots, req))>>]

GoesBefore(v, w) ==
  \/ v.score > w.score
  \/ v.score = w.score /\ v.compat > w.compat
  \/ v.score = w.score /\ v.compat = w.compat /\ Before(v.slots, w.slots)

(***************************************************************************)
(* select_spread: the best outfit with an outer layer goes first when the  *)
(* request wants one, then the best of every (path, risk) cell not yet     *)
(* open, then the best of what is left, up to n.                           *)
(***************************************************************************)
CellsOf(variants) == {variants[i].cell : i \in DOMAIN variants}

SelectSpread(variants, n, reserveLayer) ==
  LET ordered == Sorted(ToSet(variants), GoesBefore)
      layered == Where(ordered, LAMBDA v : v.slots.outer # Nothing)
      first   == IF reserveLayer /\ n > 0 /\ layered # <<>> THEN <<layered[1]>> ELSE <<>>
      opens(i) == /\ ordered[i].cell \notin CellsOf(first)
                  /\ \A j \in 1..(i - 1) : ordered[j].cell # ordered[i].cell
      opening == Firstly(first \o At(ordered, {i \in DOMAIN ordered : opens(i)}), n)
      padded  == Firstly(opening \o Where(ordered, LAMBDA v : v \notin ToSet(opening)), n)
  IN  [selected |-> padded, collapsed |-> Cardinality(CellsOf(padded)) < Len(padded)]

SelectionPool(outfits, req) ==
  Where(outfits, LAMBDA x : ~Excluded(req, x.cand.slots))

BuildVariants(outfits, req, n) ==
  LET pool == SelectionPool(outfits, req)
  IN  SelectSpread([i \in DOMAIN pool |-> AssembleVariant(pool[i], req)], n, NeedsLayer(req))
=============================================================================
