------------------------------- MODULE Ranker -------------------------------
(***************************************************************************)
(* fitted_core/ranker.py: the hard filters, the additive score, the        *)
(* diversity steps, the fallback ladder and the final order, as operators  *)
(* on a sequence of validated candidates [index, slots, move] and a        *)
(* ranking context                                                         *)
(*   [k, locked, contextual, reserved, liked, affinity, shown, cooled,     *)
(*    disliked, draw].                                                     *)
(* shown, cooled and disliked are the reduced windows, oldest last; draw   *)
(* gives each signature the number its seeded generator draws for it.      *)
(* Scores are counted in tenths, so every weight of config.py is a whole   *)
(* number.                                                                 *)
(***************************************************************************)
EXTENDS Outfits, FiniteSets

CONSTANTS VariantCap,       \* BASEKEY_VARIANT_CAP, 2 in the code
          OveruseMinPool    \* OVERUSE_MIN_POOL, 15 in the code

ASSUME RankerAssumption == VariantCap \in Nat \ {0} /\ OveruseMinPool \in Nat

Stages == {"none", "overuseRelaxed", "variantCapRelaxed", "cooldownRelaxed",
           "insufficient"}

(***************************************************************************)
(* Step 4. Three independent predicates. Locks and contextual dislikes are *)
(* never relaxed; a candidate that fails only the cooldown is kept aside.  *)
(***************************************************************************)
PassesLock(c, ctx)       == ctx.locked \subseteq Filled(c.slots)
PassesContextual(c, ctx) == Filled(c.slots) \cap ctx.contextual = {}
PassesCooldown(c, ctx)   == BaseKey(c.slots) \notin ToSet(ctx.cooled)

Clears(c, ctx) == PassesLock(c, ctx) /\ PassesContextual(c, ctx)

Survivors(cands, ctx) ==
  Where(cands, LAMBDA c : Clears(c, ctx) /\ PassesCooldown(c, ctx))

CooldownReserve(cands, ctx) ==
  Where(cands, LAMBDA c : Clears(c, ctx) /\ ~PassesCooldown(c, ctx))

LockedCount(cands, ctx) == Len(Where(cands, LAMBDA c : PassesLock(c, ctx)))

InsufficientLocked(cands, ctx) == ctx.locked # {} /\ LockedCount(cands, ctx) < ctx.k

(***************************************************************************)
(* Step 5. One signed term for every reason; the score is their sum.       *)
(***************************************************************************)
MaxAffinity == 20

Score(terms) == terms.base + terms.combo + terms.item + terms.dislike
                  + terms.overuse + terms.repetition + terms.cooldown

Scored(c, ctx, relaxed) ==
  LET worn    == Filled(c.slots)
      boost(i) == IF i \notin DOMAIN ctx.affinity THEN 0
                  ELSE IF ctx.affinity[i] > MaxAffinity THEN MaxAffinity
                  ELSE ctx.affinity[i]
  IN  [cand  |-> c,
       terms |-> [base       |-> 10,
                  combo      |-> IF FullSignature(c.slots) \in ctx.liked THEN 20 ELSE 0,
                  item       |-> boost(c.slots.dress) + boost(c.slots.top) + boost(c.slots.bottom)
                                   + boost(c.slots.mid) + boost(c.slots.outer) + boost(c.slots.shoes),
                  dislike    |-> -5 * Cardinality(worn \cap ToSet(ctx.disliked)),
                  overuse    |-> 0,
                  repetition |-> 0,
                  cooldown   |-> IF relaxed THEN -20 ELSE 0]]

ScoredAll(cands, ctx, relaxed) ==
  [i \in DOMAIN cands |-> Scored(cands[i], ctx, relaxed)]

Better(x, y) ==
  \/ Score(x.terms) > Score(y.terms)
  \/ Score(x.terms) = Score(y.terms) /\ Before(x.cand.slots, y.cand.slots)

Reserved(x, ctx) == FullSignature(x.cand.slots) \in ctx.reserved

(***************************************************************************)
(* Step 6. At most VariantCap outfits of a silhouette, the best of them,   *)
(* and the best practical choice always among its own. Then the garments   *)
(* more than two fifths of a large enough pool wear cost a point each.     *)
(***************************************************************************)
Preferred(scored, ctx) ==
  {x \in ToSet(scored) :
     /\ Reserved(x, ctx)
     /\ \A y \in ToSet(scored) : Reserved(y, ctx) /\ y # x => Better(x, y)}

VariantGroup(scored, x) ==
  Sorted({y \in ToSet(scored) : BaseKey(y.cand.slots) = BaseKey(x.cand.slots)}, Better)

VariantCapped(scored, ctx) ==
  LET kept(x) == LET group == ReserveChoice(VariantGroup(scored, x), VariantCap,
                                            Preferred(scored, ctx))
                 IN  \E i \in DOMAIN group : i <= VariantCap /\ group[i] = x
  IN  Where(scored, kept)

Overused(pool) ==
  LET wearers(i) == {j \in DOMAIN pool : i \in Filled(pool[j].cand.slots)}
  IN  IF Len(pool) <= OveruseMinPool THEN {}
      ELSE {i \in UNION {Filled(pool[j].cand.slots) : j \in DOMAIN pool} :
              5 * Cardinality(wearers(i)) > 2 * Len(pool)}

Rescored(x, overused, ctx) ==
  [x EXCEPT
     !.terms.overuse    = -5 * Cardinality(Filled(x.cand.slots) \cap overused),
     !.terms.repetition = IF FullSignature(x.cand.slots) \in ToSet(ctx.shown)
                          THEN -10 ELSE 0]

Diversified(scored, ctx) ==
  LET pool == VariantCapped(scored, ctx)
  IN  [i \in DOMAIN pool |-> Rescored(pool[i], Overused(pool), ctx)]

WithoutOveruse(pool) == [i \in DOMAIN pool |-> [pool[i] EXCEPT !.terms.overuse = 0]]

(***************************************************************************)
(* The fallback ladder, each rung keeping the relaxations above it. The    *)
(* sole practical choice is taken back from the cooldown reserve first.    *)
(***************************************************************************)
\* Mutant of ReservedFromCooldown: the cooldown may take the sole practical
\* choice.
NothingReserved(cands, ctx) == <<>>

ReservedFromCooldown(cands, ctx) ==
  LET survivors == ScoredAll(Survivors(cands, ctx), ctx, FALSE)
      choices   == {x \in ToSet(ScoredAll(CooldownReserve(cands, ctx), ctx, TRUE)) : Reserved(x, ctx)}
  IN  IF (\E x \in ToSet(survivors) : Reserved(x, ctx)) \/ choices = {}
      THEN <<>>
      ELSE <<Sorted(choices, Better)[1]>>

Ladder(k, taken, normal, uncapped, all) ==
  LET rung(s) == IF taken THEN "cooldownRelaxed" ELSE s
  IN  CASE Len(normal) >= k   -> [pool |-> normal, stage |-> rung("none")]
        [] Len(WithoutOveruse(normal)) >= k
                              -> [pool  |-> WithoutOveruse(normal),
                                  stage |-> rung("overuseRelaxed")]
        [] Len(uncapped) >= k -> [pool  |-> uncapped,
                                  stage |-> rung("variantCapRelaxed")]
        [] Len(all) >= k      -> [pool |-> all, stage |-> "cooldownRelaxed"]
        [] OTHER              -> [pool |-> all, stage |-> "insufficient"]

FallbackWith(cands, ctx, back) ==
  LET step5    == ScoredAll(Survivors(cands, ctx), ctx, FALSE) \o back
      uncapped == [i \in DOMAIN step5 |-> Rescored(step5[i], {}, ctx)]
      cooled   == Where(ScoredAll(CooldownReserve(cands, ctx), ctx, TRUE),
                            LAMBDA x : x \notin ToSet(back))
      all      == uncapped \o [i \in DOMAIN cooled |-> Rescored(cooled[i], {}, ctx)]
  IN  Ladder(ctx.k, back # <<>>, Diversified(step5, ctx), uncapped, all)

FallbackPool(cands, ctx) ==
  FallbackWith(cands, ctx, ReservedFromCooldown(cands, ctx))

(***************************************************************************)
(* The final order: by score; among equals the silhouette emitted least so *)
(* far, then the drawn number, then the signature. The practical choice is *)
(* moved into the first k when none is there.                              *)
(***************************************************************************)
GoesFirst(x, y, done, ctx) ==
  LET emitted(z) == Cardinality({i \in DOMAIN done : BaseKey(done[i].cand.slots) = BaseKey(z.cand.slots)})
      drawn(z)   == ctx.draw[FullSignature(z.cand.slots)]
  IN  \/ Score(x.terms) > Score(y.terms)
      \/ /\ Score(x.terms) = Score(y.terms)
         /\ \/ emitted(x) < emitted(y)
            \/ emitted(x) = emitted(y) /\ drawn(x) < drawn(y)
            \/ /\ emitted(x) = emitted(y) /\ drawn(x) = drawn(y)
               /\ Before(x.cand.slots, y.cand.slots)

NextOut(pool, done, ctx) ==
  CHOOSE x \in ToSet(pool) \ ToSet(done) :
    \A y \in ToSet(pool) \ (ToSet(done) \cup {x}) : GoesFirst(x, y, done, ctx)

Emitted(pool, ctx) ==
  LET order[n \in 0..Len(pool)] ==
        IF n = 0 THEN <<>> ELSE Append(order[n - 1], NextOut(pool, order[n - 1], ctx))
  IN  order[Len(pool)]

FinalOrder(pool, ctx) ==
  ReserveChoice(Emitted(pool, ctx), ctx.k, {x \in ToSet(pool) : Reserved(x, ctx)})

(***************************************************************************)
(* rank() and rank_with_audit(): the outfits shown are the first k of the  *)
(* funnel; a candidate outside the funnel is filed with the reason it was  *)
(* dropped for, and with its score when only the variant cap dropped it.   *)
(***************************************************************************)
DropReason(c, ctx) ==
  CASE ~PassesLock(c, ctx)       -> "lock_unsatisfied"
    [] ~PassesContextual(c, ctx) -> "contextual_disliked"
    [] ~PassesCooldown(c, ctx)   -> "cooldown_dropped"
    [] OTHER                     -> "diversity_capped"

Dropped(cands, funnel, ctx) ==
  LET filed(c) == [cand   |-> c,
                   reason |-> DropReason(c, ctx),
                   terms  |-> IF DropReason(c, ctx) = "diversity_capped"
                              THEN <<Scored(c, ctx, FALSE).terms>> ELSE <<>>]
      out == Where(cands, LAMBDA c : \A i \in DOMAIN funnel : funnel[i].cand.index # c.index)
  IN  [i \in DOMAIN out |-> filed(out[i])]

Unranked(locked) ==
  [outfits |-> <<>>, funnel |-> <<>>, dropped |-> <<>>, stage |-> "insufficient",
   insufficient |-> TRUE, relaxed |-> 0, lockStarved |-> locked # {}]

RankedAs(cands, ctx, rung, funnel) ==
  LET shown == Firstly(funnel, ctx.k)
  IN  [outfits      |-> shown,
       funnel       |-> funnel,
       dropped      |-> Dropped(cands, funnel, ctx),
       stage        |-> rung,
       insufficient |-> Len(shown) < ctx.k,
       relaxed      |-> Cardinality({i \in DOMAIN shown : shown[i].terms.cooldown < 0}),
       lockStarved  |-> InsufficientLocked(cands, ctx)]

RankedFrom(cands, ctx, chosen) ==
  RankedAs(cands, ctx, chosen.stage, FinalOrder(chosen.pool, ctx))

Ranked(cands, ctx) ==
  IF cands = <<>> THEN Unranked(ctx.locked)
  ELSE RankedFrom(cands, ctx, FallbackPool(cands, ctx))
=============================================================================
