--------------------------- MODULE RenderPipeline ---------------------------
(***************************************************************************)
(* One render of the outfit engine, fitted_core/rescue.py: the controls    *)
(* are preflighted by the service, the closet is sampled, the sample is    *)
(* narrowed to what must be worn, the language model is asked (once more   *)
(* when its text is no JSON), its drafts are validated, dropped, ranked    *)
(* and spread, and every one of them is filed in the snapshot.             *)
(*                                                                         *)
(* A request carries the lens and the controls, the closet, the number of  *)
(* the wearer's reactions, the latest of them and the latest renders:      *)
(*   [intent, forced, locked, disliked, excluded, weather, rain, wind,     *)
(*    closet, count, rows, renders].                                       *)
(***************************************************************************)
EXTENDS Sampler, Reply, Response, Signals

CONSTANTS Requests,      \* the requests a client may send
          Replies,       \* the answers of the language model
          K,             \* k, the outfits the ranker is asked for
          NSurfaced,     \* n_surfaced, the outfits that are shown
          MinRescue,     \* MIN_RESCUE_CANDIDATES, 6
          DailyMax       \* DAILY_MAX_CANDIDATES, 12

ASSUME PipelineAssumption ==
  /\ {K, NSurfaced, MinRescue, DailyMax} \subseteq Nat \ {0}
  /\ NSurfaced <= K
  /\ MinRescue <= MaxCandidates /\ DailyMax <= MaxCandidates

GarmentRecord == [type : Types, mid : BOOLEAN, warmth : Nat, neutral : BOOLEAN, families : SUBSET STRING,
                  formal : Int, bold : BOOLEAN, suits : BOOLEAN]

Ids == Nat \ {Nothing}

FeedbackRow == [snapshot : Nat, candidate : Nat, action : STRING, slots : SlotMaps(Ids), disliked : Seq(Ids)]

\* A closet is finite; what a request names need not be in it.
ASSUME RequestAssumption ==
  \A req \in Requests :
    /\ req.intent \in {"daily", "rescue_item"} /\ req.forced \in Nat /\ req.weather \in STRING
    /\ req.locked \in SUBSET Ids /\ req.disliked \in SUBSET Ids /\ req.excluded \in SUBSET Ids
    /\ req.rain \in BOOLEAN /\ req.wind \in BOOLEAN
    /\ DOMAIN req.closet \in SUBSET Ids /\ IsFiniteSet(DOMAIN req.closet)
    /\ req.closet \in [DOMAIN req.closet -> GarmentRecord]
    /\ req.count \in Nat /\ req.rows \in Seq(FeedbackRow)

DraftRecord == [wellFormed : BOOLEAN, items : Seq([id : Ids, role : STRING]), move : Seq(Ids)]

ASSUME ReplyAssumption ==
  \A reply \in Replies :
    reply.parsed \in BOOLEAN /\ reply.root \in BOOLEAN /\ reply.drafts \in Seq(DraftRecord)

VARIABLES
  stage,      \* how far the render is
  request,    \* the request being served
  sampled,    \* the pool the sampler drew
  pool,       \* the pool the model is shown
  asked,      \* how many drafts it is asked for
  attempts,   \* the replies so far
  accepted,   \* the candidates that passed validation
  drops,      \* the candidates dropped before the ranker, with the reason
  ranking,    \* what the ranker returned
  spread,     \* what the response layer surfaced
  filed,      \* the candidates of the snapshot
  exit        \* how the render ended

vars == <<stage, request, sampled, pool, asked, attempts, accepted, drops,
          ranking, spread, filed, exit>>

Steps == {"received", "sampled", "scoped", "prompted", "replied", "validated",
            "ranked", "answered"}

NoPool    == [t \in Types |-> {}]
NoRanking == Unranked({})
NoSpread  == [selected |-> <<>>, collapsed |-> FALSE]

Members(p) == UNION {p[t] : t \in Types}

TypeIn(req, g) == req.closet[g].type

(***************************************************************************)
(* The service's preflight (_preflight_controls) lets through only the     *)
(* controls some closet could satisfy: what is locked or forced fills      *)
(* different slots of one template, and is not disliked.                   *)
(***************************************************************************)
PinTypes(req) == {TypeIn(req, g) : g \in LocksOf(req)}

LayeredTops(req, tops) ==
  Cardinality(tops) = 2 /\ Cardinality({g \in tops : req.closet[g].mid}) = 1

PinsFeasible(req) ==
  /\ \A t \in Types :
       LET pins == {g \in LocksOf(req) : TypeIn(req, g) = t}
       IN  Cardinality(pins) <= 1 \/ (t = "top" /\ LayeredTops(req, pins))
  /\ "dress" \in PinTypes(req) => {"top", "bottom"} \cap PinTypes(req) = {}

Preflight(req) ==
  /\ req.locked \cup req.disliked \subseteq DOMAIN req.closet
  /\ req.locked \cap req.disliked = {}
  /\ (req.intent = "rescue_item") <=> (req.forced # Nothing)
  /\ req.forced # Nothing => req.forced \in DOMAIN req.closet \ req.disliked
  /\ PinsFeasible(req)

(***************************************************************************)
(* What the sampler goes by: the service builds its scorer from the        *)
(* affinities, which knows no other garment and never fails.               *)
(***************************************************************************)
SignalOf(req) ==
  LET liked == Affinity(req.rows)
  IN  [count     |-> req.count,
       available |-> DOMAIN liked # {},
       scores    |-> [g \in DOMAIN req.closet |-> IF g \in DOMAIN liked THEN liked[g] ELSE 0]]

(***************************************************************************)
(* The garments every outfit must hold, and the pool around them.          *)
(***************************************************************************)
\* Mutant of ValidTypes: what is worn over a base goes with a dress only.
TypesOverADress(pinned) ==
  LET with(t) == CASE t \in {"top", "bottom"} -> Types \ {"dress"}
                   [] t = "dress"             -> {"dress", "outer", "shoes"}
                   [] OTHER                   -> {"dress"}
  IN  {t \in Types : \A p \in pinned : t \in with(p)}

ValidTypes(pinned) ==
  LET with(t) == CASE t \in {"top", "bottom"} -> Types \ {"dress"}
                   [] t = "dress"             -> {"dress", "outer", "shoes"}
                   [] OTHER                   -> Types
  IN  {t \in Types : \A p \in pinned : t \in with(p)}

Least(garments, n) == {g \in garments : Cardinality({h \in garments : h < g}) < n}

TopsAround(req, p, pins) ==
  LET pin      == CHOOSE g \in pins : TRUE
      partners == {g \in p["top"] \ pins : req.closet[g].mid # req.closet[pin].mid}
  IN  IF Cardinality(pins) > 1 THEN pins
      ELSE pins \cup Least(partners, Cap["top"] - 1)

Scoped(req, p) ==
  LET pins(t) == {g \in LocksOf(req) : TypeIn(req, g) = t}
  IN  [t \in Types |->
         CASE t = "top" /\ pins(t) # {}                          -> TopsAround(req, p, pins(t))
           [] t # "top" /\ pins(t) # {}                          -> pins(t)
           [] pins(t) = {} /\ t \in ValidTypes(PinTypes(req))     -> p[t]
           [] OTHER                                              -> {}]

HasBase(p) == (p["top"] # {} /\ p["bottom"] # {}) \/ p["dress"] # {}

\* The H22 rule of a rescue, on the whole closet.
Sufficient(req) ==
  LET all == Partition(req.closet)
  IN  CASE TypeIn(req, req.forced) = "top"    -> all["bottom"] # {}
        [] TypeIn(req, req.forced) = "bottom" -> all["top"] # {}
        [] TypeIn(req, req.forced) = "dress"  -> TRUE
        [] OTHER                              -> HasBase(all)

\* Mutant of ControlsUnbuildable: dislikes alone are thought harmless.
LocksUnbuildable(req, p) ==
  req.locked # {} /\ ~HasBase([t \in Types |-> p[t] \ req.disliked])

ControlsUnbuildable(req, p) ==
  /\ req.locked # {} \/ req.disliked # {}
  /\ ~HasBase([t \in Types |-> p[t] \ req.disliked])

RescueRequested(req, p) ==
  LET completions == CASE TypeIn(req, req.forced) = "top"    -> Cardinality(p["bottom"])
                       [] TypeIn(req, req.forced) = "bottom" -> Cardinality(p["top"])
                       [] TypeIn(req, req.forced) = "dress"  -> 1
                       [] OTHER                              -> Bases(p)
  IN  Max({MinRescue, AtMost(MaxCandidates, 3 * completions)})

\* A daily render asks as many as the unscoped sample suggests.
DailyRequested(p) == AtMost(DailyMax, CandidateRequested(p))

(***************************************************************************)
(* What is dropped between the validator and the ranker, in this order: an *)
(* outfit without the forced garment, without a style move, without a lock *)
(* or identical to the outfit this render replaces.                        *)
(***************************************************************************)
\* Mutant of DropBeforeRanking: the locks are left to the prompt.
DropWithoutLocks(req, c) ==
  CASE req.forced # Nothing /\ req.forced \notin Filled(c.slots) -> "rescue_forced_item_absent"
    [] c.move = {}                                               -> "stylemove_invalid"
    [] Excluded(req, c.slots)                                    -> "source_membership_excluded"
    [] OTHER                                                     -> "kept"

DropBeforeRanking(req, c) ==
  CASE req.forced # Nothing /\ req.forced \notin Filled(c.slots) -> "rescue_forced_item_absent"
    [] c.move = {}                                               -> "stylemove_invalid"
    [] ~(req.locked \subseteq Filled(c.slots))                   -> "lock_unsatisfied"
    [] Excluded(req, c.slots)                                    -> "source_membership_excluded"
    [] OTHER                                                     -> "kept"

Kept(req, cands)    == Where(cands, LAMBDA c : DropBeforeRanking(req, c) = "kept")
Removed(req, cands) == Where(cands, LAMBDA c : DropBeforeRanking(req, c) # "kept")

\* The locks are kept out of the context: they were enforced already.
ContextOf(req, cands, past, draw) ==
  [k          |-> K,
   locked     |-> {},
   contextual |-> req.disliked,
   reserved   |-> {FullSignature(c.slots) :
                     c \in {d \in ToSet(cands) : EligibleOutfit(req, d.slots)}},
   liked      |-> past.liked,
   affinity   |-> past.affinity,
   shown      |-> past.shown,
   cooled     |-> past.cooled,
   disliked   |-> past.disliked,
   draw       |-> draw]

(***************************************************************************)
(* snapshot.py: every draft the model wrote is filed under its place in    *)
(* the reply, with how far it came, why it went no further, whether it is  *)
(* scored, and the place it is shown at.                                   *)
(***************************************************************************)
CodesOf(reply, i, bound, shown, closet) ==
  IF ~reply.root \/ i > bound THEN {}
  ELSE {Verdict(reply.drafts, i, shown, closet)} \ {"accepted"}

\* What a render has to file: the reply and what was done with it.
Evidence(reply, bound, shown, passed, removed, rank, selected) ==
  [reply |-> reply, asked |-> bound, shown |-> shown, accepted |-> passed,
   drops |-> removed, ranking |-> rank, selected |-> selected]

\* Mutant of DropOf: only the drops of the ranker are filed.
RankerDropOf(req, run, i) ==
  LET ranked == Where(run.ranking.dropped, LAMBDA d : d.cand.index = i)
  IN  IF ranked # <<>> THEN ranked[1].reason ELSE "none"

DropOf(req, run, i) ==
  LET before == Where(run.drops, LAMBDA c : c.index = i)
      ranked == Where(run.ranking.dropped, LAMBDA d : d.cand.index = i)
  IN  CASE ranked # <<>>                    -> ranked[1].reason
        [] ranked = <<>> /\ before # <<>>   -> DropBeforeRanking(req, before[1])
        [] OTHER                            -> "none"

FileOf(req, run, i) ==
  LET has(seq) == \E n \in DOMAIN seq : seq[n].index = i
      funnel   == \E n \in DOMAIN run.ranking.funnel : run.ranking.funnel[n].cand.index = i
      dropped  == \E n \in DOMAIN run.ranking.dropped : run.ranking.dropped[n].cand.index = i
      place    == {n \in DOMAIN run.selected : run.selected[n].index = i}
  IN  [stage    |-> IF place # {} THEN "shown"
                    ELSE IF funnel \/ dropped THEN "ranked"
                    ELSE IF has(run.accepted) THEN "validated" ELSE "generated",
       accepted |-> has(run.accepted),
       codes    |-> CodesOf(run.reply, i, run.asked, run.shown, req.closet),
       drop     |-> DropOf(req, run, i),
       scored   |-> \/ funnel
                    \/ \E n \in DOMAIN run.ranking.dropped :
                         /\ run.ranking.dropped[n].cand.index = i
                         /\ run.ranking.dropped[n].terms # <<>>,
       place    |-> place]

-----------------------------------------------------------------------------

Init ==
  /\ request \in {req \in Requests : Preflight(req)}
  /\ stage = "received" /\ exit = "none"
  /\ sampled = NoPool /\ pool = NoPool /\ asked = 0
  /\ attempts = <<>> /\ accepted = <<>> /\ drops = <<>>
  /\ ranking = NoRanking /\ spread = NoSpread /\ filed = <<>>

\* A rescue that nothing in the closet can complete ends before the sampler.
RefuseRescue ==
  /\ stage = "received" /\ request.intent = "rescue_item"
  /\ ~Sufficient(request)
  /\ stage' = "answered" /\ exit' = "understocked"
  /\ UNCHANGED <<request, sampled, pool, asked, attempts, accepted, drops, ranking, spread, filed>>

SamplePool ==
  /\ stage = "received"
  /\ request.intent = "rescue_item" => Sufficient(request)
  /\ \E p \in CandidatePools(request.closet, SignalOf(request)) :
       /\ sampled' = p
       /\ IF request.intent = "daily" /\ CandidateRequested(p) = 0
          THEN stage' = "answered" /\ exit' = "understocked" /\ pool' = p
          ELSE stage' = "sampled" /\ UNCHANGED <<exit, pool>>
  /\ UNCHANGED <<request, asked, attempts, accepted, drops, ranking, spread, filed>>

ScopePool ==
  /\ stage = "sampled"
  /\ pool' = Scoped(request, sampled)
  /\ IF ControlsUnbuildable(request, pool')
     THEN stage' = "answered" /\ exit' = "controls" /\ UNCHANGED asked
     ELSE /\ stage' = "prompted" /\ UNCHANGED exit
          /\ asked' = IF request.intent = "daily" THEN DailyRequested(sampled)
                      ELSE RescueRequested(request, pool')
  /\ UNCHANGED <<request, sampled, attempts, accepted, drops, ranking, spread, filed>>

\* One blind repair, and only of a text that is no JSON.
Generate ==
  /\ stage = "prompted"
  /\ \E reply \in Replies :
       /\ attempts' = Append(attempts, reply)
       /\ stage' = IF ~reply.parsed /\ attempts = <<>> THEN "prompted" ELSE "replied"
  /\ UNCHANGED <<request, sampled, pool, asked, accepted, drops, ranking, spread, filed, exit>>

ValidateReply ==
  /\ stage = "replied"
  /\ accepted' = Validated(Last(attempts), asked, Members(pool), request.closet)
  /\ drops' = Removed(request, accepted')
  /\ stage' = "validated"
  /\ UNCHANGED <<request, sampled, pool, asked, attempts, ranking, spread, filed, exit>>

RankSurvivors ==
  /\ stage = "validated"
  /\ LET survivors == Kept(request, accepted)
         sigs      == {FullSignature(c.slots) : c \in ToSet(survivors)}
     IN  \E draw \in {f \in [sigs -> 1..Cardinality(sigs)] : IsInjective(f)} :
           ranking' = Ranked(survivors,
                             ContextOf(request, survivors,
                                       BehavioralSignals(request.rows, request.renders), draw))
  /\ stage' = "ranked"
  /\ UNCHANGED <<request, sampled, pool, asked, attempts, accepted, drops, spread, filed, exit>>

Respond ==
  /\ stage = "ranked"
  /\ spread' = BuildVariants(ranking.outfits, request, NSurfaced)
  /\ LET run == Evidence(Last(attempts), asked, Members(pool), accepted, drops, ranking, spread'.selected)
     IN  filed' = [i \in DOMAIN run.reply.drafts |-> FileOf(request, run, i)]
  /\ exit' = IF Len(SelectionPool(ranking.outfits, request)) < NSurfaced
             THEN "insufficient" ELSE "rendered"
  /\ stage' = "answered"
  /\ UNCHANGED <<request, sampled, pool, asked, attempts, accepted, drops, ranking>>

Next == RefuseRescue \/ SamplePool \/ ScopePool \/ Generate \/ ValidateReply
        \/ RankSurvivors \/ Respond

Spec == Init /\ [][Next]_vars

-----------------------------------------------------------------------------
(***************************************************************************)
(* What a render promises.                                                 *)
(***************************************************************************)

\* The outfits the given garments can make: every valid choice of a garment
\* or nothing for each slot, with what must be worn and without what is
\* disliked. The reference the engine's arithmetic on types is held to.
Wearable(req, garments) ==
  LET of(t) == {g \in garments : TypeIn(req, g) = t} \cup {Nothing}
      maps  == {[dress |-> d, top |-> t, bottom |-> b, mid |-> m, outer |-> o, shoes |-> s] :
                  d \in of("dress"), t \in of("top"), b \in of("bottom"),
                  m \in of("top"), o \in of("outer"), s \in of("shoes")}
  IN  {m \in maps : /\ SlotIssue(m) = "ok"
                    /\ PoolIssue(m, garments, req.closet) = "ok"
                    /\ LocksOf(req) \subseteq Filled(m)
                    /\ Filled(m) \cap req.disliked = {}}

\* The model is paid for only when some valid outfit around the forced and
\* the locked garments and without the disliked ones is in the pool it is
\* shown. The code decides this with counts of types in three places: the
\* sufficiency rule on the whole closet, the sampler's count and the check
\* of the controls on the narrowed pool. And the sample and the number of
\* drafts that are paid for keep their caps.
SpendOnlyWhenPossible ==
  stage \in {"prompted", "replied"} =>
    /\ Wearable(request, Members(pool)) # {}
    /\ \A t \in Types : Cardinality(sampled[t]) <= Cap[t]
    /\ asked \in 1..MaxCandidates

\* And the render is refused unasked only when there is none: for the
\* controls, in what the sampler drew and the garments that must be worn, so
\* narrowing the sample to them loses no outfit; for an understocked closet,
\* in all of it.
EmptyOnlyWhenImpossible ==
  /\ exit = "controls" => Wearable(request, Members(sampled) \cup LocksOf(request)) = {}
  /\ exit = "understocked" => Wearable(request, DOMAIN request.closet) = {}

Surfaced == ToSet(spread.selected)

\* Whatever the model wrote, an outfit that is shown is one the pool can
\* make with every lock and no dislike, is not the outfit being replaced,
\* points its style move at garments it is made of, and is shown once.
ControlsKept ==
  /\ \A v \in Surfaced :
       /\ v.slots \in Wearable(request, Members(pool))
       /\ ~Excluded(request, v.slots)
       /\ v.move # {} /\ v.move \subseteq Filled(v.slots)
  /\ \A i, j \in DOMAIN spread.selected :
       FullSignature(spread.selected[i].slots) = FullSignature(spread.selected[j].slots) => i = j

\* The last word of the wearer on a shown outfit: row i is the newest of the
\* reactions to it that are in reach.
LastWord(rows, i) ==
  /\ i <= ScanLimit /\ Reaction(rows[i])
  /\ \A j \in 1..(i - 1) :
       Reaction(rows[j]) => <<rows[j].snapshot, rows[j].candidate>> # <<rows[i].snapshot, rows[i].candidate>>

RejectedNow(rows, key) ==
  {i \in DOMAIN rows : /\ LastWord(rows, i) /\ rows[i].action = "rejected"
                       /\ BaseKey(rows[i].slots) = key}

\* The silhouettes rejected more recently than row i.
RejectedSince(rows, i) ==
  {BaseKey(rows[j].slots) : j \in {h \in 1..(i - 1) : LastWord(rows, h) /\ rows[h].action = "rejected"}}

\* A silhouette whose rejection stands and is among the latest rests: it is
\* shown again only when the cooldown had to be relaxed, at a penalty. One
\* whose every rejection was taken back rests no longer: it is neither
\* dropped nor fined for it.
RejectedRests ==
  stage = "answered" =>
    /\ \A v \in Surfaced :
         (\E i \in RejectedNow(request.rows, BaseKey(v.slots)) :
            Cardinality(RejectedSince(request.rows, i)) < CooldownBuffer)
         => /\ ranking.stage \in {"cooldownRelaxed", "insufficient"}
            /\ \E n \in DOMAIN ranking.funnel : /\ ranking.funnel[n].cand.index = v.index
                                                /\ ranking.funnel[n].terms.cooldown < 0
    /\ \A n \in DOMAIN ranking.dropped :
         ranking.dropped[n].reason = "cooldown_dropped"
         => RejectedNow(request.rows, BaseKey(ranking.dropped[n].cand.slots)) # {}
    /\ \A n \in DOMAIN ranking.funnel :
         ranking.funnel[n].terms.cooldown < 0
         => RejectedNow(request.rows, BaseKey(ranking.funnel[n].cand.slots)) # {}

\* In rain or wind, when a practical layered outfit reached the ranker, one
\* is shown: the variant cap, the cooldown, the cut to k, the exclusion and
\* the spread each spare it.
LayerOffered ==
  stage = "answered" /\ (\E c \in ToSet(Kept(request, accepted)) : EligibleOutfit(request, c.slots))
  => LayerChoice(request, [i \in DOMAIN spread.selected |-> spread.selected[i].slots]) = "offered"

\* The snapshot accounts for every draft of the last reply: exactly one of
\* rejected, ignored, dropped for one reason, scored and kept back, or shown
\* at a place of its own; and it is scored exactly when the ranker scored it.
FunnelAccounted ==
  filed # <<>> =>
    \A i \in DOMAIN filed :
      LET f == filed[i]
          ignored == ~Last(attempts).root \/ i > asked
      IN  /\ f.accepted <=> f.codes = {} /\ ~ignored
          /\ f.stage = "generated" <=> ~f.accepted
          /\ f.accepted => (f.drop # "none") # (\E n \in DOMAIN ranking.funnel :
                                                   ranking.funnel[n].cand.index = i)
          /\ f.scored <=> f.accepted /\ f.drop \in {"none", "diversity_capped"}
          /\ Cardinality(f.place) = (IF f.stage = "shown" THEN 1 ELSE 0)
          /\ f.stage = "shown" => f.drop = "none"
=============================================================================
