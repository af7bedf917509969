----------------------------- MODULE PlanLedger -----------------------------
(***************************************************************************)
(* What the planned-outfits list of one account promises: every command    *)
(* is one atomic step on the list, whose rules hold at that very step.     *)
(* OutfitPlanning is the code, and implements this.                        *)
(***************************************************************************)
EXTENDS Naturals, FiniteSets

CONSTANTS
  Ids,           \* plan ids, chosen by the clients
  Outfits,       \* exact suggestions: a snapshot and one of its candidates
  Days,
  None,
  MaxActive,     \* MAX_ACTIVE_PLANS
  MaxIdentities  \* MAX_PLAN_IDENTITIES

VARIABLES
  account,  \* the owner document exists
  entry     \* entry[p]: the plan p of the list

Blank(life) == [life |-> life, revision |-> 0, outfit |-> None, day |-> None]

Planned(r, o, d) == [life |-> "active", revision |-> r, outfit |-> o, day |-> d]

Active == {p \in Ids : entry[p].life = "active"}
Known  == {p \in Ids : entry[p].life # "absent"}

\* The active plans that show outfit o on day d.
Showing(o, d) == {p \in Active : entry[p].outfit = o /\ entry[p].day = d}

Init ==
  /\ account = TRUE
  /\ entry = [p \in Ids |-> Blank("absent")]

\* A plan id is used once; the list and the ids ever used are bounded.
Add(p, o, d) ==
  /\ account
  /\ p \notin Known
  /\ Showing(o, d) = {}
  /\ Cardinality(Active) < MaxActive
  /\ Cardinality(Known) < MaxIdentities
  /\ entry' = [entry EXCEPT ![p] = Planned(1, o, d)]
  /\ UNCHANGED account

\* A plan moves to another day as its next revision.
Move(p, d) ==
  /\ account
  /\ p \in Active
  /\ Showing(entry[p].outfit, d) \subseteq {p}
  /\ entry' = [entry EXCEPT ![p] = Planned(@.revision + 1, @.outfit, d)]
  /\ UNCHANGED account

\* Removing an unknown id uses it up: a delayed create of it is refused.
Drop(p) ==
  /\ account
  /\ p \in Active \/ (p \notin Known /\ Cardinality(Known) < MaxIdentities)
  /\ entry' = [entry EXCEPT ![p] = Blank("removed")]
  /\ UNCHANGED account

\* The list goes with the owner document that holds it.
Close ==
  /\ account
  /\ account' = FALSE
  /\ UNCHANGED entry

Next ==
  \/ \E p \in Ids : \E o \in Outfits : \E d \in Days : Add(p, o, d)
  \/ \E p \in Ids : \E d \in Days : Move(p, d)
  \/ \E p \in Ids : Drop(p)
  \/ Close

Spec == Init /\ [][Next]_<<account, entry>>

-----------------------------------------------------------------------------

TypeOK ==
  /\ account \in BOOLEAN
  /\ entry \in [Ids -> [life : {"absent", "active", "removed"}, revision : Nat,
                        outfit : Outfits \cup {None}, day : Days \cup {None}]]

\* The limits of an account's list.
Bounded ==
  /\ Cardinality(Active) <= MaxActive
  /\ Cardinality(Known) <= MaxIdentities

\* No outfit is planned twice for the same day.
NoDuplicate ==
  \A p, q \in Active : entry[p].outfit = entry[q].outfit /\ entry[p].day = entry[q].day => p = q

\* A removed plan stays removed, whatever delayed command still names its id.
RemovedIsFinal ==
  [][\A p \in Ids : entry[p].life = "removed" => entry'[p].life = "removed"]_<<account, entry>>
=============================================================================
