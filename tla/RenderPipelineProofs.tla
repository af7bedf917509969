------------------------ MODULE RenderPipelineProofs ------------------------
(***************************************************************************)
(* Proofs of what a render promises. The engine's operators build lists    *)
(* from sets, orders and places (Outfits), so what they return follows     *)
(* from one fact about finite orders, OrderRanks, without induction. Only  *)
(* the final order takes one outfit after another; EmittedIs proves it by  *)
(* its least counterexample. The invariant, EngineInv, is the history of   *)
(* the render.                                                             *)
(***************************************************************************)
EXTENDS RenderPipeline, FiniteSetTheorems, SequenceTheorems, WellFoundedInduction, TLAPS

-----------------------------------------------------------------------------
(* Finite orders, and the lists that are made of them.                     *)

\* A strict total order of the set S, as a set of pairs.
Orders(R, S) ==
  /\ \A x \in S : <<x, x>> \notin R
  /\ \A x, y, z \in S : <<x, y>> \in R /\ <<y, z>> \in R => <<x, z>> \in R
  /\ \A x, y \in S : x # y => <<x, y>> \in R \/ <<y, x>> \in R

Below(x, R, S) == {y \in S : <<y, x>> \in R}

\* In an order of a finite set, every number below the size counts the
\* predecessors of exactly one element.
LEMMA OrderRanks ==
  ASSUME NEW S, IsFiniteSet(S), NEW R, Orders(R, S)
  PROVE  /\ \A x \in S : Cardinality(Below(x, R, S)) \in 0..(Cardinality(S) - 1)
         /\ \A x, y \in S : <<x, y>> \in R <=> Cardinality(Below(x, R, S)) < Cardinality(Below(y, R, S))
         /\ \A n \in 0..(Cardinality(S) - 1) : \E x \in S : Cardinality(Below(x, R, S)) = n
<1> DEFINE B(x) == Below(x, R, S)
           c == Cardinality(S)
<1>0. c \in Nat
  BY FS_CardinalityType
<1>1. ASSUME NEW x \in S PROVE IsFiniteSet(B(x)) /\ Cardinality(B(x)) \in 0..(c - 1)
  <2>1. B(x) \subseteq S \ {x}
    BY DEF Below, Orders
  <2>2. IsFiniteSet(S \ {x}) /\ Cardinality(S \ {x}) = c - 1
    BY FS_RemoveElement
  <2>3. IsFiniteSet(B(x)) /\ Cardinality(B(x)) <= c - 1
    BY <2>1, <2>2, FS_Subset
  <2> QED BY <1>0, <2>3, FS_CardinalityType
<1>2. ASSUME NEW x \in S, NEW y \in S, <<x, y>> \in R PROVE Cardinality(B(x)) < Cardinality(B(y))
  <2>1. B(x) \subseteq B(y)
    BY <1>2 DEF Below, Orders
  <2>2. x \in B(y) /\ x \notin B(x)
    BY <1>2 DEF Below, Orders
  <2>3. Cardinality(B(x)) <= Cardinality(B(y)) /\ Cardinality(B(x)) # Cardinality(B(y))
    BY <1>1, <2>1, <2>2, FS_Subset
  <2> QED BY <1>1, <2>3
<1>3. \A x, y \in S : <<x, y>> \in R <=> Cardinality(B(x)) < Cardinality(B(y))
  <2> SUFFICES ASSUME NEW x \in S, NEW y \in S, Cardinality(B(x)) < Cardinality(B(y)) PROVE <<x, y>> \in R
    BY <1>2
  <2>1. x # y
    BY <1>1
  <2>2. CASE <<y, x>> \in R
    BY <1>1, <1>2, <2>2
  <2> QED BY <2>1, <2>2 DEF Orders
<1>4. \A n \in 0..(c - 1) : \E x \in S : Cardinality(B(x)) = n
  <2> DEFINE f == [x \in S |-> Cardinality(B(x))]
  <2>1. f \in [S -> 0..(c - 1)]
    BY <1>1
  <2>2. \A x, y \in S : f[x] = f[y] => x = y
    <3> SUFFICES ASSUME NEW x \in S, NEW y \in S, Cardinality(B(x)) = Cardinality(B(y)), x # y PROVE FALSE
      OBVIOUS
    <3>1. <<x, y>> \in R \/ <<y, x>> \in R
      BY DEF Orders
    <3> QED BY <1>1, <1>2, <3>1
  <2>3. f \in Injection(S, 0..(c - 1))
    BY <2>1, <2>2 DEF Injection, IsInjective
  <2>4. IsFiniteSet(0..(c - 1)) /\ Cardinality(0..(c - 1)) = c
    BY <1>0, FS_Interval
  <2> HIDE DEF f
  <2>5. f \in Surjection(S, 0..(c - 1))
    BY <2>3, <2>4, FS_Injection
  <2> QED BY <2>5 DEF Surjection, f
<1> QED BY <1>1, <1>3, <1>4

\* The list of a finite set in an order: every element once, in that order.
LEMMA InOrderIs ==
  ASSUME NEW S, IsFiniteSet(S), NEW R, Orders(R, S)
  PROVE  /\ InOrder(S, R) \in Seq(S)
         /\ Len(InOrder(S, R)) = Cardinality(S)
         /\ \A x \in S : \E n \in 1..Cardinality(S) : InOrder(S, R)[n] = x
         /\ \A m, n \in 1..Cardinality(S) : m < n <=> <<InOrder(S, R)[m], InOrder(S, R)[n]>> \in R
         /\ \A m, n \in 1..Cardinality(S) : InOrder(S, R)[m] = InOrder(S, R)[n] => m = n
<1> DEFINE c == Cardinality(S)
           L == InOrder(S, R)
           rank(x) == Cardinality(Below(x, R, S))
<1>0. c \in Nat
  BY FS_CardinalityType
<1>1. \A n \in 1..c : L[n] \in S /\ rank(L[n]) = n - 1
  <2> TAKE n \in 1..c
  <2>1. L[n] = CHOOSE x \in S : Cardinality({y \in S : <<y, x>> \in R}) = n - 1
    BY DEF InOrder
  <2>2. \E x \in S : Cardinality({y \in S : <<y, x>> \in R}) = n - 1
    <3>1. n - 1 \in 0..(c - 1)
      BY <1>0
    <3>2. \E x \in S : Cardinality(Below(x, R, S)) = n - 1
      BY <3>1, OrderRanks
    <3> QED BY <3>2 DEF Below
  <2>3. L[n] \in S /\ Cardinality({y \in S : <<y, L[n]>> \in R}) = n - 1
    <3> HIDE DEF L
    <3> QED BY <2>1, <2>2
  <2> QED BY <2>3 DEF Below
<1>2. L = [n \in 1..c |-> L[n]]
  <2> DEFINE F(n) == CHOOSE x \in S : Cardinality({y \in S : <<y, x>> \in R}) = n - 1
  <2>1. L = [n \in 1..c |-> F(n)]
    BY DEF InOrder
  <2> HIDE DEF L, F
  <2> QED BY <2>1
<1> HIDE DEF L
<1>3. L \in Seq(S) /\ Len(L) = c
  BY <1>0, <1>1, <1>2
<1>4. \A m, n \in 1..c : m < n <=> <<L[m], L[n]>> \in R
  <2> TAKE m, n \in 1..c
  <2>1. <<L[m], L[n]>> \in R <=> rank(L[m]) < rank(L[n])
    BY <1>1, OrderRanks
  <2> QED BY <1>0, <1>1, <2>1
<1>5. \A x, y \in S : rank(x) = rank(y) => x = y
  <2> SUFFICES ASSUME NEW x \in S, NEW y \in S, rank(x) = rank(y), x # y PROVE FALSE
    OBVIOUS
  <2>1. <<x, y>> \in R \/ <<y, x>> \in R
    BY DEF Orders
  <2>2. rank(x) < rank(y) \/ rank(y) < rank(x)
    BY <2>1, OrderRanks
  <2>3. rank(x) \in Nat /\ rank(y) \in Nat
    BY <1>0, OrderRanks
  <2> QED BY <2>2, <2>3
<1>6. \A x \in S : \E n \in 1..c : L[n] = x
  <2> TAKE x \in S
  <2>1. rank(x) \in 0..(c - 1)
    BY OrderRanks
  <2>2. rank(x) + 1 \in 1..c /\ rank(L[rank(x) + 1]) = rank(x) /\ L[rank(x) + 1] \in S
    BY <1>0, <1>1, <2>1
  <2>3. L[rank(x) + 1] = x
    <3> HIDE DEF rank
    <3> QED BY <1>5, <2>2
  <2> QED BY <2>2, <2>3
<1>7. \A m, n \in 1..c : L[m] = L[n] => m = n
  BY <1>0, <1>1
<1> QED BY <1>3, <1>4, <1>6, <1>7 DEF L

Distinct(list) == \A i, j \in DOMAIN list : list[i] = list[j] => i = j

\* The places of a list, from first to last.
LEMMA AscendingIs ==
  ASSUME NEW P, IsFiniteSet(P), P \subseteq Int
  PROVE  /\ Ascending(P) \in Seq(P)
         /\ Len(Ascending(P)) = Cardinality(P)
         /\ \A i \in P : \E n \in 1..Cardinality(P) : Ascending(P)[n] = i
         /\ \A m, n \in 1..Cardinality(P) : m < n <=> Ascending(P)[m] < Ascending(P)[n]
<1> DEFINE R == {p \in P \X P : p[1] < p[2]}
<1>1. \A x, y \in P : <<x, y>> \in R <=> x < y
  OBVIOUS
<1>2. Ascending(P) = InOrder(P, R)
  BY DEF Ascending, Sorted
<1> HIDE DEF R
<1>3. Orders(R, P)
  <2>1. \A x \in P : <<x, x>> \notin R
    BY <1>1
  <2>2. \A x, y, z \in P : <<x, y>> \in R /\ <<y, z>> \in R => <<x, z>> \in R
    BY <1>1
  <2>3. \A x, y \in P : x # y => <<x, y>> \in R \/ <<y, x>> \in R
    BY <1>1
  <2> QED BY <2>1, <2>2, <2>3 DEF Orders
<1>4. /\ InOrder(P, R) \in Seq(P)
      /\ Len(InOrder(P, R)) = Cardinality(P)
      /\ \A i \in P : \E n \in 1..Cardinality(P) : InOrder(P, R)[n] = i
      /\ \A m, n \in 1..Cardinality(P) : m < n <=> <<InOrder(P, R)[m], InOrder(P, R)[n]>> \in R
  BY <1>3, InOrderIs
<1>5. \A m \in 1..Cardinality(P) : Ascending(P)[m] \in P
  BY <1>2, <1>4, ElementOfSeq
<1> QED BY <1>1, <1>2, <1>4, <1>5

\* The elements at some of the places of a list, in their order.
LEMMA AtIs ==
  ASSUME NEW T, NEW list \in Seq(T), NEW P \in SUBSET (1..Len(list))
  PROVE  /\ IsFiniteSet(P) /\ Cardinality(P) \in 0..Len(list)
         /\ At(list, P) \in Seq(T)
         /\ Len(At(list, P)) = Cardinality(P)
         /\ ToSet(At(list, P)) = {list[i] : i \in P}
         /\ \A i \in P : \E n \in 1..Cardinality(P) : Ascending(P)[n] = i
         /\ \A n \in 1..Cardinality(P) : Ascending(P)[n] \in P /\ At(list, P)[n] = list[Ascending(P)[n]]
         /\ \A m, n \in 1..Cardinality(P) : m < n <=> Ascending(P)[m] < Ascending(P)[n]
<1> DEFINE c == Cardinality(P)
           L == At(list, P)
           A == Ascending(P)
<1>0. Len(list) \in Nat /\ DOMAIN list = 1..Len(list)
  BY LenProperties
<1>1. IsFiniteSet(P) /\ c \in 0..Len(list)
  <2>0. /\ IsFiniteSet(1..Len(list))
        /\ Cardinality(1..Len(list)) = IF 1 > Len(list) THEN 0 ELSE Len(list) - 1 + 1
    BY <1>0, FS_Interval
  <2>1. IsFiniteSet(1..Len(list)) /\ Cardinality(1..Len(list)) = Len(list)
    BY <1>0, <2>0
  <2>2. IsFiniteSet(P) /\ c <= Len(list)
    BY <2>1, FS_Subset
  <2> QED BY <1>0, <2>2, FS_CardinalityType
<1>2. /\ A \in Seq(P) /\ Len(A) = c
      /\ \A i \in P : \E n \in 1..c : A[n] = i
      /\ \A m, n \in 1..c : m < n <=> A[m] < A[n]
  <2>1. P \subseteq Int
    BY <1>0
  <2> QED BY <1>1, <2>1, AscendingIs
<1>3. DOMAIN A = 1..c /\ \A n \in 1..c : A[n] \in P
  BY <1>2, LenProperties, ElementOfSeq
<1>4. L = [n \in 1..c |-> list[A[n]]]
  BY <1>3 DEF At
<1>5. \A n \in 1..c : L[n] = list[A[n]] /\ L[n] \in T
  BY <1>0, <1>3, <1>4, ElementOfSeq
<1> HIDE DEF L, A
<1>6. L \in Seq(T) /\ Len(L) = c /\ DOMAIN L = 1..c
  BY <1>1, <1>4, <1>5
<1>7. ToSet(L) = {list[i] : i \in P}
  <2>1. ToSet(L) = {L[n] : n \in 1..c}
    BY <1>6 DEF ToSet
  <2>2. ASSUME NEW n \in 1..c PROVE L[n] \in {list[i] : i \in P}
    BY <1>3, <1>5
  <2>3. ASSUME NEW i \in P PROVE list[i] \in {L[n] : n \in 1..c}
    BY <1>2, <1>5
  <2> QED BY <2>1, <2>2, <2>3
<1> QED BY <1>1, <1>2, <1>3, <1>5, <1>6, <1>7 DEF L, A

\* The elements of a list that pass a test, the test as a set.
LEMMA KeepIs ==
  ASSUME NEW T, NEW list \in Seq(T), NEW W, NEW P, P = {i \in DOMAIN list : list[i] \in W}
  PROVE  /\ At(list, P) \in Seq(T)
         /\ ToSet(At(list, P)) = ToSet(list) \cap W
         /\ Distinct(list) => Distinct(At(list, P))
<1>0. Len(list) \in Nat /\ DOMAIN list = 1..Len(list) /\ P \in SUBSET (1..Len(list))
  BY LenProperties
<1>1. At(list, P) \in Seq(T) /\ ToSet(At(list, P)) = {list[i] : i \in P} /\ Len(At(list, P)) = Cardinality(P)
      /\ Cardinality(P) \in Nat
  BY <1>0, AtIs
<1>2. ToSet(At(list, P)) = ToSet(list) \cap W
  BY <1>1 DEF ToSet
<1>3. ASSUME Distinct(list) PROVE Distinct(At(list, P))
  <2>1. DOMAIN At(list, P) = 1..Cardinality(P)
    BY <1>1, LenProperties
  <2> SUFFICES ASSUME NEW m \in 1..Cardinality(P), NEW n \in 1..Cardinality(P), At(list, P)[m] = At(list, P)[n]
               PROVE  m = n
    BY <2>1 DEF Distinct
  <2>2. /\ Ascending(P)[m] \in P /\ At(list, P)[m] = list[Ascending(P)[m]]
        /\ Ascending(P)[n] \in P /\ At(list, P)[n] = list[Ascending(P)[n]]
    BY <1>0, AtIs
  <2>3. Ascending(P)[m] = Ascending(P)[n]
    BY <1>0, <1>3, <2>2 DEF Distinct
  <2>4. (m < n <=> Ascending(P)[m] < Ascending(P)[n]) /\ (n < m <=> Ascending(P)[n] < Ascending(P)[m])
    BY <1>0, AtIs
  <2>5. Ascending(P)[m] \in Int
    BY <1>0, <2>2
  <2> QED BY <1>1, <2>3, <2>4, <2>5
<1> QED BY <1>1, <1>2, <1>3

\* The head of a list.
LEMMA FirstlyIs ==
  ASSUME NEW T, NEW list \in Seq(T), NEW k \in Nat
  PROVE  /\ Firstly(list, k) \in Seq(T)
         /\ Len(Firstly(list, k)) = IF k < Len(list) THEN k ELSE Len(list)
         /\ \A i \in 1..Len(Firstly(list, k)) : i \in 1..Len(list) /\ Firstly(list, k)[i] = list[i]
         /\ ToSet(Firstly(list, k)) \subseteq ToSet(list)
         /\ Distinct(list) => Distinct(Firstly(list, k))
<1> DEFINE m == IF k < Len(list) THEN k ELSE Len(list)
           F == Firstly(list, k)
<1>0. Len(list) \in Nat /\ DOMAIN list = 1..Len(list) /\ m \in Nat /\ m <= Len(list)
  BY LenProperties
<1>1. \A i \in 1..m : list[i] \in T
  BY <1>0, ElementOfSeq
<1>2. F = SubSeq(list, 1, m)
  BY DEF Firstly
<1> HIDE DEF F, m
<1>3. F \in Seq(T) /\ Len(F) = (IF 1 <= m THEN m - 1 + 1 ELSE 0) /\ \A i \in 1..(m - 1 + 1) : F[i] = list[1 + i - 1]
  BY <1>0, <1>1, <1>2, SubSeqProperties
<1>4. F \in Seq(T) /\ Len(F) = m /\ DOMAIN F = 1..m /\ \A i \in 1..m : i \in 1..Len(list) /\ F[i] = list[i]
  BY <1>0, <1>3, LenProperties
<1>5. ToSet(F) \subseteq ToSet(list)
  BY <1>0, <1>4 DEF ToSet
<1>6. Distinct(list) => Distinct(F)
  BY <1>0, <1>4 DEF Distinct
<1> QED BY <1>4, <1>5, <1>6 DEF F, m

\* Every nonempty finite set of numbers has a largest and a least element.
LEMMA Extremes ==
  ASSUME NEW S, IsFiniteSet(S), S # {}, S \subseteq Int
  PROVE  /\ Max(S) \in S /\ \A x \in S : x <= Max(S)
         /\ Min(S) \in S /\ \A x \in S : Min(S) <= x
<1> DEFINE A == Ascending(S)
           c == Cardinality(S)
<1>1. /\ A \in Seq(S) /\ Len(A) = c
      /\ \A x \in S : \E n \in 1..c : A[n] = x
      /\ \A m, n \in 1..c : m < n <=> A[m] < A[n]
  BY AscendingIs
<1>2. c \in Nat /\ c # 0
  BY FS_CardinalityType, FS_EmptySet
<1>3. \A n \in 1..c : A[n] \in S
  BY <1>1, ElementOfSeq
<1>a. \A n \in 1..c : A[n] \in Int
  BY <1>3
<1>b. c \in 1..c /\ 1 \in 1..c
  BY <1>2
<1> HIDE DEF A, c
<1>4. A[c] \in S /\ \A x \in S : x <= A[c]
  <2>1. ASSUME NEW n \in 1..c PROVE A[n] <= A[c]
    <3>1. A[n] \in Int /\ c \in 1..c
      BY <1>a, <1>b
    <3>2. CASE n = c
      BY <3>1, <3>2
    <3>3. CASE n # c
      BY <1>1, <1>2, <1>a, <3>1, <3>3
    <3> QED BY <3>2, <3>3
  <2> QED BY <1>1, <1>2, <1>3, <2>1
<1>5. A[1] \in S /\ \A x \in S : A[1] <= x
  <2>1. ASSUME NEW n \in 1..c PROVE A[1] <= A[n]
    <3>1. A[n] \in Int /\ 1 \in 1..c
      BY <1>a, <1>b
    <3>2. CASE n = 1
      BY <3>1, <3>2
    <3>3. CASE n # 1
      BY <1>1, <1>2, <1>a, <3>1, <3>3
    <3> QED BY <3>2, <3>3
  <2> QED BY <1>1, <1>2, <1>3, <2>1
<1>6. \E x \in S : \A y \in S : x >= y
  BY <1>4
<1>7. \E x \in S : \A y \in S : x =< y
  BY <1>5
<1>8. Max(S) \in S /\ \A y \in S : Max(S) >= y
  BY <1>6 DEF Max
<1>9. Min(S) \in S /\ \A y \in S : Min(S) =< y
  BY <1>7 DEF Min
<1> QED BY <1>8, <1>9

-----------------------------------------------------------------------------
(* Slot maps: what the two tests of a slot map mean.                       *)

\* The six slots, and the one type of garment each of them takes.
LEMMA SlotsAre ==
  /\ Slots = {"dress", "top", "bottom", "mid", "outer", "shoes"}
  /\ Types = {"top", "bottom", "dress", "outer", "shoes"}
  /\ \A s \in Slots : TypeOfSlot[s] \in Types
  /\ \A s \in Slots : s # "mid" => TypeOfSlot[s] = s
  /\ TypeOfSlot["mid"] = "top"
<1>1. Roles = {"base_top", "base_bottom", "one_piece", "outer_layer", "shoes", "mid_layer"}
  BY DEF Roles, SlotOf
<1>2. Slots = {"dress", "top", "bottom", "mid", "outer", "shoes"}
  BY <1>1 DEF Slots, SlotOf
<1>3. Types = {"top", "bottom", "dress", "outer", "shoes"}
  BY DEF Types, ItemTypes, ToSet
<1>4. \A s \in Slots : TypeOfSlot[s] \in Types
  BY <1>2, <1>3 DEF TypeOfSlot
<1>5. \A s \in Slots : s # "mid" => TypeOfSlot[s] = s
  BY <1>2 DEF TypeOfSlot
<1> QED BY <1>2, <1>3, <1>4, <1>5 DEF TypeOfSlot

\* A worn slot holds a garment that was shown, of the slot's type, and in the
\* middle slot one that is marked a middle layer.
Fits(m, s, shown, closet) ==
  m[s] # Nothing => /\ m[s] \in shown
                    /\ closet[m[s]].type = TypeOfSlot[s]
                    /\ s = "mid" => closet[m[s]].mid

\* What PoolIssue finds nothing to say about.
LEMMA PoolOk ==
  ASSUME NEW m, NEW shown, NEW closet
  PROVE  PoolIssue(m, shown, closet) = "ok"
           <=> /\ \A s \in Slots : Fits(m, s, shown, closet)
               /\ ~(m.mid # Nothing /\ closet[m.top].mid)
<1> DEFINE misfit(g, s) == closet[g].type # TypeOfSlot[s] \/ (s = "mid" /\ ~closet[g].mid)
           issue(s) == CASE m[s] # Nothing /\ m[s] \notin shown                   -> "itemOutsideSampledPool"
                         [] m[s] # Nothing /\ m[s] \in shown /\ misfit(m[s], s) -> "roleTypeMismatch"
                         [] OTHER                                               -> "ok"
           broken == {i \in DOMAIN SlotOrder : issue(SlotOrder[i]) # "ok"}
<1>1. PoolIssue(m, shown, closet) =
        CASE broken # {}                           -> issue(SlotOrder[Min(broken)])
          [] m.mid # Nothing /\ closet[m.top].mid  -> "roleTypeMismatch"
          [] OTHER                                 -> "ok"
  BY DEF PoolIssue
<1>2. \A s \in Slots : issue(s) = "ok" <=> Fits(m, s, shown, closet)
  <2> TAKE s \in Slots
  <2>1. CASE m[s] = Nothing
    BY <2>1 DEF Fits
  <2>2. CASE m[s] # Nothing /\ m[s] \notin shown
    BY <2>2 DEF Fits
  <2>3. CASE m[s] # Nothing /\ m[s] \in shown /\ misfit(m[s], s)
    BY <2>3 DEF Fits
  <2>4. CASE m[s] # Nothing /\ m[s] \in shown /\ ~misfit(m[s], s)
    BY <2>4 DEF Fits
  <2> QED BY <2>1, <2>2, <2>3, <2>4
<1>3. DOMAIN SlotOrder = 1..6 /\ Slots = {SlotOrder[i] : i \in 1..6}
  BY SlotsAre DEF SlotOrder
<1> HIDE DEF issue
<1>4. broken = {} <=> \A s \in Slots : issue(s) = "ok"
  BY <1>3
<1>5. ASSUME broken # {} PROVE issue(SlotOrder[Min(broken)]) # "ok"
  <2>0. broken \in SUBSET Nat /\ (\A i \in broken : i <= 6) /\ broken \subseteq Int
    BY <1>3
  <2>1. IsFiniteSet(broken)
    <3> HIDE DEF broken
    <3> QED BY <2>0, FS_BoundedSetOfNaturals
  <2>2. Min(broken) \in broken
    <3> HIDE DEF broken
    <3> QED BY <1>5, <2>0, <2>1, Extremes
  <2> QED BY <2>2
<1> HIDE DEF broken
<1> QED BY <1>1, <1>2, <1>4, <1>5

\* A base, whole; a middle layer only over a top; no garment twice.
LEMMA SlotOk ==
  ASSUME NEW m
  PROVE  SlotIssue(m) = "ok"
           <=> /\ \/ m.dress # Nothing /\ m.top = Nothing /\ m.bottom = Nothing /\ m.mid = Nothing
                  \/ m.dress = Nothing /\ m.top # Nothing /\ m.bottom # Nothing
               /\ \A s, t \in Slots : s # t /\ m[s] # Nothing => m[s] # m[t]
<1> DEFINE twice == \E s, t \in Slots : s # t /\ m[s] # Nothing /\ m[s] = m[t]
<1>1. SlotIssue(m) = "ok"
        <=> /\ ~(m.dress # Nothing /\ (m.top # Nothing \/ m.bottom # Nothing \/ m.mid # Nothing))
            /\ ~(m.dress = Nothing /\ m.top = Nothing /\ m.bottom = Nothing)
            /\ ~(m.dress = Nothing /\ ~(m.top # Nothing /\ m.bottom # Nothing))
            /\ ~twice
  BY DEF SlotIssue
<1>2. twice <=> ~(\A s, t \in Slots : s # t /\ m[s] # Nothing => m[s] # m[t])
  OBVIOUS
<1> HIDE DEF twice
<1> QED BY <1>1, <1>2

\* What makes a slot map an outfit of some garments, slot by slot.
LEMMA WearableIs ==
  ASSUME NEW req, NEW garments, NEW m
  PROVE  m \in Wearable(req, garments)
           <=> /\ m = [dress |-> m.dress, top |-> m.top, bottom |-> m.bottom,
                       mid |-> m.mid, outer |-> m.outer, shoes |-> m.shoes]
               /\ SlotIssue(m) = "ok"
               /\ \A s \in Slots : Fits(m, s, garments, req.closet)
               /\ ~(m.mid # Nothing /\ req.closet[m.top].mid)
               /\ LocksOf(req) \subseteq Filled(m)
               /\ Filled(m) \cap req.disliked = {}
<1> DEFINE of(t) == {g \in garments : TypeIn(req, g) = t} \cup {Nothing}
           maps  == {[dress |-> d, top |-> t, bottom |-> b, mid |-> x, outer |-> o, shoes |-> s] :
                      d \in of("dress"), t \in of("top"), b \in of("bottom"),
                      x \in of("top"), o \in of("outer"), s \in of("shoes")}
           whole == m = [dress |-> m.dress, top |-> m.top, bottom |-> m.bottom,
                         mid |-> m.mid, outer |-> m.outer, shoes |-> m.shoes]
<1>1. m \in maps <=> /\ whole
                     /\ m.dress \in of("dress") /\ m.top \in of("top") /\ m.bottom \in of("bottom")
                     /\ m.mid \in of("top") /\ m.outer \in of("outer") /\ m.shoes \in of("shoes")
  <2>1. ASSUME m \in maps
        PROVE  /\ whole
               /\ m.dress \in of("dress") /\ m.top \in of("top") /\ m.bottom \in of("bottom")
               /\ m.mid \in of("top") /\ m.outer \in of("outer") /\ m.shoes \in of("shoes")
    <3> HIDE DEF of
    <3> PICK d \in of("dress"), t \in of("top"), b \in of("bottom"),
             x \in of("top"), o \in of("outer"), s \in of("shoes") :
               m = [dress |-> d, top |-> t, bottom |-> b, mid |-> x, outer |-> o, shoes |-> s]
      BY <2>1
    <3> QED OBVIOUS
  <2>2. ASSUME whole,
               m.dress \in of("dress"), m.top \in of("top"), m.bottom \in of("bottom"),
               m.mid \in of("top"), m.outer \in of("outer"), m.shoes \in of("shoes")
        PROVE  m \in maps
    <3> HIDE DEF of
    <3> QED BY <2>2
  <2> QED BY <2>1, <2>2
<1>2. m \in Wearable(req, garments)
        <=> /\ m \in maps /\ SlotIssue(m) = "ok" /\ PoolIssue(m, garments, req.closet) = "ok"
            /\ LocksOf(req) \subseteq Filled(m) /\ Filled(m) \cap req.disliked = {}
  BY DEF Wearable
<1>3. (\A s \in Slots : Fits(m, s, garments, req.closet))
        => /\ m.dress \in of("dress") /\ m.top \in of("top") /\ m.bottom \in of("bottom")
           /\ m.mid \in of("top") /\ m.outer \in of("outer") /\ m.shoes \in of("shoes")
  BY SlotsAre DEF Fits, TypeIn
<1> HIDE DEF of, maps, whole
<1>4. PoolIssue(m, garments, req.closet) = "ok"
        <=> /\ \A s \in Slots : Fits(m, s, garments, req.closet)
            /\ ~(m.mid # Nothing /\ req.closet[m.top].mid)
  BY PoolOk
<1> QED BY <1>1, <1>2, <1>3, <1>4 DEF whole
-----------------------------------------------------------------------------
(* The sampler: every pool it can draw keeps the caps, and empties no type. *)

\* Some of a cap is drawn at random, and no more than the cap.
LEMMA RandomCountIs ==
  ASSUME NEW cap \in Nat \ {0}
  PROVE  RandomCount(cap) \in 1..cap
BY DEF RandomCount

\* No more than n garments are ahead of the others by n places.
LEMMA ForemostIs ==
  ASSUME NEW garments, IsFiniteSet(garments), garments \subseteq Int,
         NEW n \in Nat, NEW scores, \A g \in garments : scores[g] \in Int
  PROVE  /\ Foremost(garments, n, scores) \subseteq garments
         /\ Cardinality(Foremost(garments, n, scores)) <= n
<1> DEFINE R == {p \in garments \X garments :
                   scores[p[1]] > scores[p[2]] \/ (scores[p[1]] = scores[p[2]] /\ p[1] < p[2])}
           rank(g) == Cardinality(Below(g, R, garments))
           best == Foremost(garments, n, scores)
           c == Cardinality(garments)
<1>1. \A g, h \in garments : <<h, g>> \in R <=> scores[h] > scores[g] \/ (scores[h] = scores[g] /\ h < g)
  OBVIOUS
<1> HIDE DEF R
<1>2. Orders(R, garments)
  <2>1. \A g \in garments : <<g, g>> \notin R
    BY <1>1
  <2>2. \A x, y, z \in garments : <<x, y>> \in R /\ <<y, z>> \in R => <<x, z>> \in R
    <3> TAKE x, y, z \in garments
    <3>1. x \in Int /\ y \in Int /\ z \in Int /\ scores[x] \in Int /\ scores[y] \in Int /\ scores[z] \in Int
      OBVIOUS
    <3> QED BY <1>1, <3>1
  <2>3. \A x, y \in garments : x # y => <<x, y>> \in R \/ <<y, x>> \in R
    <3> TAKE x, y \in garments
    <3>1. x \in Int /\ y \in Int /\ scores[x] \in Int /\ scores[y] \in Int
      OBVIOUS
    <3> QED BY <1>1, <3>1
  <2> QED BY <2>1, <2>2, <2>3 DEF Orders
<1>3. best = {g \in garments : rank(g) < n}
  <2>1. ASSUME NEW g \in garments
        PROVE  {h \in garments : scores[h] > scores[g] \/ (scores[h] = scores[g] /\ h < g)} = Below(g, R, garments)
    BY <1>1 DEF Below
  <2> QED BY <2>1 DEF Foremost
<1>4. \A g \in garments : rank(g) \in 0..(c - 1)
  BY <1>2, OrderRanks
<1>5. \A g, h \in garments : rank(g) = rank(h) => g = h
  <2> SUFFICES ASSUME NEW g \in garments, NEW h \in garments, rank(g) = rank(h), g # h PROVE FALSE
    OBVIOUS
  <2>1. <<g, h>> \in R \/ <<h, g>> \in R
    BY <1>2 DEF Orders
  <2>2. rank(g) < rank(h) \/ rank(h) < rank(g)
    BY <1>2, <2>1, OrderRanks
  <2>3. c \in Nat /\ rank(g) \in 0..(c - 1) /\ rank(h) \in 0..(c - 1)
    BY <1>4, FS_CardinalityType
  <2> QED BY <2>2, <2>3
<1>6. best \subseteq garments
  BY <1>3
<1>7. Cardinality(best) <= n
  <2> DEFINE f == [g \in best |-> rank(g)]
  <2>1. f \in [best -> 0..(n - 1)]
    <3>1. c \in Nat
      BY FS_CardinalityType
    <3>2. \A g \in best : rank(g) \in 0..(n - 1)
      <4> HIDE DEF rank, best
      <4> QED BY <1>3, <1>4, <1>6, <3>1
    <3> HIDE DEF rank, best
    <3> QED BY <3>2
  <2>2. f \in Injection(best, 0..(n - 1))
    <3>1. \A g, h \in best : f[g] = f[h] => g = h
      <4> HIDE DEF rank
      <4> QED BY <1>5, <1>6
    <3> HIDE DEF f
    <3> QED BY <2>1, <3>1 DEF Injection, IsInjective
  <2>3. IsFiniteSet(0..(n - 1)) /\ Cardinality(0..(n - 1)) = IF 0 > n - 1 THEN 0 ELSE n - 1 - 0 + 1
    BY FS_Interval
  <2>4. Cardinality(0..(n - 1)) = n
    BY <2>3
  <2> HIDE DEF f, best
  <2> QED BY <2>2, <2>3, <2>4, FS_Injection
<1> QED BY <1>6, <1>7

\* Whatever the signal, the sample of a type keeps its cap and is empty only
\* when the type is.
LEMMA SampleIs ==
  ASSUME NEW garments, IsFiniteSet(garments), garments \subseteq Int,
         NEW cap \in Nat \ {0}, NEW signal, \A g \in DOMAIN signal.scores : signal.scores[g] \in Int,
         NEW S \in SamplesOf(garments, cap, signal)
  PROVE  /\ S \subseteq garments /\ IsFiniteSet(S)
         /\ Cardinality(S) <= cap
         /\ garments # {} => S # {}
<1> DEFINE kind == SelectionKind(garments, cap, signal)
           best == Foremost(garments, cap - RandomCount(cap), signal.scores)
<1>0. RandomCount(cap) \in 1..cap
  BY RandomCountIs
<1>1. CASE kind = "include_all"
  <2>1. S = garments
    BY <1>1 DEF SamplesOf
  <2>2. Cardinality(garments) <= cap
    BY <1>1 DEF SelectionKind
  <2> QED BY <2>1, <2>2
<1>2. CASE kind = "signal"
  <2>1. garments \subseteq DOMAIN signal.scores
    BY <1>2 DEF SelectionKind
  <2>2. \A g \in garments : signal.scores[g] \in Int
    BY <2>1
  <2>3. best \subseteq garments /\ Cardinality(best) <= cap - RandomCount(cap)
    <3>1. cap - RandomCount(cap) \in Nat
      BY <1>0
    <3> QED BY <2>2, <3>1, ForemostIs
  <2>4. PICK drawn \in Draws(garments \ best, RandomCount(cap)) : S = best \cup drawn
    BY <1>2 DEF SamplesOf
  <2>5. drawn \subseteq garments /\ Cardinality(drawn) = RandomCount(cap)
    BY <2>4 DEF Draws
  <2>6. IsFiniteSet(best) /\ IsFiniteSet(drawn)
    BY <2>3, <2>5, FS_Subset
  <2>7. /\ IsFiniteSet(best \cup drawn)
        /\ Cardinality(best \cup drawn) = Cardinality(best) + Cardinality(drawn) - Cardinality(best \cap drawn)
    BY <2>6, FS_Union
  <2>8. Cardinality(best) \in Nat /\ Cardinality(best \cap drawn) \in Nat
    BY <2>6, FS_Intersection, FS_CardinalityType
  <2>9. drawn # {}
    <3> SUFFICES ASSUME drawn = {} PROVE FALSE
      OBVIOUS
    <3>1. Cardinality(drawn) = 0
      BY FS_EmptySet
    <3> QED BY <1>0, <2>5, <3>1
  <2>10. Cardinality(S) <= cap
    <3> HIDE DEF best
    <3> QED BY <1>0, <2>3, <2>4, <2>5, <2>7, <2>8
  <2> QED BY <2>3, <2>4, <2>5, <2>7, <2>9, <2>10
<1>3. CASE kind # "include_all" /\ kind # "signal"
  <2>1. S \in Draws(garments, cap)
    BY <1>3 DEF SamplesOf
  <2>2. S \subseteq garments /\ Cardinality(S) = cap
    BY <2>1 DEF Draws
  <2>3. IsFiniteSet(S)
    BY <2>2, FS_Subset
  <2>4. S # {}
    BY <2>2, FS_EmptySet
  <2> QED BY <2>2, <2>3, <2>4
<1> QED BY <1>1, <1>2, <1>3

\* Making room for the missing kind of top keeps the size of the sample.
LEMMA WithBothKindsIs ==
  ASSUME NEW closet, NEW tops, IsFiniteSet(tops), tops \subseteq Int,
         NEW S \in SUBSET tops, tops # {} => S # {}, NEW cap \in Nat, Cardinality(S) <= cap
  PROVE  LET kept == WithBothKinds(S, tops, closet)
         IN  /\ kept \subseteq tops /\ IsFiniteSet(kept)
             /\ Cardinality(kept) <= cap
             /\ tops # {} => kept # {}
<1> DEFINE has(T, kind) == \E g \in T : closet[g].mid = kind
           repaired(T, kind) ==
             IF has(tops, kind) /\ ~has(T, kind)
             THEN (T \ {Max(T)}) \cup {Min({g \in tops : closet[g].mid = kind})}
             ELSE T
           Good(T) == T \subseteq tops /\ Cardinality(T) <= cap /\ (tops # {} => T # {})
<1>1. ASSUME NEW T, Good(T), NEW kind PROVE Good(repaired(T, kind))
  <2> DEFINE U == {g \in tops : closet[g].mid = kind}
             u == Min(U)
             x == Max(T)
  <2>1. CASE ~(has(tops, kind) /\ ~has(T, kind))
    BY <1>1, <2>1
  <2>2. CASE has(tops, kind) /\ ~has(T, kind)
    <3>1. U # {} /\ U \subseteq Int /\ U \subseteq tops
      BY <2>2
    <3>2. IsFiniteSet(U)
      <4> HIDE DEF U
      <4> QED BY <3>1, FS_Subset
    <3>3. u \in U
      <4> HIDE DEF U
      <4> QED BY <3>1, <3>2, Extremes
    <3>4. T # {} /\ IsFiniteSet(T) /\ T \subseteq Int
      BY <1>1, <3>1, FS_Subset
    <3>5. x \in T
      BY <3>4, Extremes
    <3> HIDE DEF u, x
    <3>6. IsFiniteSet(T \ {x}) /\ Cardinality(T \ {x}) = Cardinality(T) - 1
      BY <3>4, <3>5, FS_RemoveElement
    <3>7. Cardinality((T \ {x}) \cup {u}) = IF u \in T \ {x} THEN Cardinality(T \ {x}) ELSE Cardinality(T \ {x}) + 1
      BY <3>6, FS_AddElement
    <3>8. Cardinality(T) \in Nat
      BY <3>4, FS_CardinalityType
    <3>9. Cardinality((T \ {x}) \cup {u}) <= cap
      BY <1>1, <3>6, <3>7, <3>8
    <3>10. repaired(T, kind) = (T \ {x}) \cup {u}
      BY <2>2 DEF u, x
    <3> HIDE DEF repaired, U
    <3>11. u \in tops
      BY <3>1, <3>3
    <3> QED BY <1>1, <3>9, <3>10, <3>11
  <2> QED BY <2>1, <2>2
<1>2. Good(S)
  OBVIOUS
<1>3. WithBothKinds(S, tops, closet) =
        IF has(tops, TRUE) THEN repaired(repaired(S, TRUE), FALSE) ELSE S
  BY DEF WithBothKinds
<1> HIDE DEF repaired, has, Good
<1>4. Good(WithBothKinds(S, tops, closet))
  BY <1>1, <1>2, <1>3
<1>5. WithBothKinds(S, tops, closet) \subseteq tops
  BY <1>4 DEF Good
<1>6. IsFiniteSet(WithBothKinds(S, tops, closet))
  BY <1>5, FS_Subset
<1> QED BY <1>4, <1>6 DEF Good
-----------------------------------------------------------------------------
(* The pools of a render, and what the sampler goes by.                    *)

\* The standing rows are rows.
LEMMA WithActionIs ==
  ASSUME NEW rows \in Seq(FeedbackRow), NEW action
  PROVE  Standing(rows) \in Seq(FeedbackRow) /\ WithAction(rows, action) \in Seq(FeedbackRow)
<1> DEFINE heard == Firstly(rows, ScanLimit)
           scanned == Where(heard, Reaction)
           about(i) == <<scanned[i].snapshot, scanned[i].candidate>>
<1>0. ScanLimit \in Nat
  BY SignalsAssumption
<1>1. heard \in Seq(FeedbackRow)
  BY <1>0, FirstlyIs
<1> HIDE DEF heard
<1>2. scanned \in Seq(FeedbackRow)
  <2>1. {i \in DOMAIN heard : Reaction(heard[i])} \in SUBSET (1..Len(heard))
    BY <1>1, LenProperties
  <2> QED BY <1>1, <2>1, AtIs DEF Where
<1>3. Standing(rows) = At(scanned, {i \in DOMAIN scanned : \A j \in 1..(i - 1) : about(j) # about(i)})
  BY DEF Standing, heard
<1> HIDE DEF scanned
<1>4. Standing(rows) \in Seq(FeedbackRow)
  <2>1. {i \in DOMAIN scanned : \A j \in 1..(i - 1) : about(j) # about(i)} \in SUBSET (1..Len(scanned))
    BY <1>2, LenProperties
  <2> HIDE DEF about
  <2> QED BY <1>2, <1>3, <2>1, AtIs
<1>5. WithAction(rows, action) \in Seq(FeedbackRow)
  <2>1. {i \in DOMAIN Standing(rows) : Standing(rows)[i].action = action} \in SUBSET (1..Len(Standing(rows)))
    BY <1>4, LenProperties
  <2> QED BY <1>4, <2>1, AtIs DEF WithAction, Where
<1> QED BY <1>4, <1>5

\* What a garment is liked by is a number of rows.
LEMMA AffinityIs ==
  ASSUME NEW rows \in Seq(FeedbackRow), NEW g \in DOMAIN Affinity(rows)
  PROVE  Affinity(rows)[g] \in Nat
<1> DEFINE likes == WithAction(rows, "accepted")
           worn  == UNION {Filled(likes[i].slots) : i \in DOMAIN likes}
           liked(h) == {i \in DOMAIN likes : h \in Filled(likes[i].slots)}
<1>1. likes \in Seq(FeedbackRow)
  BY WithActionIs
<1>2. Affinity(rows) = [h \in worn |-> Cardinality(liked(h))]
  BY DEF Affinity
<1> HIDE DEF likes, worn
<1>3. g \in worn
  BY <1>2
<1>4. liked(g) \in SUBSET (1..Len(likes))
  BY <1>1, LenProperties
<1> HIDE DEF liked
<1>5. Cardinality(liked(g)) \in Nat
  BY <1>1, <1>4, AtIs
<1> QED BY <1>2, <1>3, <1>5

\* The scores the sampler goes by are numbers.
LEMMA SignalIs ==
  ASSUME NEW req \in Requests
  PROVE  \A g \in DOMAIN SignalOf(req).scores : SignalOf(req).scores[g] \in Int
<1> DEFINE liked == Affinity(req.rows)
           scores == [g \in DOMAIN req.closet |-> IF g \in DOMAIN liked THEN liked[g] ELSE 0]
<1>1. req.rows \in Seq(FeedbackRow)
  BY RequestAssumption
<1>2. \A g \in DOMAIN liked : liked[g] \in Nat
  BY <1>1, AffinityIs
<1>3. SignalOf(req).scores = scores
  BY DEF SignalOf
<1> HIDE DEF liked
<1>4. \A g \in DOMAIN scores : scores[g] \in Int
  BY <1>2
<1> HIDE DEF scores
<1> QED BY <1>3, <1>4

\* A sample of the closet, type by type.
SampleOf(p, closet) ==
  /\ p = [t \in Types |-> p[t]]
  /\ \A t \in Types : /\ p[t] \subseteq Partition(closet)[t] /\ IsFiniteSet(p[t])
                      /\ Cardinality(p[t]) <= Cap[t]
                      /\ Partition(closet)[t] # {} => p[t] # {}

\* Whatever is drawn, the pool is a sample of the closet within its caps.
LEMMA PoolsAre ==
  ASSUME NEW req \in Requests, NEW p \in CandidatePools(req.closet, SignalOf(req))
  PROVE  SampleOf(p, req.closet)
<1> DEFINE all        == Partition(req.closet)
           samples(t) == SamplesOf(all[t], Cap[t], SignalOf(req))
           Good(S, t) == /\ S \subseteq all[t] /\ IsFiniteSet(S) /\ Cardinality(S) <= Cap[t]
                         /\ all[t] # {} => S # {}
<1>1. \A t \in Types : all[t] \subseteq Int /\ IsFiniteSet(all[t]) /\ Cap[t] \in Nat \ {0}
  <2> TAKE t \in Types
  <2>1. all[t] \subseteq DOMAIN req.closet
    BY DEF Partition
  <2>2. DOMAIN req.closet \subseteq Int /\ IsFiniteSet(DOMAIN req.closet)
    BY RequestAssumption DEF Ids
  <2> QED BY <2>1, <2>2, FS_Subset, SamplerAssumption
<1>2. ASSUME NEW t \in Types, NEW S \in samples(t) PROVE Good(S, t)
  <2> HIDE DEF all
  <2> QED BY <1>1, SampleIs, SignalIs
<1>3. PICK tops \in samples("top"), bottoms \in samples("bottom"), dresses \in samples("dress"),
           outers \in samples("outer"), pairs \in samples("shoes") :
        p = [top    |-> WithBothKinds(tops, all["top"], req.closet),
             bottom |-> bottoms, dress |-> dresses, outer |-> outers, shoes |-> pairs]
  BY DEF CandidatePools
<1>4. Good(p["top"], "top")
  <2>1. Good(tops, "top") /\ "top" \in Types
    BY <1>2, SlotsAre
  <2>2. p["top"] = WithBothKinds(tops, all["top"], req.closet)
    BY <1>3
  <2> DEFINE T == all["top"]
             k == Cap["top"]
  <2>3. IsFiniteSet(T) /\ T \subseteq Int /\ tops \in SUBSET T /\ (T # {} => tops # {})
        /\ k \in Nat /\ Cardinality(tops) <= k
    BY <1>1, <2>1
  <2>4. Good(p["top"], "top") <=> /\ p["top"] \subseteq T /\ IsFiniteSet(p["top"])
                                  /\ Cardinality(p["top"]) <= k /\ (T # {} => p["top"] # {})
    OBVIOUS
  <2> HIDE DEF T, k, Good
  <2>5. /\ WithBothKinds(tops, T, req.closet) \subseteq T /\ IsFiniteSet(WithBothKinds(tops, T, req.closet))
        /\ Cardinality(WithBothKinds(tops, T, req.closet)) <= k
        /\ T # {} => WithBothKinds(tops, T, req.closet) # {}
    BY <2>3, WithBothKindsIs
  <2> QED BY <2>2, <2>4, <2>5 DEF T
<1>5. Good(p["bottom"], "bottom") /\ Good(p["dress"], "dress") /\ Good(p["outer"], "outer") /\ Good(p["shoes"], "shoes")
  <2> HIDE DEF Good
  <2> QED BY <1>2, <1>3, SlotsAre
<1>6. p = [t \in Types |-> p[t]]
  BY <1>3, SlotsAre
<1>7. \A t \in Types : Good(p[t], t)
  <2> HIDE DEF Good
  <2> QED BY <1>4, <1>5, SlotsAre
<1> QED BY <1>6, <1>7 DEF SampleOf

\* The sampler counts bases, and counts none exactly when there is none.
LEMMA BasesAre ==
  ASSUME NEW p, \A t \in Types : IsFiniteSet(p[t])
  PROVE  /\ Bases(p) \in Nat /\ CandidateRequested(p) \in Nat
         /\ HasBase(p) <=> Bases(p) # 0
         /\ HasBase(p) <=> CandidateRequested(p) # 0
<1> DEFINE a == Cardinality(p["top"])
           b == Cardinality(p["bottom"])
           d == Cardinality(p["dress"])
<1>1. /\ a \in Nat /\ b \in Nat /\ d \in Nat
      /\ (a = 0 <=> p["top"] = {}) /\ (b = 0 <=> p["bottom"] = {}) /\ (d = 0 <=> p["dress"] = {})
  BY SlotsAre, FS_CardinalityType, FS_EmptySet
<1>2. Bases(p) = a * b + d
  BY DEF Bases
<1>3. HasBase(p) <=> (a # 0 /\ b # 0) \/ d # 0
  BY <1>1 DEF HasBase
<1> HIDE DEF a, b, d
<1>4. a * b \in Nat /\ (a * b = 0 <=> a = 0 \/ b = 0)
  BY <1>1
<1>5. Bases(p) \in Nat /\ (HasBase(p) <=> Bases(p) # 0)
  BY <1>1, <1>2, <1>3, <1>4
<1>6. CandidateRequested(p) \in Nat /\ (CandidateRequested(p) # 0 <=> Bases(p) # 0)
  BY <1>5, SamplerAssumption DEF CandidateRequested, AtMost
<1> QED BY <1>5, <1>6
-----------------------------------------------------------------------------
(* The garments that must be worn, and the pool around them.               *)

Pins(req, t) == {g \in LocksOf(req) : TypeIn(req, g) = t}

\* A set of one element at the most holds no two.
LEMMA AtMostOne ==
  ASSUME NEW S, IsFiniteSet(S), Cardinality(S) <= 1, NEW x \in S, NEW y \in S
  PROVE  x = y
<1> SUFFICES ASSUME x # y PROVE FALSE
  OBVIOUS
<1>1. IsFiniteSet(S \ {x}) /\ Cardinality(S \ {x}) = Cardinality(S) - 1
  BY FS_RemoveElement
<1>2. Cardinality(S \ {x}) # 0
  BY <1>1, FS_EmptySet
<1> QED BY <1>1, <1>2, FS_CardinalityType

\* What the preflight lets through: the locks are in the closet, none is
\* disliked, and one template has a slot for each of them.
LEMMA PreflightIs ==
  ASSUME NEW req \in Requests, Preflight(req)
  PROVE  /\ IsFiniteSet(LocksOf(req)) /\ LocksOf(req) \subseteq DOMAIN req.closet
         /\ Nothing \notin LocksOf(req) /\ LocksOf(req) \cap req.disliked = {}
         /\ \A g \in LocksOf(req) : TypeIn(req, g) \in Types
         /\ \A t \in Types \ {"top"} : \A g, h \in Pins(req, t) : g = h
         /\ \/ \A g, h \in Pins(req, "top") : g = h
            \/ \E g, h \in Pins(req, "top") :
                 /\ Pins(req, "top") = {g, h}
                 /\ req.closet[g].mid /\ ~req.closet[h].mid
         /\ Pins(req, "dress") # {} => Pins(req, "top") = {} /\ Pins(req, "bottom") = {}
<1> DEFINE L == LocksOf(req)
<1>1. L \subseteq DOMAIN req.closet
  BY DEF Preflight, LocksOf
<1>2. Nothing \notin L
  BY RequestAssumption DEF LocksOf, Ids
<1>3. L \cap req.disliked = {}
  BY DEF Preflight, LocksOf
<1>4. IsFiniteSet(L) /\ \A t : IsFiniteSet(Pins(req, t))
  <2>1. IsFiniteSet(DOMAIN req.closet)
    BY RequestAssumption
  <2>2. IsFiniteSet(L) /\ \A t : Pins(req, t) \subseteq L
    BY <1>1, <2>1, FS_Subset DEF Pins
  <2> QED BY <2>2, FS_Subset
<1>5. \A g \in L : TypeIn(req, g) \in Types
  BY <1>1, RequestAssumption DEF TypeIn, GarmentRecord
<1>6. \A t \in Types : Cardinality(Pins(req, t)) <= 1 \/ (t = "top" /\ LayeredTops(req, Pins(req, t)))
  BY DEF Preflight, PinsFeasible, Pins
<1>7. \A t \in Types \ {"top"} : \A g, h \in Pins(req, t) : g = h
  BY <1>4, <1>6, AtMostOne
<1>8. \/ \A g, h \in Pins(req, "top") : g = h
      \/ \E g, h \in Pins(req, "top") :
           /\ Pins(req, "top") = {g, h}
           /\ req.closet[g].mid /\ ~req.closet[h].mid
  <2> DEFINE tops == Pins(req, "top")
             mids == {g \in tops : req.closet[g].mid}
  <2>1. CASE Cardinality(tops) <= 1
    BY <1>4, <2>1, AtMostOne
  <2>2. CASE LayeredTops(req, tops)
    <3>1. Cardinality(tops) = 2 /\ Cardinality(mids) = 1 /\ IsFiniteSet(tops) /\ mids \subseteq tops
      BY <1>4, <2>2 DEF LayeredTops
    <3> HIDE DEF tops
    <3>2. IsFiniteSet(mids)
      BY <3>1, FS_Subset
    <3>3. PICK g : mids = {g}
      <4> HIDE DEF mids
      <4> QED BY <3>1, <3>2, FS_Singleton
    <3>4. g \in tops /\ req.closet[g].mid
      BY <3>3
    <3>5. IsFiniteSet(tops \ {g}) /\ Cardinality(tops \ {g}) = 1
      BY <3>1, <3>4, FS_RemoveElement
    <3>6. PICK h : tops \ {g} = {h}
      BY <3>5, FS_Singleton
    <3>7. h \in tops /\ tops = {g, h} /\ ~req.closet[h].mid
      BY <3>3, <3>4, <3>6
    <3> QED BY <3>4, <3>7 DEF tops
  <2> QED BY <1>6, <2>1, <2>2, SlotsAre
<1>9. Pins(req, "dress") # {} => Pins(req, "top") = {} /\ Pins(req, "bottom") = {}
  <2>1. "dress" \in PinTypes(req) => {"top", "bottom"} \cap PinTypes(req) = {}
    BY DEF Preflight, PinsFeasible
  <2>2. \A t : t \in PinTypes(req) <=> Pins(req, t) # {}
    BY DEF PinTypes, Pins
  <2> QED BY <2>1, <2>2
<1> QED BY <1>1, <1>2, <1>3, <1>4, <1>5, <1>7, <1>8, <1>9

\* Narrowing keeps what must be worn and adds nothing to the sample; a type
\* that still has garments goes with everything that must be worn.
LEMMA ScopedIs ==
  ASSUME NEW req \in Requests, Preflight(req), NEW p, SampleOf(p, req.closet)
  PROVE  /\ \A t \in Types : /\ Pins(req, t) \subseteq Scoped(req, p)[t]
                             /\ Scoped(req, p)[t] \subseteq Pins(req, t) \cup p[t]
                             /\ Scoped(req, p)[t] \subseteq {g \in DOMAIN req.closet : TypeIn(req, g) = t}
         /\ \A t \in Types \ {"top"} : Pins(req, t) # {} => Scoped(req, p)[t] = Pins(req, t)
         /\ \A t \in Types : Pins(req, t) = {} /\ t \in ValidTypes(PinTypes(req)) => Scoped(req, p)[t] = p[t]
         /\ \A t \in {"top", "bottom"} : Scoped(req, p)[t] # {} => Pins(req, "dress") = {}
         /\ Scoped(req, p)["dress"] # {} => Pins(req, "top") = {} /\ Pins(req, "bottom") = {}
<1> DEFINE V == ValidTypes(PinTypes(req))
           S(t) == Scoped(req, p)[t]
<1>1. \A t \in Types :
        S(t) = CASE t = "top" /\ Pins(req, t) # {}  -> TopsAround(req, p, Pins(req, t))
                 [] t # "top" /\ Pins(req, t) # {}  -> Pins(req, t)
                 [] Pins(req, t) = {} /\ t \in V    -> p[t]
                 [] OTHER                           -> {}
  BY DEF Scoped, Pins
<1>2. ASSUME NEW pins PROVE pins \subseteq TopsAround(req, p, pins) /\ TopsAround(req, p, pins) \subseteq pins \cup p["top"]
  <2> DEFINE partners == {g \in p["top"] \ pins : req.closet[g].mid # req.closet[CHOOSE x \in pins : TRUE].mid}
  <2>1. TopsAround(req, p, pins) = IF Cardinality(pins) > 1 THEN pins ELSE pins \cup Least(partners, Cap["top"] - 1)
    BY DEF TopsAround
  <2>2. Least(partners, Cap["top"] - 1) \subseteq p["top"]
    BY DEF Least
  <2> HIDE DEF partners
  <2> QED BY <2>1, <2>2
<1>3. \A t \in Types \ {"top"} : Pins(req, t) # {} => S(t) = Pins(req, t)
  <2> HIDE DEF V, S
  <2> QED BY <1>1
<1>4. Pins(req, "top") # {} => S("top") = TopsAround(req, p, Pins(req, "top"))
  <2> HIDE DEF V, S
  <2> QED BY <1>1, SlotsAre
<1>5. \A t \in Types : Pins(req, t) = {} /\ t \in V => S(t) = p[t]
  <2> HIDE DEF V, S
  <2> QED BY <1>1
<1>6. \A t \in Types : Pins(req, t) = {} /\ t \notin V => S(t) = {}
  <2> HIDE DEF V, S
  <2> QED BY <1>1
<1>7. \A t \in Types : Pins(req, t) \subseteq S(t) /\ S(t) \subseteq Pins(req, t) \cup p[t]
  <2> TAKE t \in Types
  <2> HIDE DEF V, S
  <2>1. CASE Pins(req, t) # {} /\ t # "top"
    BY <1>3, <2>1
  <2>2. CASE Pins(req, t) # {} /\ t = "top"
    BY <1>2, <1>4, <2>2
  <2>3. CASE Pins(req, t) = {}
    BY <1>5, <1>6, <2>3
  <2> QED BY <2>1, <2>2, <2>3
<1>8. \A t \in Types : S(t) \subseteq {g \in DOMAIN req.closet : TypeIn(req, g) = t}
  <2> TAKE t \in Types
  <2>1. Pins(req, t) \subseteq {g \in DOMAIN req.closet : TypeIn(req, g) = t}
    BY PreflightIs DEF Pins
  <2>2. p[t] \subseteq {g \in DOMAIN req.closet : TypeIn(req, g) = t}
    BY DEF SampleOf, Partition, TypeIn
  <2> HIDE DEF S
  <2> QED BY <1>7, <2>1, <2>2
<1>9. \A t : t \in PinTypes(req) <=> Pins(req, t) # {}
  BY DEF PinTypes, Pins
<1>10. \A t \in {"top", "bottom"} : t \in V => Pins(req, "dress") = {}
  <2> SUFFICES ASSUME NEW t \in {"top", "bottom"}, t \in V, "dress" \in PinTypes(req) PROVE FALSE
    BY <1>9
  <2> QED BY DEF ValidTypes
<1>11. "dress" \in V => Pins(req, "top") = {} /\ Pins(req, "bottom") = {}
  <2> SUFFICES ASSUME "dress" \in V, NEW t \in {"top", "bottom"}, t \in PinTypes(req) PROVE FALSE
    BY <1>9
  <2> QED BY DEF ValidTypes
<1>12. \A t \in {"top", "bottom"} : S(t) # {} => Pins(req, "dress") = {}
  <2> TAKE t \in {"top", "bottom"}
  <2>1. Pins(req, t) # {} => Pins(req, "dress") = {}
    BY PreflightIs
  <2> HIDE DEF V, S
  <2> QED BY <1>6, <1>10, <2>1, SlotsAre
<1>13. S("dress") # {} => Pins(req, "top") = {} /\ Pins(req, "bottom") = {}
  <2>1. Pins(req, "dress") # {} => Pins(req, "top") = {} /\ Pins(req, "bottom") = {}
    BY PreflightIs
  <2> HIDE DEF V, S
  <2> QED BY <1>6, <1>11, <2>1, SlotsAre
<1> QED BY <1>3, <1>5, <1>7, <1>8, <1>12, <1>13

\* The types that go with what must be worn: a dress unless a top or a bottom
\* must, a top and a bottom unless a dress must.
LEMMA ValidTypesAre ==
  ASSUME NEW req \in Requests, Preflight(req)
  PROVE  /\ Pins(req, "dress") = {} => {"top", "bottom"} \subseteq ValidTypes(PinTypes(req))
         /\ Pins(req, "top") = {} /\ Pins(req, "bottom") = {} => "dress" \in ValidTypes(PinTypes(req))
         /\ LocksOf(req) = {} => ValidTypes(PinTypes(req)) = Types
<1> DEFINE with(t) == CASE t \in {"top", "bottom"} -> Types \ {"dress"}
                        [] t = "dress"             -> {"dress", "outer", "shoes"}
                        [] OTHER                   -> Types
           P == PinTypes(req)
<1>1. ValidTypes(P) = {t \in Types : \A q \in P : t \in with(q)}
  BY DEF ValidTypes
<1>2. /\ \A q : q # "dress" => {"top", "bottom"} \subseteq with(q)
      /\ \A q : q \notin {"top", "bottom"} => "dress" \in with(q)
  <2>1. ASSUME NEW q, q # "dress" PROVE {"top", "bottom"} \subseteq with(q)
    <3>1. CASE q \in {"top", "bottom"}
      BY <3>1, SlotsAre
    <3>2. CASE q \notin {"top", "bottom"}
      BY <2>1, <3>2, SlotsAre
    <3> QED BY <3>1, <3>2
  <2>2. ASSUME NEW q, q \notin {"top", "bottom"} PROVE "dress" \in with(q)
    <3>1. CASE q = "dress"
      BY <3>1, SlotsAre
    <3>2. CASE q # "dress"
      BY <2>2, <3>2, SlotsAre
    <3> QED BY <3>1, <3>2
  <2> QED BY <2>1, <2>2
<1>3. \A t : t \in P <=> Pins(req, t) # {}
  BY DEF PinTypes, Pins
<1>4. LocksOf(req) = {} => P = {}
  BY DEF PinTypes
<1> HIDE DEF with, P
<1>5. Pins(req, "dress") = {} => {"top", "bottom"} \subseteq ValidTypes(P)
  BY <1>1, <1>2, <1>3, SlotsAre
<1>6. Pins(req, "top") = {} /\ Pins(req, "bottom") = {} => "dress" \in ValidTypes(P)
  BY <1>1, <1>2, <1>3, SlotsAre
<1>7. LocksOf(req) = {} => ValidTypes(P) = Types
  BY <1>1, <1>4
<1> QED BY <1>5, <1>6, <1>7 DEF P
-----------------------------------------------------------------------------
(* The engine counts types of garments; an outfit is made of garments.     *)

\* A map whose every garment comes from the narrowed pool, is not disliked
\* and fits its slot is an outfit, when it has a base and every lock.
LEMMA MapIsWearable ==
  ASSUME NEW req \in Requests, Preflight(req), NEW p, SampleOf(p, req.closet),
         NEW m, m = [dress |-> m.dress, top |-> m.top, bottom |-> m.bottom,
                     mid |-> m.mid, outer |-> m.outer, shoes |-> m.shoes],
         \A s \in Slots : m[s] # Nothing => m[s] \in Scoped(req, p)[TypeOfSlot[s]] \ req.disliked,
         \/ m.dress # Nothing /\ m.top = Nothing /\ m.bottom = Nothing /\ m.mid = Nothing
         \/ m.dress = Nothing /\ m.top # Nothing /\ m.bottom # Nothing,
         m.mid # Nothing => req.closet[m.mid].mid /\ ~req.closet[m.top].mid,
         LocksOf(req) \subseteq Filled(m)
  PROVE  m \in Wearable(req, Members(Scoped(req, p)))
<1> DEFINE shown == Members(Scoped(req, p))
<1>1. \A s \in Slots : m[s] # Nothing => m[s] \in shown /\ req.closet[m[s]].type = TypeOfSlot[s]
  <2> TAKE s \in Slots
  <2>1. TypeOfSlot[s] \in Types
    BY SlotsAre
  <2>2. Scoped(req, p)[TypeOfSlot[s]] \subseteq {g \in DOMAIN req.closet : TypeIn(req, g) = TypeOfSlot[s]}
    BY <2>1, ScopedIs
  <2>3. Scoped(req, p)[TypeOfSlot[s]] \subseteq shown
    BY <2>1 DEF Members
  <2> HIDE DEF shown
  <2> QED BY <2>2, <2>3 DEF TypeIn
<1> HIDE DEF shown
<1>2. \A s \in Slots : Fits(m, s, shown, req.closet)
  BY <1>1 DEF Fits
<1>3. SlotIssue(m) = "ok"
  <2>1. ASSUME NEW s \in Slots, NEW t \in Slots, s # t, m[s] # Nothing, m[s] = m[t] PROVE FALSE
    <3>1. TypeOfSlot[s] = TypeOfSlot[t]
      BY <1>1, <2>1
    <3>2. (s = "top" /\ t = "mid") \/ (s = "mid" /\ t = "top")
      BY <2>1, <3>1, SlotsAre
    <3> QED BY <2>1, <3>2
  <2>2. \A s, t \in Slots : s # t /\ m[s] # Nothing => m[s] # m[t]
    BY <2>1
  <2> QED BY <2>2, SlotOk
<1>4. Filled(m) \cap req.disliked = {}
  BY DEF Filled
<1> QED BY <1>2, <1>3, <1>4, WearableIs DEF shown

\* What must be worn of a type that one slot takes: one garment, or nothing.
PinOf(req, t) == IF Pins(req, t) = {} THEN Nothing ELSE CHOOSE g \in Pins(req, t) : TRUE

\* Outside the tops, that garment is all that must be worn of the type.
LEMMA PinOfIs ==
  ASSUME NEW req \in Requests, Preflight(req), NEW t \in Types \ {"top"}
  PROVE  /\ PinOf(req, t) # Nothing => PinOf(req, t) \in Pins(req, t)
         /\ Pins(req, t) \subseteq {PinOf(req, t)}
<1>1. Pins(req, t) # {} => PinOf(req, t) \in Pins(req, t)
  BY DEF PinOf
<1>2. Pins(req, t) = {} => PinOf(req, t) = Nothing
  BY DEF PinOf
<1>3. \A g, h \in Pins(req, t) : g = h
  BY PreflightIs
<1> QED BY <1>1, <1>2, <1>3

\* A base that the dislikes leave in the narrowed pool can be completed to an
\* outfit with everything that must be worn.
LEMMA BaseIsWearable ==
  ASSUME NEW req \in Requests, Preflight(req), NEW p, SampleOf(p, req.closet),
         HasBase([t \in Types |-> Scoped(req, p)[t] \ req.disliked])
  PROVE  Wearable(req, Members(Scoped(req, p))) # {}
<1> DEFINE S(t) == Scoped(req, p)[t]
           o == PinOf(req, "outer")
           h == PinOf(req, "shoes")
<1>0. /\ LocksOf(req) \cap req.disliked = {}
      /\ LocksOf(req) = UNION {Pins(req, t) : t \in Types}
      /\ \A t \in Types : Pins(req, t) \subseteq S(t) \ req.disliked
  <2>1. LocksOf(req) \cap req.disliked = {} /\ \A g \in LocksOf(req) : TypeIn(req, g) \in Types
    BY PreflightIs
  <2>2. LocksOf(req) = UNION {Pins(req, t) : t \in Types}
    BY <2>1 DEF Pins
  <2>3. \A t \in Types : Pins(req, t) \subseteq S(t)
    BY ScopedIs
  <2> HIDE DEF S
  <2> QED BY <2>1, <2>2, <2>3
<1>1. /\ o # Nothing => o \in S("outer") \ req.disliked
      /\ h # Nothing => h \in S("shoes") \ req.disliked
      /\ Pins(req, "outer") \subseteq {o} /\ Pins(req, "shoes") \subseteq {h}
  <2> HIDE DEF S, o, h
  <2> QED BY <1>0, PinOfIs, SlotsAre DEF o, h
<1>2. \/ S("dress") \ req.disliked # {}
      \/ S("top") \ req.disliked # {} /\ S("bottom") \ req.disliked # {}
  BY SlotsAre DEF HasBase
<1>3. Nothing \notin LocksOf(req) /\ \A t \in Types : Nothing \notin S(t)
  <2>1. Nothing \notin LocksOf(req)
    BY PreflightIs
  <2>2. Nothing \notin DOMAIN req.closet
    BY RequestAssumption DEF Ids
  <2>3. \A t \in Types : S(t) \subseteq DOMAIN req.closet
    BY ScopedIs
  <2> HIDE DEF S
  <2> QED BY <2>1, <2>2, <2>3
<1>4. CASE S("dress") \ req.disliked # {}
  <2>1. PICK d \in S("dress") \ req.disliked : TRUE
    BY <1>4
  <2>2. Pins(req, "top") = {} /\ Pins(req, "bottom") = {}
    BY <2>1, ScopedIs
  <2>3. Pins(req, "dress") \subseteq {d}
    <3>1. Pins(req, "dress") # {} => S("dress") = Pins(req, "dress")
      BY SlotsAre, ScopedIs
    <3>2. \A g, g2 \in Pins(req, "dress") : g = g2
      BY SlotsAre, PreflightIs
    <3> HIDE DEF S
    <3> QED BY <2>1, <3>1, <3>2
  <2> DEFINE m == [dress |-> d, top |-> Nothing, bottom |-> Nothing, mid |-> Nothing, outer |-> o, shoes |-> h]
  <2> HIDE DEF S, o, h
  <2>4. \A s \in Slots : m[s] # Nothing => m[s] \in S(TypeOfSlot[s]) \ req.disliked
    BY <1>1, <2>1, SlotsAre
  <2>5. Filled(m) = {d, o, h} \ {Nothing}
    BY SlotsAre DEF Filled
  <2>6. LocksOf(req) \subseteq Filled(m)
    <3> HIDE DEF m
    <3> QED BY <1>0, <1>1, <1>3, <2>2, <2>3, <2>5, SlotsAre
  <2>7. d # Nothing
    BY <1>3, <2>1, SlotsAre
  <2>8. /\ m = [dress |-> m.dress, top |-> m.top, bottom |-> m.bottom, mid |-> m.mid, outer |-> m.outer, shoes |-> m.shoes]
        /\ m.dress # Nothing /\ m.top = Nothing /\ m.bottom = Nothing /\ m.mid = Nothing
    BY <2>7
  <2> HIDE DEF m
  <2> QED BY <2>4, <2>6, <2>8, MapIsWearable DEF S
<1>5. CASE S("top") \ req.disliked # {} /\ S("bottom") \ req.disliked # {}
  <2>1. PICK t0 \in S("top") \ req.disliked, b \in S("bottom") \ req.disliked : TRUE
    BY <1>5
  <2>2. Pins(req, "dress") = {}
    BY <2>1, ScopedIs
  <2>3. Pins(req, "bottom") \subseteq {b}
    <3>1. Pins(req, "bottom") # {} => S("bottom") = Pins(req, "bottom")
      BY SlotsAre, ScopedIs
    <3>2. \A g, g2 \in Pins(req, "bottom") : g = g2
      BY SlotsAre, PreflightIs
    <3> HIDE DEF S
    <3> QED BY <2>1, <3>1, <3>2
  <2>4. \E t \in S("top") \ req.disliked, x \in (S("top") \ req.disliked) \cup {Nothing} :
           /\ Pins(req, "top") \subseteq {t, x}
           /\ x # Nothing => req.closet[x].mid /\ ~req.closet[t].mid
    <3>1. CASE \A g, g2 \in Pins(req, "top") : g = g2
      <4>1. CASE Pins(req, "top") = {}
        BY <2>1, <4>1
      <4>2. CASE Pins(req, "top") # {}
        <5>1. PICK g \in Pins(req, "top") : Pins(req, "top") = {g}
          BY <3>1, <4>2
        <5> HIDE DEF S
        <5> QED BY <1>0, <5>1, SlotsAre
      <4> QED BY <4>1, <4>2
    <3>2. CASE \E g, g2 \in Pins(req, "top") :
                 /\ Pins(req, "top") = {g, g2}
                 /\ req.closet[g].mid /\ ~req.closet[g2].mid
      <4> HIDE DEF S
      <4> QED BY <1>0, <3>2, SlotsAre
    <3> QED BY <3>1, <3>2, PreflightIs
  <2>5. PICK t \in S("top") \ req.disliked, x \in (S("top") \ req.disliked) \cup {Nothing} :
           /\ Pins(req, "top") \subseteq {t, x}
           /\ x # Nothing => req.closet[x].mid /\ ~req.closet[t].mid
    BY <2>4
  <2> DEFINE m == [dress |-> Nothing, top |-> t, bottom |-> b, mid |-> x, outer |-> o, shoes |-> h]
  <2> HIDE DEF S, o, h
  <2>6. \A s \in Slots : m[s] # Nothing => m[s] \in S(TypeOfSlot[s]) \ req.disliked
    BY <1>1, <2>1, <2>5, SlotsAre
  <2>7. Filled(m) = {t, b, x, o, h} \ {Nothing}
    BY SlotsAre DEF Filled
  <2>8. LocksOf(req) \subseteq Filled(m)
    <3> HIDE DEF m
    <3> QED BY <1>0, <1>1, <1>3, <2>2, <2>3, <2>5, <2>7, SlotsAre
  <2>9. t # Nothing /\ b # Nothing
    BY <1>3, <2>1, <2>5, SlotsAre
  <2>10. /\ m = [dress |-> m.dress, top |-> m.top, bottom |-> m.bottom, mid |-> m.mid, outer |-> m.outer, shoes |-> m.shoes]
         /\ m.dress = Nothing /\ m.top # Nothing /\ m.bottom # Nothing
         /\ m.mid # Nothing => req.closet[m.mid].mid /\ ~req.closet[m.top].mid
    BY <2>5, <2>9
  <2> HIDE DEF m
  <2> QED BY <2>6, <2>8, <2>10, MapIsWearable DEF S
<1> QED BY <1>2, <1>4, <1>5

\* And conversely: an outfit with everything that must be worn has its base
\* in the narrowed pool.
LEMMA WearableHasBase ==
  ASSUME NEW req \in Requests, Preflight(req), NEW p, SampleOf(p, req.closet),
         NEW m \in Wearable(req, Members(p) \cup LocksOf(req))
  PROVE  HasBase([t \in Types |-> Scoped(req, p)[t] \ req.disliked])
<1> DEFINE S(t) == Scoped(req, p)[t]
           shown == Members(p) \cup LocksOf(req)
<1>1. /\ SlotIssue(m) = "ok"
      /\ \A s \in Slots : Fits(m, s, shown, req.closet)
      /\ LocksOf(req) \subseteq Filled(m) /\ Filled(m) \cap req.disliked = {}
  BY WearableIs
<1>2. \A s \in Slots : m[s] # Nothing =>
        /\ m[s] \in Pins(req, TypeOfSlot[s]) \cup p[TypeOfSlot[s]]
        /\ m[s] \notin req.disliked
  <2> TAKE s \in Slots
  <2> HAVE m[s] # Nothing
  <2>1. m[s] \in shown /\ req.closet[m[s]].type = TypeOfSlot[s]
    BY <1>1 DEF Fits
  <2>2. m[s] \notin req.disliked
    BY <1>1 DEF Filled
  <2>3. CASE m[s] \in LocksOf(req)
    BY <2>1, <2>2, <2>3 DEF Pins, TypeIn
  <2>4. CASE m[s] \in Members(p)
    <3>1. PICK t \in Types : m[s] \in p[t]
      BY <2>4 DEF Members
    <3>2. t = TypeOfSlot[s]
      BY <2>1, <3>1 DEF SampleOf, Partition
    <3> QED BY <2>2, <3>1, <3>2
  <2> QED BY <2>1, <2>3, <2>4
<1>3. \A t \in Types : \A g \in Pins(req, t) : \E s \in Slots : TypeOfSlot[s] = t /\ m[s] = g /\ g # Nothing
  <2> TAKE t \in Types
  <2> TAKE g \in Pins(req, t)
  <2>1. g \in Filled(m) /\ TypeIn(req, g) = t
    BY <1>1 DEF Pins
  <2>2. PICK s \in Slots : m[s] = g /\ g # Nothing
    BY <2>1 DEF Filled
  <2> QED BY <1>1, <2>1, <2>2 DEF Fits, TypeIn
<1>4. \/ m.dress # Nothing /\ m.top = Nothing /\ m.bottom = Nothing /\ m.mid = Nothing
      \/ m.dress = Nothing /\ m.top # Nothing /\ m.bottom # Nothing
  BY <1>1, SlotOk
<1>5. CASE m.dress # Nothing /\ m.top = Nothing /\ m.bottom = Nothing /\ m.mid = Nothing
  <2>1. Pins(req, "top") = {} /\ Pins(req, "bottom") = {}
    BY <1>3, <1>5, SlotsAre
  <2>2. "dress" \in ValidTypes(PinTypes(req))
    BY <2>1, ValidTypesAre
  <2>3. Pins(req, "dress") # {} => m.dress \in Pins(req, "dress")
    BY <1>3, SlotsAre
  <2>4. m.dress \in S("dress") \ req.disliked
    <3>1. m.dress \in Pins(req, "dress") \cup p["dress"] /\ m.dress \notin req.disliked
      BY <1>2, <1>5, SlotsAre
    <3>2. CASE Pins(req, "dress") = {}
      <4>1. S("dress") = p["dress"]
        BY <2>2, <3>2, SlotsAre, ScopedIs
      <4> QED BY <3>1, <3>2, <4>1
    <3>3. CASE Pins(req, "dress") # {}
      <4>1. S("dress") = Pins(req, "dress")
        BY <3>3, SlotsAre, ScopedIs
      <4> QED BY <2>3, <3>1, <3>3, <4>1
    <3> QED BY <3>2, <3>3
  <2> HIDE DEF S
  <2> QED BY <2>4, SlotsAre DEF HasBase, S
<1>6. CASE m.dress = Nothing /\ m.top # Nothing /\ m.bottom # Nothing
  <2>1. Pins(req, "dress") = {}
    BY <1>3, <1>6, SlotsAre
  <2>2. {"top", "bottom"} \subseteq ValidTypes(PinTypes(req))
    BY <2>1, ValidTypesAre
  <2>3. m.bottom \in S("bottom") \ req.disliked
    <3>1. m.bottom \in Pins(req, "bottom") \cup p["bottom"] /\ m.bottom \notin req.disliked
      BY <1>2, <1>6, SlotsAre
    <3>2. CASE Pins(req, "bottom") = {}
      <4>1. S("bottom") = p["bottom"]
        BY <2>2, <3>2, SlotsAre, ScopedIs
      <4> QED BY <3>1, <3>2, <4>1
    <3>3. CASE Pins(req, "bottom") # {}
      <4>1. S("bottom") = Pins(req, "bottom")
        BY <3>3, SlotsAre, ScopedIs
      <4>2. m.bottom \in Pins(req, "bottom")
        BY <1>3, <3>3, SlotsAre
      <4> QED BY <3>1, <4>1, <4>2
    <3> QED BY <3>2, <3>3
  <2>4. S("top") \ req.disliked # {}
    <3>1. CASE Pins(req, "top") = {}
      <4>1. S("top") = p["top"]
        BY <2>2, <3>1, SlotsAre, ScopedIs
      <4>2. m.top \in p["top"] /\ m.top \notin req.disliked
        BY <1>2, <1>6, <3>1, SlotsAre
      <4> QED BY <4>1, <4>2
    <3>2. CASE Pins(req, "top") # {}
      <4>1. PICK g \in Pins(req, "top") : TRUE
        BY <3>2
      <4>2. g \in S("top")
        BY <4>1, SlotsAre, ScopedIs
      <4>3. g \notin req.disliked
        BY <4>1, PreflightIs DEF Pins
      <4> QED BY <4>2, <4>3
    <3> QED BY <3>1, <3>2
  <2> HIDE DEF S
  <2> QED BY <2>3, <2>4, SlotsAre DEF HasBase, S
<1> QED BY <1>4, <1>5, <1>6
-----------------------------------------------------------------------------
(* A closet that the counts call too small makes no outfit.                *)

\* An outfit of the whole closet has a base there, and in every sample of it.
LEMMA UnderstockedIsEmpty ==
  ASSUME NEW req \in Requests, Preflight(req), NEW m \in Wearable(req, DOMAIN req.closet)
  PROVE  /\ HasBase(Partition(req.closet))
         /\ req.intent = "rescue_item" => Sufficient(req)
         /\ \A p : SampleOf(p, req.closet) => HasBase(p)
<1> DEFINE all == Partition(req.closet)
<1>1. /\ \A s \in Slots : m[s] # Nothing =>
            m[s] \in DOMAIN req.closet /\ req.closet[m[s]].type = TypeOfSlot[s]
      /\ LocksOf(req) \subseteq Filled(m)
      /\ \/ m.dress # Nothing /\ m.top = Nothing /\ m.bottom = Nothing /\ m.mid = Nothing
         \/ m.dress = Nothing /\ m.top # Nothing /\ m.bottom # Nothing
  BY WearableIs, SlotOk DEF Fits
<1>2. \A s \in Slots : m[s] # Nothing => m[s] \in all[TypeOfSlot[s]]
  BY <1>1, SlotsAre DEF Partition
<1>3. HasBase(all)
  <2> HIDE DEF all
  <2> QED BY <1>1, <1>2, SlotsAre DEF HasBase
<1>4. ASSUME NEW p, SampleOf(p, req.closet) PROVE HasBase(p)
  <2>1. \A t \in Types : all[t] # {} => p[t] # {}
    BY <1>4 DEF SampleOf
  <2> HIDE DEF all
  <2> QED BY <1>3, <2>1, SlotsAre DEF HasBase
<1>5. ASSUME req.intent = "rescue_item" PROVE Sufficient(req)
  <2>1. req.forced # Nothing /\ req.forced \in LocksOf(req)
    BY <1>5 DEF Preflight, LocksOf
  <2>2. PICK s \in Slots : m[s] = req.forced
    BY <1>1, <2>1 DEF Filled
  <2>3. TypeIn(req, req.forced) = TypeOfSlot[s]
    BY <1>1, <2>1, <2>2 DEF TypeIn
  <2>4. TypeIn(req, req.forced) = "top" => all["bottom"] # {}
    <3> HIDE DEF all
    <3> QED BY <1>1, <1>2, <2>1, <2>2, <2>3, SlotsAre
  <2>5. TypeIn(req, req.forced) = "bottom" => all["top"] # {}
    <3> HIDE DEF all
    <3> QED BY <1>1, <1>2, <2>1, <2>2, <2>3, SlotsAre
  <2>6. Sufficient(req) =
          CASE TypeIn(req, req.forced) = "top"    -> all["bottom"] # {}
            [] TypeIn(req, req.forced) = "bottom" -> all["top"] # {}
            [] TypeIn(req, req.forced) = "dress"  -> TRUE
            [] OTHER                              -> HasBase(all)
    BY DEF Sufficient
  <2> HIDE DEF all
  <2>7. CASE TypeIn(req, req.forced) = "top"
    BY <2>4, <2>6, <2>7
  <2>8. CASE TypeIn(req, req.forced) = "bottom"
    BY <2>5, <2>6, <2>8
  <2>9. CASE TypeIn(req, req.forced) = "dress"
    BY <2>6, <2>9
  <2>10. CASE TypeIn(req, req.forced) \notin {"top", "bottom", "dress"}
    BY <1>3, <2>6, <2>10
  <2> QED BY <2>7, <2>8, <2>9, <2>10
<1> QED BY <1>3, <1>4, <1>5

\* Without controls, what the counts accept is in the narrowed pool too.
LEMMA StockedHasBase ==
  ASSUME NEW req \in Requests, Preflight(req), req.locked = {}, req.disliked = {},
         NEW p, SampleOf(p, req.closet),
         IF req.intent = "daily" THEN CandidateRequested(p) # 0 ELSE Sufficient(req)
  PROVE  HasBase([t \in Types |-> Scoped(req, p)[t] \ req.disliked])
<1> DEFINE all == Partition(req.closet)
           S(t) == Scoped(req, p)[t]
<1>1. SUFFICES (S("top") # {} /\ S("bottom") # {}) \/ S("dress") # {}
  BY SlotsAre DEF HasBase
<1>2. \A t \in Types : IsFiniteSet(p[t]) /\ (all[t] # {} => p[t] # {})
  BY DEF SampleOf
<1>3. /\ \A t \in Types : Pins(req, t) = {} /\ t \in ValidTypes(PinTypes(req)) => S(t) = p[t]
      /\ \A t \in Types : Pins(req, t) \subseteq S(t)
  BY ScopedIs
<1>4. CASE req.intent = "daily"
  <2>1. req.forced = Nothing /\ LocksOf(req) = {}
    BY <1>4 DEF Preflight, LocksOf
  <2>2. \A t \in Types : Pins(req, t) = {} /\ t \in ValidTypes(PinTypes(req))
    BY <2>1, ValidTypesAre DEF Pins
  <2>3. HasBase(p)
    BY <1>2, <1>4, BasesAre
  <2> HIDE DEF S
  <2> QED BY <1>3, <2>2, <2>3, SlotsAre DEF HasBase
<1>5. CASE req.intent # "daily"
  <2>0. req.intent = "rescue_item"
    BY <1>5, RequestAssumption
  <2>1. req.forced # Nothing /\ LocksOf(req) = {req.forced} /\ Sufficient(req)
    BY <1>5, <2>0 DEF Preflight, LocksOf
  <2> DEFINE f == TypeIn(req, req.forced)
  <2>2. /\ f \in Types
        /\ \A t \in Types : Pins(req, t) = IF t = f THEN {req.forced} ELSE {}
    BY <2>1, PreflightIs DEF Pins
  <2>3. Sufficient(req) =
          CASE f = "top"    -> all["bottom"] # {}
            [] f = "bottom" -> all["top"] # {}
            [] f = "dress"  -> TRUE
            [] OTHER        -> HasBase(all)
    BY DEF Sufficient
  <2> HIDE DEF f, all
  <2>4. S(f) # {}
    <3> HIDE DEF S
    <3> QED BY <1>3, <2>2
  <2>5. CASE f = "top"
    <3>1. "bottom" \in ValidTypes(PinTypes(req)) /\ Pins(req, "bottom") = {}
      BY <2>2, <2>5, SlotsAre, ValidTypesAre
    <3>2. all["bottom"] # {}
      BY <2>1, <2>3, <2>5
    <3> HIDE DEF S
    <3> QED BY <1>2, <1>3, <2>4, <2>5, <3>1, <3>2, SlotsAre
  <2>6. CASE f = "bottom"
    <3>1. "top" \in ValidTypes(PinTypes(req)) /\ Pins(req, "top") = {}
      BY <2>2, <2>6, SlotsAre, ValidTypesAre
    <3>2. all["top"] # {}
      BY <2>1, <2>3, <2>6
    <3> HIDE DEF S
    <3> QED BY <1>2, <1>3, <2>4, <2>6, <3>1, <3>2, SlotsAre
  <2>7. CASE f = "dress"
    <3> HIDE DEF S
    <3> QED BY <2>4, <2>7
  <2>8. CASE f \notin {"top", "bottom", "dress"}
    <3>1. Pins(req, "top") = {} /\ Pins(req, "bottom") = {} /\ Pins(req, "dress") = {}
      BY <2>2, <2>8, SlotsAre
    <3>2. {"top", "bottom", "dress"} \subseteq ValidTypes(PinTypes(req))
      BY <3>1, ValidTypesAre
    <3>3. HasBase(all)
      BY <2>1, <2>3, <2>8
    <3> HIDE DEF S
    <3> QED BY <1>2, <1>3, <3>1, <3>2, <3>3, SlotsAre DEF HasBase
  <2> QED BY <2>5, <2>6, <2>7, <2>8
<1> QED BY <1>4, <1>5

\* The number of drafts that is paid for keeps its bounds.
LEMMA AskedIs ==
  ASSUME NEW req \in Requests, Preflight(req), NEW p, SampleOf(p, req.closet)
  PROVE  /\ CandidateRequested(p) # 0 => DailyRequested(p) \in 1..MaxCandidates
         /\ RescueRequested(req, Scoped(req, p)) \in 1..MaxCandidates
<1>1. \A t \in Types : IsFiniteSet(p[t]) /\ IsFiniteSet(Scoped(req, p)[t])
  <2>1. IsFiniteSet(DOMAIN req.closet)
    BY RequestAssumption
  <2>2. \A t \in Types : Scoped(req, p)[t] \subseteq DOMAIN req.closet
    BY ScopedIs
  <2> QED BY <2>1, <2>2, FS_Subset DEF SampleOf
<1>2. CandidateRequested(p) # 0 => DailyRequested(p) \in 1..MaxCandidates
  <2>1. CandidateRequested(p) \in Nat
    BY <1>1, BasesAre
  <2>2. MaxCandidates \in Nat /\ DailyMax \in Nat \ {0} /\ DailyMax <= MaxCandidates
    BY SamplerAssumption, PipelineAssumption
  <2> QED BY <2>1, <2>2 DEF DailyRequested, AtMost
<1>3. RescueRequested(req, Scoped(req, p)) \in 1..MaxCandidates
  <2> DEFINE S == Scoped(req, p)
             f == TypeIn(req, req.forced)
             completions == CASE f = "top"    -> Cardinality(S["bottom"])
                              [] f = "bottom" -> Cardinality(S["top"])
                              [] f = "dress"  -> 1
                              [] OTHER        -> Bases(S)
             pair == {MinRescue, AtMost(MaxCandidates, 3 * completions)}
  <2>1. RescueRequested(req, S) = Max(pair)
    BY DEF RescueRequested
  <2>2. Cardinality(S["top"]) \in Nat /\ Cardinality(S["bottom"]) \in Nat /\ Bases(S) \in Nat
    <3> HIDE DEF S
    <3> QED BY <1>1, SlotsAre, BasesAre, FS_CardinalityType DEF S
  <2> HIDE DEF S, f
  <2>3. completions \in Nat
    <3>1. CASE f = "top"
      BY <2>2, <3>1
    <3>2. CASE f = "bottom"
      BY <2>2, <3>2
    <3>3. CASE f = "dress"
      BY <2>2, <3>3
    <3>4. CASE f \notin {"top", "bottom", "dress"}
      BY <2>2, <3>4
    <3> QED BY <3>1, <3>2, <3>3, <3>4
  <2>4. MaxCandidates \in Nat \ {0} /\ MinRescue \in Nat \ {0} /\ MinRescue <= MaxCandidates
    BY SamplerAssumption, PipelineAssumption
  <2> HIDE DEF completions
  <2>5. AtMost(MaxCandidates, 3 * completions) \in 0..MaxCandidates
    BY <2>3, <2>4 DEF AtMost
  <2>6. pair \in SUBSET Nat /\ (\A x \in pair : x <= MaxCandidates) /\ pair # {} /\ MinRescue \in pair
    BY <2>4, <2>5
  <2> HIDE DEF pair
  <2>7. IsFiniteSet(pair)
    BY <2>4, <2>6, FS_BoundedSetOfNaturals
  <2>8. Max(pair) \in pair /\ MinRescue <= Max(pair)
    <3>1. pair \subseteq Int
      BY <2>6
    <3> QED BY <2>6, <2>7, <3>1, Extremes
  <2>9. Max(pair) \in 1..MaxCandidates
    <3>1. Max(pair) \in Nat /\ Max(pair) <= MaxCandidates
      BY <2>6, <2>8
    <3> QED BY <2>4, <2>8, <3>1
  <2> QED BY <2>1, <2>9 DEF S
<1> QED BY <1>2, <1>3
-----------------------------------------------------------------------------
(***************************************************************************)
(* The inductive invariant: each step leaves behind what it computed from, *)
(* so the state at any step tells how the render got there. A refused      *)
(* render says what it was refused for.                                    *)
(***************************************************************************)
Served == exit \in {"rendered", "insufficient"}

DrawsOf(cands) ==
  LET sigs == {FullSignature(c.slots) : c \in ToSet(cands)}
  IN  {f \in [sigs -> 1..Cardinality(sigs)] : IsInjective(f)}

RankedBy(req, cands, draw) ==
  Ranked(cands, ContextOf(req, cands, BehavioralSignals(req.rows, req.renders), draw))

FiledBy(req, run) == [i \in DOMAIN run.reply.drafts |-> FileOf(req, run, i)]

Progress ==
  /\ request \in Requests /\ Preflight(request)
  /\ stage \in Steps /\ exit \in {"none", "understocked", "controls", "rendered", "insufficient"}
  /\ stage = "answered" <=> exit # "none"
  /\ attempts \in Seq(Replies)

SampleKept ==
  stage \in {"sampled", "prompted", "replied", "validated", "ranked"} \/ Served
  => /\ sampled \in CandidatePools(request.closet, SignalOf(request))
     /\ IF request.intent = "daily" THEN CandidateRequested(sampled) # 0 ELSE Sufficient(request)

ScopeKept ==
  stage \in {"prompted", "replied", "validated", "ranked"} \/ Served
  => /\ pool = Scoped(request, sampled)
     /\ ~ControlsUnbuildable(request, pool)
     /\ asked = IF request.intent = "daily" THEN DailyRequested(sampled) ELSE RescueRequested(request, pool)

ReplyKept == stage \in {"replied", "validated", "ranked"} \/ Served => attempts # <<>>

AcceptedKept ==
  IF stage \in {"validated", "ranked"} \/ Served
  THEN /\ accepted = Validated(Last(attempts), asked, Members(pool), request.closet)
       /\ drops = Removed(request, accepted)
  ELSE accepted = <<>> /\ drops = <<>>

RankingKept ==
  stage = "ranked" \/ Served
  => \E draw \in DrawsOf(Kept(request, accepted)) :
       ranking = RankedBy(request, Kept(request, accepted), draw)

AnswerKept ==
  IF Served
  THEN /\ spread = BuildVariants(ranking.outfits, request, NSurfaced)
       /\ filed = FiledBy(request, Evidence(Last(attempts), asked, Members(pool), accepted, drops,
                                           ranking, spread.selected))
  ELSE /\ spread = NoSpread /\ filed = <<>>
       /\ stage # "ranked" => ranking = NoRanking

RefusalKept ==
  /\ exit = "controls" => /\ sampled \in CandidatePools(request.closet, SignalOf(request))
                          /\ ControlsUnbuildable(request, Scoped(request, sampled))
  /\ exit = "understocked" =>
       \/ request.intent = "rescue_item" /\ ~Sufficient(request)
       \/ \E p \in CandidatePools(request.closet, SignalOf(request)) : CandidateRequested(p) = 0

EngineInv ==
  /\ Progress /\ SampleKept /\ ScopeKept /\ ReplyKept /\ AcceptedKept /\ RankingKept
  /\ AnswerKept /\ RefusalKept

\* A received request has no history yet.
LEMMA EngineInit == Init => EngineInv
<1> SUFFICES ASSUME Init PROVE EngineInv
  OBVIOUS
<1>1. attempts \in Seq(Replies)
  BY EmptySeq DEF Init
<1>2. Progress
  BY <1>1 DEF Progress, Init, Steps
<1>3. SampleKept /\ ScopeKept /\ ReplyKept /\ AcceptedKept /\ RankingKept /\ RefusalKept
  BY DEF Init, SampleKept, ScopeKept, ReplyKept, AcceptedKept, RankingKept, RefusalKept, Served
<1>4. AnswerKept
  BY DEF Init, AnswerKept, Served
<1> QED BY <1>2, <1>3, <1>4 DEF EngineInv

\* Each step adds what it computed and leaves the rest as it was.
LEMMA EngineStep == EngineInv /\ [Next]_vars => EngineInv'
<1> SUFFICES ASSUME EngineInv, [Next]_vars PROVE EngineInv'
  OBVIOUS
<1> USE DEF EngineInv
<1>1. CASE RefuseRescue
  <2>1. Progress'
    BY <1>1 DEF RefuseRescue, Progress, Steps
  <2>2. SampleKept' /\ ScopeKept' /\ ReplyKept' /\ AcceptedKept' /\ RankingKept'
    BY <1>1 DEF RefuseRescue, Progress, SampleKept, ScopeKept, ReplyKept, AcceptedKept, RankingKept, Served
  <2>3. AnswerKept'
    BY <1>1 DEF RefuseRescue, Progress, AnswerKept, Served
  <2>4. RefusalKept'
    BY <1>1 DEF RefuseRescue, RefusalKept
  <2> QED BY <2>1, <2>2, <2>3, <2>4
<1>2. CASE SamplePool
  <2> PICK p \in CandidatePools(request.closet, SignalOf(request)) :
        /\ sampled' = p
        /\ IF request.intent = "daily" /\ CandidateRequested(p) = 0
           THEN stage' = "answered" /\ exit' = "understocked" /\ pool' = p
           ELSE stage' = "sampled" /\ UNCHANGED <<exit, pool>>
    BY <1>2 DEF SamplePool
  <2>0. /\ stage = "received" /\ exit = "none" /\ ~Served
        /\ request.intent = "rescue_item" => Sufficient(request)
        /\ request.intent \in {"daily", "rescue_item"}
        /\ UNCHANGED <<request, asked, attempts, accepted, drops, ranking, spread, filed>>
    BY <1>2, RequestAssumption DEF SamplePool, Progress, Served
  <2>1. CASE request.intent = "daily" /\ CandidateRequested(p) = 0
    <3>0. stage' = "answered" /\ exit' = "understocked" /\ ~Served'
      BY <2>1 DEF Served
    <3>1. Progress'
      BY <2>0, <3>0 DEF Progress, Steps
    <3>2. SampleKept' /\ ScopeKept' /\ ReplyKept' /\ AcceptedKept' /\ RankingKept'
      BY <2>0, <3>0 DEF SampleKept, ScopeKept, ReplyKept, AcceptedKept, RankingKept
    <3>3. AnswerKept'
      BY <2>0, <3>0 DEF AnswerKept
    <3>4. RefusalKept'
      BY <2>0, <2>1, <3>0 DEF RefusalKept
    <3> QED BY <3>1, <3>2, <3>3, <3>4
  <2>2. CASE ~(request.intent = "daily" /\ CandidateRequested(p) = 0)
    <3>0. stage' = "sampled" /\ exit' = "none" /\ ~Served'
      BY <2>0, <2>2 DEF Served
    <3>1. Progress'
      BY <2>0, <3>0 DEF Progress, Steps
    <3>2. SampleKept'
      BY <2>0, <2>2, <3>0 DEF SampleKept
    <3>3. ScopeKept' /\ ReplyKept' /\ AcceptedKept' /\ RankingKept' /\ RefusalKept'
      BY <2>0, <3>0 DEF ScopeKept, ReplyKept, AcceptedKept, RankingKept, RefusalKept
    <3>4. AnswerKept'
      BY <2>0, <3>0 DEF AnswerKept
    <3> QED BY <3>1, <3>2, <3>3, <3>4
  <2> QED BY <2>1, <2>2
<1>3. CASE ScopePool
  <2>0. /\ stage = "sampled" /\ exit = "none" /\ ~Served
        /\ pool' = Scoped(request, sampled)
        /\ UNCHANGED <<request, sampled, attempts, accepted, drops, ranking, spread, filed>>
    BY <1>3 DEF ScopePool, Progress, Served
  <2>1. CASE ControlsUnbuildable(request, pool')
    <3>0. stage' = "answered" /\ exit' = "controls" /\ ~Served'
      BY <1>3, <2>1 DEF ScopePool, Served
    <3>1. Progress'
      BY <2>0, <3>0 DEF Progress, Steps
    <3>2. SampleKept' /\ ScopeKept' /\ ReplyKept' /\ AcceptedKept' /\ RankingKept'
      BY <2>0, <3>0 DEF SampleKept, ScopeKept, ReplyKept, AcceptedKept, RankingKept
    <3>3. AnswerKept'
      BY <2>0, <3>0 DEF AnswerKept
    <3>4. RefusalKept'
      BY <2>0, <2>1, <3>0 DEF RefusalKept, SampleKept
    <3> QED BY <3>1, <3>2, <3>3, <3>4
  <2>2. CASE ~ControlsUnbuildable(request, pool')
    <3>0. /\ stage' = "prompted" /\ exit' = "none" /\ ~Served'
          /\ asked' = IF request.intent = "daily" THEN DailyRequested(sampled)
                      ELSE RescueRequested(request, pool')
      BY <1>3, <2>0, <2>2 DEF ScopePool, Served
    <3>1. Progress'
      BY <2>0, <3>0 DEF Progress, Steps
    <3>2. SampleKept'
      BY <2>0 DEF SampleKept
    <3>3. ScopeKept'
      BY <2>0, <2>2, <3>0 DEF ScopeKept
    <3>4. ReplyKept' /\ AcceptedKept' /\ RankingKept' /\ RefusalKept'
      BY <2>0, <3>0 DEF ReplyKept, AcceptedKept, RankingKept, RefusalKept
    <3>5. AnswerKept'
      BY <2>0, <3>0 DEF AnswerKept
    <3> QED BY <3>1, <3>2, <3>3, <3>4, <3>5
  <2> QED BY <2>1, <2>2
<1>4. CASE Generate
  <2> PICK reply \in Replies :
        /\ attempts' = Append(attempts, reply)
        /\ stage' = IF ~reply.parsed /\ attempts = <<>> THEN "prompted" ELSE "replied"
    BY <1>4 DEF Generate
  <2>0. /\ stage = "prompted" /\ exit = "none" /\ ~Served /\ ~Served' /\ stage' \in {"prompted", "replied"}
        /\ UNCHANGED <<request, sampled, pool, asked, accepted, drops, ranking, spread, filed, exit>>
    BY <1>4 DEF Generate, Progress, Served
  <2>1. attempts' \in Seq(Replies) /\ attempts' # <<>>
    BY AppendProperties DEF Progress
  <2>2. Progress'
    BY <2>0, <2>1 DEF Progress, Steps
  <2>3. SampleKept' /\ ScopeKept'
    BY <2>0 DEF SampleKept, ScopeKept
  <2>4. ReplyKept' /\ AcceptedKept' /\ RankingKept' /\ RefusalKept'
    BY <2>0, <2>1 DEF ReplyKept, AcceptedKept, RankingKept, RefusalKept
  <2>5. AnswerKept'
    BY <2>0 DEF AnswerKept
  <2> QED BY <2>2, <2>3, <2>4, <2>5
<1>5. CASE ValidateReply
  <2>0. /\ stage = "replied" /\ stage' = "validated" /\ exit = "none" /\ ~Served /\ ~Served'
        /\ accepted' = Validated(Last(attempts), asked, Members(pool), request.closet)
        /\ drops' = Removed(request, accepted')
        /\ UNCHANGED <<request, sampled, pool, asked, attempts, ranking, spread, filed, exit>>
    BY <1>5 DEF ValidateReply, Progress, Served
  <2>1. Progress'
    BY <2>0 DEF Progress, Steps
  <2>2. SampleKept' /\ ScopeKept'
    BY <2>0 DEF SampleKept, ScopeKept
  <2>3. AcceptedKept'
    BY <2>0 DEF AcceptedKept
  <2>4. ReplyKept' /\ RankingKept' /\ RefusalKept'
    BY <2>0 DEF ReplyKept, RankingKept, RefusalKept
  <2>5. AnswerKept'
    BY <2>0 DEF AnswerKept
  <2> QED BY <2>1, <2>2, <2>3, <2>4, <2>5
<1>6. CASE RankSurvivors
  <2>0. /\ stage = "validated" /\ stage' = "ranked" /\ exit = "none" /\ ~Served /\ ~Served'
        /\ \E draw \in DrawsOf(Kept(request, accepted)) :
             ranking' = RankedBy(request, Kept(request, accepted), draw)
        /\ UNCHANGED <<request, sampled, pool, asked, attempts, accepted, drops, spread, filed, exit>>
    BY <1>6 DEF RankSurvivors, Progress, Served, DrawsOf, RankedBy
  <2>1. Progress'
    BY <2>0 DEF Progress, Steps
  <2>2. SampleKept' /\ ScopeKept'
    BY <2>0 DEF SampleKept, ScopeKept
  <2>3. AcceptedKept'
    BY <2>0 DEF AcceptedKept
  <2>4. RankingKept'
    BY <2>0 DEF RankingKept
  <2>5. ReplyKept' /\ RefusalKept'
    BY <2>0 DEF ReplyKept, RefusalKept
  <2>6. AnswerKept'
    BY <2>0 DEF AnswerKept
  <2> QED BY <2>1, <2>2, <2>3, <2>4, <2>5, <2>6
<1>7. CASE Respond
  <2>0. /\ stage = "ranked" /\ stage' = "answered" /\ exit = "none" /\ ~Served /\ Served'
        /\ exit' \in {"rendered", "insufficient"}
        /\ spread' = BuildVariants(ranking.outfits, request, NSurfaced)
        /\ filed' = FiledBy(request, Evidence(Last(attempts), asked, Members(pool), accepted, drops,
                                             ranking, spread'.selected))
        /\ UNCHANGED <<request, sampled, pool, asked, attempts, accepted, drops, ranking>>
    BY <1>7 DEF Respond, Progress, Served, FiledBy
  <2>1. Progress'
    BY <2>0 DEF Progress, Steps
  <2>2. SampleKept' /\ ScopeKept'
    BY <2>0 DEF SampleKept, ScopeKept
  <2>3. AcceptedKept' /\ RankingKept'
    BY <2>0 DEF AcceptedKept, RankingKept
  <2>4. ReplyKept' /\ RefusalKept'
    BY <2>0 DEF ReplyKept, RefusalKept
  <2>5. AnswerKept'
    BY <2>0 DEF AnswerKept
  <2> QED BY <2>1, <2>2, <2>3, <2>4, <2>5
<1>8. CASE UNCHANGED vars
  <2>1. Progress' /\ SampleKept' /\ ScopeKept' /\ ReplyKept' /\ AcceptedKept' /\ RankingKept' /\ RefusalKept'
    BY <1>8 DEF vars, Progress, SampleKept, ScopeKept, ReplyKept, AcceptedKept, RankingKept, RefusalKept, Served
  <2>2. AnswerKept'
    BY <1>8 DEF vars, AnswerKept, Served
  <2> QED BY <2>1, <2>2
<1> QED BY <1>1, <1>2, <1>3, <1>4, <1>5, <1>6, <1>7, <1>8 DEF Next

\* At every step of a render, what it computed so far is what the steps
\* before it computed from the request, the replies and the draws.
THEOREM EngineHistory == Spec => []EngineInv
BY EngineInit, EngineStep, PTL DEF Spec
\* The model is paid for only when an outfit can come of it, and the sample
\* and the number of drafts that are paid for keep their caps.
LEMMA SpendFollows == EngineInv => SpendOnlyWhenPossible
<1> SUFFICES ASSUME EngineInv, stage \in {"prompted", "replied"}
             PROVE  /\ Wearable(request, Members(pool)) # {}
                    /\ \A t \in Types : Cardinality(sampled[t]) <= Cap[t]
                    /\ asked \in 1..MaxCandidates
  BY DEF SpendOnlyWhenPossible
<1>1. request \in Requests /\ Preflight(request)
  BY DEF EngineInv, Progress
<1>2. /\ sampled \in CandidatePools(request.closet, SignalOf(request))
      /\ IF request.intent = "daily" THEN CandidateRequested(sampled) # 0 ELSE Sufficient(request)
  BY DEF EngineInv, SampleKept
<1>3. /\ pool = Scoped(request, sampled) /\ ~ControlsUnbuildable(request, pool)
      /\ asked = IF request.intent = "daily" THEN DailyRequested(sampled) ELSE RescueRequested(request, pool)
  BY DEF EngineInv, ScopeKept
<1>4. SampleOf(sampled, request.closet)
  BY <1>1, <1>2, PoolsAre
<1>5. HasBase([t \in Types |-> Scoped(request, sampled)[t] \ request.disliked])
  <2>1. CASE request.locked = {} /\ request.disliked = {}
    BY <1>1, <1>2, <1>4, <2>1, StockedHasBase
  <2>2. CASE request.locked # {} \/ request.disliked # {}
    BY <1>3, <2>2 DEF ControlsUnbuildable
  <2> QED BY <2>1, <2>2
<1>6. Wearable(request, Members(pool)) # {}
  BY <1>1, <1>3, <1>4, <1>5, BaseIsWearable
<1>7. asked \in 1..MaxCandidates
  BY <1>1, <1>2, <1>3, <1>4, AskedIs
<1> QED BY <1>4, <1>6, <1>7 DEF SampleOf

\* A render is refused unasked only when no outfit could come of it.
LEMMA RefusalFollows == EngineInv => EmptyOnlyWhenImpossible
<1> SUFFICES ASSUME EngineInv PROVE EmptyOnlyWhenImpossible
  OBVIOUS
<1>1. request \in Requests /\ Preflight(request)
  BY DEF EngineInv, Progress
<1>2. ASSUME exit = "controls", NEW m \in Wearable(request, Members(sampled) \cup LocksOf(request)) PROVE FALSE
  <2>1. /\ sampled \in CandidatePools(request.closet, SignalOf(request))
        /\ ControlsUnbuildable(request, Scoped(request, sampled))
    BY <1>2 DEF EngineInv, RefusalKept
  <2>2. SampleOf(sampled, request.closet)
    BY <1>1, <2>1, PoolsAre
  <2>3. HasBase([t \in Types |-> Scoped(request, sampled)[t] \ request.disliked])
    BY <1>1, <1>2, <2>2, WearableHasBase
  <2> QED BY <2>1, <2>3 DEF ControlsUnbuildable
<1>3. ASSUME exit = "understocked", NEW m \in Wearable(request, DOMAIN request.closet) PROVE FALSE
  <2>1. \/ request.intent = "rescue_item" /\ ~Sufficient(request)
        \/ \E p \in CandidatePools(request.closet, SignalOf(request)) : CandidateRequested(p) = 0
    BY <1>3 DEF EngineInv, RefusalKept
  <2>2. /\ request.intent = "rescue_item" => Sufficient(request)
        /\ \A p : SampleOf(p, request.closet) => HasBase(p)
    BY <1>1, <1>3, UnderstockedIsEmpty
  <2>3. ASSUME NEW p \in CandidatePools(request.closet, SignalOf(request)) PROVE CandidateRequested(p) # 0
    <3>1. SampleOf(p, request.closet)
      BY <1>1, PoolsAre
    <3>2. HasBase(p) /\ \A t \in Types : IsFiniteSet(p[t])
      BY <2>2, <3>1 DEF SampleOf
    <3> QED BY <3>2, BasesAre
  <2> QED BY <2>1, <2>2, <2>3
<1> QED BY <1>2, <1>3 DEF EmptyOnlyWhenImpossible

\* Whatever the closet, the controls, the reactions and the draws: the model
\* is asked only when some outfit of the pool it is shown has every lock and
\* no dislike, for no more garments and drafts than the caps.
THEOREM SpendsWhenPossible == Spec => []SpendOnlyWhenPossible
BY EngineHistory, SpendFollows, PTL

\* And a render that ends unasked, for its controls or its closet, loses no
\* outfit: the sample with what must be worn, or the whole closet, has none.
THEOREM RefusesWhenImpossible == Spec => []EmptyOnlyWhenImpossible
BY EngineHistory, RefusalFollows, PTL
-----------------------------------------------------------------------------
(* The orders the engine sorts by.                                         *)

Candidates == [index : Nat, slots : SlotMaps(Ids), move : SUBSET Ids]

Terms == [base : Int, combo : Int, item : Int, dislike : Int, overuse : Int, repetition : Int, cooldown : Int]

\* A ranked outfit: a candidate and what it scores.
Scoreds(C) == [cand : C, terms : Terms]

\* The six slots of a slot map.
LEMMA SlotMapIs ==
  ASSUME NEW m \in SlotMaps(Ids)
  PROVE  /\ m.dress \in Nat /\ m.top \in Nat /\ m.bottom \in Nat
         /\ m.mid \in Nat /\ m.outer \in Nat /\ m.shoes \in Nat
         /\ m = [dress |-> m.dress, top |-> m.top, bottom |-> m.bottom,
                 mid |-> m.mid, outer |-> m.outer, shoes |-> m.shoes]
<1>1. m \in [Slots -> Nat]
  BY DEF SlotMaps, Ids, Nothing
<1>2. /\ m.dress \in Nat /\ m.top \in Nat /\ m.bottom \in Nat
      /\ m.mid \in Nat /\ m.outer \in Nat /\ m.shoes \in Nat
  BY <1>1, SlotsAre
<1>3. m = [dress |-> m.dress, top |-> m.top, bottom |-> m.bottom,
           mid |-> m.mid, outer |-> m.outer, shoes |-> m.shoes]
  BY <1>1, SlotsAre
<1> QED BY <1>2, <1>3

\* The order of signatures, slot by slot.
LEMMA BeforeMeans ==
  ASSUME NEW a \in SlotMaps(Ids), NEW b \in SlotMaps(Ids)
  PROVE  Before(a, b)
           <=> \/ a.dress < b.dress
               \/ a.dress = b.dress /\ a.top < b.top
               \/ a.dress = b.dress /\ a.top = b.top /\ a.bottom < b.bottom
               \/ a.dress = b.dress /\ a.top = b.top /\ a.bottom = b.bottom /\ a.outer < b.outer
               \/ a.dress = b.dress /\ a.top = b.top /\ a.bottom = b.bottom /\ a.outer = b.outer
                  /\ a.shoes < b.shoes
               \/ a.dress = b.dress /\ a.top = b.top /\ a.bottom = b.bottom /\ a.outer = b.outer
                  /\ a.shoes = b.shoes /\ a.mid < b.mid
<1> DEFINE f == <<a.dress, a.top, a.bottom, a.outer, a.shoes, a.mid>>
           g == <<b.dress, b.top, b.bottom, b.outer, b.shoes, b.mid>>
<1>1. Before(a, b) <=> \E i \in 1..6 : f[i] < g[i] /\ \A j \in 1..(i - 1) : f[j] = g[j]
  BY DEF Before
<1> DEFINE At6(i) == f[i] < g[i] /\ \A j \in 1..(i - 1) : f[j] = g[j]
<1>2. /\ f[1] = a.dress /\ f[2] = a.top /\ f[3] = a.bottom /\ f[4] = a.outer /\ f[5] = a.shoes /\ f[6] = a.mid
      /\ g[1] = b.dress /\ g[2] = b.top /\ g[3] = b.bottom /\ g[4] = b.outer /\ g[5] = b.shoes /\ g[6] = b.mid
  OBVIOUS
<1> HIDE DEF f, g
<1>3. (\E i \in 1..6 : At6(i)) <=> At6(1) \/ At6(2) \/ At6(3) \/ At6(4) \/ At6(5) \/ At6(6)
  <2>1. \A i : i \in 1..6 <=> i = 1 \/ i = 2 \/ i = 3 \/ i = 4 \/ i = 5 \/ i = 6
    OBVIOUS
  <2> HIDE DEF At6
  <2> QED BY <2>1
<1>4. At6(1) <=> f[1] < g[1]
  OBVIOUS
<1>5. At6(2) <=> f[1] = g[1] /\ f[2] < g[2]
  <2>1. \A j : j \in 1..(2 - 1) <=> j = 1
    OBVIOUS
  <2> QED BY <2>1
<1>6. At6(3) <=> f[1] = g[1] /\ f[2] = g[2] /\ f[3] < g[3]
  <2>1. \A j : j \in 1..(3 - 1) <=> j = 1 \/ j = 2
    OBVIOUS
  <2> QED BY <2>1
<1>7. At6(4) <=> f[1] = g[1] /\ f[2] = g[2] /\ f[3] = g[3] /\ f[4] < g[4]
  <2>1. \A j : j \in 1..(4 - 1) <=> j = 1 \/ j = 2 \/ j = 3
    OBVIOUS
  <2> QED BY <2>1
<1>8. At6(5) <=> f[1] = g[1] /\ f[2] = g[2] /\ f[3] = g[3] /\ f[4] = g[4] /\ f[5] < g[5]
  <2>1. \A j : j \in 1..(5 - 1) <=> j = 1 \/ j = 2 \/ j = 3 \/ j = 4
    OBVIOUS
  <2> QED BY <2>1
<1>9. At6(6) <=> f[1] = g[1] /\ f[2] = g[2] /\ f[3] = g[3] /\ f[4] = g[4] /\ f[5] = g[5] /\ f[6] < g[6]
  <2>1. \A j : j \in 1..(6 - 1) <=> j = 1 \/ j = 2 \/ j = 3 \/ j = 4 \/ j = 5
    OBVIOUS
  <2> QED BY <2>1
<1> HIDE DEF At6
<1> QED BY <1>1, <1>2, <1>3, <1>4, <1>5, <1>6, <1>7, <1>8, <1>9 DEF At6

\* It is a strict total order.
LEMMA BeforeOrders ==
  /\ \A a \in SlotMaps(Ids) : ~Before(a, a)
  /\ \A a, b, c \in SlotMaps(Ids) : Before(a, b) /\ Before(b, c) => Before(a, c)
  /\ \A a, b \in SlotMaps(Ids) : a # b => Before(a, b) \/ Before(b, a)
<1>1. ASSUME NEW a \in SlotMaps(Ids) PROVE ~Before(a, a)
  BY BeforeMeans, SlotMapIs
<1>2. ASSUME NEW a \in SlotMaps(Ids), NEW b \in SlotMaps(Ids), NEW c \in SlotMaps(Ids),
             Before(a, b), Before(b, c)
      PROVE  Before(a, c)
  <2>1. /\ a.dress \in Nat /\ a.top \in Nat /\ a.bottom \in Nat /\ a.mid \in Nat /\ a.outer \in Nat /\ a.shoes \in Nat
        /\ b.dress \in Nat /\ b.top \in Nat /\ b.bottom \in Nat /\ b.mid \in Nat /\ b.outer \in Nat /\ b.shoes \in Nat
        /\ c.dress \in Nat /\ c.top \in Nat /\ c.bottom \in Nat /\ c.mid \in Nat /\ c.outer \in Nat /\ c.shoes \in Nat
    BY SlotMapIs
  <2> QED BY <1>2, <2>1, BeforeMeans
<1>3. ASSUME NEW a \in SlotMaps(Ids), NEW b \in SlotMaps(Ids), ~Before(a, b), ~Before(b, a) PROVE a = b
  <2>1. /\ a.dress \in Nat /\ a.top \in Nat /\ a.bottom \in Nat /\ a.mid \in Nat /\ a.outer \in Nat /\ a.shoes \in Nat
        /\ b.dress \in Nat /\ b.top \in Nat /\ b.bottom \in Nat /\ b.mid \in Nat /\ b.outer \in Nat /\ b.shoes \in Nat
    BY SlotMapIs
  <2>2. a.dress = b.dress /\ a.top = b.top /\ a.bottom = b.bottom /\ a.outer = b.outer /\ a.shoes = b.shoes /\ a.mid = b.mid
    BY <1>3, <2>1, BeforeMeans
  <2>3. /\ a = [dress |-> a.dress, top |-> a.top, bottom |-> a.bottom, mid |-> a.mid, outer |-> a.outer, shoes |-> a.shoes]
        /\ b = [dress |-> b.dress, top |-> b.top, bottom |-> b.bottom, mid |-> b.mid, outer |-> b.outer, shoes |-> b.shoes]
    BY SlotMapIs
  <2> QED BY <2>2, <2>3
<1> QED BY <1>1, <1>2, <1>3

\* A score is a number.
LEMMA ScoreIs ==
  ASSUME NEW terms \in Terms
  PROVE  Score(terms) \in Int
BY DEF Terms, Score

\* Ranked outfits of different slots are strictly ordered by score, then by
\* signature.
LEMMA BetterOrders ==
  ASSUME NEW S \in SUBSET Scoreds(Candidates),
         \A x, y \in S : x.cand.slots = y.cand.slots => x = y
  PROVE  /\ \A x \in S : ~Better(x, x)
         /\ \A x, y, z \in S : Better(x, y) /\ Better(y, z) => Better(x, z)
         /\ \A x, y \in S : x # y => Better(x, y) \/ Better(y, x)
         /\ Orders({p \in S \X S : Better(p[1], p[2])}, S)
<1>1. \A x \in S : Score(x.terms) \in Int /\ x.cand.slots \in SlotMaps(Ids)
  BY ScoreIs DEF Scoreds, Candidates
<1>2. ASSUME NEW x \in S PROVE ~Better(x, x)
  BY <1>1, BeforeOrders DEF Better
<1>3. ASSUME NEW x \in S, NEW y \in S, NEW z \in S, Better(x, y), Better(y, z) PROVE Better(x, z)
  <2>1. /\ Score(x.terms) \in Int /\ Score(y.terms) \in Int /\ Score(z.terms) \in Int
        /\ Before(x.cand.slots, y.cand.slots) /\ Before(y.cand.slots, z.cand.slots)
             => Before(x.cand.slots, z.cand.slots)
    BY <1>1, BeforeOrders
  <2> QED BY <1>3, <2>1 DEF Better
<1>4. ASSUME NEW x \in S, NEW y \in S, x # y PROVE Better(x, y) \/ Better(y, x)
  <2>1. /\ Score(x.terms) \in Int /\ Score(y.terms) \in Int
        /\ Before(x.cand.slots, y.cand.slots) \/ Before(y.cand.slots, x.cand.slots)
    BY <1>1, <1>4, BeforeOrders
  <2> QED BY <2>1 DEF Better
<1>5. Orders({p \in S \X S : Better(p[1], p[2])}, S)
  <2> DEFINE R == {p \in S \X S : Better(p[1], p[2])}
  <2>1. \A x, y \in S : <<x, y>> \in R <=> Better(x, y)
    OBVIOUS
  <2> HIDE DEF R
  <2>2. Orders(R, S)
    BY <1>2, <1>3, <1>4, <2>1 DEF Orders
  <2> QED BY <2>2 DEF R
<1> QED BY <1>2, <1>3, <1>4, <1>5

\* The best of a finite set of ranked outfits leads its list.
LEMMA BestIs ==
  ASSUME NEW S \in SUBSET Scoreds(Candidates), IsFiniteSet(S), S # {},
         \A x, y \in S : x.cand.slots = y.cand.slots => x = y
  PROVE  /\ Sorted(S, Better) \in Seq(S) /\ Len(Sorted(S, Better)) = Cardinality(S)
         /\ ToSet(Sorted(S, Better)) = S
         /\ Sorted(S, Better)[1] \in S
         /\ \A y \in S : y # Sorted(S, Better)[1] => Better(Sorted(S, Better)[1], y)
         /\ Distinct(Sorted(S, Better))
<1> DEFINE R == {p \in S \X S : Better(p[1], p[2])}
           L == InOrder(S, R)
<1>1. Sorted(S, Better) = L
  BY DEF Sorted
<1>2. \A x, y \in S : <<x, y>> \in R <=> Better(x, y)
  OBVIOUS
<1>3. Orders(R, S)
  BY BetterOrders
<1> HIDE DEF R
<1>4. /\ L \in Seq(S) /\ Len(L) = Cardinality(S)
      /\ \A x \in S : \E n \in 1..Cardinality(S) : L[n] = x
      /\ \A m, n \in 1..Cardinality(S) : m < n <=> <<L[m], L[n]>> \in R
      /\ \A m, n \in 1..Cardinality(S) : L[m] = L[n] => m = n
  BY <1>3, InOrderIs
<1>5. Cardinality(S) \in Nat \ {0} /\ DOMAIN L = 1..Cardinality(S)
  BY <1>4, FS_CardinalityType, FS_EmptySet, LenProperties
<1> HIDE DEF L
<1>6. \A n \in 1..Cardinality(S) : L[n] \in S
  BY <1>4, ElementOfSeq
<1>7. L[1] \in S
  BY <1>5, <1>6
<1>8. ASSUME NEW y \in S, y # L[1] PROVE Better(L[1], y)
  <2>1. PICK n \in 1..Cardinality(S) : L[n] = y
    BY <1>4
  <2>2. 1 \in 1..Cardinality(S) /\ 1 < n
    BY <1>5, <1>8, <2>1
  <2> QED BY <1>2, <1>4, <1>7, <2>1, <2>2
<1>9. ToSet(L) = S
  BY <1>4, <1>5, <1>6 DEF ToSet
<1>10. Distinct(L)
  BY <1>4, <1>5 DEF Distinct
<1> QED BY <1>1, <1>4, <1>7, <1>8, <1>9, <1>10
-----------------------------------------------------------------------------
(* The validator: what is accepted of a reply.                             *)

\* What a draft's items collapse into is a slot map.
LEMMA SlotMapOfIs ==
  ASSUME NEW items \in Seq([id : Ids, role : STRING])
  PROVE  SlotMapOf(items) \in SlotMaps(Ids)
<1> DEFINE held(s) == \E i \in DOMAIN items : SlotOf[items[i].role] = s
           item(s) == CHOOSE e \in ToSet(items) : SlotOf[e.role] = s
<1>1. ASSUME NEW s \in Slots, held(s) PROVE item(s).id \in Ids
  <2>1. \E e \in ToSet(items) : SlotOf[e.role] = s
    BY <1>1 DEF ToSet
  <2>2. item(s) \in ToSet(items)
    BY <2>1
  <2>3. \A e \in ToSet(items) : e \in [id : Ids, role : STRING]
    <3>1. items \in [1..Len(items) -> [id : Ids, role : STRING]]
      BY LenProperties
    <3> QED BY <3>1 DEF ToSet
  <2> HIDE DEF item
  <2> QED BY <2>2, <2>3
<1>2. SlotMapOf(items) = [s \in Slots |-> IF held(s) THEN item(s).id ELSE Nothing]
  BY DEF SlotMapOf
<1> HIDE DEF held, item
<1> QED BY <1>1, <1>2 DEF SlotMaps

\* A draft of sound structure wears its slots well, with garments of the pool.
LEMMA StructureOk ==
  ASSUME NEW draft, NEW shown, NEW closet, StructureIssue(draft, shown, closet) = "ok"
  PROVE  /\ SlotIssue(SlotMapOf(draft.items)) = "ok"
         /\ PoolIssue(SlotMapOf(draft.items), shown, closet) = "ok"
<1> DEFINE a == ~draft.wellFormed
           b == Len(draft.items) > MaxItems
           r == RoleIssue(draft.items)
           s == SlotIssue(SlotMapOf(draft.items))
           q == PoolIssue(SlotMapOf(draft.items), shown, closet)
<1>1. "ok" = CASE a -> "invalidItems" [] b -> "invalidItems" [] r # "ok" -> r [] s # "ok" -> s [] OTHER -> q
  BY DEF StructureIssue
<1> HIDE DEF a, b, r, s, q
<1>2. ~a /\ ~b /\ r = "ok" /\ s = "ok" /\ q = "ok"
  BY <1>1
<1> QED BY <1>2 DEF s, q

\* A verdict looks only at the drafts up to the one it judges.
LEMMA VerdictMeans ==
  ASSUME NEW drafts, NEW i, NEW shown, NEW closet
  PROVE  Verdict(drafts, i, shown, closet) = "accepted"
           <=> /\ StructureIssue(drafts[i], shown, closet) = "ok"
               /\ \A j \in 1..(i - 1) :
                    ~(/\ StructureIssue(drafts[j], shown, closet) = "ok"
                      /\ FullSignature(SlotMapOf(drafts[j].items)) = FullSignature(SlotMapOf(drafts[i].items)))
<1> DEFINE issue(j) == StructureIssue(drafts[j], shown, closet)
           sig(j)   == FullSignature(SlotMapOf(drafts[j].items))
           seen == \E j \in 1..(i - 1) : issue(j) = "ok" /\ sig(j) = sig(i)
<1>1. Verdict(drafts, i, shown, closet) =
        CASE issue(i) # "ok" -> issue(i) [] seen -> "duplicateFullSignature" [] OTHER -> "accepted"
  BY DEF Verdict
<1>2. seen <=> ~\A j \in 1..(i - 1) : ~(issue(j) = "ok" /\ sig(j) = sig(i))
  OBVIOUS
<1>3. issue(i) # "accepted"
  <2> DEFINE m == SlotMapOf(drafts[i].items)
  <2>1. RoleIssue(drafts[i].items) # "accepted"
    BY DEF RoleIssue
  <2>2. SlotIssue(m) # "accepted"
    <3> HIDE DEF m
    <3> QED BY DEF SlotIssue
  <2>3. PoolIssue(m, shown, closet) # "accepted"
    <3> HIDE DEF m
    <3>1. \A s : (CASE m[s] # Nothing /\ m[s] \notin shown -> "itemOutsideSampledPool"
                    [] m[s] # Nothing /\ m[s] \in shown
                         /\ (closet[m[s]].type # TypeOfSlot[s] \/ (s = "mid" /\ ~closet[m[s]].mid)) -> "roleTypeMismatch"
                    [] OTHER -> "ok") # "accepted"
      OBVIOUS
    <3> QED BY <3>1 DEF PoolIssue
  <2> HIDE DEF m
  <2> QED BY <2>1, <2>2, <2>3 DEF StructureIssue, m
<1> HIDE DEF issue, seen
<1>4. Verdict(drafts, i, shown, closet) = "accepted" <=> issue(i) = "ok" /\ ~seen
  BY <1>1, <1>3
<1> QED BY <1>2, <1>4 DEF issue

\* What the validator accepts of a reply: outfits of the garments that were
\* shown, one of a signature, in the order the reply lists them.
LEMMA AcceptedIs ==
  ASSUME NEW reply \in Replies, NEW bound \in Nat, NEW shown, NEW closet
  PROVE  LET C == Validated(reply, bound, shown, closet)
         IN  /\ C \in Seq(Candidates) /\ Distinct(C)
             /\ \A c, d \in ToSet(C) : c.index = d.index => c = d
             /\ \A c, d \in ToSet(C) : FullSignature(c.slots) = FullSignature(d.slots) => c = d
             /\ \A c \in ToSet(C) : /\ SlotIssue(c.slots) = "ok"
                                    /\ PoolIssue(c.slots, shown, closet) = "ok"
                                    /\ c.move \subseteq Filled(c.slots)
             /\ \A i \in DOMAIN reply.drafts :
                  (\E c \in ToSet(C) : c.index = i)
                  <=> reply.root /\ i <= bound /\ Verdict(reply.drafts, i, shown, closet) = "accepted"
             /\ \A c \in ToSet(C) : c.index \in DOMAIN reply.drafts
<1> DEFINE drafts == IF reply.root THEN Firstly(reply.drafts, bound) ELSE <<>>
           P == {i \in DOMAIN drafts : Verdict(drafts, i, shown, closet) = "accepted"}
           A == Ascending(P)
           m(i) == SlotMapOf(drafts[i].items)
           cand(i) == [index |-> i, slots |-> m(i), move |-> StyleMove(drafts[i], m(i))]
           C == Validated(reply, bound, shown, closet)
<1>1. /\ reply.root \in BOOLEAN /\ reply.drafts \in Seq(DraftRecord)
      /\ Len(reply.drafts) \in Nat /\ DOMAIN reply.drafts = 1..Len(reply.drafts)
  BY ReplyAssumption, LenProperties
<1>2. /\ drafts \in Seq(DraftRecord)
      /\ DOMAIN drafts = IF reply.root THEN {i \in DOMAIN reply.drafts : i <= bound} ELSE {}
      /\ \A i \in DOMAIN drafts : drafts[i] = reply.drafts[i]
  <2>1. CASE reply.root
    <3> DEFINE F == Firstly(reply.drafts, bound)
    <3>1. /\ F \in Seq(DraftRecord) /\ Len(F) = IF bound < Len(reply.drafts) THEN bound ELSE Len(reply.drafts)
          /\ \A i \in 1..Len(F) : F[i] = reply.drafts[i]
      BY <1>1, FirstlyIs
    <3> HIDE DEF F
    <3>2. DOMAIN F = 1..Len(F) /\ Len(F) \in Nat
      BY <3>1, LenProperties
    <3>3. DOMAIN F = {i \in DOMAIN reply.drafts : i <= bound}
      BY <1>1, <3>1, <3>2
    <3>4. drafts = F
      BY <2>1 DEF F
    <3> HIDE DEF drafts
    <3> QED BY <2>1, <3>1, <3>2, <3>3, <3>4
  <2>2. CASE ~reply.root
    <3>1. drafts = <<>> /\ <<>> \in Seq(DraftRecord) /\ DOMAIN <<>> = {}
      BY <2>2, EmptySeq
    <3> HIDE DEF drafts
    <3> QED BY <2>2, <3>1
  <2> QED BY <2>1, <2>2
<1>3. \A i \in DOMAIN drafts :
        Verdict(drafts, i, shown, closet) = "accepted" <=> Verdict(reply.drafts, i, shown, closet) = "accepted"
  <2> TAKE i \in DOMAIN drafts
  <2>1. \A j \in 1..(i - 1) : j \in DOMAIN drafts
    <3> HIDE DEF drafts
    <3> QED BY <1>1, <1>2
  <2>2. drafts[i] = reply.drafts[i] /\ \A j \in 1..(i - 1) : drafts[j] = reply.drafts[j]
    BY <1>2, <2>1
  <2> HIDE DEF drafts
  <2> QED BY <2>2, VerdictMeans
<1> HIDE DEF drafts
<1>4. Len(drafts) \in Nat /\ DOMAIN drafts = 1..Len(drafts) /\ P \in SUBSET (1..Len(drafts))
  BY <1>2, LenProperties
<1>5. C = [n \in DOMAIN A |-> cand(A[n])]
  BY DEF Validated, drafts
<1> HIDE DEF P
<1>6. /\ Cardinality(P) \in Nat
      /\ \A i \in P : \E n \in 1..Cardinality(P) : A[n] = i
      /\ \A n \in 1..Cardinality(P) : A[n] \in P
      /\ \A k, n \in 1..Cardinality(P) : k < n <=> A[k] < A[n]
  <2>1. Cardinality(P) \in 0..Len(drafts)
    BY <1>2, <1>4, AtIs
  <2>2. /\ \A i \in P : \E n \in 1..Cardinality(P) : Ascending(P)[n] = i
        /\ \A n \in 1..Cardinality(P) : Ascending(P)[n] \in P
        /\ \A k, n \in 1..Cardinality(P) : k < n <=> Ascending(P)[k] < Ascending(P)[n]
    BY <1>2, <1>4, AtIs
  <2> QED BY <1>4, <2>1, <2>2
<1>7. DOMAIN A = 1..Cardinality(P)
  <2>1. IsFiniteSet(P) /\ P \subseteq Int
    BY <1>2, <1>4, AtIs
  <2>2. A \in Seq(P) /\ Len(A) = Cardinality(P)
    BY <2>1, AscendingIs
  <2> QED BY <2>2, LenProperties
<1>8. \A i \in P : cand(i) \in Candidates /\ cand(i).index = i
  <2> TAKE i \in P
  <2>1. drafts[i] \in DraftRecord /\ i \in Nat
    BY <1>2, <1>4, ElementOfSeq
  <2>2. m(i) \in SlotMaps(Ids)
    BY <2>1, SlotMapOfIs DEF DraftRecord
  <2>3. StyleMove(drafts[i], m(i)) \in SUBSET Ids
    <3>1. drafts[i].move \in [1..Len(drafts[i].move) -> Ids]
      BY <2>1, LenProperties DEF DraftRecord
    <3>2. ToSet(drafts[i].move) \subseteq Ids
      BY <3>1 DEF ToSet
    <3> HIDE DEF m
    <3> QED BY <3>2 DEF StyleMove
  <2> HIDE DEF m
  <2> QED BY <2>1, <2>2, <2>3 DEF Candidates
<1> HIDE DEF A, C
<1>9. \A n \in 1..Cardinality(P) : C[n] = cand(A[n]) /\ A[n] \in P
  BY <1>5, <1>6, <1>7
<1> HIDE DEF cand
<1>10. C \in Seq(Candidates) /\ DOMAIN C = 1..Cardinality(P)
  <2>1. C = [n \in 1..Cardinality(P) |-> C[n]]
    BY <1>5, <1>7, <1>9
  <2>2. \A n \in 1..Cardinality(P) : C[n] \in Candidates
    BY <1>8, <1>9
  <2> QED BY <1>6, <2>1, <2>2
<1>11. ToSet(C) = {cand(i) : i \in P}
  <2>1. ToSet(C) = {C[n] : n \in 1..Cardinality(P)}
    BY <1>10 DEF ToSet
  <2>2. \A n \in 1..Cardinality(P) : C[n] \in {cand(i) : i \in P}
    BY <1>9
  <2>3. \A i \in P : cand(i) \in {C[n] : n \in 1..Cardinality(P)}
    BY <1>6, <1>9
  <2> QED BY <2>1, <2>2, <2>3
<1>12. \A c, d \in ToSet(C) : c.index = d.index => c = d
  BY <1>8, <1>11
<1>13. Distinct(C)
  <2> SUFFICES ASSUME NEW k \in 1..Cardinality(P), NEW n \in 1..Cardinality(P), C[k] = C[n] PROVE k = n
    BY <1>10 DEF Distinct
  <2>1. A[k] = A[n]
    BY <1>8, <1>9
  <2>2. A[k] \in P /\ A[n] \in P
    BY <1>9
  <2>3. A[k] \in Int /\ A[n] \in Int
    <3>1. \A i \in P : i \in Int
      BY <1>4
    <3> QED BY <2>2, <3>1
  <2> QED BY <1>6, <2>1, <2>3
<1>14. \A i \in P : /\ StructureIssue(drafts[i], shown, closet) = "ok"
                    /\ \A j \in 1..(i - 1) :
                         ~(/\ StructureIssue(drafts[j], shown, closet) = "ok"
                           /\ FullSignature(m(j)) = FullSignature(m(i)))
  BY VerdictMeans DEF P
<1>15. \A c, d \in ToSet(C) : FullSignature(c.slots) = FullSignature(d.slots) => c = d
  <2>1. ASSUME NEW i \in P, NEW j \in P, FullSignature(m(i)) = FullSignature(m(j)) PROVE i = j
    <3>1. i \in 1..Len(drafts) /\ j \in 1..Len(drafts)
      BY <1>4
    <3>2. CASE i < j
      BY <1>14, <2>1, <3>1, <3>2
    <3>3. CASE j < i
      BY <1>14, <2>1, <3>1, <3>3
    <3> QED BY <1>4, <3>1, <3>2, <3>3
  <2>2. \A i \in P : cand(i).slots = m(i)
    BY DEF cand
  <2> HIDE DEF m
  <2> QED BY <1>11, <2>1, <2>2
<1>16. ASSUME NEW i \in P
       PROVE  /\ SlotIssue(cand(i).slots) = "ok"
              /\ PoolIssue(cand(i).slots, shown, closet) = "ok"
              /\ cand(i).move \subseteq Filled(cand(i).slots)
  <2>1. cand(i).slots = m(i) /\ cand(i).move = StyleMove(drafts[i], m(i))
    BY DEF cand
  <2>2. SlotIssue(m(i)) = "ok" /\ PoolIssue(m(i), shown, closet) = "ok"
    BY <1>14, StructureOk
  <2>3. StyleMove(drafts[i], m(i)) \subseteq Filled(m(i))
    <3> HIDE DEF m
    <3> QED BY DEF StyleMove
  <2> QED BY <2>1, <2>2, <2>3
<1>17. \A i \in DOMAIN reply.drafts :
         (\E c \in ToSet(C) : c.index = i)
         <=> reply.root /\ i <= bound /\ Verdict(reply.drafts, i, shown, closet) = "accepted"
  <2>1. \A i : (\E c \in ToSet(C) : c.index = i) <=> i \in P
    BY <1>8, <1>11
  <2>2. \A i \in DOMAIN reply.drafts :
          i \in P <=> reply.root /\ i <= bound /\ Verdict(reply.drafts, i, shown, closet) = "accepted"
    BY <1>2, <1>3 DEF P
  <2> QED BY <2>1, <2>2
<1>18. \A c \in ToSet(C) : c.index \in DOMAIN reply.drafts
  <2>1. \A i \in P : i \in DOMAIN reply.drafts
    BY <1>2 DEF P
  <2> QED BY <1>8, <1>11, <2>1
<1> QED BY <1>10, <1>11, <1>12, <1>13, <1>15, <1>16, <1>17, <1>18 DEF C
-----------------------------------------------------------------------------
(* The ranker: lists of candidates, and lists of ranked outfits.           *)

\* What the ranker may be called with.
Rankable(cands, ctx) ==
  /\ cands \in Seq(Candidates) /\ Distinct(cands)
  /\ \A c, d \in ToSet(cands) : c.index = d.index => c = d
  /\ \A c, d \in ToSet(cands) : FullSignature(c.slots) = FullSignature(d.slots) => c = d
  /\ ctx.k \in Nat \ {0}
  /\ \A i \in DOMAIN ctx.affinity : ctx.affinity[i] \in Int
  /\ \A c \in ToSet(cands) : ctx.draw[FullSignature(c.slots)] \in Int

Once(list) == \A i, j \in DOMAIN list : list[i].cand = list[j].cand => i = j

\* What every list of elements of a set has.
LEMMA ListIs ==
  ASSUME NEW T, NEW list \in Seq(T)
  PROVE  /\ Len(list) \in Nat /\ DOMAIN list = 1..Len(list)
         /\ \A i \in DOMAIN list : list[i] \in T
         /\ ToSet(list) \subseteq T /\ IsFiniteSet(ToSet(list))
         /\ \A x : x \in ToSet(list) <=> \E i \in DOMAIN list : list[i] = x
         /\ list # <<>> <=> 1 \in DOMAIN list
         /\ list # <<>> <=> ToSet(list) # {}
         /\ list \in Seq(ToSet(list))
<1>1. Len(list) \in Nat /\ DOMAIN list = 1..Len(list) /\ list \in [1..Len(list) -> T]
  BY LenProperties
<1>2. \A i \in DOMAIN list : list[i] \in T
  BY <1>1
<1>3. \A x : x \in ToSet(list) <=> \E i \in DOMAIN list : list[i] = x
  BY DEF ToSet
<1>4. IsFiniteSet(ToSet(list))
  <2>1. list \in Surjection(1..Len(list), ToSet(list))
    BY <1>1, <1>3 DEF Surjection
  <2> QED BY <1>1, <2>1, FS_NatSurjection DEF ExistsSurjection
<1>5. list # <<>> <=> 1 \in DOMAIN list
  <2>1. CASE list = <<>>
    BY <2>1, EmptySeq, <1>1
  <2>2. CASE list # <<>>
    BY <2>2, EmptySeq, <1>1
  <2> QED BY <2>1, <2>2
<1>6. list # <<>> <=> ToSet(list) # {}
  <2>1. ToSet(list) # {} <=> \E i \in DOMAIN list : TRUE
    BY <1>3
  <2>2. (\E i \in DOMAIN list : TRUE) <=> 1 \in DOMAIN list
    BY <1>1
  <2> QED BY <1>5, <2>1, <2>2
<1>7. list \in Seq(ToSet(list))
  <2>1. list = [i \in 1..Len(list) |-> list[i]]
    BY <1>1
  <2>2. \A i \in 1..Len(list) : list[i] \in ToSet(list)
    BY <1>1, <1>3
  <2> QED BY <1>1, <2>1, <2>2
<1> QED BY <1>1, <1>2, <1>3, <1>4, <1>5, <1>6, <1>7

\* No place of a list is taken twice.
LEMMA AtOnce ==
  ASSUME NEW T, NEW list \in Seq(T), NEW P \in SUBSET (1..Len(list))
  PROVE  /\ DOMAIN At(list, P) = 1..Cardinality(P)
         /\ \A n \in DOMAIN At(list, P) :
              Ascending(P)[n] \in P /\ At(list, P)[n] = list[Ascending(P)[n]]
         /\ \A m, n \in DOMAIN At(list, P) : Ascending(P)[m] = Ascending(P)[n] => m = n
         /\ Distinct(list) => Distinct(At(list, P))
<1>1. /\ Cardinality(P) \in 0..Len(list) /\ At(list, P) \in Seq(T) /\ Len(At(list, P)) = Cardinality(P)
  BY AtIs
<1>2. /\ \A n \in 1..Cardinality(P) : Ascending(P)[n] \in P /\ At(list, P)[n] = list[Ascending(P)[n]]
      /\ \A m, n \in 1..Cardinality(P) : m < n <=> Ascending(P)[m] < Ascending(P)[n]
  BY AtIs
<1>3. DOMAIN At(list, P) = 1..Cardinality(P) /\ Len(list) \in Nat /\ DOMAIN list = 1..Len(list)
  BY <1>1, LenProperties
<1>4. \A i \in P : i \in Int
  BY <1>3
<1>5. \A m, n \in 1..Cardinality(P) : Ascending(P)[m] = Ascending(P)[n] => m = n
  <2> SUFFICES ASSUME NEW m \in 1..Cardinality(P), NEW n \in 1..Cardinality(P),
                      Ascending(P)[m] = Ascending(P)[n]
               PROVE  m = n
    OBVIOUS
  <2>1. Ascending(P)[m] \in Int /\ Ascending(P)[n] \in Int
    BY <1>2, <1>4
  <2>2. ~(m < n) /\ ~(n < m)
    BY <1>2, <2>1
  <2> QED BY <1>1, <1>3, <2>2
<1>6. Distinct(list) => Distinct(At(list, P))
  <2> SUFFICES ASSUME Distinct(list), NEW m \in 1..Cardinality(P), NEW n \in 1..Cardinality(P),
                      At(list, P)[m] = At(list, P)[n]
               PROVE  m = n
    BY <1>3 DEF Distinct
  <2>1. list[Ascending(P)[m]] = list[Ascending(P)[n]]
    BY <1>2
  <2>2. Ascending(P)[m] \in DOMAIN list /\ Ascending(P)[n] \in DOMAIN list
    BY <1>2, <1>3
  <2> QED BY <1>5, <2>1, <2>2 DEF Distinct
<1> QED BY <1>2, <1>3, <1>5, <1>6

\* An outfit has at most six garments.
LEMMA FilledIs ==
  ASSUME NEW m \in SlotMaps(Ids)
  PROVE  Filled(m) \subseteq Ids /\ IsFiniteSet(Filled(m))
<1>1. Filled(m) = {m.dress, m.top, m.bottom, m.mid, m.outer, m.shoes} \ {Nothing}
  BY SlotsAre DEF Filled
<1>2. /\ m.dress \in Nat /\ m.top \in Nat /\ m.bottom \in Nat
      /\ m.mid \in Nat /\ m.outer \in Nat /\ m.shoes \in Nat
  BY SlotMapIs
<1>3. Filled(m) \in SUBSET Nat
  BY <1>1, <1>2
<1>4. \A g \in Filled(m) : g <= m.dress + m.top + m.bottom + m.mid + m.outer + m.shoes
  BY <1>1, <1>2
<1>5. IsFiniteSet(Filled(m))
  <2> DEFINE sum == m.dress + m.top + m.bottom + m.mid + m.outer + m.shoes
  <2>1. sum \in Nat
    BY <1>2
  <2> HIDE DEF sum
  <2> QED BY <1>3, <1>4, <2>1, FS_BoundedSetOfNaturals DEF sum
<1> QED BY <1>1, <1>3, <1>5 DEF Ids

\* A scored candidate, and the fine of the cooldown.
LEMMA ScoredIs ==
  ASSUME NEW c \in Candidates, NEW ctx, \A i \in DOMAIN ctx.affinity : ctx.affinity[i] \in Int,
         NEW relaxed \in BOOLEAN
  PROVE  /\ Scored(c, ctx, relaxed).cand = c
         /\ Scored(c, ctx, relaxed).terms \in Terms
         /\ Scored(c, ctx, relaxed) \in Scoreds({c})
         /\ Scored(c, ctx, relaxed).terms.cooldown = IF relaxed THEN -20 ELSE 0
<1> DEFINE boost(i) == IF i \notin DOMAIN ctx.affinity THEN 0
                       ELSE IF ctx.affinity[i] > MaxAffinity THEN MaxAffinity
                       ELSE ctx.affinity[i]
           item == boost(c.slots.dress) + boost(c.slots.top) + boost(c.slots.bottom)
                     + boost(c.slots.mid) + boost(c.slots.outer) + boost(c.slots.shoes)
           combo == IF FullSignature(c.slots) \in ctx.liked THEN 20 ELSE 0
           hurt == -5 * Cardinality(Filled(c.slots) \cap ToSet(ctx.disliked))
           x == Scored(c, ctx, relaxed)
<1>1. x = [cand |-> c,
           terms |-> [base |-> 10, combo |-> combo, item |-> item, dislike |-> hurt,
                      overuse |-> 0, repetition |-> 0, cooldown |-> IF relaxed THEN -20 ELSE 0]]
  BY DEF Scored
<1>2. \A i : boost(i) \in Int
  BY DEF MaxAffinity
<1>3. item \in Int
  <2> HIDE DEF boost
  <2> QED BY <1>2
<1>4. hurt \in Int
  <2>1. IsFiniteSet(Filled(c.slots))
    BY FilledIs DEF Candidates
  <2>2. Cardinality(Filled(c.slots) \cap ToSet(ctx.disliked)) \in Nat
    BY <2>1, FS_Intersection, FS_CardinalityType
  <2> QED BY <2>2
<1>5. combo \in Int
  OBVIOUS
<1> HIDE DEF item, hurt, combo, x
<1>6. x.cand = c /\ x.terms \in Terms /\ x.terms.cooldown = IF relaxed THEN -20 ELSE 0
  BY <1>1, <1>3, <1>4, <1>5 DEF Terms
<1>7. x \in Scoreds({c})
  BY <1>1, <1>6 DEF Scoreds
<1> QED BY <1>6, <1>7 DEF x

\* Scoring keeps the candidates and their order.
LEMMA ScoredAllIs ==
  ASSUME NEW list \in Seq(Candidates), NEW ctx, \A i \in DOMAIN ctx.affinity : ctx.affinity[i] \in Int,
         NEW relaxed \in BOOLEAN, Distinct(list)
  PROVE  /\ ScoredAll(list, ctx, relaxed) \in Seq(Scoreds(ToSet(list)))
         /\ Len(ScoredAll(list, ctx, relaxed)) = Len(list)
         /\ ToSet(ScoredAll(list, ctx, relaxed)) = {Scored(c, ctx, relaxed) : c \in ToSet(list)}
         /\ \A x \in ToSet(ScoredAll(list, ctx, relaxed)) :
              x.cand \in ToSet(list) /\ x.terms.cooldown = IF relaxed THEN -20 ELSE 0
         /\ Once(ScoredAll(list, ctx, relaxed))
<1> DEFINE L == ScoredAll(list, ctx, relaxed)
           n == Len(list)
<1>1. n \in Nat /\ DOMAIN list = 1..n /\ \A i \in 1..n : list[i] \in Candidates /\ list[i] \in ToSet(list)
  BY ListIs
<1>2. L = [i \in 1..n |-> Scored(list[i], ctx, relaxed)]
  BY <1>1 DEF ScoredAll
<1>3. \A i \in 1..n : /\ L[i] = Scored(list[i], ctx, relaxed) /\ L[i].cand = list[i]
                      /\ L[i].terms \in Terms /\ L[i] = [cand |-> L[i].cand, terms |-> L[i].terms]
                      /\ L[i].terms.cooldown = IF relaxed THEN -20 ELSE 0
  <2> TAKE i \in 1..n
  <2>1. L[i] = Scored(list[i], ctx, relaxed)
    BY <1>2
  <2>2. Scored(list[i], ctx, relaxed) \in Scoreds({list[i]})
    BY <1>1, ScoredIs
  <2> HIDE DEF L, n
  <2>3. L[i].cand = list[i] /\ L[i].terms \in Terms /\ L[i].terms.cooldown = IF relaxed THEN -20 ELSE 0
    <3>1. list[i] \in Candidates
      BY <1>1
    <3>2. /\ Scored(list[i], ctx, relaxed).cand = list[i]
          /\ Scored(list[i], ctx, relaxed).terms \in Terms
          /\ Scored(list[i], ctx, relaxed).terms.cooldown = IF relaxed THEN -20 ELSE 0
      BY <3>1, ScoredIs
    <3> QED BY <2>1, <3>2
  <2>4. L[i] = [cand |-> L[i].cand, terms |-> L[i].terms]
    BY <2>1, <2>2 DEF Scoreds
  <2> QED BY <2>1, <2>3, <2>4
<1> HIDE DEF L
<1>4. \A i \in 1..n : L[i] \in Scoreds(ToSet(list))
  <2> TAKE i \in 1..n
  <2>1. L[i].cand \in ToSet(list) /\ L[i].terms \in Terms /\ L[i] = [cand |-> L[i].cand, terms |-> L[i].terms]
    <3> HIDE DEF n
    <3> QED BY <1>1, <1>3
  <2> QED BY <2>1 DEF Scoreds
<1>5. DOMAIN L = 1..n /\ L \in Seq(Scoreds(ToSet(list))) /\ Len(L) = n
  BY <1>1, <1>2, <1>4
<1>6. ToSet(L) = {Scored(c, ctx, relaxed) : c \in ToSet(list)}
  BY <1>1, <1>3, <1>5 DEF ToSet
<1>7. \A x \in ToSet(L) : x.cand \in ToSet(list) /\ x.terms.cooldown = IF relaxed THEN -20 ELSE 0
  BY <1>1, <1>3, <1>5 DEF ToSet
<1>8. Once(L)
  BY <1>1, <1>3, <1>5 DEF Once, Distinct
<1> QED BY <1>5, <1>6, <1>7, <1>8 DEF L
-----------------------------------------------------------------------------
(* The reserved place: one element of a list moved forward.                *)

\* The part of a list between two places.
LEMMA CutIs ==
  ASSUME NEW T, NEW list \in Seq(T), NEW m \in Nat \ {0}, NEW n \in Nat, n <= Len(list), m <= n + 1
  PROVE  /\ SubSeq(list, m, n) \in Seq(T) /\ Len(SubSeq(list, m, n)) = n - m + 1
         /\ \A i \in 1..(n - m + 1) : SubSeq(list, m, n)[i] = list[m + i - 1]
<1>1. Len(list) \in Nat
  BY LenProperties
<1>2. \A i \in m..n : list[i] \in T
  <2> TAKE i \in m..n
  <2>1. i \in 1..Len(list)
    BY <1>1
  <2> QED BY <2>1, ElementOfSeq
<1>3. m \in Int /\ n \in Int
  OBVIOUS
<1>4. /\ SubSeq(list, m, n) \in Seq(T)
      /\ Len(SubSeq(list, m, n)) = IF m <= n THEN n - m + 1 ELSE 0
      /\ \A i \in 1..(n - m + 1) : SubSeq(list, m, n)[i] = list[m + i - 1]
  BY <1>2, <1>3, SubSeqProperties
<1> QED BY <1>3, <1>4

\* A list without one of its elements.
LEMMA RemoveAtIs ==
  ASSUME NEW T, NEW list \in Seq(T), NEW i \in 1..Len(list)
  PROVE  /\ RemoveAt(list, i) \in Seq(T) /\ Len(RemoveAt(list, i)) = Len(list) - 1
         /\ \A n \in 1..(Len(list) - 1) : RemoveAt(list, i)[n] = IF n < i THEN list[n] ELSE list[n + 1]
<1> DEFINE a == SubSeq(list, 1, i - 1)
           b == SubSeq(list, i + 1, Len(list))
           c == Len(list)
<1>1. c \in Nat /\ i \in Nat /\ 1 <= i /\ i <= c
  BY LenProperties
<1>2. /\ a \in Seq(T) /\ Len(a) = (i - 1) - 1 + 1
      /\ \A n \in 1..((i - 1) - 1 + 1) : a[n] = list[1 + n - 1]
  <2>1. 1 \in Nat \ {0} /\ i - 1 \in Nat /\ i - 1 <= Len(list) /\ 1 <= (i - 1) + 1
    BY <1>1
  <2> QED BY <2>1, CutIs
<1>3. /\ b \in Seq(T) /\ Len(b) = c - (i + 1) + 1
      /\ \A n \in 1..(c - (i + 1) + 1) : b[n] = list[(i + 1) + n - 1]
  <2>1. i + 1 \in Nat \ {0} /\ Len(list) \in Nat /\ Len(list) <= Len(list) /\ i + 1 <= Len(list) + 1
    BY <1>1
  <2> QED BY <2>1, CutIs
<1>4. RemoveAt(list, i) = a \o b
  BY DEF RemoveAt
<1> HIDE DEF a, b, c
<1>5. /\ a \o b \in Seq(T) /\ Len(a \o b) = Len(a) + Len(b)
      /\ \A n \in 1..(Len(a) + Len(b)) : (a \o b)[n] = IF n <= Len(a) THEN a[n] ELSE b[n - Len(a)]
  BY <1>2, <1>3, ConcatProperties
<1>6. Len(a) = i - 1 /\ Len(b) = c - i
  BY <1>1, <1>2, <1>3
<1>7. ASSUME NEW n \in 1..(c - 1) PROVE (a \o b)[n] = IF n < i THEN list[n] ELSE list[n + 1]
  <2>1. n \in 1..(Len(a) + Len(b))
    BY <1>1, <1>6
  <2>2. CASE n < i
    <3>1. (a \o b)[n] = a[n]
      BY <1>1, <1>5, <1>6, <2>1, <2>2
    <3>2. a[n] = list[n]
      BY <1>1, <1>2, <2>2
    <3> QED BY <2>2, <3>1, <3>2
  <2>3. CASE ~(n < i)
    <3>1. (a \o b)[n] = b[n - (i - 1)]
      BY <1>1, <1>5, <1>6, <2>1, <2>3
    <3>2. n - (i - 1) \in 1..(c - (i + 1) + 1)
      BY <1>1, <2>3
    <3>3. b[n - (i - 1)] = list[(i + 1) + (n - (i - 1)) - 1]
      BY <1>3, <3>2
    <3>4. (i + 1) + (n - (i - 1)) - 1 = n + 1
      BY <1>1
    <3> QED BY <2>3, <3>1, <3>3, <3>4
  <2> QED BY <2>2, <2>3
<1>8. Len(a \o b) = c - 1
  BY <1>1, <1>5, <1>6
<1> QED BY <1>4, <1>5, <1>7, <1>8 DEF c

\* A list with one element more.
LEMMA InsertAtIs ==
  ASSUME NEW T, NEW list \in Seq(T), NEW e \in T, NEW i \in 1..(Len(list) + 1)
  PROVE  /\ InsertAt(list, i, e) \in Seq(T) /\ Len(InsertAt(list, i, e)) = Len(list) + 1
         /\ \A n \in 1..(Len(list) + 1) :
              InsertAt(list, i, e)[n] = IF n < i THEN list[n] ELSE IF n = i THEN e ELSE list[n - 1]
<1> DEFINE a == SubSeq(list, 1, i - 1)
           b == SubSeq(list, i, Len(list))
           c == Len(list)
           d == a \o <<e>>
<1>1. c \in Nat /\ i \in Nat /\ 1 <= i /\ i <= c + 1
  BY LenProperties
<1>2. /\ a \in Seq(T) /\ Len(a) = (i - 1) - 1 + 1
      /\ \A n \in 1..((i - 1) - 1 + 1) : a[n] = list[1 + n - 1]
  <2>1. 1 \in Nat \ {0} /\ i - 1 \in Nat /\ i - 1 <= Len(list) /\ 1 <= (i - 1) + 1
    BY <1>1
  <2> QED BY <2>1, CutIs
<1>3. /\ b \in Seq(T) /\ Len(b) = c - i + 1
      /\ \A n \in 1..(c - i + 1) : b[n] = list[i + n - 1]
  <2>1. i \in Nat \ {0} /\ Len(list) \in Nat /\ Len(list) <= Len(list) /\ i <= Len(list) + 1
    BY <1>1
  <2> QED BY <2>1, CutIs
<1>4. InsertAt(list, i, e) = d \o b
  BY DEF InsertAt
<1>5. <<e>> \in Seq(T) /\ Len(<<e>>) = 1 /\ <<e>>[1] = e
  OBVIOUS
<1> HIDE DEF a, b, c
<1>6. /\ d \in Seq(T) /\ Len(d) = Len(a) + 1
      /\ \A n \in 1..(Len(a) + 1) : d[n] = IF n <= Len(a) THEN a[n] ELSE <<e>>[n - Len(a)]
  <2>1. /\ d \in Seq(T) /\ Len(d) = Len(a) + Len(<<e>>)
        /\ \A n \in 1..(Len(a) + Len(<<e>>)) : d[n] = IF n <= Len(a) THEN a[n] ELSE <<e>>[n - Len(a)]
    BY <1>2, <1>5, ConcatProperties
  <2> QED BY <1>5, <2>1
<1> HIDE DEF d
<1>7. /\ d \o b \in Seq(T) /\ Len(d \o b) = Len(d) + Len(b)
      /\ \A n \in 1..(Len(d) + Len(b)) : (d \o b)[n] = IF n <= Len(d) THEN d[n] ELSE b[n - Len(d)]
  BY <1>3, <1>6, ConcatProperties
<1>8. Len(a) = i - 1 /\ Len(d) = i /\ Len(b) = c - i + 1
  BY <1>1, <1>2, <1>3, <1>6
<1>9. ASSUME NEW n \in 1..(c + 1)
      PROVE  (d \o b)[n] = IF n < i THEN list[n] ELSE IF n = i THEN e ELSE list[n - 1]
  <2>1. n \in 1..(Len(d) + Len(b))
    BY <1>1, <1>8
  <2>2. CASE n < i
    <3>1. (d \o b)[n] = d[n]
      BY <1>1, <1>7, <1>8, <2>1, <2>2
    <3>2. d[n] = a[n]
      BY <1>1, <1>6, <1>8, <2>2
    <3>3. a[n] = list[n]
      BY <1>1, <1>2, <2>2
    <3> QED BY <2>2, <3>1, <3>2, <3>3
  <2>3. CASE n = i
    <3>1. (d \o b)[n] = d[n]
      BY <1>1, <1>7, <1>8, <2>1, <2>3
    <3>2. d[n] = <<e>>[n - Len(a)]
      BY <1>1, <1>6, <1>8, <2>3
    <3>3. n - Len(a) = 1
      BY <1>1, <1>8, <2>3
    <3> QED BY <1>1, <1>5, <2>3, <3>1, <3>2, <3>3
  <2>4. CASE n > i
    <3>1. (d \o b)[n] = b[n - i]
      BY <1>1, <1>7, <1>8, <2>1, <2>4
    <3>2. n - i \in 1..(c - i + 1)
      BY <1>1, <2>4
    <3>3. b[n - i] = list[i + (n - i) - 1]
      BY <1>3, <3>2
    <3>4. i + (n - i) - 1 = n - 1
      BY <1>1
    <3> QED BY <1>1, <2>4, <3>1, <3>3, <3>4
  <2>5. n \in Nat /\ i \in Nat
    BY <1>1
  <2>6. n < i \/ n = i \/ (n > i /\ ~(n < i) /\ n # i)
    BY <2>5
  <2>7. n = i => ~(n < i)
    BY <2>5
  <2> QED BY <2>2, <2>3, <2>4, <2>6, <2>7
<1>10. Len(d \o b) = c + 1
  BY <1>1, <1>7, <1>8
<1> QED BY <1>4, <1>7, <1>9, <1>10 DEF c

\* Keeping an eligible element within the limit reorders the list, and puts
\* one there when there is one anywhere.
LEMMA ReserveChoiceIs ==
  ASSUME NEW T, NEW ordered \in Seq(T), NEW limit \in Nat \ {0}, NEW eligible
  PROVE  /\ ReserveChoice(ordered, limit, eligible) \in Seq(T)
         /\ Len(ReserveChoice(ordered, limit, eligible)) = Len(ordered)
         /\ ToSet(ReserveChoice(ordered, limit, eligible)) = ToSet(ordered)
         /\ Distinct(ordered) => Distinct(ReserveChoice(ordered, limit, eligible))
         /\ ToSet(ordered) \cap eligible # {} =>
              \E i \in 1..Len(ordered) : i <= limit /\ ReserveChoice(ordered, limit, eligible)[i] \in eligible
<1> DEFINE reach  == IF limit < Len(ordered) THEN limit ELSE Len(ordered)
           wanted == {i \in DOMAIN ordered : ordered[i] \in eligible}
           chosen == CHOOSE i \in wanted : \A j \in wanted : i <= j
           rest   == RemoveAt(ordered, chosen)
           place  == IF limit - 1 < Len(rest) THEN limit ELSE Len(rest) + 1
           out    == ReserveChoice(ordered, limit, eligible)
<1>1. Len(ordered) \in Nat /\ DOMAIN ordered = 1..Len(ordered) /\ \A i \in 1..Len(ordered) : ordered[i] \in T
  BY ListIs
<1>2. ToSet(ordered) \cap eligible # {} => wanted # {}
  BY DEF ToSet
<1>3. CASE wanted = {} \/ wanted \cap (1..reach) # {}
  <2>1. out = ordered
    BY <1>3 DEF ReserveChoice
  <2>2. ASSUME ToSet(ordered) \cap eligible # {}
        PROVE  \E i \in 1..Len(ordered) : i <= limit /\ out[i] \in eligible
    <3>1. PICK i \in wanted : i \in 1..reach
      BY <1>2, <1>3, <2>2
    <3>2. i \in 1..Len(ordered) /\ ordered[i] \in eligible
      BY <1>1, <3>1
    <3>3. i <= limit
      BY <1>1, <3>1
    <3> HIDE DEF out
    <3> QED BY <2>1, <3>2, <3>3
  <2> HIDE DEF out
  <2> QED BY <2>1, <2>2 DEF out
<1>4. CASE ~(wanted = {} \/ wanted \cap (1..reach) # {})
  <2>1. chosen \in wanted
    <3>1. wanted \in SUBSET Nat /\ wanted # {}
      BY <1>1, <1>4
    <3>2. IsFiniteSet(wanted)
      <4>1. \A i \in wanted : i <= Len(ordered)
        BY <1>1
      <4> HIDE DEF wanted
      <4> QED BY <1>1, <3>1, <4>1, FS_BoundedSetOfNaturals
    <3>3. wanted \subseteq Int
      BY <3>1
    <3>4. Min(wanted) \in wanted /\ \A x \in wanted : Min(wanted) <= x
      <4> HIDE DEF wanted
      <4> QED BY <3>1, <3>2, <3>3, Extremes
    <3> HIDE DEF wanted
    <3> QED BY <3>4
  <2>2. /\ chosen \in 1..Len(ordered) /\ ordered[chosen] \in eligible /\ ordered[chosen] \in T
        /\ limit < chosen /\ limit < Len(ordered)
    <3>1. chosen \in 1..Len(ordered) /\ ordered[chosen] \in eligible /\ chosen \notin 1..reach
      <4> HIDE DEF chosen, reach
      <4> QED BY <1>1, <1>4, <2>1
    <3> HIDE DEF chosen
    <3> QED BY <1>1, <3>1
  <2> HIDE DEF chosen
  <2>3. /\ rest \in Seq(T) /\ Len(rest) = Len(ordered) - 1
        /\ \A n \in 1..(Len(ordered) - 1) : rest[n] = IF n < chosen THEN ordered[n] ELSE ordered[n + 1]
    BY <2>2, RemoveAtIs
  <2>4. place = limit
    <3>1. limit - 1 < Len(rest)
      <4> HIDE DEF rest
      <4> QED BY <1>1, <2>2, <2>3
    <3> HIDE DEF rest
    <3> QED BY <3>1
  <2>5. out = InsertAt(rest, limit, ordered[chosen])
    <3>1. out = InsertAt(rest, place, ordered[chosen])
      BY <1>4 DEF ReserveChoice, chosen
    <3> HIDE DEF place, out, rest
    <3> QED BY <2>4, <3>1
  <2> HIDE DEF out, rest, wanted, reach
  <2>6. /\ out \in Seq(T) /\ Len(out) = Len(rest) + 1
        /\ \A n \in 1..(Len(rest) + 1) :
             out[n] = IF n < limit THEN rest[n] ELSE IF n = limit THEN ordered[chosen] ELSE rest[n - 1]
    <3>1. limit \in 1..(Len(rest) + 1)
      BY <1>1, <2>2, <2>3
    <3>2. /\ InsertAt(rest, limit, ordered[chosen]) \in Seq(T)
          /\ Len(InsertAt(rest, limit, ordered[chosen])) = Len(rest) + 1
          /\ \A n \in 1..(Len(rest) + 1) :
               InsertAt(rest, limit, ordered[chosen])[n]
                 = IF n < limit THEN rest[n] ELSE IF n = limit THEN ordered[chosen] ELSE rest[n - 1]
      <4>1. ordered[chosen] \in T /\ rest \in Seq(T)
        BY <2>2, <2>3
      <4> DEFINE e == ordered[chosen]
      <4>2. e \in T
        BY <4>1
      <4> HIDE DEF e
      <4>3. /\ InsertAt(rest, limit, e) \in Seq(T) /\ Len(InsertAt(rest, limit, e)) = Len(rest) + 1
            /\ \A n \in 1..(Len(rest) + 1) :
                 InsertAt(rest, limit, e)[n] = IF n < limit THEN rest[n] ELSE IF n = limit THEN e ELSE rest[n - 1]
        BY <3>1, <4>1, <4>2, InsertAtIs
      <4> QED BY <4>3 DEF e
    <3> QED BY <2>5, <3>2
  <2>7. Len(out) = Len(ordered) /\ DOMAIN out = 1..Len(ordered)
    <3>1. Len(out) = Len(ordered)
      BY <1>1, <2>3, <2>6
    <3> QED BY <2>6, <3>1, LenProperties
  <2> DEFINE from(n) == IF n < limit THEN n ELSE IF n = limit THEN chosen ELSE IF n <= chosen THEN n - 1 ELSE n
             to(n)   == IF n < limit THEN n ELSE IF n = chosen THEN limit ELSE IF n < chosen THEN n + 1 ELSE n
  <2>8. \A n \in 1..Len(ordered) : from(n) \in 1..Len(ordered) /\ out[n] = ordered[from(n)]
    <3> TAKE n \in 1..Len(ordered)
    <3>1. from(n) \in 1..Len(ordered)
      BY <1>1, <2>2
    <3>2. n \in 1..(Len(rest) + 1)
      BY <1>1, <2>3
    <3>3. CASE n < limit
      <4>1. out[n] = rest[n]
        BY <2>6, <3>2, <3>3
      <4>2. n \in 1..(Len(ordered) - 1) /\ n < chosen
        BY <1>1, <2>2, <3>3
      <4>3. rest[n] = ordered[n]
        BY <2>3, <4>2
      <4> QED BY <3>1, <3>3, <4>1, <4>3
    <3>4. CASE n = limit
      <4>1. out[n] = ordered[chosen]
        BY <2>6, <3>2, <3>4
      <4> QED BY <3>1, <3>4, <4>1
    <3>5. CASE n > limit /\ n <= chosen
      <4>1. out[n] = rest[n - 1]
        BY <2>6, <3>2, <3>5
      <4>2. n - 1 \in 1..(Len(ordered) - 1) /\ n - 1 < chosen
        BY <1>1, <2>2, <3>5
      <4>3. rest[n - 1] = ordered[n - 1]
        BY <2>3, <4>2
      <4> QED BY <3>1, <3>5, <4>1, <4>3
    <3>6. CASE n > limit /\ n > chosen
      <4>1. out[n] = rest[n - 1]
        BY <2>6, <3>2, <3>6
      <4>2. n - 1 \in 1..(Len(ordered) - 1) /\ ~(n - 1 < chosen)
        BY <1>1, <2>2, <3>6
      <4>3. rest[n - 1] = ordered[(n - 1) + 1]
        BY <2>3, <4>2
      <4>4. (n - 1) + 1 = n
        OBVIOUS
      <4>5. from(n) = n
        BY <2>2, <3>6
      <4> HIDE DEF from
      <4> QED BY <3>1, <4>1, <4>3, <4>4, <4>5
    <3> QED BY <2>2, <3>3, <3>4, <3>5, <3>6
  <2>9. \A n \in 1..Len(ordered) : to(n) \in 1..Len(ordered) /\ from(to(n)) = n /\ to(from(n)) = n
    BY <1>1, <2>2
  <2> HIDE DEF from, to
  <2>10. ToSet(out) = ToSet(ordered)
    <3>1. \A x \in ToSet(out) : x \in ToSet(ordered)
      BY <1>1, <2>7, <2>8 DEF ToSet
    <3>2. \A n \in 1..Len(ordered) : ordered[n] = out[to(n)]
      BY <2>8, <2>9
    <3>3. \A x \in ToSet(ordered) : x \in ToSet(out)
      BY <1>1, <2>7, <2>9, <3>2 DEF ToSet
    <3> QED BY <3>1, <3>3
  <2>11. Distinct(ordered) => Distinct(out)
    <3> SUFFICES ASSUME Distinct(ordered), NEW k \in 1..Len(ordered), NEW n \in 1..Len(ordered), out[k] = out[n]
                 PROVE  k = n
      BY <2>7 DEF Distinct
    <3>1. from(k) = from(n)
      BY <1>1, <2>8 DEF Distinct
    <3> QED BY <2>9, <3>1
  <2>12. limit \in 1..Len(ordered) /\ out[limit] \in eligible
    <3>1. limit \in 1..(Len(rest) + 1) /\ limit \in 1..Len(ordered)
      BY <1>1, <2>2, <2>3
    <3>2. out[limit] = ordered[chosen]
      BY <2>6, <3>1
    <3> QED BY <2>2, <3>1, <3>2
  <2>13. \E i \in 1..Len(ordered) : i <= limit /\ out[i] \in eligible
    <3>1. limit <= limit
      OBVIOUS
    <3> QED BY <2>12, <3>1
  <2> QED BY <2>6, <2>7, <2>10, <2>11, <2>13 DEF out
<1> QED BY <1>3, <1>4
-----------------------------------------------------------------------------
(* The pool that goes to the final order.                                  *)

\* A list of ranked outfits, one of a candidate, all of them wearable in
\* the context, with the penalty of the cooldown on those that fail it.
Sound(list, cands, ctx) ==
  /\ list \in Seq(Scoreds(ToSet(cands))) /\ Once(list)
  /\ \A x \in ToSet(list) : /\ Clears(x.cand, ctx)
                            /\ x.terms.cooldown = IF PassesCooldown(x.cand, ctx) THEN 0 ELSE -20

Reservable(list, ctx) == \E x \in ToSet(list) : Reserved(x, ctx)

\* A sound list holds ranked outfits of the candidates.
LEMMA SoundMeans ==
  ASSUME NEW cands, NEW ctx, Rankable(cands, ctx), NEW list, Sound(list, cands, ctx)
  PROVE  /\ list \in Seq(Scoreds(Candidates)) /\ Distinct(list)
         /\ ToSet(list) \in SUBSET Scoreds(Candidates) /\ IsFiniteSet(ToSet(list))
         /\ \A x \in ToSet(list) : x.cand \in ToSet(cands) /\ x.cand \in Candidates /\ x.terms \in Terms
         /\ \A x, y \in ToSet(list) : x.cand = y.cand => x = y
         /\ \A x, y \in ToSet(list) : x.cand.slots = y.cand.slots => x = y
<1>1. /\ cands \in Seq(Candidates) /\ ToSet(cands) \subseteq Candidates
      /\ list \in Seq(Scoreds(ToSet(cands))) /\ Once(list)
  BY ListIs DEF Rankable, Sound
<1>2. /\ \A i \in DOMAIN list : list[i] \in Scoreds(ToSet(cands))
      /\ ToSet(list) \subseteq Scoreds(ToSet(cands)) /\ IsFiniteSet(ToSet(list))
      /\ \A x : x \in ToSet(list) <=> \E i \in DOMAIN list : list[i] = x
  BY <1>1, ListIs
<1>3. Scoreds(ToSet(cands)) \subseteq Scoreds(Candidates)
  BY <1>1 DEF Scoreds
<1>4. list \in Seq(Scoreds(Candidates))
  BY <1>1, <1>3, SeqMonotonic
<1>5. Distinct(list)
  BY <1>1 DEF Distinct, Once
<1>6. \A x \in ToSet(list) : x.cand \in ToSet(cands) /\ x.cand \in Candidates /\ x.terms \in Terms
  BY <1>1, <1>2 DEF Scoreds
<1>7. \A x, y \in ToSet(list) : x.cand = y.cand => x = y
  BY <1>1, <1>2 DEF Once
<1>8. \A x, y \in ToSet(list) : x.cand.slots = y.cand.slots => x = y
  <2> TAKE x, y \in ToSet(list)
  <2>1. x.cand \in ToSet(cands) /\ y.cand \in ToSet(cands)
    BY <1>6
  <2>2. x.cand.slots = y.cand.slots => FullSignature(x.cand.slots) = FullSignature(y.cand.slots)
    OBVIOUS
  <2> QED BY <1>7, <2>1, <2>2 DEF Rankable
<1> QED BY <1>2, <1>3, <1>4, <1>5, <1>6, <1>7, <1>8

\* Rescoring keeps a list sound.
LEMMA MappedSound ==
  ASSUME NEW cands, NEW ctx, Rankable(cands, ctx), NEW list, Sound(list, cands, ctx),
         NEW mapped, mapped = [i \in DOMAIN list |-> mapped[i]],
         \A i \in DOMAIN list : /\ mapped[i] \in Scoreds(Candidates) /\ mapped[i].cand = list[i].cand
                                /\ mapped[i].terms.cooldown = list[i].terms.cooldown
  PROVE  /\ Sound(mapped, cands, ctx) /\ Len(mapped) = Len(list)
         /\ \A y \in ToSet(mapped) : \E x \in ToSet(list) : y.cand = x.cand
         /\ Reservable(list, ctx) => Reservable(mapped, ctx)
<1>1. /\ list \in Seq(Scoreds(Candidates)) /\ Once(list)
      /\ \A x \in ToSet(list) : x.cand \in ToSet(cands) /\ x.terms \in Terms
      /\ \A x \in ToSet(list) : /\ Clears(x.cand, ctx)
                                /\ x.terms.cooldown = IF PassesCooldown(x.cand, ctx) THEN 0 ELSE -20
  BY SoundMeans DEF Sound
<1>2. /\ Len(list) \in Nat /\ DOMAIN list = 1..Len(list)
      /\ \A x : x \in ToSet(list) <=> \E i \in DOMAIN list : list[i] = x
  BY <1>1, ListIs
<1>3. DOMAIN mapped = DOMAIN list
  OBVIOUS
<1>4. \A i \in DOMAIN list : mapped[i] \in Scoreds(ToSet(cands))
  BY <1>1, <1>2 DEF Scoreds
<1>5. mapped \in Seq(Scoreds(ToSet(cands))) /\ Len(mapped) = Len(list)
  <2>1. mapped \in [1..Len(list) -> Scoreds(ToSet(cands))]
    BY <1>2, <1>4
  <2> QED BY <1>2, <2>1
<1>6. Once(mapped)
  BY <1>1, <1>3 DEF Once
<1>7. \A y : y \in ToSet(mapped) <=> \E i \in DOMAIN list : mapped[i] = y
  BY <1>3 DEF ToSet
<1>8. \A y \in ToSet(mapped) : \E x \in ToSet(list) : y.cand = x.cand /\ y.terms.cooldown = x.terms.cooldown
  <2> TAKE y \in ToSet(mapped)
  <2>1. PICK i \in DOMAIN list : mapped[i] = y
    BY <1>7
  <2>2. list[i] \in ToSet(list)
    BY <1>2
  <2> QED BY <2>1, <2>2
<1>9. Sound(mapped, cands, ctx)
  BY <1>1, <1>5, <1>6, <1>8 DEF Sound
<1>10. Reservable(list, ctx) => Reservable(mapped, ctx)
  <2>1. \A x \in ToSet(list) : \E y \in ToSet(mapped) : y.cand = x.cand
    <3> TAKE x \in ToSet(list)
    <3>1. PICK i \in DOMAIN list : list[i] = x
      BY <1>2
    <3>2. mapped[i] \in ToSet(mapped)
      BY <1>7, <3>1
    <3> QED BY <3>1, <3>2
  <2> QED BY <2>1 DEF Reservable, Reserved
<1> QED BY <1>5, <1>8, <1>9, <1>10

\* So does leaving elements out.
LEMMA PartSound ==
  ASSUME NEW cands, NEW ctx, Rankable(cands, ctx), NEW list, Sound(list, cands, ctx),
         NEW P \in SUBSET (DOMAIN list)
  PROVE  /\ Sound(At(list, P), cands, ctx)
         /\ \A x : x \in ToSet(At(list, P)) <=> \E i \in P : list[i] = x
<1>1. list \in Seq(Scoreds(ToSet(cands))) /\ Once(list)
  BY DEF Sound
<1>2. /\ Len(list) \in Nat /\ DOMAIN list = 1..Len(list)
      /\ \A x : x \in ToSet(list) <=> \E i \in DOMAIN list : list[i] = x
  BY <1>1, ListIs
<1>3. P \in SUBSET (1..Len(list))
  BY <1>2
<1>4. At(list, P) \in Seq(Scoreds(ToSet(cands))) /\ ToSet(At(list, P)) = {list[i] : i \in P}
  BY <1>1, <1>3, AtIs
<1>5. \A x : x \in ToSet(At(list, P)) <=> \E i \in P : list[i] = x
  BY <1>4
<1>6. Once(At(list, P))
  <2>1. /\ \A n \in DOMAIN At(list, P) : Ascending(P)[n] \in P /\ At(list, P)[n] = list[Ascending(P)[n]]
        /\ \A m, n \in DOMAIN At(list, P) : Ascending(P)[m] = Ascending(P)[n] => m = n
    BY <1>1, <1>3, AtOnce
  <2>2. \A i, j \in P : list[i].cand = list[j].cand => i = j
    BY <1>1 DEF Once
  <2> QED BY <2>1, <2>2 DEF Once
<1> QED BY <1>2, <1>4, <1>5, <1>6 DEF Sound

\* And joining lists of different candidates.
LEMMA JoinedSound ==
  ASSUME NEW cands, NEW ctx, Rankable(cands, ctx), NEW a, Sound(a, cands, ctx), NEW b, Sound(b, cands, ctx),
         \A x \in ToSet(a), y \in ToSet(b) : x.cand # y.cand
  PROVE  /\ Sound(a \o b, cands, ctx)
         /\ \A x : x \in ToSet(a \o b) <=> x \in ToSet(a) \/ x \in ToSet(b)
<1> DEFINE T == Scoreds(ToSet(cands))
           c == a \o b
<1>1. a \in Seq(T) /\ b \in Seq(T) /\ Once(a) /\ Once(b)
  BY DEF Sound
<1>2. /\ Len(a) \in Nat /\ DOMAIN a = 1..Len(a) /\ \A x : x \in ToSet(a) <=> \E i \in DOMAIN a : a[i] = x
      /\ Len(b) \in Nat /\ DOMAIN b = 1..Len(b) /\ \A x : x \in ToSet(b) <=> \E i \in DOMAIN b : b[i] = x
  BY <1>1, ListIs
<1>3. /\ c \in Seq(T) /\ Len(c) = Len(a) + Len(b)
      /\ \A i \in 1..(Len(a) + Len(b)) : c[i] = IF i <= Len(a) THEN a[i] ELSE b[i - Len(a)]
  BY <1>1, ConcatProperties
<1> HIDE DEF c, T
<1>4. DOMAIN c = 1..(Len(a) + Len(b))
  BY <1>3, LenProperties
<1>5. \A i \in DOMAIN c : \/ i \in DOMAIN a /\ c[i] = a[i] /\ i <= Len(a)
                          \/ i - Len(a) \in DOMAIN b /\ c[i] = b[i - Len(a)] /\ i > Len(a)
  BY <1>2, <1>3, <1>4
<1>6. /\ \A i \in DOMAIN a : i \in DOMAIN c /\ c[i] = a[i]
      /\ \A i \in DOMAIN b : i + Len(a) \in DOMAIN c /\ c[i + Len(a)] = b[i]
  <2>1. \A i \in DOMAIN a : i \in DOMAIN c /\ c[i] = a[i]
    BY <1>2, <1>3, <1>4
  <2>2. ASSUME NEW i \in DOMAIN b PROVE i + Len(a) \in DOMAIN c /\ c[i + Len(a)] = b[i]
    <3>1. i + Len(a) \in 1..(Len(a) + Len(b)) /\ ~(i + Len(a) <= Len(a)) /\ (i + Len(a)) - Len(a) = i
      BY <1>2
    <3> QED BY <1>3, <1>4, <3>1
  <2> QED BY <2>1, <2>2
<1>7. \A x : x \in ToSet(c) <=> x \in ToSet(a) \/ x \in ToSet(b)
  <2>1. \A x : x \in ToSet(c) <=> \E i \in DOMAIN c : c[i] = x
    BY DEF ToSet
  <2>2. ASSUME NEW i \in DOMAIN c PROVE c[i] \in ToSet(a) \/ c[i] \in ToSet(b)
    BY <1>2, <1>5
  <2>3. ASSUME NEW x \in ToSet(a) PROVE x \in ToSet(c)
    BY <1>2, <1>6, <2>1
  <2>4. ASSUME NEW x \in ToSet(b) PROVE x \in ToSet(c)
    BY <1>2, <1>6, <2>1
  <2> QED BY <2>1, <2>2, <2>3, <2>4
<1>8. Once(c)
  <2> SUFFICES ASSUME NEW i \in DOMAIN c, NEW j \in DOMAIN c, c[i].cand = c[j].cand PROVE i = j
    BY DEF Once
  <2>0. i \in Int /\ j \in Int /\ Len(a) \in Int
    BY <1>2, <1>4
  <2>1. CASE i <= Len(a) /\ j <= Len(a)
    <3>1. i \in DOMAIN a /\ c[i] = a[i] /\ j \in DOMAIN a /\ c[j] = a[j]
      BY <1>5, <2>0, <2>1
    <3> QED BY <1>1, <3>1 DEF Once
  <2>2. CASE i <= Len(a) /\ j > Len(a)
    <3>1. i \in DOMAIN a /\ c[i] = a[i] /\ j - Len(a) \in DOMAIN b /\ c[j] = b[j - Len(a)]
      BY <1>5, <2>0, <2>2
    <3>2. c[i] \in ToSet(a) /\ c[j] \in ToSet(b)
      BY <1>2, <3>1
    <3> QED BY <3>2
  <2>3. CASE i > Len(a) /\ j <= Len(a)
    <3>1. i - Len(a) \in DOMAIN b /\ c[i] = b[i - Len(a)] /\ j \in DOMAIN a /\ c[j] = a[j]
      BY <1>5, <2>0, <2>3
    <3>2. c[i] \in ToSet(b) /\ c[j] \in ToSet(a)
      BY <1>2, <3>1
    <3> QED BY <3>2
  <2>4. CASE i > Len(a) /\ j > Len(a)
    <3>1. /\ i - Len(a) \in DOMAIN b /\ c[i] = b[i - Len(a)]
          /\ j - Len(a) \in DOMAIN b /\ c[j] = b[j - Len(a)]
      BY <1>5, <2>0, <2>4
    <3>2. i - Len(a) = j - Len(a)
      BY <1>1, <3>1 DEF Once
    <3> QED BY <2>0, <3>2
  <2> QED BY <2>0, <2>1, <2>2, <2>3, <2>4
<1> QED BY <1>3, <1>7, <1>8 DEF Sound, c, T

\* A second score changes two terms, neither of them the cooldown.
LEMMA RescoredIs ==
  ASSUME NEW x \in Scoreds(Candidates), NEW over, NEW ctx
  PROVE  /\ Rescored(x, over, ctx) \in Scoreds(Candidates)
         /\ Rescored(x, over, ctx).cand = x.cand
         /\ Rescored(x, over, ctx).terms.cooldown = x.terms.cooldown
<1> DEFINE hurt == -5 * Cardinality(Filled(x.cand.slots) \cap over)
           again == IF FullSignature(x.cand.slots) \in ToSet(ctx.shown) THEN -10 ELSE 0
<1>1. x.cand \in Candidates /\ x.terms \in Terms /\ x = [cand |-> x.cand, terms |-> x.terms]
  BY DEF Scoreds
<1>2. hurt \in Int
  <2>1. IsFiniteSet(Filled(x.cand.slots))
    BY <1>1, FilledIs DEF Candidates
  <2>2. Cardinality(Filled(x.cand.slots) \cap over) \in Nat
    BY <2>1, FS_Intersection, FS_CardinalityType
  <2> QED BY <2>2
<1>3. again \in Int
  OBVIOUS
<1>4. Rescored(x, over, ctx) = [x EXCEPT !.terms.overuse = hurt, !.terms.repetition = again]
  BY DEF Rescored
<1> HIDE DEF hurt, again
<1> DEFINE rescored == [x.terms EXCEPT !.overuse = hurt, !.repetition = again]
<1>5. Rescored(x, over, ctx) = [cand |-> x.cand, terms |-> rescored]
  BY <1>1, <1>4
<1>6. rescored \in Terms /\ rescored.cooldown = x.terms.cooldown
  BY <1>1, <1>2, <1>3 DEF Terms
<1> HIDE DEF rescored
<1>7. Rescored(x, over, ctx).cand = x.cand /\ Rescored(x, over, ctx).terms = rescored
  BY <1>5
<1>8. Rescored(x, over, ctx) \in Scoreds(Candidates)
  BY <1>1, <1>5, <1>6 DEF Scoreds
<1> QED BY <1>6, <1>7, <1>8

\* Taking the overuse penalties off keeps a list sound.
LEMMA WithoutOveruseIs ==
  ASSUME NEW cands, NEW ctx, Rankable(cands, ctx), NEW list, Sound(list, cands, ctx)
  PROVE  /\ Sound(WithoutOveruse(list), cands, ctx)
         /\ \A y \in ToSet(WithoutOveruse(list)) : \E x \in ToSet(list) : y.cand = x.cand
         /\ Reservable(list, ctx) => Reservable(WithoutOveruse(list), ctx)
<1> DEFINE M == WithoutOveruse(list)
<1>1. M = [i \in DOMAIN list |-> [list[i] EXCEPT !.terms.overuse = 0]]
  BY DEF WithoutOveruse
<1>2. \A i \in DOMAIN list : list[i] \in Scoreds(Candidates)
  BY SoundMeans, ListIs
<1>3. \A i \in DOMAIN list : M[i] = [list[i] EXCEPT !.terms.overuse = 0]
  BY <1>1
<1>4. \A x \in Scoreds(Candidates) :
        LET y == [x EXCEPT !.terms.overuse = 0]
        IN  y \in Scoreds(Candidates) /\ y.cand = x.cand /\ y.terms.cooldown = x.terms.cooldown
  <2> TAKE x \in Scoreds(Candidates)
  <2>1. x.cand \in Candidates /\ x.terms \in Terms /\ x = [cand |-> x.cand, terms |-> x.terms]
    BY DEF Scoreds
  <2>2. [x EXCEPT !.terms.overuse = 0] = [cand |-> x.cand, terms |-> [x.terms EXCEPT !.overuse = 0]]
    BY <2>1
  <2>3. [x.terms EXCEPT !.overuse = 0] \in Terms /\ [x.terms EXCEPT !.overuse = 0].cooldown = x.terms.cooldown
    BY <2>1 DEF Terms
  <2> QED BY <2>1, <2>2, <2>3 DEF Scoreds
<1> HIDE DEF M
<1>5. \A i \in DOMAIN list : /\ M[i] \in Scoreds(Candidates) /\ M[i].cand = list[i].cand
                             /\ M[i].terms.cooldown = list[i].terms.cooldown
  BY <1>2, <1>3, <1>4
<1>6. M = [i \in DOMAIN list |-> M[i]]
  BY <1>1
<1>7. /\ Sound(M, cands, ctx)
      /\ \A y \in ToSet(M) : \E x \in ToSet(list) : y.cand = x.cand
      /\ Reservable(list, ctx) => Reservable(M, ctx)
  BY <1>5, <1>6, MappedSound
<1> QED BY <1>7 DEF M

\* So does scoring every outfit of it again.
LEMMA RescoredAllIs ==
  ASSUME NEW cands, NEW ctx, Rankable(cands, ctx), NEW list, Sound(list, cands, ctx), NEW over
  PROVE  LET M == [i \in DOMAIN list |-> Rescored(list[i], over, ctx)]
         IN  /\ Sound(M, cands, ctx)
             /\ \A y \in ToSet(M) : \E x \in ToSet(list) : y.cand = x.cand
             /\ Reservable(list, ctx) => Reservable(M, ctx)
<1> DEFINE M == [i \in DOMAIN list |-> Rescored(list[i], over, ctx)]
<1>1. \A i \in DOMAIN list : list[i] \in Scoreds(Candidates)
  BY SoundMeans, ListIs
<1>2. \A i \in DOMAIN list : M[i] = Rescored(list[i], over, ctx)
  OBVIOUS
<1>3. M = [i \in DOMAIN list |-> M[i]]
  OBVIOUS
<1> HIDE DEF M
<1>4. \A i \in DOMAIN list : /\ M[i] \in Scoreds(Candidates) /\ M[i].cand = list[i].cand
                             /\ M[i].terms.cooldown = list[i].terms.cooldown
  BY <1>1, <1>2, RescoredIs
<1>5. /\ Sound(M, cands, ctx)
      /\ \A y \in ToSet(M) : \E x \in ToSet(list) : y.cand = x.cand
      /\ Reservable(list, ctx) => Reservable(M, ctx)
  BY <1>3, <1>4, MappedSound
<1> QED BY <1>5 DEF M
-----------------------------------------------------------------------------
(* The variant cap, the cooldown reserve and the fallback ladder.          *)

\* The best practical outfit of a list, and no other, is preferred.
LEMMA PreferredIs ==
  ASSUME NEW cands, NEW ctx, Rankable(cands, ctx), NEW list, Sound(list, cands, ctx),
         Reservable(list, ctx)
  PROVE  \E b \in ToSet(list) : Preferred(list, ctx) = {b} /\ Reserved(b, ctx)
<1> DEFINE S == {x \in ToSet(list) : Reserved(x, ctx)}
           b == Sorted(S, Better)[1]
<1>1. /\ ToSet(list) \in SUBSET Scoreds(Candidates) /\ IsFiniteSet(ToSet(list))
      /\ \A x, y \in ToSet(list) : x.cand.slots = y.cand.slots => x = y
  BY SoundMeans
<1>2. S \in SUBSET Scoreds(Candidates) /\ IsFiniteSet(S) /\ S # {}
  BY <1>1, FS_Subset DEF Reservable
<1>3. \A x, y \in S : x.cand.slots = y.cand.slots => x = y
  BY <1>1
<1>4. \A x : x \in S <=> x \in ToSet(list) /\ Reserved(x, ctx)
  OBVIOUS
<1>5. \A x : x \in Preferred(list, ctx)
               <=> /\ x \in ToSet(list) /\ Reserved(x, ctx)
                   /\ \A y \in ToSet(list) : Reserved(y, ctx) /\ y # x => Better(x, y)
  BY DEF Preferred
<1> HIDE DEF S
<1>6. b \in S /\ \A y \in S : y # b => Better(b, y)
  BY <1>2, <1>3, BestIs
<1>7. \A x, y \in S : Better(x, y) => ~Better(y, x)
  <2>1. /\ \A x \in S : ~Better(x, x)
        /\ \A x, y, z \in S : Better(x, y) /\ Better(y, z) => Better(x, z)
    BY <1>2, <1>3, BetterOrders
  <2> QED BY <2>1
<1> HIDE DEF b
<1>8. b \in Preferred(list, ctx)
  BY <1>4, <1>5, <1>6
<1>9. \A x \in Preferred(list, ctx) : x = b
  BY <1>4, <1>5, <1>6, <1>7
<1>10. Preferred(list, ctx) = {b}
  BY <1>8, <1>9
<1> QED BY <1>4, <1>6, <1>10

\* The variant cap leaves outfits out, but spares a practical one.
LEMMA CappedIs ==
  ASSUME NEW cands, NEW ctx, Rankable(cands, ctx), NEW list, Sound(list, cands, ctx)
  PROVE  /\ Sound(VariantCapped(list, ctx), cands, ctx)
         /\ \A x \in ToSet(VariantCapped(list, ctx)) : x \in ToSet(list)
         /\ Reservable(list, ctx) => Reservable(VariantCapped(list, ctx), ctx)
<1> DEFINE kept(x) == LET group == ReserveChoice(VariantGroup(list, x), VariantCap, Preferred(list, ctx))
                      IN  \E i \in DOMAIN group : i <= VariantCap /\ group[i] = x
           P == {i \in DOMAIN list : kept(list[i])}
<1>1. VariantCapped(list, ctx) = At(list, P)
  BY DEF VariantCapped, Where
<1>2. P \in SUBSET (DOMAIN list) /\ \A i : i \in P <=> i \in DOMAIN list /\ kept(list[i])
  OBVIOUS
<1>3. \A x : x \in ToSet(list) <=> \E i \in DOMAIN list : list[i] = x
  BY DEF ToSet
<1> HIDE DEF P
<1>4. /\ Sound(At(list, P), cands, ctx)
      /\ \A x : x \in ToSet(At(list, P)) <=> \E i \in P : list[i] = x
  BY <1>2, PartSound
<1>5. \A x : x \in ToSet(At(list, P)) <=> x \in ToSet(list) /\ kept(x)
  <2> HIDE DEF kept
  <2> QED BY <1>2, <1>3, <1>4
<1>6. ASSUME Reservable(list, ctx) PROVE Reservable(VariantCapped(list, ctx), ctx)
  <2>1. PICK b \in ToSet(list) : Preferred(list, ctx) = {b} /\ Reserved(b, ctx)
    BY <1>6, PreferredIs
  <2> DEFINE G == {y \in ToSet(list) : BaseKey(y.cand.slots) = BaseKey(b.cand.slots)}
             ordered == VariantGroup(list, b)
             group == ReserveChoice(ordered, VariantCap, Preferred(list, ctx))
  <2>2. /\ ToSet(list) \in SUBSET Scoreds(Candidates) /\ IsFiniteSet(ToSet(list))
        /\ \A x, y \in ToSet(list) : x.cand.slots = y.cand.slots => x = y
    BY SoundMeans
  <2>3. G \in SUBSET Scoreds(Candidates) /\ IsFiniteSet(G) /\ b \in G /\ G # {}
    BY <2>2, FS_Subset
  <2>4. \A x, y \in G : x.cand.slots = y.cand.slots => x = y
    BY <2>2
  <2>5. ordered = Sorted(G, Better)
    BY DEF VariantGroup
  <2> HIDE DEF G
  <2>6. ordered \in Seq(G) /\ ToSet(ordered) = G
    BY <2>3, <2>4, <2>5, BestIs
  <2> HIDE DEF ordered
  <2>7. VariantCap \in Nat \ {0}
    BY RankerAssumption
  <2>8. /\ group \in Seq(G) /\ Len(group) = Len(ordered)
        /\ ToSet(ordered) \cap Preferred(list, ctx) # {}
             => \E i \in 1..Len(ordered) : i <= VariantCap /\ group[i] \in Preferred(list, ctx)
    BY <2>6, <2>7, ReserveChoiceIs
  <2>9. b \in ToSet(ordered) \cap Preferred(list, ctx)
    BY <2>1, <2>3, <2>6
  <2>10. PICK i \in 1..Len(ordered) : i <= VariantCap /\ group[i] \in Preferred(list, ctx)
    BY <2>8, <2>9
  <2>11. i \in DOMAIN group /\ group[i] = b
    BY <2>1, <2>8, <2>10, LenProperties
  <2>12. kept(b)
    BY <2>10, <2>11 DEF ordered
  <2> HIDE DEF kept
  <2>13. b \in ToSet(VariantCapped(list, ctx))
    BY <1>1, <1>5, <2>12
  <2> QED BY <2>1, <2>13 DEF Reservable
<1> HIDE DEF kept
<1> QED BY <1>1, <1>4, <1>5, <1>6

\* The diversity steps drop outfits and never the reserved one.
LEMMA DiversifiedIs ==
  ASSUME NEW cands, NEW ctx, Rankable(cands, ctx), NEW list, Sound(list, cands, ctx)
  PROVE  /\ Sound(Diversified(list, ctx), cands, ctx)
         /\ \A y \in ToSet(Diversified(list, ctx)) : \E x \in ToSet(list) : y.cand = x.cand
         /\ Reservable(list, ctx) => Reservable(Diversified(list, ctx), ctx)
<1> DEFINE V == VariantCapped(list, ctx)
           over == Overused(V)
           M == [i \in DOMAIN V |-> Rescored(V[i], over, ctx)]
<1>1. Diversified(list, ctx) = M
  BY DEF Diversified
<1>2. /\ Sound(V, cands, ctx) /\ \A x \in ToSet(V) : x \in ToSet(list)
      /\ Reservable(list, ctx) => Reservable(V, ctx)
  BY CappedIs
<1> HIDE DEF V, over
<1>3. /\ Sound(M, cands, ctx)
      /\ \A y \in ToSet(M) : \E x \in ToSet(V) : y.cand = x.cand
      /\ Reservable(V, ctx) => Reservable(M, ctx)
  BY <1>2, RescoredAllIs
<1> HIDE DEF M
<1> QED BY <1>1, <1>2, <1>3

\* The two parts of the candidates, scored.
LEMMA PartsAre ==
  ASSUME NEW cands, NEW ctx, Rankable(cands, ctx)
  PROVE  LET A == ScoredAll(Survivors(cands, ctx), ctx, FALSE)
             B == ScoredAll(CooldownReserve(cands, ctx), ctx, TRUE)
         IN  /\ Sound(A, cands, ctx) /\ Sound(B, cands, ctx)
             /\ \A x \in ToSet(A) : PassesCooldown(x.cand, ctx)
             /\ \A x \in ToSet(B) : ~PassesCooldown(x.cand, ctx)
             /\ \A c \in ToSet(cands) :
                  Clears(c, ctx) => \/ \E x \in ToSet(A) : x.cand = c
                                    \/ \E x \in ToSet(B) : x.cand = c
<1> DEFINE U == {c \in Candidates : Clears(c, ctx) /\ PassesCooldown(c, ctx)}
           W == {c \in Candidates : Clears(c, ctx) /\ ~PassesCooldown(c, ctx)}
           P == {i \in DOMAIN cands : cands[i] \in U}
           Q == {i \in DOMAIN cands : cands[i] \in W}
           A == ScoredAll(Survivors(cands, ctx), ctx, FALSE)
           B == ScoredAll(CooldownReserve(cands, ctx), ctx, TRUE)
<1>1. /\ cands \in Seq(Candidates) /\ Distinct(cands) /\ \A i \in DOMAIN cands : cands[i] \in Candidates
      /\ ToSet(cands) \subseteq Candidates /\ \A i \in DOMAIN ctx.affinity : ctx.affinity[i] \in Int
  BY ListIs DEF Rankable
<1>2. Survivors(cands, ctx) = At(cands, P)
  <2>1. Survivors(cands, ctx) = At(cands, {i \in DOMAIN cands : Clears(cands[i], ctx) /\ PassesCooldown(cands[i], ctx)})
    BY DEF Survivors, Where
  <2>2. {i \in DOMAIN cands : Clears(cands[i], ctx) /\ PassesCooldown(cands[i], ctx)} = P
    BY <1>1
  <2> QED BY <2>1, <2>2
<1>3. CooldownReserve(cands, ctx) = At(cands, Q)
  <2>1. CooldownReserve(cands, ctx) = At(cands, {i \in DOMAIN cands : Clears(cands[i], ctx) /\ ~PassesCooldown(cands[i], ctx)})
    BY DEF CooldownReserve, Where
  <2>2. {i \in DOMAIN cands : Clears(cands[i], ctx) /\ ~PassesCooldown(cands[i], ctx)} = Q
    BY <1>1
  <2> QED BY <2>1, <2>2
<1>4. /\ \A c \in ToSet(cands) : c \in U <=> Clears(c, ctx) /\ PassesCooldown(c, ctx)
      /\ \A c \in ToSet(cands) : c \in W <=> Clears(c, ctx) /\ ~PassesCooldown(c, ctx)
  BY <1>1
<1>0. P = {i \in DOMAIN cands : cands[i] \in U} /\ Q = {i \in DOMAIN cands : cands[i] \in W}
  OBVIOUS
<1> HIDE DEF U, W, P, Q
<1>5. /\ At(cands, P) \in Seq(Candidates) /\ ToSet(At(cands, P)) = ToSet(cands) \cap U /\ Distinct(At(cands, P))
  BY <1>1, <1>0, KeepIs
<1>6. /\ At(cands, Q) \in Seq(Candidates) /\ ToSet(At(cands, Q)) = ToSet(cands) \cap W /\ Distinct(At(cands, Q))
  BY <1>1, <1>0, KeepIs
<1>7. ASSUME NEW list \in Seq(Candidates), Distinct(list), ToSet(list) \subseteq ToSet(cands), NEW relaxed \in BOOLEAN,
             \A c \in ToSet(list) : Clears(c, ctx) /\ (PassesCooldown(c, ctx) <=> ~relaxed)
      PROVE  /\ Sound(ScoredAll(list, ctx, relaxed), cands, ctx)
             /\ \A x \in ToSet(ScoredAll(list, ctx, relaxed)) : x.cand \in ToSet(list)
             /\ \A c \in ToSet(list) : \E x \in ToSet(ScoredAll(list, ctx, relaxed)) : x.cand = c
  <2> DEFINE L == ScoredAll(list, ctx, relaxed)
  <2>1. /\ L \in Seq(Scoreds(ToSet(list))) /\ ToSet(L) = {Scored(c, ctx, relaxed) : c \in ToSet(list)}
        /\ \A x \in ToSet(L) : x.cand \in ToSet(list) /\ x.terms.cooldown = IF relaxed THEN -20 ELSE 0
        /\ Once(L)
    BY <1>1, <1>7, ScoredAllIs
  <2>2. \A c : Scored(c, ctx, relaxed).cand = c
    BY DEF Scored
  <2> HIDE DEF L
  <2>3. Scoreds(ToSet(list)) \subseteq Scoreds(ToSet(cands))
    BY <1>7 DEF Scoreds
  <2>4. L \in Seq(Scoreds(ToSet(cands)))
    BY <2>1, <2>3, SeqMonotonic
  <2>5. \A x \in ToSet(L) : Clears(x.cand, ctx) /\ x.terms.cooldown = IF PassesCooldown(x.cand, ctx) THEN 0 ELSE -20
    BY <1>7, <2>1
  <2>6. Sound(L, cands, ctx)
    BY <2>1, <2>4, <2>5 DEF Sound
  <2>7. \A c \in ToSet(list) : \E x \in ToSet(L) : x.cand = c
    BY <2>1, <2>2
  <2> QED BY <2>1, <2>6, <2>7 DEF L
<1>8. /\ Sound(A, cands, ctx) /\ \A x \in ToSet(A) : x.cand \in ToSet(cands) \cap U
      /\ \A c \in ToSet(cands) \cap U : \E x \in ToSet(A) : x.cand = c
  <2>1. \A c \in ToSet(At(cands, P)) : Clears(c, ctx) /\ (PassesCooldown(c, ctx) <=> ~FALSE)
    BY <1>4, <1>5
  <2>2. ToSet(At(cands, P)) \subseteq ToSet(cands)
    BY <1>5
  <2> QED BY <1>2, <1>5, <1>7, <2>1, <2>2
<1>9. /\ Sound(B, cands, ctx) /\ \A x \in ToSet(B) : x.cand \in ToSet(cands) \cap W
      /\ \A c \in ToSet(cands) \cap W : \E x \in ToSet(B) : x.cand = c
  <2>1. \A c \in ToSet(At(cands, Q)) : Clears(c, ctx) /\ (PassesCooldown(c, ctx) <=> ~TRUE)
    BY <1>4, <1>6
  <2>2. ToSet(At(cands, Q)) \subseteq ToSet(cands)
    BY <1>6
  <2> QED BY <1>3, <1>6, <1>7, <2>1, <2>2
<1> HIDE DEF A, B
<1>10. \A x \in ToSet(A) : PassesCooldown(x.cand, ctx)
  BY <1>4, <1>8
<1>11. \A x \in ToSet(B) : ~PassesCooldown(x.cand, ctx)
  BY <1>4, <1>9
<1>12. \A c \in ToSet(cands) :
         Clears(c, ctx) => (\E x \in ToSet(A) : x.cand = c) \/ (\E x \in ToSet(B) : x.cand = c)
  BY <1>4, <1>8, <1>9
<1> QED BY <1>8, <1>9, <1>10, <1>11, <1>12 DEF A, B

\* What is taken back from the cooldown: nothing, or the practical outfit
\* that no survivor replaces.
LEMMA BackIs ==
  ASSUME NEW cands, NEW ctx, Rankable(cands, ctx)
  PROVE  LET A == ScoredAll(Survivors(cands, ctx), ctx, FALSE)
             B == ScoredAll(CooldownReserve(cands, ctx), ctx, TRUE)
             back == ReservedFromCooldown(cands, ctx)
         IN  /\ Sound(back, cands, ctx)
             /\ \A x \in ToSet(back) : x \in ToSet(B)
             /\ Reservable(A, ctx) \/ Reservable(B, ctx) => Reservable(A, ctx) \/ Reservable(back, ctx)
             /\ back # <<>> <=> ToSet(back) # {}
<1> DEFINE A == ScoredAll(Survivors(cands, ctx), ctx, FALSE)
           B == ScoredAll(CooldownReserve(cands, ctx), ctx, TRUE)
           back == ReservedFromCooldown(cands, ctx)
           S == {x \in ToSet(B) : Reserved(x, ctx)}
           b == Sorted(S, Better)[1]
<1>1. Sound(A, cands, ctx) /\ Sound(B, cands, ctx)
  BY PartsAre
<1>2. back = IF Reservable(A, ctx) \/ S = {} THEN <<>> ELSE <<b>>
  BY DEF ReservedFromCooldown, Reservable
<1> HIDE DEF A, B, back
<1>3. /\ B \in Seq(Scoreds(Candidates)) /\ ToSet(B) \in SUBSET Scoreds(Candidates) /\ IsFiniteSet(ToSet(B))
      /\ \A x, y \in ToSet(B) : x.cand.slots = y.cand.slots => x = y
  BY <1>1, SoundMeans
<1>4. /\ B \in Seq(Scoreds(ToSet(cands)))
      /\ \A x \in ToSet(B) : /\ Clears(x.cand, ctx)
                             /\ x.terms.cooldown = IF PassesCooldown(x.cand, ctx) THEN 0 ELSE -20
  BY <1>1 DEF Sound
<1>5. ToSet(B) \subseteq Scoreds(ToSet(cands))
  BY <1>4, ListIs
<1>6. \A x : x \in S <=> x \in ToSet(B) /\ Reserved(x, ctx)
  OBVIOUS
<1>7. S \in SUBSET Scoreds(Candidates) /\ IsFiniteSet(S) /\ \A x, y \in S : x.cand.slots = y.cand.slots => x = y
  BY <1>3, FS_Subset
<1> HIDE DEF S
<1>8. S # {} => b \in S
  BY <1>7, BestIs
<1> HIDE DEF b
<1>9. CASE Reservable(A, ctx) \/ S = {}
  <2>1. back = <<>> /\ ToSet(back) = {} /\ <<>> \in Seq(Scoreds(ToSet(cands))) /\ DOMAIN <<>> = {}
    BY <1>2, <1>9, EmptySeq DEF ToSet
  <2>2. Sound(back, cands, ctx)
    BY <2>1 DEF Sound, Once
  <2>3. Reservable(B, ctx) => S # {}
    BY <1>6 DEF Reservable
  <2> QED BY <1>9, <2>1, <2>2, <2>3 DEF A, B, back
<1>10. CASE ~(Reservable(A, ctx) \/ S = {})
  <2>1. back = <<b>> /\ b \in ToSet(B) /\ Reserved(b, ctx)
    BY <1>2, <1>6, <1>8, <1>10
  <2>2. ToSet(back) = {b} /\ DOMAIN back = {1} /\ back[1] = b
    BY <2>1 DEF ToSet
  <2>3. back \in Seq(Scoreds(ToSet(cands))) /\ back # <<>>
    BY <1>5, <2>1
  <2>4. Sound(back, cands, ctx)
    BY <1>4, <2>1, <2>2, <2>3 DEF Sound, Once
  <2>5. Reservable(back, ctx)
    BY <2>1, <2>2 DEF Reservable
  <2> QED BY <2>1, <2>2, <2>3, <2>4, <2>5 DEF A, B, back
<1> QED BY <1>9, <1>10

\* The ladder takes one of four pools, and names the cooldown when it took
\* something back from it.
LEMMA LadderIs ==
  ASSUME NEW k, NEW taken \in BOOLEAN, NEW normal, NEW uncapped, NEW all
  PROVE  LET L == Ladder(k, taken, normal, uncapped, all)
         IN  \/ /\ L.pool \in {normal, WithoutOveruse(normal), uncapped}
                /\ taken => L.stage = "cooldownRelaxed"
             \/ L.pool = all /\ L.stage \in {"cooldownRelaxed", "insufficient"}
<1> DEFINE L == Ladder(k, taken, normal, uncapped, all)
           rung(s) == IF taken THEN "cooldownRelaxed" ELSE s
           a == Len(normal) >= k
           b == Len(WithoutOveruse(normal)) >= k
           c == Len(uncapped) >= k
           d == Len(all) >= k
           pa == [pool |-> normal, stage |-> rung("none")]
           pb == [pool |-> WithoutOveruse(normal), stage |-> rung("overuseRelaxed")]
           pc == [pool |-> uncapped, stage |-> rung("variantCapRelaxed")]
           pd == [pool |-> all, stage |-> "cooldownRelaxed"]
           pe == [pool |-> all, stage |-> "insufficient"]
<1>1. L = CASE a -> pa [] b -> pb [] c -> pc [] d -> pd [] OTHER -> pe
  BY DEF Ladder
<1>2. /\ pa.pool = normal /\ (taken => pa.stage = "cooldownRelaxed")
      /\ pb.pool = WithoutOveruse(normal) /\ (taken => pb.stage = "cooldownRelaxed")
      /\ pc.pool = uncapped /\ (taken => pc.stage = "cooldownRelaxed")
      /\ pd.pool = all /\ pd.stage = "cooldownRelaxed"
      /\ pe.pool = all /\ pe.stage = "insufficient"
  OBVIOUS
<1> HIDE DEF a, b, c, d, pa, pb, pc, pd, pe, L
<1>3. L = pa \/ L = pb \/ L = pc \/ L = pd \/ L = pe
  BY <1>1
<1> QED BY <1>2, <1>3 DEF L

\* The pool that is ordered: wearable outfits, one of a candidate, a
\* practical one among them when the candidates hold any; and one that fails
\* the cooldown only when the stage says so.
LEMMA FallbackIs ==
  ASSUME NEW cands, NEW ctx, Rankable(cands, ctx)
  PROVE  /\ Sound(FallbackPool(cands, ctx).pool, cands, ctx)
         /\ (\E c \in ToSet(cands) : Clears(c, ctx) /\ FullSignature(c.slots) \in ctx.reserved)
              => Reservable(FallbackPool(cands, ctx).pool, ctx)
         /\ (\E x \in ToSet(FallbackPool(cands, ctx).pool) : ~PassesCooldown(x.cand, ctx))
              => FallbackPool(cands, ctx).stage \in {"cooldownRelaxed", "insufficient"}
<1> DEFINE A == ScoredAll(Survivors(cands, ctx), ctx, FALSE)
           B == ScoredAll(CooldownReserve(cands, ctx), ctx, TRUE)
           back == ReservedFromCooldown(cands, ctx)
           step5 == A \o back
           uncapped == [i \in DOMAIN step5 |-> Rescored(step5[i], {}, ctx)]
           Q == {i \in DOMAIN B : B[i] \notin ToSet(back)}
           cooled == At(B, Q)
           relaxed == [i \in DOMAIN cooled |-> Rescored(cooled[i], {}, ctx)]
           all == uncapped \o relaxed
           normal == Diversified(step5, ctx)
           F == FallbackPool(cands, ctx)
<1>1. /\ Sound(A, cands, ctx) /\ Sound(B, cands, ctx)
      /\ \A x \in ToSet(A) : PassesCooldown(x.cand, ctx)
      /\ \A x \in ToSet(B) : ~PassesCooldown(x.cand, ctx)
      /\ \A c \in ToSet(cands) :
           Clears(c, ctx) => (\E x \in ToSet(A) : x.cand = c) \/ (\E x \in ToSet(B) : x.cand = c)
  BY PartsAre
<1>2. /\ Sound(back, cands, ctx) /\ \A x \in ToSet(back) : x \in ToSet(B)
      /\ Reservable(A, ctx) \/ Reservable(B, ctx) => Reservable(A, ctx) \/ Reservable(back, ctx)
      /\ back # <<>> <=> ToSet(back) # {}
  BY BackIs
<1>3. F = Ladder(ctx.k, back # <<>>, normal, uncapped, all)
  BY DEF FallbackPool, FallbackWith, Where
<1> HIDE DEF A, B, back, F
<1>4. /\ Sound(step5, cands, ctx) /\ \A x : x \in ToSet(step5) <=> x \in ToSet(A) \/ x \in ToSet(back)
  <2>1. \A x \in ToSet(A), y \in ToSet(back) : x.cand # y.cand
    BY <1>1, <1>2
  <2> QED BY <1>1, <1>2, <2>1, JoinedSound
<1> HIDE DEF step5
<1>5. /\ Sound(uncapped, cands, ctx) /\ \A y \in ToSet(uncapped) : \E x \in ToSet(step5) : y.cand = x.cand
      /\ Reservable(step5, ctx) => Reservable(uncapped, ctx)
  BY <1>4, RescoredAllIs
<1>6. /\ Sound(normal, cands, ctx) /\ \A y \in ToSet(normal) : \E x \in ToSet(step5) : y.cand = x.cand
      /\ Reservable(step5, ctx) => Reservable(normal, ctx)
  BY <1>4, DiversifiedIs
<1> HIDE DEF uncapped, normal
<1>7. /\ Sound(WithoutOveruse(normal), cands, ctx)
      /\ \A y \in ToSet(WithoutOveruse(normal)) : \E x \in ToSet(step5) : y.cand = x.cand
      /\ Reservable(step5, ctx) => Reservable(WithoutOveruse(normal), ctx)
  <2>1. /\ Sound(WithoutOveruse(normal), cands, ctx)
        /\ \A y \in ToSet(WithoutOveruse(normal)) : \E x \in ToSet(normal) : y.cand = x.cand
        /\ Reservable(normal, ctx) => Reservable(WithoutOveruse(normal), ctx)
    BY <1>6, WithoutOveruseIs
  <2>2. ASSUME NEW y \in ToSet(WithoutOveruse(normal)) PROVE \E x \in ToSet(step5) : y.cand = x.cand
    <3>1. PICK z \in ToSet(normal) : y.cand = z.cand
      BY <2>1
    <3>2. PICK x \in ToSet(step5) : z.cand = x.cand
      BY <1>6
    <3> QED BY <3>1, <3>2
  <2> QED BY <1>6, <2>1, <2>2
<1>8. /\ Sound(cooled, cands, ctx) /\ \A x \in ToSet(cooled) : x \in ToSet(B) /\ x \notin ToSet(back)
  <2>1. Q \in SUBSET (DOMAIN B)
    OBVIOUS
  <2>2. \A i \in Q : B[i] \in ToSet(B) /\ B[i] \notin ToSet(back)
    BY DEF ToSet
  <2> HIDE DEF Q
  <2>3. Sound(At(B, Q), cands, ctx) /\ \A x : x \in ToSet(At(B, Q)) <=> \E i \in Q : B[i] = x
    BY <1>1, <2>1, PartSound
  <2> QED BY <2>2, <2>3
<1> HIDE DEF Q, cooled
<1>9. Sound(relaxed, cands, ctx) /\ \A y \in ToSet(relaxed) : \E x \in ToSet(cooled) : y.cand = x.cand
  BY <1>8, RescoredAllIs
<1> HIDE DEF relaxed
<1>10. \A x \in ToSet(uncapped), y \in ToSet(relaxed) : x.cand # y.cand
  <2> SUFFICES ASSUME NEW x \in ToSet(uncapped), NEW y \in ToSet(relaxed), x.cand = y.cand PROVE FALSE
    OBVIOUS
  <2>1. PICK p \in ToSet(step5) : x.cand = p.cand
    BY <1>5
  <2>2. PICK q \in ToSet(cooled) : y.cand = q.cand
    BY <1>9
  <2>3. q \in ToSet(B) /\ q \notin ToSet(back) /\ p.cand = q.cand /\ ~PassesCooldown(q.cand, ctx)
    BY <1>1, <1>8, <2>1, <2>2
  <2>4. CASE p \in ToSet(A)
    BY <1>1, <2>3, <2>4
  <2>5. CASE p \in ToSet(back)
    <3>1. p \in ToSet(B)
      BY <1>2, <2>5
    <3>2. p = q
      BY <1>1, <2>3, <3>1, SoundMeans
    <3> QED BY <2>3, <2>5, <3>2
  <2> QED BY <1>4, <2>4, <2>5
<1>11. Sound(all, cands, ctx) /\ \A x : x \in ToSet(all) <=> x \in ToSet(uncapped) \/ x \in ToSet(relaxed)
  BY <1>5, <1>9, <1>10, JoinedSound
<1> HIDE DEF all
<1>12. Reservable(step5, ctx) => Reservable(all, ctx)
  BY <1>5, <1>11 DEF Reservable
<1>13. \/ /\ F.pool \in {normal, WithoutOveruse(normal), uncapped}
          /\ back # <<>> => F.stage = "cooldownRelaxed"
       \/ F.pool = all /\ F.stage \in {"cooldownRelaxed", "insufficient"}
  <2> DEFINE taken == back # <<>>
  <2>1. taken \in BOOLEAN /\ F = Ladder(ctx.k, taken, normal, uncapped, all)
    BY <1>3
  <2> HIDE DEF taken
  <2> DEFINE L == Ladder(ctx.k, taken, normal, uncapped, all)
  <2>2. \/ /\ L.pool \in {normal, WithoutOveruse(normal), uncapped}
           /\ taken => L.stage = "cooldownRelaxed"
        \/ L.pool = all /\ L.stage \in {"cooldownRelaxed", "insufficient"}
    BY <2>1, LadderIs
  <2> HIDE DEF L
  <2>3. F = L
    BY <2>1 DEF L
  <2> QED BY <2>2, <2>3 DEF taken
<1>14. Sound(F.pool, cands, ctx) /\ (Reservable(step5, ctx) => Reservable(F.pool, ctx))
  BY <1>5, <1>6, <1>7, <1>11, <1>12, <1>13
<1>15. (\E c \in ToSet(cands) : Clears(c, ctx) /\ FullSignature(c.slots) \in ctx.reserved) => Reservable(step5, ctx)
  <2> SUFFICES ASSUME NEW c \in ToSet(cands), Clears(c, ctx), FullSignature(c.slots) \in ctx.reserved
               PROVE  Reservable(step5, ctx)
    OBVIOUS
  <2>1. Reservable(A, ctx) \/ Reservable(B, ctx)
    BY <1>1 DEF Reservable, Reserved
  <2> QED BY <1>2, <1>4, <2>1 DEF Reservable
<1>16. ASSUME NEW x \in ToSet(F.pool), ~PassesCooldown(x.cand, ctx)
       PROVE  F.stage \in {"cooldownRelaxed", "insufficient"}
  <2>1. CASE F.pool \in {normal, WithoutOveruse(normal), uncapped} /\ (back # <<>> => F.stage = "cooldownRelaxed")
    <3>1. \E p \in ToSet(step5) : x.cand = p.cand
      BY <1>5, <1>6, <1>7, <1>16, <2>1
    <3>2. ToSet(back) # {}
      BY <1>1, <1>4, <1>16, <3>1
    <3> QED BY <1>2, <2>1, <3>2
  <2> QED BY <1>13, <2>1
<1> QED BY <1>14, <1>15, <1>16 DEF F
-----------------------------------------------------------------------------
(* The final order. The list grows by one element at a time; a least       *)
(* length at which it went wrong would contradict its predecessor.         *)

\* A set of numbers that is not empty has a least one.
LEMMA LeastNumber ==
  ASSUME NEW T \in SUBSET Nat, T # {}
  PROVE  \E n \in T : \A m \in T : n <= m
<1> DEFINE R == {p \in Nat \X Nat : p[1] < p[2]}
<1>1. IsWellFoundedOn(R, Nat)
  BY NatLessThanWellFounded DEF OpToRel
<1>2. \A m, n \in Nat : m < n => <<m, n>> \in R
  OBVIOUS
<1> HIDE DEF R
<1>3. PICK n \in T : \A m \in T : ~(<<m, n>> \in R)
  BY <1>1, WFMin
<1>4. \A m \in T : n <= m
  <2> SUFFICES ASSUME NEW m \in T, ~(n <= m) PROVE FALSE
    OBVIOUS
  <2>1. n \in Nat /\ m \in Nat /\ m < n
    OBVIOUS
  <2> QED BY <1>2, <1>3, <2>1
<1> QED BY <1>4

\* A list without repetition is as long as its set is large.
LEMMA DistinctCount ==
  ASSUME NEW T, NEW list \in Seq(T), Distinct(list)
  PROVE  IsFiniteSet(ToSet(list)) /\ Cardinality(ToSet(list)) = Len(list)
<1> DEFINE c == Len(list)
<1>1. c \in Nat /\ DOMAIN list = 1..c /\ list \in [1..c -> ToSet(list)] /\ \A x \in ToSet(list) : \E i \in 1..c : list[i] = x
  <2>1. /\ c \in Nat /\ DOMAIN list = 1..c /\ list \in Seq(ToSet(list))
        /\ \A x : x \in ToSet(list) <=> \E i \in DOMAIN list : list[i] = x
    BY ListIs
  <2>2. list \in [1..c -> ToSet(list)]
    BY <2>1, LenProperties
  <2> QED BY <2>1, <2>2
<1>2. list \in Bijection(1..c, ToSet(list))
  BY <1>1 DEF Bijection, Injection, Surjection, IsInjective, Distinct
<1>3. /\ IsFiniteSet(1..c)
      /\ Cardinality(1..c) = IF 1 > c THEN 0 ELSE c - 1 + 1
  <2>1. c \in Int /\ 1 \in Int
    BY <1>1
  <2> HIDE DEF c
  <2> QED BY <2>1, FS_Interval
<1> HIDE DEF c
<1>4. Cardinality(1..c) = c
  BY <1>1, <1>3
<1>5. IsFiniteSet(ToSet(list)) /\ Cardinality(ToSet(list)) = Cardinality(1..c)
  BY <1>2, <1>3, FS_Bijection DEF ExistsBijection
<1> QED BY <1>4, <1>5 DEF c

\* What goes first is decided between any two outfits of different slots.
LEMMA GoesFirstOrders ==
  ASSUME NEW ctx, NEW T, NEW done \in Seq(T), NEW S \in SUBSET Scoreds(Candidates),
         \A x, y \in S : x.cand.slots = y.cand.slots => x = y,
         \A x \in S : ctx.draw[FullSignature(x.cand.slots)] \in Int
  PROVE  Orders({p \in S \X S : GoesFirst(p[1], p[2], done, ctx)}, S)
<1> DEFINE e(z) == Cardinality({i \in DOMAIN done : BaseKey(done[i].cand.slots) = BaseKey(z.cand.slots)})
           d(z) == ctx.draw[FullSignature(z.cand.slots)]
           s(z) == Score(z.terms)
           R == {p \in S \X S : GoesFirst(p[1], p[2], done, ctx)}
<1>1. \A x \in S : s(x) \in Int /\ e(x) \in Int /\ d(x) \in Int /\ x.cand.slots \in SlotMaps(Ids)
  <2> TAKE x \in S
  <2>1. x.terms \in Terms /\ x.cand \in Candidates
    BY DEF Scoreds
  <2>2. s(x) \in Int
    BY <2>1, ScoreIs
  <2>3. e(x) \in Int
    <3> DEFINE W == {i \in DOMAIN done : BaseKey(done[i].cand.slots) = BaseKey(x.cand.slots)}
    <3>1. Len(done) \in Nat /\ W \in SUBSET Nat /\ \A i \in W : i <= Len(done)
      BY LenProperties
    <3> HIDE DEF W
    <3>2. Cardinality(W) \in Nat
      BY <3>1, FS_BoundedSetOfNaturals, FS_CardinalityType
    <3> QED BY <3>2 DEF W
  <2>4. x.cand.slots \in SlotMaps(Ids)
    BY <2>1 DEF Candidates
  <2> QED BY <2>2, <2>3, <2>4
<1>2. \A x, y \in S : GoesFirst(x, y, done, ctx)
        <=> \/ s(x) > s(y)
            \/ s(x) = s(y) /\ (\/ e(x) < e(y)
                               \/ e(x) = e(y) /\ d(x) < d(y)
                               \/ e(x) = e(y) /\ d(x) = d(y) /\ Before(x.cand.slots, y.cand.slots))
  BY DEF GoesFirst
<1>3. \A x, y \in S : <<x, y>> \in R <=> GoesFirst(x, y, done, ctx)
  OBVIOUS
<1> HIDE DEF e, d, s, R
<1>4. ASSUME NEW x \in S PROVE <<x, x>> \notin R
  BY <1>1, <1>2, <1>3, BeforeOrders
<1>5. ASSUME NEW x \in S, NEW y \in S, NEW z \in S, <<x, y>> \in R, <<y, z>> \in R PROVE <<x, z>> \in R
  <2>1. Before(x.cand.slots, y.cand.slots) /\ Before(y.cand.slots, z.cand.slots) => Before(x.cand.slots, z.cand.slots)
    BY <1>1, BeforeOrders
  <2>2. /\ s(x) \in Int /\ e(x) \in Int /\ d(x) \in Int
        /\ s(y) \in Int /\ e(y) \in Int /\ d(y) \in Int
        /\ s(z) \in Int /\ e(z) \in Int /\ d(z) \in Int
    BY <1>1
  <2>3. GoesFirst(x, y, done, ctx) /\ GoesFirst(y, z, done, ctx)
    BY <1>3, <1>5
  <2>4. GoesFirst(x, z, done, ctx)
    BY <1>2, <2>1, <2>2, <2>3
  <2> QED BY <1>3, <2>4
<1>6. ASSUME NEW x \in S, NEW y \in S, x # y PROVE <<x, y>> \in R \/ <<y, x>> \in R
  <2>1. Before(x.cand.slots, y.cand.slots) \/ Before(y.cand.slots, x.cand.slots)
    BY <1>1, <1>6, BeforeOrders
  <2>2. /\ s(x) \in Int /\ e(x) \in Int /\ d(x) \in Int
        /\ s(y) \in Int /\ e(y) \in Int /\ d(y) \in Int
    BY <1>1
  <2>3. GoesFirst(x, y, done, ctx) \/ GoesFirst(y, x, done, ctx)
    BY <1>2, <2>1, <2>2
  <2> QED BY <1>3, <2>3
<1>7. Orders(R, S)
  BY <1>4, <1>5, <1>6 DEF Orders
<1> QED BY <1>7 DEF R

\* While outfits are left, one of them is next.
LEMMA NextOutIs ==
  ASSUME NEW cands, NEW ctx, Rankable(cands, ctx), NEW list, Sound(list, cands, ctx),
         NEW done \in Seq(ToSet(list)), ToSet(list) \ ToSet(done) # {}
  PROVE  NextOut(list, done, ctx) \in ToSet(list) \ ToSet(done)
<1> DEFINE S == ToSet(list) \ ToSet(done)
           R == {p \in S \X S : GoesFirst(p[1], p[2], done, ctx)}
<1>1. /\ ToSet(list) \in SUBSET Scoreds(Candidates) /\ IsFiniteSet(ToSet(list))
      /\ \A x \in ToSet(list) : x.cand \in ToSet(cands)
      /\ \A x, y \in ToSet(list) : x.cand.slots = y.cand.slots => x = y
  BY SoundMeans
<1>2. \A x \in ToSet(list) : ctx.draw[FullSignature(x.cand.slots)] \in Int
  BY <1>1 DEF Rankable
<1>3. S \in SUBSET Scoreds(Candidates) /\ IsFiniteSet(S) /\ S # {}
  BY <1>1, FS_Subset
<1>4. \A x, y \in S : x.cand.slots = y.cand.slots => x = y
  BY <1>1
<1>5. \A x \in S : ctx.draw[FullSignature(x.cand.slots)] \in Int
  BY <1>2
<1>6. \A x : x \in S <=> x \in ToSet(list) /\ x \notin ToSet(done)
  OBVIOUS
<1> HIDE DEF S
<1>7. Orders(R, S)
  BY <1>3, <1>4, <1>5, GoesFirstOrders
<1>8. \A x, y \in S : <<x, y>> \in R <=> GoesFirst(x, y, done, ctx)
  OBVIOUS
<1> HIDE DEF R
<1>9. PICK x \in S : Cardinality(Below(x, R, S)) = 0
  <2>1. 0 \in 0..(Cardinality(S) - 1)
    <3>1. Cardinality(S) \in Nat /\ Cardinality(S) # 0
      BY <1>3, FS_CardinalityType, FS_EmptySet
    <3> QED BY <3>1
  <2> QED BY <1>3, <1>7, <2>1, OrderRanks
<1>10. Below(x, R, S) = {}
  <2>1. IsFiniteSet(Below(x, R, S))
    BY <1>3, FS_Subset DEF Below
  <2> QED BY <1>9, <2>1, FS_EmptySet
<1>11. \A y \in S : y # x => GoesFirst(x, y, done, ctx)
  BY <1>7, <1>8, <1>10 DEF Orders, Below
<1>12. \E z \in ToSet(list) \ ToSet(done) :
         \A y \in ToSet(list) \ (ToSet(done) \cup {z}) : GoesFirst(z, y, done, ctx)
  <2>1. x \in ToSet(list) \ ToSet(done)
    BY <1>6
  <2>2. \A y \in ToSet(list) \ (ToSet(done) \cup {x}) : GoesFirst(x, y, done, ctx)
    BY <1>6, <1>11
  <2> QED BY <2>1, <2>2
<1> QED BY <1>12 DEF NextOut

Grows(f, list, ctx, k) ==
  f = [n \in 0..k |-> IF n = 0 THEN <<>> ELSE Append(f[n - 1], NextOut(list, f[n - 1], ctx))]

\* The recursive list of the final order is there, for every length.
LEMMA EmittedExists ==
  ASSUME NEW list, NEW ctx
  PROVE  \A k \in Nat : \E f : Grows(f, list, ctx, k)
<1> USE DEF Grows
<1> DEFINE D(f, k) == Grows(f, list, ctx, k)
           T == {k \in Nat : ~ \E f : D(f, k)}
<1>1. SUFFICES ASSUME T # {} PROVE FALSE
  OBVIOUS
<1>2. PICK k \in T : \A m \in T : k <= m
  <2>1. T \in SUBSET Nat /\ T # {}
    BY <1>1
  <2> HIDE DEF T
  <2> QED BY <2>1, LeastNumber
<1>3. CASE k = 0
  <2> DEFINE f == [n \in 0..0 |-> <<>>]
  <2>1. D(f, 0)
    OBVIOUS
  <2> QED BY <1>3, <2>1
<1>4. CASE k # 0
  <2>0. k \in Nat /\ k - 1 \in Nat
    BY <1>2, <1>4
  <2>1. k - 1 \in Nat /\ ~(k - 1 \in T)
    <3> HIDE DEF T
    <3> QED BY <1>2, <2>0
  <2>2. PICK g : D(g, k - 1)
    BY <2>1
  <2> DEFINE more(h) == Append(h, NextOut(list, h, ctx))
             f == [n \in 0..k |-> IF n = k THEN more(g[n - 1]) ELSE g[n]]
  <2>3. \A n \in 0..(k - 1) : g[n] = IF n = 0 THEN <<>> ELSE more(g[n - 1])
    BY <2>2
  <2> HIDE DEF more
  <2>4. \A n \in 0..k : f[n] = IF n = 0 THEN <<>> ELSE more(f[n - 1])
    <3> TAKE n \in 0..k
    <3>1. CASE n = k
      BY <1>4, <2>1, <3>1
    <3>2. CASE n # k
      BY <1>4, <2>1, <2>3, <3>2
    <3> QED BY <3>1, <3>2
  <2>5. f = [n \in 0..k |-> f[n]]
    OBVIOUS
  <2> HIDE DEF f
  <2>6. f = [n \in 0..k |-> IF n = 0 THEN <<>> ELSE more(f[n - 1])]
    BY <2>4, <2>5
  <2>7. D(f, k)
    BY <2>6 DEF more
  <2> QED BY <2>7
<1> QED BY <1>3, <1>4

\* The final order holds each outfit of the pool once.
LEMMA EmittedIs ==
  ASSUME NEW cands, NEW ctx, Rankable(cands, ctx), NEW list, Sound(list, cands, ctx)
  PROVE  /\ Emitted(list, ctx) \in Seq(ToSet(list)) /\ Distinct(Emitted(list, ctx))
         /\ Len(Emitted(list, ctx)) = Len(list) /\ ToSet(Emitted(list, ctx)) = ToSet(list)
<1> DEFINE S == ToSet(list)
           c == Len(list)
           order == CHOOSE f : Grows(f, list, ctx, c)
           Fine(n) == order[n] \in Seq(S) /\ Len(order[n]) = n /\ Distinct(order[n])
           T == {n \in Nat : n <= c /\ ~Fine(n)}
<1>1. c \in Nat /\ IsFiniteSet(S) /\ Cardinality(S) = c
  BY SoundMeans, DistinctCount, LenProperties
<1>2. Emitted(list, ctx) = order[c]
  BY DEF Emitted, Grows
<1>3. Grows(order, list, ctx, c)
  <2>1. \E f : Grows(f, list, ctx, c)
    <3>1. c \in Nat
      BY <1>1
    <3> HIDE DEF c
    <3> QED BY <3>1, EmittedExists
  <2> QED BY <2>1
<1> HIDE DEF order
<1>4. /\ order[0] = <<>>
      /\ \A n \in 1..c : order[n] = Append(order[n - 1], NextOut(list, order[n - 1], ctx))
  <2> DEFINE more(h) == Append(h, NextOut(list, h, ctx))
  <2>1. order = [n \in 0..c |-> IF n = 0 THEN <<>> ELSE more(order[n - 1])]
    BY <1>3 DEF Grows
  <2> HIDE DEF more
  <2> DEFINE r(n) == IF n = 0 THEN <<>> ELSE more(order[n - 1])
  <2>2. order = [n \in 0..c |-> r(n)]
    BY <2>1
  <2> HIDE DEF r
  <2>3. \A n \in 0..c : order[n] = r(n)
    BY <2>2
  <2>4. order[0] = r(0) /\ \A n \in 1..c : order[n] = r(n) /\ n # 0
    BY <1>1, <2>3
  <2> QED BY <2>4 DEF r, more
<1>5. ASSUME NEW n \in 1..c, Fine(n - 1) PROVE Fine(n)
  <2> DEFINE done == order[n - 1]
             x == NextOut(list, done, ctx)
             L == Append(done, x)
  <2>1. done \in Seq(S) /\ Len(done) = n - 1 /\ Distinct(done) /\ DOMAIN done = 1..(n - 1)
    BY <1>5, LenProperties
  <2>2. order[n] = L
    BY <1>4
  <2> HIDE DEF done
  <2>3. ToSet(done) \subseteq S /\ Cardinality(ToSet(done)) = n - 1
    BY <2>1, DistinctCount, ListIs
  <2>4. S \ ToSet(done) # {}
    <3>1. n - 1 # c
      BY <1>1
    <3>2. ToSet(done) # S
      BY <1>1, <2>3, <3>1
    <3> QED BY <2>3, <3>2
  <2>5. x \in S \ ToSet(done)
    BY <2>1, <2>4, NextOutIs
  <2> HIDE DEF x, S
  <2>6. L \in Seq(S) /\ Len(L) = n
    BY <2>1, <2>5
  <2>7. \A i \in 1..n : L[i] = IF i = n THEN x ELSE done[i]
    BY <2>1, <2>5
  <2>8. \A i \in 1..(n - 1) : done[i] # x
    BY <2>1, <2>5 DEF ToSet
  <2> HIDE DEF L
  <2>9. DOMAIN L = 1..n
    BY <2>6, LenProperties
  <2>10. \A i, j \in 1..(n - 1) : done[i] = done[j] => i = j
    BY <2>1 DEF Distinct
  <2>11. Distinct(L)
    <3> SUFFICES ASSUME NEW i \in 1..n, NEW j \in 1..n, L[i] = L[j] PROVE i = j
      BY <2>9 DEF Distinct
    <3>1. CASE i = n /\ j = n
      BY <3>1
    <3>2. CASE i = n /\ j # n
      BY <2>7, <2>8, <3>2
    <3>3. CASE i # n /\ j = n
      BY <2>7, <2>8, <3>3
    <3>4. CASE i # n /\ j # n
      <4>1. i \in 1..(n - 1) /\ j \in 1..(n - 1)
        BY <3>4
      <4> QED BY <2>7, <2>10, <3>4, <4>1
    <3> QED BY <3>1, <3>2, <3>3, <3>4
  <2> QED BY <2>2, <2>6, <2>11
<1>6. Fine(0)
  <2>1. <<>> \in Seq(S) /\ Len(<<>>) = 0 /\ DOMAIN <<>> = {}
    BY EmptySeq
  <2>2. Distinct(<<>>)
    BY <2>1 DEF Distinct
  <2> QED BY <1>4, <2>1, <2>2
<1> HIDE DEF Fine
<1>7. T = {}
  <2> SUFFICES ASSUME T # {} PROVE FALSE
    OBVIOUS
  <2>1. PICK n \in T : \A m \in T : n <= m
    <3>1. T \in SUBSET Nat
      OBVIOUS
    <3> HIDE DEF T
    <3> QED BY <3>1, LeastNumber
  <2>2. n # 0 /\ n \in 1..c
    BY <1>1, <1>6, <2>1
  <2>3. n - 1 \notin T /\ n - 1 \in Nat /\ n - 1 <= c
    BY <1>1, <2>1, <2>2
  <2>4. Fine(n - 1)
    BY <2>3
  <2> QED BY <1>5, <2>1, <2>2, <2>4
<1>8. Fine(c)
  BY <1>1, <1>7
<1>9. order[c] \in Seq(S) /\ Len(order[c]) = c /\ Distinct(order[c])
  BY <1>8 DEF Fine
<1>10. ToSet(order[c]) = S
  <2>1. ToSet(order[c]) \subseteq S /\ Cardinality(ToSet(order[c])) = c
    BY <1>9, DistinctCount, ListIs
  <2> QED BY <1>1, <2>1, FS_Subset
<1> QED BY <1>2, <1>9, <1>10

\* What the funnel is: the pool in some order, with a practical outfit among
\* its first k when the pool has one.
LEMMA FinalOrderIs ==
  ASSUME NEW cands, NEW ctx, Rankable(cands, ctx), NEW list, Sound(list, cands, ctx)
  PROVE  /\ FinalOrder(list, ctx) \in Seq(Scoreds(ToSet(cands))) /\ Distinct(FinalOrder(list, ctx))
         /\ ToSet(FinalOrder(list, ctx)) = ToSet(list) /\ Sound(FinalOrder(list, ctx), cands, ctx)
         /\ Reservable(list, ctx) => Reservable(Firstly(FinalOrder(list, ctx), ctx.k), ctx)
<1> DEFINE E == Emitted(list, ctx)
           W == {x \in ToSet(list) : Reserved(x, ctx)}
           L == FinalOrder(list, ctx)
<1>1. L = ReserveChoice(E, ctx.k, W)
  BY DEF FinalOrder
<1>2. E \in Seq(ToSet(list)) /\ Distinct(E) /\ ToSet(E) = ToSet(list)
  BY EmittedIs
<1>3. Reservable(list, ctx) => ToSet(list) \cap W # {}
  BY DEF Reservable
<1>4. \A x \in W : Reserved(x, ctx)
  OBVIOUS
<1> HIDE DEF E, W, L
<1>5. ctx.k \in Nat \ {0}
  BY DEF Rankable
<1>6. /\ L \in Seq(ToSet(list)) /\ Len(L) = Len(E) /\ ToSet(L) = ToSet(E) /\ Distinct(L)
      /\ ToSet(E) \cap W # {} => \E i \in 1..Len(E) : i <= ctx.k /\ L[i] \in W
  BY <1>1, <1>2, <1>5, ReserveChoiceIs
<1>7. list \in Seq(Scoreds(ToSet(cands))) /\ ToSet(list) \subseteq Scoreds(ToSet(cands))
  BY ListIs DEF Sound
<1>8. L \in Seq(Scoreds(ToSet(cands)))
  BY <1>6, <1>7, SeqMonotonic
<1>9. Sound(L, cands, ctx)
  <2>1. \A x, y \in ToSet(list) : x.cand = y.cand => x = y
    BY SoundMeans
  <2>2. \A i \in DOMAIN L : L[i] \in ToSet(list)
    BY <1>6, ListIs
  <2>3. Once(L)
    BY <1>6, <2>1, <2>2 DEF Once, Distinct
  <2> QED BY <1>2, <1>6, <1>8, <2>3 DEF Sound
<1>10. ASSUME Reservable(list, ctx) PROVE Reservable(Firstly(L, ctx.k), ctx)
  <2>1. PICK i \in 1..Len(E) : i <= ctx.k /\ L[i] \in W
    BY <1>2, <1>3, <1>6, <1>10
  <2> DEFINE F == Firstly(L, ctx.k)
  <2>2. /\ F \in Seq(Scoreds(ToSet(cands))) /\ Len(F) = IF ctx.k < Len(L) THEN ctx.k ELSE Len(L)
        /\ \A j \in 1..Len(F) : F[j] = L[j]
    BY <1>5, <1>8, FirstlyIs
  <2> HIDE DEF F
  <2>3. Len(L) \in Nat /\ DOMAIN F = 1..Len(F)
    BY <1>8, <2>2, LenProperties
  <2>4. i \in DOMAIN F /\ F[i] = L[i]
    BY <1>5, <1>6, <2>1, <2>2, <2>3
  <2>5. F[i] \in ToSet(F)
    BY <2>4 DEF ToSet
  <2> QED BY <1>4, <2>1, <2>4, <2>5 DEF Reservable, F
<1> QED BY <1>2, <1>6, <1>8, <1>9, <1>10 DEF L
-----------------------------------------------------------------------------
(* What reaches the ranker, and what the ranker answers.                   *)

\* Candidates as the validator lists them.
Vetted(list) ==
  /\ list \in Seq(Candidates) /\ Distinct(list)
  /\ \A c, d \in ToSet(list) : c.index = d.index => c = d
  /\ \A c, d \in ToSet(list) : FullSignature(c.slots) = FullSignature(d.slots) => c = d

\* What is kept and what is removed before the ranker.
LEMMA KeptIs ==
  ASSUME NEW req, NEW list, Vetted(list)
  PROVE  /\ Vetted(Kept(req, list)) /\ Vetted(Removed(req, list))
         /\ \A c : c \in ToSet(Kept(req, list)) <=> c \in ToSet(list) /\ DropBeforeRanking(req, c) = "kept"
         /\ \A c : c \in ToSet(Removed(req, list)) <=> c \in ToSet(list) /\ DropBeforeRanking(req, c) # "kept"
<1> DEFINE U == {c \in Candidates : DropBeforeRanking(req, c) = "kept"}
           W == {c \in Candidates : DropBeforeRanking(req, c) # "kept"}
           P == {i \in DOMAIN list : list[i] \in U}
           Q == {i \in DOMAIN list : list[i] \in W}
<1>1. /\ list \in Seq(Candidates) /\ Distinct(list) /\ \A i \in DOMAIN list : list[i] \in Candidates
      /\ ToSet(list) \subseteq Candidates
  BY ListIs DEF Vetted
<1>2. Kept(req, list) = At(list, P)
  <2>1. Kept(req, list) = At(list, {i \in DOMAIN list : DropBeforeRanking(req, list[i]) = "kept"})
    BY DEF Kept, Where
  <2>2. {i \in DOMAIN list : DropBeforeRanking(req, list[i]) = "kept"} = P
    BY <1>1
  <2> QED BY <2>1, <2>2
<1>3. Removed(req, list) = At(list, Q)
  <2>1. Removed(req, list) = At(list, {i \in DOMAIN list : DropBeforeRanking(req, list[i]) # "kept"})
    BY DEF Removed, Where
  <2>2. {i \in DOMAIN list : DropBeforeRanking(req, list[i]) # "kept"} = Q
    BY <1>1
  <2> QED BY <2>1, <2>2
<1>4. /\ \A c \in ToSet(list) : c \in U <=> DropBeforeRanking(req, c) = "kept"
      /\ \A c \in ToSet(list) : c \in W <=> DropBeforeRanking(req, c) # "kept"
  BY <1>1
<1>5. P = {i \in DOMAIN list : list[i] \in U} /\ Q = {i \in DOMAIN list : list[i] \in W}
  OBVIOUS
<1> HIDE DEF U, W, P, Q
<1>6. /\ At(list, P) \in Seq(Candidates) /\ ToSet(At(list, P)) = ToSet(list) \cap U /\ Distinct(At(list, P))
  BY <1>1, <1>5, KeepIs
<1>7. /\ At(list, Q) \in Seq(Candidates) /\ ToSet(At(list, Q)) = ToSet(list) \cap W /\ Distinct(At(list, Q))
  BY <1>1, <1>5, KeepIs
<1>8. Vetted(Kept(req, list)) /\ Vetted(Removed(req, list))
  BY <1>2, <1>3, <1>6, <1>7 DEF Vetted
<1> QED BY <1>2, <1>3, <1>4, <1>6, <1>7, <1>8

\* The context of a request fits the candidates it is made of.
LEMMA ContextIs ==
  ASSUME NEW req \in Requests, NEW cands, Vetted(cands), NEW draw \in DrawsOf(cands),
         NEW ctx, ctx = ContextOf(req, cands, BehavioralSignals(req.rows, req.renders), draw)
  PROVE  /\ Rankable(cands, ctx)
         /\ ctx.k = K /\ ctx.locked = {} /\ ctx.contextual = req.disliked /\ ctx.cooled = CooledKeys(req.rows)
         /\ \A c \in ToSet(cands) : FullSignature(c.slots) \in ctx.reserved <=> EligibleOutfit(req, c.slots)
<1> DEFINE past == BehavioralSignals(req.rows, req.renders)
<1>1. /\ ctx.k = K /\ ctx.locked = {} /\ ctx.contextual = req.disliked
      /\ ctx.affinity = past.affinity /\ ctx.cooled = past.cooled /\ ctx.draw = draw
      /\ ctx.reserved = {FullSignature(c.slots) : c \in {d \in ToSet(cands) : EligibleOutfit(req, d.slots)}}
  BY DEF ContextOf
<1>2. past.affinity = Affinity(req.rows) /\ past.cooled = CooledKeys(req.rows)
  BY DEF BehavioralSignals
<1> HIDE DEF past
<1>3. \A i \in DOMAIN ctx.affinity : ctx.affinity[i] \in Int
  <2>1. req.rows \in Seq(FeedbackRow)
    BY RequestAssumption
  <2> QED BY <1>1, <1>2, <2>1, AffinityIs
<1>4. \A c \in ToSet(cands) : ctx.draw[FullSignature(c.slots)] \in Int
  <2> DEFINE sigs == {FullSignature(c.slots) : c \in ToSet(cands)}
  <2>1. draw \in [sigs -> 1..Cardinality(sigs)]
    BY DEF DrawsOf
  <2>2. \A s \in sigs : draw[s] \in 1..Cardinality(sigs)
    <3> HIDE DEF sigs
    <3> QED BY <2>1
  <2>3. \A s \in sigs : draw[s] \in Int
    <3> HIDE DEF sigs
    <3> QED BY <2>2
  <2> QED BY <1>1, <2>3
<1>5. ctx.k \in Nat \ {0}
  BY <1>1, PipelineAssumption
<1>6. Rankable(cands, ctx)
  BY <1>3, <1>4, <1>5 DEF Rankable, Vetted
<1>7. \A c \in ToSet(cands) : FullSignature(c.slots) \in ctx.reserved <=> EligibleOutfit(req, c.slots)
  <2> TAKE c \in ToSet(cands)
  <2>1. EligibleOutfit(req, c.slots) => FullSignature(c.slots) \in ctx.reserved
    BY <1>1
  <2>2. ASSUME FullSignature(c.slots) \in ctx.reserved PROVE EligibleOutfit(req, c.slots)
    <3>1. PICK d \in ToSet(cands) : EligibleOutfit(req, d.slots) /\ FullSignature(c.slots) = FullSignature(d.slots)
      BY <1>1, <2>2
    <3>2. c = d
      BY <3>1 DEF Vetted
    <3> QED BY <3>1, <3>2
  <2> QED BY <2>1, <2>2
<1> QED BY <1>1, <1>2, <1>6, <1>7

\* A dropped candidate is one outside the funnel, with its reason, and with
\* a score exactly when only the diversity steps dropped it.
LEMMA DroppedIs ==
  ASSUME NEW cands, Vetted(cands), NEW ctx, NEW funnel
  PROVE  LET D == Dropped(cands, funnel, ctx)
         IN  /\ \A d \in ToSet(D) : /\ d.cand \in ToSet(cands) /\ d.reason = DropReason(d.cand, ctx)
                                    /\ d.terms # <<>> <=> d.reason = "diversity_capped"
                                    /\ \A i \in DOMAIN funnel : funnel[i].cand.index # d.cand.index
             /\ \A c \in ToSet(cands) : (\A i \in DOMAIN funnel : funnel[i].cand.index # c.index)
                                        => \E d \in ToSet(D) : d.cand = c
             /\ \A d, e \in ToSet(D) : d.cand = e.cand => d = e
             /\ D \in Seq(ToSet(D))
<1> DEFINE away(c) == \A i \in DOMAIN funnel : funnel[i].cand.index # c.index
           filing(c) == [cand   |-> c,
                         reason |-> DropReason(c, ctx),
                         terms  |-> IF DropReason(c, ctx) = "diversity_capped"
                                    THEN <<Scored(c, ctx, FALSE).terms>> ELSE <<>>]
           P == {i \in DOMAIN cands : away(cands[i])}
           out == At(cands, P)
           D == Dropped(cands, funnel, ctx)
<1>1. D = [i \in DOMAIN out |-> filing(out[i])]
  BY DEF Dropped, Where
<1>2. \A c : /\ filing(c).cand = c /\ filing(c).reason = DropReason(c, ctx)
             /\ filing(c).terms # <<>> <=> filing(c).reason = "diversity_capped"
  OBVIOUS
<1>3. cands \in Seq(Candidates) /\ P \in SUBSET (1..Len(cands)) /\ \A i : i \in P <=> i \in DOMAIN cands /\ away(cands[i])
  <2>1. cands \in Seq(Candidates) /\ DOMAIN cands = 1..Len(cands)
    BY ListIs DEF Vetted
  <2> QED BY <2>1
<1> HIDE DEF P, filing
<1>4. out \in Seq(Candidates) /\ ToSet(out) = {cands[i] : i \in P}
  BY <1>3, AtIs
<1> HIDE DEF out
<1>5. \A c : c \in ToSet(out) <=> c \in ToSet(cands) /\ away(c)
  <2>1. \A c : c \in ToSet(cands) <=> \E i \in DOMAIN cands : cands[i] = c
    BY DEF ToSet
  <2> HIDE DEF away
  <2> QED BY <1>3, <1>4, <2>1
<1>6. Len(out) \in Nat /\ DOMAIN out = 1..Len(out) /\ \A c : c \in ToSet(out) <=> \E i \in DOMAIN out : out[i] = c
  BY <1>4, ListIs
<1>7. DOMAIN D = DOMAIN out /\ \A i \in DOMAIN out : D[i] = filing(out[i])
  BY <1>1
<1>8. D \in Seq(ToSet(D))
  <2>1. \A i \in DOMAIN out : D[i] \in ToSet(D)
    BY <1>7 DEF ToSet
  <2>2. D = [i \in 1..Len(out) |-> D[i]]
    BY <1>1, <1>6, <1>7
  <2> HIDE DEF D
  <2>3. D \in [1..Len(out) -> ToSet(D)]
    BY <1>6, <2>1, <2>2
  <2> QED BY <1>6, <2>3
<1> HIDE DEF D
<1>9. \A d : d \in ToSet(D) <=> \E c \in ToSet(out) : d = filing(c)
  <2>1. \A d : d \in ToSet(D) <=> \E i \in DOMAIN out : D[i] = d
    BY <1>7 DEF ToSet
  <2> QED BY <1>6, <1>7, <2>1
<1>10. \A d \in ToSet(D) : /\ d.cand \in ToSet(cands) /\ d.reason = DropReason(d.cand, ctx)
                           /\ d.terms # <<>> <=> d.reason = "diversity_capped"
                           /\ away(d.cand)
  <2> TAKE d \in ToSet(D)
  <2>1. PICK c \in ToSet(out) : d = filing(c)
    BY <1>9
  <2> HIDE DEF away
  <2> QED BY <1>2, <1>5, <2>1
<1>11. \A c \in ToSet(cands) : away(c) => \E d \in ToSet(D) : d.cand = c
  <2> HIDE DEF away
  <2> QED BY <1>2, <1>5, <1>9
<1>12. \A d, e \in ToSet(D) : d.cand = e.cand => d = e
  BY <1>2, <1>9
<1> QED BY <1>8, <1>10, <1>11, <1>12 DEF D

\* The ranking of the candidates of a request.
LEMMA RankingIs ==
  ASSUME NEW req \in Requests, NEW cands, Vetted(cands), NEW draw \in DrawsOf(cands),
         NEW R, R = RankedBy(req, cands, draw)
  PROVE  /\ R.funnel \in Seq(Scoreds(Candidates)) /\ Once(R.funnel) /\ Distinct(R.funnel)
         /\ \A x \in ToSet(R.funnel) :
              /\ x.cand \in ToSet(cands) /\ x.terms \in Terms
              /\ Filled(x.cand.slots) \cap req.disliked = {}
              /\ x.terms.cooldown = IF BaseKey(x.cand.slots) \in ToSet(CooledKeys(req.rows)) THEN -20 ELSE 0
              /\ BaseKey(x.cand.slots) \in ToSet(CooledKeys(req.rows))
                   => R.stage \in {"cooldownRelaxed", "insufficient"}
         /\ R.outfits = Firstly(R.funnel, K)
         /\ (\E c \in ToSet(cands) : EligibleOutfit(req, c.slots))
              => \E x \in ToSet(R.outfits) : EligibleOutfit(req, x.cand.slots)
         /\ \A d \in ToSet(R.dropped) :
              /\ d.cand \in ToSet(cands)
              /\ d.reason \in {"contextual_disliked", "cooldown_dropped", "diversity_capped"}
              /\ d.reason = "cooldown_dropped" => BaseKey(d.cand.slots) \in ToSet(CooledKeys(req.rows))
              /\ d.terms # <<>> <=> d.reason = "diversity_capped"
              /\ \A x \in ToSet(R.funnel) : x.cand.index # d.cand.index
         /\ \A c \in ToSet(cands) : \/ \E x \in ToSet(R.funnel) : x.cand = c
                                    \/ \E d \in ToSet(R.dropped) : d.cand = c
         /\ \A d, e \in ToSet(R.dropped) : d.cand = e.cand => d = e
         /\ R.dropped \in Seq(ToSet(R.dropped))
<1> DEFINE ctx == ContextOf(req, cands, BehavioralSignals(req.rows, req.renders), draw)
<1>0. R = Ranked(cands, ctx)
  BY DEF RankedBy
<1>1. /\ Rankable(cands, ctx)
      /\ ctx.k = K /\ ctx.locked = {} /\ ctx.contextual = req.disliked /\ ctx.cooled = CooledKeys(req.rows)
      /\ \A c \in ToSet(cands) : FullSignature(c.slots) \in ctx.reserved <=> EligibleOutfit(req, c.slots)
  BY ContextIs
<1> HIDE DEF ctx
<1>2. K \in Nat
  BY PipelineAssumption
<1>3. CASE cands = <<>>
  <2>1. R.funnel = <<>> /\ R.outfits = <<>> /\ R.dropped = <<>>
    BY <1>0, <1>3 DEF Ranked, Unranked
  <2>2. /\ DOMAIN <<>> = {} /\ ToSet(<<>>) = {} /\ \A S : <<>> \in Seq(S)
    BY EmptySeq DEF ToSet
  <2>3. Firstly(<<>>, K) = <<>>
    <3>1. /\ Len(Firstly(<<>>, K)) = IF K < Len(<<>>) THEN K ELSE Len(<<>>)
          /\ Firstly(<<>>, K) \in Seq({})
      BY <1>2, <2>2, FirstlyIs
    <3>2. Len(<<>>) = 0
      BY EmptySeq
    <3>3. Len(Firstly(<<>>, K)) = 0
      BY <1>2, <3>1, <3>2
    <3> QED BY <3>1, <3>3, EmptySeq
  <2> QED BY <1>3, <2>1, <2>2, <2>3 DEF Once, Distinct
<1>4. CASE cands # <<>>
  <2> DEFINE G == FallbackPool(cands, ctx)
             L == FinalOrder(G.pool, ctx)
  <2>1. R = RankedAs(cands, ctx, G.stage, L)
    BY <1>0, <1>4 DEF Ranked, RankedFrom
  <2>2. /\ Sound(G.pool, cands, ctx)
        /\ (\E c \in ToSet(cands) : Clears(c, ctx) /\ FullSignature(c.slots) \in ctx.reserved)
             => Reservable(G.pool, ctx)
        /\ (\E x \in ToSet(G.pool) : ~PassesCooldown(x.cand, ctx)) => G.stage \in {"cooldownRelaxed", "insufficient"}
    BY <1>1, FallbackIs
  <2> HIDE DEF G
  <2>3. /\ Distinct(L) /\ ToSet(L) = ToSet(G.pool) /\ Sound(L, cands, ctx)
        /\ Reservable(G.pool, ctx) => Reservable(Firstly(L, ctx.k), ctx)
    BY <1>1, <2>2, FinalOrderIs
  <2> HIDE DEF L
  <2>4. R.funnel = L /\ R.outfits = Firstly(L, K) /\ R.stage = G.stage /\ R.dropped = Dropped(cands, L, ctx)
    BY <1>1, <2>1 DEF RankedAs
  <2>5. /\ L \in Seq(Scoreds(Candidates))
        /\ \A x \in ToSet(L) : x.cand \in ToSet(cands) /\ x.terms \in Terms
    BY <1>1, <2>3, SoundMeans
  <2>6. Once(L) /\ \A x \in ToSet(L) : /\ Clears(x.cand, ctx)
                                       /\ x.terms.cooldown = IF PassesCooldown(x.cand, ctx) THEN 0 ELSE -20
    BY <2>3 DEF Sound
  <2>7. ASSUME NEW x \in ToSet(L)
        PROVE  /\ Filled(x.cand.slots) \cap req.disliked = {}
               /\ x.terms.cooldown = IF BaseKey(x.cand.slots) \in ToSet(CooledKeys(req.rows)) THEN -20 ELSE 0
               /\ BaseKey(x.cand.slots) \in ToSet(CooledKeys(req.rows))
                    => R.stage \in {"cooldownRelaxed", "insufficient"}
    <3>1. PassesCooldown(x.cand, ctx) <=> BaseKey(x.cand.slots) \notin ToSet(CooledKeys(req.rows))
      BY <1>1 DEF PassesCooldown
    <3>2. Clears(x.cand, ctx) => Filled(x.cand.slots) \cap req.disliked = {}
      BY <1>1 DEF Clears, PassesContextual
    <3> QED BY <2>2, <2>3, <2>4, <2>6, <3>1, <3>2
  <2>8. ASSUME NEW c \in ToSet(cands), EligibleOutfit(req, c.slots)
        PROVE  \E x \in ToSet(R.outfits) : EligibleOutfit(req, x.cand.slots)
    <3>1. Clears(c, ctx)
      BY <1>1, <2>8 DEF EligibleOutfit, Clears, PassesLock, PassesContextual
    <3>2. Reservable(R.outfits, ctx)
      BY <1>1, <2>2, <2>3, <2>4, <2>8, <3>1
    <3>3. PICK x \in ToSet(R.outfits) : FullSignature(x.cand.slots) \in ctx.reserved
      BY <3>2 DEF Reservable, Reserved
    <3>4. ToSet(R.outfits) \subseteq ToSet(L)
      BY <1>2, <2>4, <2>5, FirstlyIs
    <3>5. EligibleOutfit(req, x.cand.slots)
      BY <1>1, <2>5, <3>3, <3>4
    <3> QED BY <3>5
  <2>9. /\ \A d \in ToSet(R.dropped) : /\ d.cand \in ToSet(cands) /\ d.reason = DropReason(d.cand, ctx)
                                       /\ d.terms # <<>> <=> d.reason = "diversity_capped"
                                       /\ \A i \in DOMAIN L : L[i].cand.index # d.cand.index
        /\ \A c \in ToSet(cands) : (\A i \in DOMAIN L : L[i].cand.index # c.index)
                                   => \E d \in ToSet(R.dropped) : d.cand = c
        /\ \A d, e \in ToSet(R.dropped) : d.cand = e.cand => d = e
        /\ R.dropped \in Seq(ToSet(R.dropped))
    BY <2>4, DroppedIs
  <2>10. \A x : x \in ToSet(L) <=> \E i \in DOMAIN L : L[i] = x
    BY DEF ToSet
  <2>11. \A c : DropReason(c, ctx) \in {"contextual_disliked", "cooldown_dropped", "diversity_capped"}
    BY <1>1 DEF DropReason, PassesLock
  <2>12. \A c : DropReason(c, ctx) = "cooldown_dropped" => BaseKey(c.slots) \in ToSet(CooledKeys(req.rows))
    BY <1>1 DEF DropReason, PassesCooldown
  <2>13. \A d \in ToSet(R.dropped) :
           /\ d.cand \in ToSet(cands)
           /\ d.reason \in {"contextual_disliked", "cooldown_dropped", "diversity_capped"}
           /\ d.reason = "cooldown_dropped" => BaseKey(d.cand.slots) \in ToSet(CooledKeys(req.rows))
           /\ d.terms # <<>> <=> d.reason = "diversity_capped"
           /\ \A x \in ToSet(L) : x.cand.index # d.cand.index
    BY <2>9, <2>10, <2>11, <2>12
  <2>14. \A c \in ToSet(cands) : (\E x \in ToSet(L) : x.cand = c) \/ (\E d \in ToSet(R.dropped) : d.cand = c)
    <3> TAKE c \in ToSet(cands)
    <3>1. CASE \A i \in DOMAIN L : L[i].cand.index # c.index
      BY <2>9, <3>1
    <3>2. CASE ~\A i \in DOMAIN L : L[i].cand.index # c.index
      <4>1. PICK i \in DOMAIN L : L[i].cand.index = c.index
        BY <3>2
      <4>2. L[i] \in ToSet(L) /\ L[i].cand \in ToSet(cands)
        BY <2>5, <2>10
      <4>3. L[i].cand = c
        BY <4>1, <4>2 DEF Vetted
      <4> QED BY <4>2, <4>3
    <3> QED BY <3>1, <3>2
  <2> QED BY <2>3, <2>4, <2>5, <2>6, <2>7, <2>8, <2>9, <2>13, <2>14
<1> QED BY <1>3, <1>4
-----------------------------------------------------------------------------
(* The response: what is shown of the ranking.                             *)

\* Two lists joined.
LEMMA JoinIs ==
  ASSUME NEW T, NEW a \in Seq(T), NEW b \in Seq(T)
  PROVE  /\ a \o b \in Seq(T)
         /\ \A x : x \in ToSet(a \o b) <=> x \in ToSet(a) \/ x \in ToSet(b)
         /\ a # <<>> => (a \o b)[1] = a[1] /\ a \o b # <<>>
         /\ Distinct(a) /\ Distinct(b) /\ ToSet(a) \cap ToSet(b) = {} => Distinct(a \o b)
<1> DEFINE c == a \o b
<1>1. /\ Len(a) \in Nat /\ DOMAIN a = 1..Len(a) /\ \A x : x \in ToSet(a) <=> \E i \in DOMAIN a : a[i] = x
      /\ Len(b) \in Nat /\ DOMAIN b = 1..Len(b) /\ \A x : x \in ToSet(b) <=> \E i \in DOMAIN b : b[i] = x
      /\ a # <<>> <=> 1 \in DOMAIN a
  BY ListIs
<1>2. /\ c \in Seq(T) /\ Len(c) = Len(a) + Len(b)
      /\ \A i \in 1..(Len(a) + Len(b)) : c[i] = IF i <= Len(a) THEN a[i] ELSE b[i - Len(a)]
  BY ConcatProperties
<1> HIDE DEF c
<1>3. DOMAIN c = 1..(Len(a) + Len(b)) /\ (c # <<>> <=> 1 \in DOMAIN c)
  BY <1>2, ListIs
<1>4. \A i \in DOMAIN c : \/ i \in DOMAIN a /\ c[i] = a[i] /\ i <= Len(a)
                          \/ i - Len(a) \in DOMAIN b /\ c[i] = b[i - Len(a)] /\ i > Len(a)
  <2> TAKE i \in DOMAIN c
  <2>1. i \in 1..(Len(a) + Len(b)) /\ i \in Int /\ Len(a) \in Int
    BY <1>1, <1>3
  <2>2. CASE i <= Len(a)
    BY <1>1, <1>2, <2>1, <2>2
  <2>3. CASE i > Len(a)
    <3>1. i - Len(a) \in DOMAIN b /\ ~(i <= Len(a))
      BY <1>1, <2>1, <2>3
    <3> QED BY <1>2, <2>1, <2>3, <3>1
  <2> QED BY <2>1, <2>2, <2>3
<1>5. ASSUME NEW i \in DOMAIN a PROVE i \in DOMAIN c /\ c[i] = a[i]
  <2>1. i \in 1..(Len(a) + Len(b)) /\ i <= Len(a)
    BY <1>1
  <2> QED BY <1>2, <1>3, <2>1
<1>6. ASSUME NEW i \in DOMAIN b PROVE i + Len(a) \in DOMAIN c /\ c[i + Len(a)] = b[i]
  <2>1. i + Len(a) \in 1..(Len(a) + Len(b)) /\ ~(i + Len(a) <= Len(a)) /\ (i + Len(a)) - Len(a) = i
    BY <1>1
  <2> QED BY <1>2, <1>3, <2>1
<1>7. \A x : x \in ToSet(c) <=> x \in ToSet(a) \/ x \in ToSet(b)
  <2>1. \A x : x \in ToSet(c) <=> \E i \in DOMAIN c : c[i] = x
    BY DEF ToSet
  <2>2. ASSUME NEW i \in DOMAIN c PROVE c[i] \in ToSet(a) \/ c[i] \in ToSet(b)
    BY <1>1, <1>4
  <2>3. ASSUME NEW x \in ToSet(a) PROVE x \in ToSet(c)
    BY <1>1, <1>5, <2>1
  <2>4. ASSUME NEW x \in ToSet(b) PROVE x \in ToSet(c)
    BY <1>1, <1>6, <2>1
  <2> QED BY <2>1, <2>2, <2>3, <2>4
<1>8. ASSUME Distinct(a), Distinct(b), ToSet(a) \cap ToSet(b) = {} PROVE Distinct(c)
  <2> SUFFICES ASSUME NEW i \in DOMAIN c, NEW j \in DOMAIN c, c[i] = c[j] PROVE i = j
    BY DEF Distinct
  <2>0. i \in Int /\ j \in Int /\ Len(a) \in Int
    BY <1>1, <1>3
  <2>1. CASE i <= Len(a) /\ j <= Len(a)
    <3>1. i \in DOMAIN a /\ c[i] = a[i] /\ j \in DOMAIN a /\ c[j] = a[j]
      BY <1>4, <2>0, <2>1
    <3> QED BY <1>8, <3>1 DEF Distinct
  <2>2. CASE i <= Len(a) /\ j > Len(a)
    <3>1. i \in DOMAIN a /\ c[i] = a[i] /\ j - Len(a) \in DOMAIN b /\ c[j] = b[j - Len(a)]
      BY <1>4, <2>0, <2>2
    <3>2. c[i] \in ToSet(a) /\ c[j] \in ToSet(b)
      BY <1>1, <3>1
    <3> QED BY <1>8, <3>2
  <2>3. CASE i > Len(a) /\ j <= Len(a)
    <3>1. i - Len(a) \in DOMAIN b /\ c[i] = b[i - Len(a)] /\ j \in DOMAIN a /\ c[j] = a[j]
      BY <1>4, <2>0, <2>3
    <3>2. c[i] \in ToSet(b) /\ c[j] \in ToSet(a)
      BY <1>1, <3>1
    <3> QED BY <1>8, <3>2
  <2>4. CASE i > Len(a) /\ j > Len(a)
    <3>1. /\ i - Len(a) \in DOMAIN b /\ c[i] = b[i - Len(a)]
          /\ j - Len(a) \in DOMAIN b /\ c[j] = b[j - Len(a)]
      BY <1>4, <2>0, <2>4
    <3>2. i - Len(a) = j - Len(a)
      BY <1>8, <3>1 DEF Distinct
    <3> QED BY <2>0, <3>2
  <2> QED BY <2>0, <2>1, <2>2, <2>3, <2>4
<1> QED BY <1>1, <1>2, <1>3, <1>5, <1>7, <1>8 DEF c

\* A share is a number.
LEMMA ShareIs ==
  ASSUME NEW S, IsFiniteSet(S), S # {}, NEW T \in SUBSET S
  PROVE  Share(Cardinality(T), Cardinality(S)) \in Int
<1>1. Cardinality(S) \in Nat /\ Cardinality(S) # 0 /\ Cardinality(T) \in Nat
  BY FS_CardinalityType, FS_EmptySet, FS_Subset
<1> QED BY <1>1 DEF Share

\* The formality of an outfit spreads over a whole number of ranks.
LEMMA SpreadIs ==
  ASSUME NEW req \in Requests, NEW worn \in SUBSET DOMAIN req.closet
  PROVE  FormalitySpread(worn, req.closet) \in Int
<1> DEFINE dressy == {h \in worn : req.closet[h].formal >= 0}
           ranks == {req.closet[g].formal : g \in dressy}
<1>1. IsFiniteSet(worn) /\ \A g \in worn : req.closet[g].formal \in Int
  BY RequestAssumption, FS_Subset DEF GarmentRecord
<1>2. FormalitySpread(worn, req.closet) = IF Cardinality(dressy) < 2 THEN 0 ELSE Max(ranks) - Min(ranks)
  BY DEF FormalitySpread
<1>3. dressy \subseteq worn /\ IsFiniteSet(dressy)
  BY <1>1, FS_Subset
<1>4. ranks \subseteq Int
  BY <1>1, <1>3
<1>5. IsFiniteSet(ranks) /\ (dressy # {} => ranks # {})
  <2> DEFINE f == [g \in dressy |-> req.closet[g].formal]
  <2>1. f \in Surjection(dressy, ranks)
    BY DEF Surjection
  <2>2. IsFiniteSet(ranks)
    BY <1>3, <2>1, FS_Surjection
  <2> QED BY <2>2
<1> HIDE DEF ranks, dressy
<1>6. CASE Cardinality(dressy) < 2
  BY <1>2, <1>6
<1>7. CASE ~(Cardinality(dressy) < 2)
  <2>1. dressy # {}
    BY <1>7, FS_EmptySet
  <2>2. Max(ranks) \in ranks /\ Min(ranks) \in ranks
    BY <1>4, <1>5, <2>1, Extremes
  <2>3. Max(ranks) \in Int /\ Min(ranks) \in Int
    BY <1>4, <2>2
  <2> QED BY <1>2, <1>7, <2>3
<1> QED BY <1>6, <1>7

\* The weather penalty is a number.
LEMMA PenaltyIs ==
  ASSUME NEW req \in Requests, NEW worn \in SUBSET DOMAIN req.closet, worn # {}
  PROVE  WeatherPenalty(worn, req) \in Int
<1> DEFINE target == TargetBand(req.weather)
           distance(g) == LET d == req.closet[g].warmth - target IN IF d < 0 THEN -d ELSE d
           far == {distance(g) : g \in worn}
<1>1. IsFiniteSet(worn) /\ \A g \in worn : req.closet[g].warmth \in Int
  BY RequestAssumption, FS_Subset DEF GarmentRecord
<1>2. target \in Int
  BY DEF TargetBand
<1>3. WeatherPenalty(worn, req) = IF target < 0 THEN 0 ELSE (Whole \div 2) * Max(far)
  BY DEF WeatherPenalty
<1> HIDE DEF target
<1>4. far \subseteq Int /\ far # {}
  BY <1>1, <1>2
<1>5. IsFiniteSet(far)
  <2> HIDE DEF distance
  <2> DEFINE f == [g \in worn |-> distance(g)]
  <2>1. f \in Surjection(worn, far)
    BY DEF Surjection
  <2> QED BY <1>1, <2>1, FS_Surjection
<1> HIDE DEF far
<1>6. Max(far) \in Int
  BY <1>4, <1>5, Extremes
<1>7. Whole \div 2 \in Int
  BY DEF Whole
<1> QED BY <1>3, <1>6, <1>7

\* The pairs of a finite set are finitely many.
LEMMA PairsAre ==
  ASSUME NEW worn, IsFiniteSet(worn)
  PROVE  IsFiniteSet(PairsOf(worn))
<1>1. IsFiniteSet(SUBSET worn)
  BY FS_SUBSET
<1> QED BY <1>1, FS_Subset DEF PairsOf

\* Every outfit of garments of the closet has a score of its own.
LEMMA CompatibilityIs ==
  ASSUME NEW req \in Requests, NEW m, Filled(m) \subseteq DOMAIN req.closet, Filled(m) # {}
  PROVE  Compatibility(m, req) \in Int
<1> DEFINE worn  == Filled(m)
           n     == Cardinality(worn)
           pairs == PairsOf(worn)
           apart == {p \in pairs : ~Clashes(p, req.closet)}
           calm  == IF pairs = {} THEN 60 ELSE Share(Cardinality(apart), Cardinality(pairs))
           plain == Share(Cardinality({g \in worn : req.closet[g].neutral}), n)
           formal == Share(FormalitySpread(worn, req.closet), MaxFormalitySpread)
           fit   == Share(Cardinality({g \in worn : req.closet[g].suits}), n)
           cold  == WeatherPenalty(worn, req)
<1>1. worn \in SUBSET DOMAIN req.closet /\ worn # {} /\ IsFiniteSet(worn)
  BY RequestAssumption, FS_Subset
<1>2. plain \in Int
  <2> DEFINE T == {g \in worn : req.closet[g].neutral}
  <2>1. T \in SUBSET worn
    OBVIOUS
  <2> HIDE DEF T, worn
  <2>2. Share(Cardinality(T), Cardinality(worn)) \in Int
    BY <1>1, <2>1, ShareIs
  <2> QED BY <2>2 DEF T
<1>3. fit \in Int
  <2> DEFINE T == {g \in worn : req.closet[g].suits}
  <2>1. T \in SUBSET worn
    OBVIOUS
  <2> HIDE DEF T, worn
  <2>2. Share(Cardinality(T), Cardinality(worn)) \in Int
    BY <1>1, <2>1, ShareIs
  <2> QED BY <2>2 DEF T
<1>4. calm \in Int
  <2>1. IsFiniteSet(pairs)
    BY <1>1, PairsAre
  <2>2. apart \in SUBSET pairs
    OBVIOUS
  <2> HIDE DEF apart, pairs
  <2>3. CASE pairs = {}
    BY <2>3
  <2>4. CASE pairs # {}
    BY <2>1, <2>2, <2>4, ShareIs
  <2> QED BY <2>3, <2>4
<1>5. formal \in Int
  <2>1. FormalitySpread(worn, req.closet) \in Int
    BY <1>1, SpreadIs
  <2> DEFINE s == FormalitySpread(worn, req.closet)
  <2> HIDE DEF s
  <2>2. s \in Int
    BY <2>1 DEF s
  <2>3. (60 * s) \div 5 \in Int
    BY <2>2
  <2> QED BY <2>3 DEF s, Share, MaxFormalitySpread
<1>6. cold \in Int
  BY <1>1, PenaltyIs
<1>7. Compatibility(m, req) = Clamped(25 * plain + 25 * calm + 25 * (60 - formal) + 25 * fit - cold)
  BY DEF Compatibility
<1> HIDE DEF plain, calm, formal, fit, cold
<1> DEFINE x == 25 * plain + 25 * calm + 25 * (60 - formal) + 25 * fit - cold
<1>8. x \in Int
  BY <1>2, <1>3, <1>4, <1>5, <1>6
<1> HIDE DEF x
<1>9. Clamped(x) \in Int
  BY <1>8 DEF Clamped, Whole
<1> QED BY <1>7, <1>9 DEF x
-----------------------------------------------------------------------------
(* The spread: which of the ranked outfits are surfaced.                   *)

\* Outfits of different slots are strictly ordered in the response.
LEMMA GoesBeforeOrders ==
  ASSUME NEW S, \A v \in S : v.score \in Int /\ v.compat \in Int /\ v.slots \in SlotMaps(Ids),
         \A v, w \in S : v.slots = w.slots => v = w
  PROVE  Orders({p \in S \X S : GoesBefore(p[1], p[2])}, S)
<1> DEFINE R == {p \in S \X S : GoesBefore(p[1], p[2])}
<1>1. \A v, w \in S : <<v, w>> \in R <=> GoesBefore(v, w)
  OBVIOUS
<1> HIDE DEF R
<1>2. ASSUME NEW v \in S PROVE <<v, v>> \notin R
  BY <1>1, BeforeOrders DEF GoesBefore
<1>3. ASSUME NEW u \in S, NEW v \in S, NEW w \in S, <<u, v>> \in R, <<v, w>> \in R PROVE <<u, w>> \in R
  <2>1. Before(u.slots, v.slots) /\ Before(v.slots, w.slots) => Before(u.slots, w.slots)
    BY BeforeOrders
  <2>2. /\ u.score \in Int /\ v.score \in Int /\ w.score \in Int
        /\ u.compat \in Int /\ v.compat \in Int /\ w.compat \in Int
    OBVIOUS
  <2>3. GoesBefore(u, v) /\ GoesBefore(v, w)
    BY <1>1, <1>3
  <2>4. GoesBefore(u, w)
    BY <2>1, <2>2, <2>3 DEF GoesBefore
  <2> QED BY <1>1, <2>4
<1>4. ASSUME NEW v \in S, NEW w \in S, v # w PROVE <<v, w>> \in R \/ <<w, v>> \in R
  <2>1. Before(v.slots, w.slots) \/ Before(w.slots, v.slots)
    BY <1>4, BeforeOrders
  <2>2. v.score \in Int /\ w.score \in Int /\ v.compat \in Int /\ w.compat \in Int
    OBVIOUS
  <2>3. GoesBefore(v, w) \/ GoesBefore(w, v)
    BY <2>1, <2>2 DEF GoesBefore
  <2> QED BY <1>1, <2>3
<1>5. Orders(R, S)
  BY <1>2, <1>3, <1>4 DEF Orders
<1> QED BY <1>5 DEF R

\* The spread shows each outfit once, and one with an outer layer when one
\* is to be reserved and there is any.
LEMMA SelectSpreadIs ==
  ASSUME NEW T, NEW variants \in Seq(T),
         \A v \in ToSet(variants) : v.score \in Int /\ v.compat \in Int /\ v.slots \in SlotMaps(Ids),
         \A v, w \in ToSet(variants) : v.slots = w.slots => v = w,
         NEW n \in Nat \ {0}, NEW reserveLayer \in BOOLEAN
  PROVE  LET L == SelectSpread(variants, n, reserveLayer).selected
         IN  /\ L \in Seq(ToSet(variants)) /\ Distinct(L)
             /\ reserveLayer /\ (\E v \in ToSet(variants) : v.slots.outer # Nothing)
                  => \E v \in ToSet(L) : v.slots.outer # Nothing
<1> DEFINE S == ToSet(variants)
           R == {p \in S \X S : GoesBefore(p[1], p[2])}
           ordered == Sorted(S, GoesBefore)
           layers  == {v \in S : v.slots.outer # Nothing}
           P       == {i \in DOMAIN ordered : ordered[i].slots.outer # Nothing}
           layered == At(ordered, P)
           first   == IF reserveLayer /\ n > 0 /\ layered # <<>> THEN <<layered[1]>> ELSE <<>>
           opens(i) == /\ ordered[i].cell \notin CellsOf(first)
                       /\ \A j \in 1..(i - 1) : ordered[j].cell # ordered[i].cell
           Q       == {i \in DOMAIN ordered : opens(i)}
           opening == Firstly(first \o At(ordered, Q), n)
           W       == {i \in DOMAIN ordered : ordered[i] \notin ToSet(opening)}
           padded  == Firstly(opening \o At(ordered, W), n)
           L       == SelectSpread(variants, n, reserveLayer).selected
<1>1. L = padded
  BY DEF SelectSpread, Where
<1>2. IsFiniteSet(S)
  BY ListIs
<1>3. ordered = InOrder(S, R)
  BY DEF Sorted
<1>4. Orders(R, S)
  BY GoesBeforeOrders
<1> HIDE DEF S, R, L
<1>5. /\ InOrder(S, R) \in Seq(S) /\ Len(InOrder(S, R)) = Cardinality(S)
      /\ \A x \in S : \E k \in 1..Cardinality(S) : InOrder(S, R)[k] = x
      /\ \A k, m \in 1..Cardinality(S) : InOrder(S, R)[k] = InOrder(S, R)[m] => k = m
  BY <1>2, <1>4, InOrderIs
<1> HIDE DEF ordered
<1>6. ordered \in Seq(S) /\ Distinct(ordered) /\ DOMAIN ordered = 1..Len(ordered) /\ \A x \in S : x \in ToSet(ordered)
  <2>1. ordered \in Seq(S) /\ DOMAIN ordered = 1..Len(ordered) /\ Len(ordered) = Cardinality(S)
    BY <1>3, <1>5, LenProperties
  <2>2. Distinct(ordered)
    BY <1>3, <1>5, <2>1 DEF Distinct
  <2>3. \A x \in S : x \in ToSet(ordered)
    BY <1>3, <1>5, <2>1 DEF ToSet
  <2> QED BY <2>1, <2>2, <2>3
<1>7. /\ layered \in Seq(S) /\ \A v \in ToSet(layered) : v.slots.outer # Nothing
      /\ (\E v \in S : v.slots.outer # Nothing) => layered # <<>>
  <2>1. P \in SUBSET (1..Len(ordered)) /\ \A i : i \in P <=> i \in DOMAIN ordered /\ ordered[i].slots.outer # Nothing
    BY <1>6
  <2> HIDE DEF P
  <2>2. layered \in Seq(S) /\ ToSet(layered) = {ordered[i] : i \in P}
    BY <1>6, <2>1, AtIs
  <2> HIDE DEF layered
  <2>3. \A v \in ToSet(layered) : v.slots.outer # Nothing
    BY <2>1, <2>2
  <2>4. ASSUME NEW v \in S, v.slots.outer # Nothing PROVE layered # <<>>
    <3>1. PICK i \in DOMAIN ordered : ordered[i] = v
      BY <1>6 DEF ToSet
    <3>2. ToSet(layered) # {}
      BY <2>1, <2>2, <2>4, <3>1
    <3> QED BY <2>2, <3>2, ListIs
  <2> QED BY <2>2, <2>3, <2>4
<1> HIDE DEF P, layered
<1>8. /\ first \in Seq(S) /\ Distinct(first) /\ \A v \in ToSet(first) : v.slots.outer # Nothing /\ v.cell \in CellsOf(first)
      /\ reserveLayer /\ layered # <<>> => first # <<>>
  <2>1. CASE reserveLayer /\ n > 0 /\ layered # <<>>
    <3>1. first = <<layered[1]>>
      BY <2>1
    <3>2. layered[1] \in ToSet(layered) /\ layered[1] \in S
      BY <1>7, <2>1, ListIs DEF ToSet
    <3> HIDE DEF first
    <3>3. DOMAIN first = {1} /\ first[1] = layered[1] /\ ToSet(first) = {layered[1]} /\ first # <<>>
      BY <3>1 DEF ToSet
    <3>4. first \in Seq(S)
      BY <3>1, <3>2
    <3>5. layered[1].cell \in CellsOf(first)
      BY <3>3 DEF CellsOf
    <3> QED BY <1>7, <3>2, <3>3, <3>4, <3>5 DEF Distinct
  <2>2. CASE ~(reserveLayer /\ n > 0 /\ layered # <<>>)
    <3>1. first = <<>> /\ <<>> \in Seq(S) /\ DOMAIN <<>> = {} /\ ToSet(<<>>) = {}
      BY <2>2, EmptySeq DEF ToSet
    <3>2. ~(reserveLayer /\ layered # <<>>)
      BY <2>2
    <3> HIDE DEF first
    <3> QED BY <3>1, <3>2 DEF Distinct
  <2> QED BY <2>1, <2>2
<1> HIDE DEF first
<1>9. /\ At(ordered, Q) \in Seq(S) /\ Distinct(At(ordered, Q))
      /\ \A v \in ToSet(At(ordered, Q)) : v.cell \notin CellsOf(first)
  <2>1. Q \in SUBSET (1..Len(ordered)) /\ \A i \in Q : ordered[i].cell \notin CellsOf(first)
    BY <1>6
  <2> HIDE DEF Q
  <2>2. At(ordered, Q) \in Seq(S) /\ ToSet(At(ordered, Q)) = {ordered[i] : i \in Q}
    BY <1>6, <2>1, AtIs
  <2>3. Distinct(At(ordered, Q))
    BY <1>6, <2>1, AtOnce
  <2> QED BY <2>1, <2>2, <2>3
<1> HIDE DEF Q
<1>10. LET J == first \o At(ordered, Q)
       IN  /\ J \in Seq(S) /\ Distinct(J) /\ (first # <<>> => J # <<>> /\ J[1] = first[1])
  <2>1. ToSet(first) \cap ToSet(At(ordered, Q)) = {}
    BY <1>8, <1>9
  <2> QED BY <1>8, <1>9, <2>1, JoinIs
<1> DEFINE J == first \o At(ordered, Q)
<1>11. J \in Seq(S) /\ Distinct(J) /\ (first # <<>> => J # <<>> /\ J[1] = first[1])
  BY <1>10
<1>12. opening = Firstly(J, n)
  OBVIOUS
<1> HIDE DEF J, opening
<1>13. ASSUME NEW list \in Seq(S), Distinct(list)
       PROVE  /\ Firstly(list, n) \in Seq(S) /\ Distinct(Firstly(list, n))
              /\ list # <<>> => Firstly(list, n) # <<>> /\ Firstly(list, n)[1] = list[1]
  <2> DEFINE F == Firstly(list, n)
  <2>1. /\ F \in Seq(S) /\ Len(F) = IF n < Len(list) THEN n ELSE Len(list)
        /\ \A i \in 1..Len(F) : F[i] = list[i]
        /\ Distinct(F)
    BY <1>13, FirstlyIs
  <2> HIDE DEF F
  <2>2. /\ Len(list) \in Nat /\ DOMAIN list = 1..Len(list) /\ (list # <<>> <=> 1 \in DOMAIN list)
        /\ DOMAIN F = 1..Len(F) /\ (F # <<>> <=> 1 \in DOMAIN F)
    BY <2>1, ListIs
  <2>3. ASSUME list # <<>> PROVE F # <<>> /\ F[1] = list[1]
    <3>1. Len(list) >= 1
      BY <2>2, <2>3
    <3>2. Len(F) >= 1 /\ Len(F) \in Nat
      BY <2>1, <2>2, <3>1
    <3>3. 1 \in 1..Len(F)
      BY <3>2
    <3> QED BY <2>1, <2>2, <3>3
  <2> QED BY <2>1, <2>3 DEF F
<1>14. opening \in Seq(S) /\ Distinct(opening) /\ (first # <<>> => opening # <<>> /\ opening[1] = first[1])
  BY <1>11, <1>12, <1>13
<1>15. /\ At(ordered, W) \in Seq(S) /\ Distinct(At(ordered, W)) /\ ToSet(At(ordered, W)) \cap ToSet(opening) = {}
  <2>1. W \in SUBSET (1..Len(ordered)) /\ \A i \in W : ordered[i] \notin ToSet(opening)
    BY <1>6
  <2> HIDE DEF W
  <2>2. At(ordered, W) \in Seq(S) /\ ToSet(At(ordered, W)) = {ordered[i] : i \in W}
    BY <1>6, <2>1, AtIs
  <2>3. Distinct(At(ordered, W))
    BY <1>6, <2>1, AtOnce
  <2> QED BY <2>1, <2>2, <2>3
<1> HIDE DEF W
<1> DEFINE Z == opening \o At(ordered, W)
<1>16. Z \in Seq(S) /\ Distinct(Z) /\ (first # <<>> => Z # <<>> /\ Z[1] = first[1])
  <2>1. ToSet(opening) \cap ToSet(At(ordered, W)) = {}
    BY <1>15
  <2>2. /\ Z \in Seq(S) /\ Distinct(Z) /\ (opening # <<>> => Z[1] = opening[1] /\ Z # <<>>)
    BY <1>14, <1>15, <2>1, JoinIs
  <2> QED BY <1>14, <2>2
<1>17. padded = Firstly(Z, n)
  OBVIOUS
<1> HIDE DEF Z, padded
<1>18. padded \in Seq(S) /\ Distinct(padded) /\ (first # <<>> => padded # <<>> /\ padded[1] = first[1])
  BY <1>13, <1>16, <1>17
<1>19. ASSUME reserveLayer, NEW w \in S, w.slots.outer # Nothing PROVE \E v \in ToSet(padded) : v.slots.outer # Nothing
  <2>1. first # <<>>
    BY <1>7, <1>8, <1>19
  <2>2. first[1] \in ToSet(first) /\ padded[1] \in ToSet(padded)
    <3>1. 1 \in DOMAIN first /\ 1 \in DOMAIN padded
      BY <1>8, <1>18, <2>1, ListIs
    <3> QED BY <3>1 DEF ToSet
  <2> QED BY <1>8, <1>18, <2>1, <2>2
<1> QED BY <1>1, <1>18, <1>19 DEF L, S

\* What is shown of a list of ranked outfits.
LEMMA BuildVariantsIs ==
  ASSUME NEW req \in Requests, NEW outfits \in Seq(Scoreds(Candidates)),
         \A x, y \in ToSet(outfits) : x.cand.slots = y.cand.slots => x = y,
         \A x \in ToSet(outfits) : Filled(x.cand.slots) \subseteq DOMAIN req.closet /\ Filled(x.cand.slots) # {},
         NEW n \in Nat \ {0}
  PROVE  LET L == BuildVariants(outfits, req, n).selected
         IN  /\ L \in Seq(ToSet(L)) /\ Distinct(L)
             /\ \A v \in ToSet(L) : \E x \in ToSet(outfits) : /\ v = AssembleVariant(x, req)
                                                              /\ ~Excluded(req, x.cand.slots)
             /\ /\ NeedsLayer(req)
                /\ \E x \in ToSet(outfits) : ~Excluded(req, x.cand.slots) /\ x.cand.slots.outer # Nothing
                => \E v \in ToSet(L) : v.slots.outer # Nothing
<1> DEFINE P == {i \in DOMAIN outfits : ~Excluded(req, outfits[i].cand.slots)}
           left == At(outfits, P)
           variants == [i \in DOMAIN left |-> AssembleVariant(left[i], req)]
           L == BuildVariants(outfits, req, n).selected
<1>1. L = SelectSpread(variants, n, NeedsLayer(req)).selected
  BY DEF BuildVariants, SelectionPool, Where
<1>2. /\ P \in SUBSET (1..Len(outfits))
      /\ \A i : i \in P <=> i \in DOMAIN outfits /\ ~Excluded(req, outfits[i].cand.slots)
      /\ \A x : x \in ToSet(outfits) <=> \E i \in DOMAIN outfits : outfits[i] = x
  BY ListIs
<1> HIDE DEF P, L
<1>3. left \in Seq(Scoreds(Candidates)) /\ ToSet(left) = {outfits[i] : i \in P}
  BY <1>2, AtIs
<1>4. \A x : x \in ToSet(left) <=> x \in ToSet(outfits) /\ ~Excluded(req, x.cand.slots)
  BY <1>2, <1>3
<1> HIDE DEF left
<1>5. /\ Len(left) \in Nat /\ DOMAIN left = 1..Len(left) /\ \A i \in DOMAIN left : left[i] \in Scoreds(Candidates)
      /\ \A x : x \in ToSet(left) <=> \E i \in DOMAIN left : left[i] = x
  BY <1>3, ListIs
<1>6. \A x : AssembleVariant(x, req).slots = x.cand.slots
  BY DEF AssembleVariant
<1>7. \A x \in ToSet(left) : /\ AssembleVariant(x, req).score \in Int /\ AssembleVariant(x, req).compat \in Int
                             /\ x.cand.slots \in SlotMaps(Ids)
  <2> TAKE x \in ToSet(left)
  <2>1. x.cand \in Candidates /\ x.terms \in Terms /\ Filled(x.cand.slots) \subseteq DOMAIN req.closet
        /\ Filled(x.cand.slots) # {}
    BY <1>4, <1>5 DEF Scoreds
  <2>2. Score(x.terms) \in Int /\ Compatibility(x.cand.slots, req) \in Int
    BY <2>1, ScoreIs, CompatibilityIs
  <2>3. AssembleVariant(x, req).score = Score(x.terms) /\ AssembleVariant(x, req).compat = Compatibility(x.cand.slots, req)
    BY DEF AssembleVariant
  <2> QED BY <2>1, <2>2, <2>3 DEF Candidates
<1>8. DOMAIN variants = DOMAIN left /\ \A i \in DOMAIN left : variants[i] = AssembleVariant(left[i], req)
  OBVIOUS
<1>9. variants \in Seq(ToSet(variants))
  <2>1. \A i \in DOMAIN left : variants[i] \in ToSet(variants)
    BY <1>8 DEF ToSet
  <2>2. variants = [i \in 1..Len(left) |-> variants[i]]
    BY <1>5, <1>8
  <2> HIDE DEF variants
  <2>3. variants \in [1..Len(left) -> ToSet(variants)]
    BY <1>5, <2>1, <2>2
  <2> QED BY <1>5, <2>3
<1> HIDE DEF variants
<1>10. \A v : v \in ToSet(variants) <=> \E x \in ToSet(left) : v = AssembleVariant(x, req)
  <2>1. \A v : v \in ToSet(variants) <=> \E i \in DOMAIN left : variants[i] = v
    BY <1>8 DEF ToSet
  <2> QED BY <1>5, <1>8, <2>1
<1>11. \A v \in ToSet(variants) : v.score \in Int /\ v.compat \in Int /\ v.slots \in SlotMaps(Ids)
  BY <1>6, <1>7, <1>10
<1>12. \A v, w \in ToSet(variants) : v.slots = w.slots => v = w
  BY <1>4, <1>6, <1>10
<1>13. NeedsLayer(req) \in BOOLEAN
  BY DEF NeedsLayer
<1>14. LET M == SelectSpread(variants, n, NeedsLayer(req)).selected
       IN  /\ M \in Seq(ToSet(variants)) /\ Distinct(M)
           /\ NeedsLayer(req) /\ (\E v \in ToSet(variants) : v.slots.outer # Nothing)
                => \E v \in ToSet(M) : v.slots.outer # Nothing
  <2> DEFINE layer == NeedsLayer(req)
  <2>1. layer \in BOOLEAN
    BY <1>13
  <2> HIDE DEF layer
  <2>2. LET M == SelectSpread(variants, n, layer).selected
        IN  /\ M \in Seq(ToSet(variants)) /\ Distinct(M)
            /\ layer /\ (\E v \in ToSet(variants) : v.slots.outer # Nothing)
                 => \E v \in ToSet(M) : v.slots.outer # Nothing
    BY <1>9, <1>11, <1>12, <2>1, SelectSpreadIs
  <2> QED BY <2>2 DEF layer
<1>15. /\ L \in Seq(ToSet(variants)) /\ Distinct(L)
       /\ NeedsLayer(req) /\ (\E v \in ToSet(variants) : v.slots.outer # Nothing)
            => \E v \in ToSet(L) : v.slots.outer # Nothing
  BY <1>1, <1>14
<1>16. L \in Seq(ToSet(L)) /\ ToSet(L) \subseteq ToSet(variants)
  BY <1>15, ListIs
<1>17. \A v \in ToSet(L) : \E x \in ToSet(outfits) : v = AssembleVariant(x, req) /\ ~Excluded(req, x.cand.slots)
  BY <1>4, <1>10, <1>16
<1>18. ASSUME NeedsLayer(req), NEW x \in ToSet(outfits), ~Excluded(req, x.cand.slots), x.cand.slots.outer # Nothing
       PROVE  \E v \in ToSet(L) : v.slots.outer # Nothing
  <2>1. AssembleVariant(x, req) \in ToSet(variants) /\ AssembleVariant(x, req).slots.outer # Nothing
    BY <1>4, <1>6, <1>10, <1>18
  <2> QED BY <1>15, <1>18, <2>1
<1> QED BY <1>15, <1>16, <1>17, <1>18 DEF L
-----------------------------------------------------------------------------
(***************************************************************************)
(* An answered render, from the reply to the outfits that are shown.       *)
(***************************************************************************)

\* A reply was validated, ranked and spread for the request.
Rendering(req, reply, bound, shown, C, R, L) ==
  /\ req \in Requests /\ reply \in Replies /\ bound \in Nat /\ shown \subseteq DOMAIN req.closet
  /\ C = Validated(reply, bound, shown, req.closet)
  /\ \E draw \in DrawsOf(Kept(req, C)) : R = RankedBy(req, Kept(req, C), draw)
  /\ L = BuildVariants(R.outfits, req, NSurfaced).selected

\* What is shown is made of kept candidates, one variant each.
LEMMA ShownIs ==
  ASSUME NEW req, NEW reply, NEW bound, NEW shown, NEW C, NEW R, NEW L,
         Rendering(req, reply, bound, shown, C, R, L)
  PROVE  /\ Vetted(C) /\ Vetted(Kept(req, C)) /\ ToSet(C) \subseteq Candidates
         /\ L \in Seq(ToSet(L)) /\ Distinct(L)
         /\ \A v \in ToSet(L) :
              \E x \in ToSet(R.funnel) : /\ v = AssembleVariant(x, req) /\ ~Excluded(req, x.cand.slots)
                                         /\ x.cand \in ToSet(Kept(req, C))
         /\ /\ NeedsLayer(req)
            /\ \E x \in ToSet(R.outfits) : ~Excluded(req, x.cand.slots) /\ x.cand.slots.outer # Nothing
            => \E v \in ToSet(L) : v.slots.outer # Nothing
         /\ \A x, y \in ToSet(R.funnel) : x.cand.index = y.cand.index => x = y
<1>0. /\ req \in Requests /\ reply \in Replies /\ bound \in Nat /\ shown \subseteq DOMAIN req.closet
      /\ C = Validated(reply, bound, shown, req.closet)
      /\ L = BuildVariants(R.outfits, req, NSurfaced).selected
  BY DEF Rendering
<1> PICK draw \in DrawsOf(Kept(req, C)) : R = RankedBy(req, Kept(req, C), draw)
  BY DEF Rendering
<1>1. /\ Vetted(C)
      /\ \A c \in ToSet(C) : /\ SlotIssue(c.slots) = "ok" /\ PoolIssue(c.slots, shown, req.closet) = "ok"
                             /\ c.move \subseteq Filled(c.slots)
  BY <1>0, AcceptedIs DEF Vetted
<1>2. /\ Vetted(Kept(req, C)) /\ ToSet(Kept(req, C)) \subseteq ToSet(C) /\ ToSet(C) \subseteq Candidates
  BY <1>1, KeptIs, ListIs DEF Vetted
<1>3. /\ R.funnel \in Seq(Scoreds(Candidates)) /\ Once(R.funnel) /\ Distinct(R.funnel)
      /\ \A x \in ToSet(R.funnel) : x.cand \in ToSet(Kept(req, C))
      /\ R.outfits = Firstly(R.funnel, K)
  BY <1>0, <1>2, RankingIs
<1>4. K \in Nat /\ NSurfaced \in Nat \ {0}
  BY PipelineAssumption
<1>5. R.outfits \in Seq(Scoreds(Candidates)) /\ ToSet(R.outfits) \subseteq ToSet(R.funnel)
  BY <1>3, <1>4, FirstlyIs
<1>6. \A x, y \in ToSet(R.funnel) : x.cand = y.cand => x = y
  <2>1. \A x : x \in ToSet(R.funnel) <=> \E i \in DOMAIN R.funnel : R.funnel[i] = x
    BY DEF ToSet
  <2> QED BY <1>3, <2>1 DEF Once
<1>7. \A x, y \in ToSet(R.funnel) : x.cand.index = y.cand.index => x = y
  BY <1>2, <1>3, <1>6 DEF Vetted
<1>8. \A x, y \in ToSet(R.outfits) : x.cand.slots = y.cand.slots => x = y
  BY <1>2, <1>3, <1>5, <1>6 DEF Vetted
<1>9. \A c \in ToSet(C) : Filled(c.slots) \subseteq DOMAIN req.closet /\ Filled(c.slots) # {}
  <2> TAKE c \in ToSet(C)
  <2>1. \A s \in Slots : Fits(c.slots, s, shown, req.closet)
    BY <1>1, PoolOk
  <2>2. Filled(c.slots) \subseteq shown
    BY <2>1 DEF Filled, Fits
  <2>3. c.slots.dress # Nothing \/ c.slots.top # Nothing
    BY <1>1, SlotOk
  <2>4. Filled(c.slots) # {}
    BY <2>3, SlotsAre DEF Filled
  <2> QED BY <1>0, <2>2, <2>4
<1>10. \A x \in ToSet(R.outfits) : Filled(x.cand.slots) \subseteq DOMAIN req.closet /\ Filled(x.cand.slots) # {}
  BY <1>2, <1>3, <1>5, <1>9
<1>11. /\ L \in Seq(ToSet(L)) /\ Distinct(L)
       /\ \A v \in ToSet(L) : \E x \in ToSet(R.outfits) : v = AssembleVariant(x, req) /\ ~Excluded(req, x.cand.slots)
       /\ /\ NeedsLayer(req)
          /\ \E x \in ToSet(R.outfits) : ~Excluded(req, x.cand.slots) /\ x.cand.slots.outer # Nothing
          => \E v \in ToSet(L) : v.slots.outer # Nothing
  BY <1>0, <1>4, <1>5, <1>8, <1>10, BuildVariantsIs
<1> QED BY <1>1, <1>2, <1>3, <1>5, <1>7, <1>11

\* How a render that was served got its answer.
LEMMA ServedIs ==
  ASSUME EngineInv, Served
  PROVE  /\ Rendering(request, Last(attempts), asked, Members(pool), accepted, ranking, spread.selected)
         /\ drops = Removed(request, accepted)
         /\ filed = FiledBy(request, Evidence(Last(attempts), asked, Members(pool), accepted, drops,
                                              ranking, spread.selected))
<1>1. request \in Requests /\ Preflight(request) /\ attempts \in Seq(Replies)
  BY DEF EngineInv, Progress
<1>2. SampleOf(sampled, request.closet)
  BY <1>1, PoolsAre DEF EngineInv, SampleKept
<1>3. Members(pool) \subseteq DOMAIN request.closet
  <2>1. \A t \in Types : Scoped(request, sampled)[t] \subseteq DOMAIN request.closet
    BY <1>1, <1>2, ScopedIs
  <2>2. pool = Scoped(request, sampled)
    BY DEF EngineInv, ScopeKept
  <2> QED BY <2>1, <2>2 DEF Members
<1>4. asked \in Nat
  <2>1. asked \in 1..MaxCandidates
    BY <1>1, <1>2, AskedIs DEF EngineInv, SampleKept, ScopeKept
  <2> QED BY <2>1, SamplerAssumption
<1>5. Last(attempts) \in Replies
  <2>1. attempts # <<>>
    BY DEF EngineInv, ReplyKept
  <2> QED BY <1>1, <2>1, LenProperties, EmptySeq DEF Last
<1>6. Rendering(request, Last(attempts), asked, Members(pool), accepted, ranking, spread.selected)
  BY <1>1, <1>3, <1>4, <1>5 DEF EngineInv, AcceptedKept, RankingKept, AnswerKept, Rendering
<1> QED BY <1>6 DEF EngineInv, AcceptedKept, AnswerKept

\* An outfit is shown with garments its style move points at.
LEMMA MoveIs ==
  ASSUME NEW req, NEW x, SlotIssue(x.cand.slots) = "ok", x.cand.move # {}, x.cand.move \subseteq Filled(x.cand.slots)
  PROVE  MoveShown(x, req) # {} /\ MoveShown(x, req) \subseteq Filled(x.cand.slots)
<1> DEFINE m == x.cand.slots
<1>1. m.dress # Nothing \/ m.top # Nothing
  BY SlotOk
<1>2. \A s \in Slots : m[s] # Nothing => m[s] \in Filled(m)
  BY DEF Filled
<1>3. /\ m.outer # Nothing => m.outer \in Filled(m)
      /\ m.top # Nothing => m.top \in Filled(m)
      /\ m.dress # Nothing => m.dress \in Filled(m)
  BY <1>2, SlotsAre
<1> QED BY <1>1, <1>3 DEF MoveShown
\* Every outfit that is shown keeps the controls, and no two are the same.
LEMMA ShownKeeps ==
  ASSUME NEW req, NEW reply, NEW bound, NEW shown, NEW C, NEW R, NEW L,
         Rendering(req, reply, bound, shown, C, R, L)
  PROVE  /\ \A v \in ToSet(L) : /\ v.slots \in Wearable(req, shown) /\ ~Excluded(req, v.slots)
                                /\ v.move # {} /\ v.move \subseteq Filled(v.slots)
         /\ \A i, j \in DOMAIN L : FullSignature(L[i].slots) = FullSignature(L[j].slots) => i = j
<1>0. /\ req \in Requests /\ reply \in Replies /\ bound \in Nat
      /\ C = Validated(reply, bound, shown, req.closet)
  BY DEF Rendering
<1>1. /\ Vetted(C) /\ Vetted(Kept(req, C)) /\ ToSet(C) \subseteq Candidates
      /\ L \in Seq(ToSet(L)) /\ Distinct(L)
      /\ \A v \in ToSet(L) :
           \E x \in ToSet(R.funnel) : /\ v = AssembleVariant(x, req) /\ ~Excluded(req, x.cand.slots)
                                      /\ x.cand \in ToSet(Kept(req, C))
      /\ /\ NeedsLayer(req)
         /\ \E x \in ToSet(R.outfits) : ~Excluded(req, x.cand.slots) /\ x.cand.slots.outer # Nothing
         => \E v \in ToSet(L) : v.slots.outer # Nothing
      /\ \A x, y \in ToSet(R.funnel) : x.cand.index = y.cand.index => x = y
  BY ShownIs
<1>2. \A c \in ToSet(C) : /\ SlotIssue(c.slots) = "ok" /\ PoolIssue(c.slots, shown, req.closet) = "ok"
                          /\ c.move \subseteq Filled(c.slots)
  BY <1>0, AcceptedIs
<1>3. \A c : c \in ToSet(Kept(req, C)) <=> c \in ToSet(C) /\ DropBeforeRanking(req, c) = "kept"
  BY <1>1, KeptIs
<1>4. \A x \in ToSet(R.funnel) : Filled(x.cand.slots) \cap req.disliked = {}
  <2> PICK draw \in DrawsOf(Kept(req, C)) : R = RankedBy(req, Kept(req, C), draw)
    BY DEF Rendering
  <2> QED BY <1>0, <1>1, RankingIs
<1>5. \A x : AssembleVariant(x, req).slots = x.cand.slots /\ AssembleVariant(x, req).move = MoveShown(x, req)
  BY DEF AssembleVariant
<1>6. ASSUME NEW v \in ToSet(L)
      PROVE  /\ v.slots \in Wearable(req, shown) /\ ~Excluded(req, v.slots)
             /\ v.move # {} /\ v.move \subseteq Filled(v.slots)
  <2>1. PICK x \in ToSet(R.funnel) : /\ v = AssembleVariant(x, req) /\ ~Excluded(req, x.cand.slots)
                                     /\ x.cand \in ToSet(Kept(req, C))
    BY <1>1
  <2>2. x.cand \in ToSet(C) /\ x.cand \in Candidates /\ DropBeforeRanking(req, x.cand) = "kept"
    BY <1>1, <1>3, <2>1
  <2>3. LocksOf(req) \subseteq Filled(x.cand.slots) /\ x.cand.move # {}
    BY <2>2 DEF DropBeforeRanking, LocksOf
  <2>4. x.cand.slots \in SlotMaps(Ids)
    BY <2>2 DEF Candidates
  <2>5. x.cand.slots \in Wearable(req, shown)
    <3>1. /\ SlotIssue(x.cand.slots) = "ok" /\ \A s \in Slots : Fits(x.cand.slots, s, shown, req.closet)
          /\ ~(x.cand.slots.mid # Nothing /\ req.closet[x.cand.slots.top].mid)
      BY <1>2, <2>2, PoolOk
    <3> QED BY <1>4, <2>3, <2>4, <3>1, SlotMapIs, WearableIs
  <2>6. MoveShown(x, req) # {} /\ MoveShown(x, req) \subseteq Filled(x.cand.slots)
    BY <1>2, <2>2, <2>3, MoveIs
  <2> QED BY <1>5, <2>1, <2>5, <2>6
<1>7. ASSUME NEW i \in DOMAIN L, NEW j \in DOMAIN L, FullSignature(L[i].slots) = FullSignature(L[j].slots)
      PROVE  i = j
  <2>1. L[i] \in ToSet(L) /\ L[j] \in ToSet(L)
    BY DEF ToSet
  <2>2. PICK x \in ToSet(R.funnel) : L[i] = AssembleVariant(x, req) /\ x.cand \in ToSet(Kept(req, C))
    BY <1>1, <2>1
  <2>3. PICK y \in ToSet(R.funnel) : L[j] = AssembleVariant(y, req) /\ y.cand \in ToSet(Kept(req, C))
    BY <1>1, <2>1
  <2>4. x.cand = y.cand
    BY <1>1, <1>5, <1>7, <2>2, <2>3 DEF Vetted
  <2>5. x = y
    BY <1>1, <2>4
  <2> QED BY <1>1, <2>2, <2>3, <2>5 DEF Distinct
<1> QED BY <1>6, <1>7

\* Whatever was served, the controls were kept.
LEMMA ControlsFollow == EngineInv => ControlsKept
<1> SUFFICES ASSUME EngineInv PROVE ControlsKept
  OBVIOUS
<1>1. CASE ~Served
  <2>1. spread.selected = <<>>
    BY <1>1 DEF EngineInv, AnswerKept, NoSpread
  <2>2. DOMAIN spread.selected = {} /\ Surfaced = {}
    BY <2>1, EmptySeq DEF Surfaced, ToSet
  <2> QED BY <2>2 DEF ControlsKept
<1>2. CASE Served
  <2>1. Rendering(request, Last(attempts), asked, Members(pool), accepted, ranking, spread.selected)
    BY <1>2, ServedIs
  <2>2. /\ \A v \in ToSet(spread.selected) :
             /\ v.slots \in Wearable(request, Members(pool)) /\ ~Excluded(request, v.slots)
             /\ v.move # {} /\ v.move \subseteq Filled(v.slots)
        /\ \A i, j \in DOMAIN spread.selected :
             FullSignature(spread.selected[i].slots) = FullSignature(spread.selected[j].slots) => i = j
    BY <2>1, ShownKeeps
  <2> QED BY <2>2 DEF ControlsKept, Surfaced
<1> QED BY <1>1, <1>2

\* Whatever the model wrote and the wearer asked, an outfit that is shown is
\* one the pool can make with every lock and no dislike, is not the outfit
\* being replaced, has a style move among its garments, and is shown once.
THEOREM ControlsAreKept == Spec => []ControlsKept
BY EngineHistory, ControlsFollow, PTL

\* In rain or wind a practical layered outfit that reached the ranker leads
\* to one that is shown.
LEMMA LayerFollows == EngineInv => LayerOffered
<1> SUFFICES ASSUME EngineInv, stage = "answered", NEW c \in ToSet(Kept(request, accepted)),
                    EligibleOutfit(request, c.slots)
             PROVE  LayerChoice(request, [i \in DOMAIN spread.selected |-> spread.selected[i].slots]) = "offered"
  BY DEF LayerOffered
<1>1. Served
  <2> SUFFICES ASSUME ~Served PROVE FALSE
    OBVIOUS
  <2>1. accepted = <<>>
    BY DEF EngineInv, AcceptedKept
  <2>2. Vetted(<<>>)
    BY EmptySeq DEF Vetted, Distinct, ToSet
  <2>3. c \in ToSet(<<>>)
    BY <2>1, <2>2, KeptIs
  <2> QED BY <2>3, EmptySeq DEF ToSet
<1>2. Rendering(request, Last(attempts), asked, Members(pool), accepted, ranking, spread.selected)
  BY <1>1, ServedIs
<1>3. request \in Requests
  BY <1>2 DEF Rendering
<1>4. /\ Vetted(Kept(request, accepted))
      /\ /\ NeedsLayer(request)
         /\ \E x \in ToSet(ranking.outfits) : ~Excluded(request, x.cand.slots) /\ x.cand.slots.outer # Nothing
         => \E v \in ToSet(spread.selected) : v.slots.outer # Nothing
  BY <1>2, ShownIs
<1>5. PICK x \in ToSet(ranking.outfits) : EligibleOutfit(request, x.cand.slots)
  <2> PICK draw \in DrawsOf(Kept(request, accepted)) : ranking = RankedBy(request, Kept(request, accepted), draw)
    BY <1>2 DEF Rendering
  <2> QED BY <1>3, <1>4, RankingIs
<1>6. NeedsLayer(request) /\ ~Excluded(request, x.cand.slots) /\ x.cand.slots.outer # Nothing
  <2>1. Nothing \notin DOMAIN request.closet
    BY <1>3, RequestAssumption DEF Ids
  <2> QED BY <1>5, <2>1 DEF EligibleOutfit, Excluded
<1>7. PICK i \in DOMAIN spread.selected : spread.selected[i].slots.outer # Nothing
  BY <1>4, <1>6 DEF ToSet
<1>8. LET list == [n \in DOMAIN spread.selected |-> spread.selected[n].slots]
      IN  i \in DOMAIN list /\ list[i].outer # Nothing
  BY <1>7
<1> QED BY <1>6, <1>8 DEF LayerChoice

\* The ranker's cut, its cooldown, the exclusion and the spread each spare a
\* practical layered outfit: when one reached the ranker, one is shown.
THEOREM LayerIsOffered == Spec => []LayerOffered
BY EngineHistory, LayerFollows, PTL
-----------------------------------------------------------------------------
(***************************************************************************)
(* What is filed of a draft.                                               *)
(***************************************************************************)

\* The first of the elements that pass a test, if there is one.
LEMMA HeadIs ==
  ASSUME NEW T, NEW list \in Seq(T), NEW W, NEW P, P = {i \in DOMAIN list : list[i] \in W}
  PROVE  /\ At(list, P) # <<>> <=> \E x \in ToSet(list) : x \in W
         /\ At(list, P) # <<>> => At(list, P)[1] \in ToSet(list) /\ At(list, P)[1] \in W
<1>1. At(list, P) \in Seq(T) /\ ToSet(At(list, P)) = ToSet(list) \cap W
  BY KeepIs
<1>2. At(list, P) # <<>> <=> ToSet(list) \cap W # {}
  BY <1>1, ListIs
<1>3. At(list, P) # <<>> => At(list, P)[1] \in ToSet(list) \cap W
  <2> DEFINE A == At(list, P)
  <2>1. A \in Seq(T) /\ ToSet(A) = ToSet(list) \cap W
    BY <1>1
  <2> HIDE DEF A
  <2>2. A # <<>> => A[1] \in ToSet(A)
    BY <2>1, ListIs
  <2> QED BY <2>1, <2>2 DEF A
<1> QED BY <1>2, <1>3

\* A draft is dropped by the ranker once.
LEMMA DroppedOnce ==
  ASSUME NEW req, NEW reply, NEW bound, NEW shown, NEW C, NEW R, NEW L,
         Rendering(req, reply, bound, shown, C, R, L)
  PROVE  \A d, e \in ToSet(R.dropped) : d.cand.index = e.cand.index => d = e
<1>1. Vetted(Kept(req, C))
  BY ShownIs
<1>2. req \in Requests
  BY DEF Rendering
<1> PICK draw \in DrawsOf(Kept(req, C)) : R = RankedBy(req, Kept(req, C), draw)
  BY DEF Rendering
<1>3. /\ \A d \in ToSet(R.dropped) : d.cand \in ToSet(Kept(req, C))
      /\ \A d, e \in ToSet(R.dropped) : d.cand = e.cand => d = e
  BY <1>1, <1>2, RankingIs
<1> QED BY <1>1, <1>3 DEF Vetted

PlacesOf(L, i) == {n \in DOMAIN L : L[n].index = i}

\* Where the candidate of a draft went: it is removed before the ranker,
\* kept in the funnel, or dropped by the ranker, and shown once at the most
\* and only from the funnel.
LEMMA WentIs ==
  ASSUME NEW req, NEW reply, NEW bound, NEW shown, NEW C, NEW R, NEW L,
         Rendering(req, reply, bound, shown, C, R, L), NEW i \in DOMAIN reply.drafts,
         NEW has \in BOOLEAN, has <=> \E c \in ToSet(C) : c.index = i,
         NEW removed \in BOOLEAN, removed <=> \E c \in ToSet(Removed(req, C)) : c.index = i,
         NEW funnel \in BOOLEAN, funnel <=> \E x \in ToSet(R.funnel) : x.cand.index = i,
         NEW dropped \in BOOLEAN, dropped <=> \E d \in ToSet(R.dropped) : d.cand.index = i
  PROVE  /\ removed \/ funnel \/ dropped <=> has
         /\ ~(removed /\ funnel) /\ ~(removed /\ dropped) /\ ~(funnel /\ dropped)
         /\ PlacesOf(L, i) # {} => funnel
         /\ Cardinality(PlacesOf(L, i)) = IF PlacesOf(L, i) # {} THEN 1 ELSE 0
<1> DEFINE place == {n \in DOMAIN L : L[n].index = i}
<1>a. /\ Vetted(C) /\ Vetted(Kept(req, C)) /\ Distinct(L)
      /\ \A v \in ToSet(L) :
           \E x \in ToSet(R.funnel) : /\ v = AssembleVariant(x, req) /\ ~Excluded(req, x.cand.slots)
                                      /\ x.cand \in ToSet(Kept(req, C))
      /\ \A x, y \in ToSet(R.funnel) : x.cand.index = y.cand.index => x = y
  BY ShownIs
<1>0. /\ Vetted(C) /\ Vetted(Kept(req, C)) /\ req \in Requests
      /\ \A v \in ToSet(L) : \E x \in ToSet(R.funnel) : v = AssembleVariant(x, req)
      /\ \A x, y \in ToSet(R.funnel) : x.cand.index = y.cand.index => x = y
      /\ Distinct(L)
  BY <1>a DEF Rendering
<1> PICK draw \in DrawsOf(Kept(req, C)) : R = RankedBy(req, Kept(req, C), draw)
  BY DEF Rendering
<1>1. /\ \A x \in ToSet(R.funnel) : x.cand \in ToSet(Kept(req, C))
      /\ \A d \in ToSet(R.dropped) : /\ d.cand \in ToSet(Kept(req, C))
                                     /\ \A x \in ToSet(R.funnel) : x.cand.index # d.cand.index
      /\ \A c \in ToSet(Kept(req, C)) : \/ \E x \in ToSet(R.funnel) : x.cand = c
                                        \/ \E d \in ToSet(R.dropped) : d.cand = c
      /\ \A d, e \in ToSet(R.dropped) : d.cand = e.cand => d = e
  BY <1>0, RankingIs
<1>2. /\ \A c : c \in ToSet(Kept(req, C)) <=> c \in ToSet(C) /\ DropBeforeRanking(req, c) = "kept"
      /\ \A c : c \in ToSet(Removed(req, C)) <=> c \in ToSet(C) /\ DropBeforeRanking(req, c) # "kept"
  BY <1>0, KeptIs
<1>3. \A c, d \in ToSet(C) : c.index = d.index => c = d
  BY <1>0 DEF Vetted
<1>4. removed \/ funnel \/ dropped <=> has
  BY <1>1, <1>2
<1>5. ~(removed /\ funnel) /\ ~(removed /\ dropped) /\ ~(funnel /\ dropped)
  BY <1>1, <1>2, <1>3
<1>6. \A v \in ToSet(L) : \E x \in ToSet(R.funnel) : v = AssembleVariant(x, req) /\ v.index = x.cand.index
  BY <1>0 DEF AssembleVariant
<1>7. \A n \in DOMAIN L : L[n] \in ToSet(L)
  BY DEF ToSet
<1>8. place # {} => funnel
  BY <1>6, <1>7
<1>9. \A m, n \in place : m = n
  <2> TAKE m, n \in place
  <2>1. m \in DOMAIN L /\ n \in DOMAIN L /\ L[m].index = i /\ L[n].index = i
    OBVIOUS
  <2>2. PICK x \in ToSet(R.funnel) : L[m] = AssembleVariant(x, req) /\ L[m].index = x.cand.index
    BY <1>6, <1>7, <2>1
  <2>3. PICK y \in ToSet(R.funnel) : L[n] = AssembleVariant(y, req) /\ L[n].index = y.cand.index
    BY <1>6, <1>7, <2>1
  <2>4. x = y
    BY <1>0, <2>1, <2>2, <2>3
  <2> QED BY <1>0, <2>1, <2>2, <2>3, <2>4 DEF Distinct
<1>10. Cardinality(place) = IF place # {} THEN 1 ELSE 0
  <2>1. CASE place = {}
    BY <2>1, FS_EmptySet
  <2>2. CASE place # {}
    <3>1. PICK n : place = {n}
      BY <1>9, <2>2
    <3> QED BY <2>2, <3>1, FS_Singleton
  <2> QED BY <2>1, <2>2
<1> QED BY <1>4, <1>5, <1>8, <1>10 DEF PlacesOf

\* Why a candidate went no further: the one reason of the step that dropped
\* it, and a score with it only when the diversity steps did.
LEMMA ReasonIs ==
  ASSUME NEW req, NEW reply, NEW bound, NEW shown, NEW C, NEW R, NEW L,
         Rendering(req, reply, bound, shown, C, R, L), NEW i \in DOMAIN reply.drafts,
         NEW removed \in BOOLEAN, removed <=> \E c \in ToSet(Removed(req, C)) : c.index = i,
         NEW dropped \in BOOLEAN, dropped <=> \E d \in ToSet(R.dropped) : d.cand.index = i,
         NEW scored \in BOOLEAN, scored <=> \E d \in ToSet(R.dropped) : d.cand.index = i /\ d.terms # <<>>,
         NEW drop, drop = DropOf(req, Evidence(reply, bound, shown, C, Removed(req, C), R, L), i)
  PROVE  /\ dropped => drop # "none" /\ (scored <=> drop = "diversity_capped")
         /\ scored => dropped
         /\ ~dropped /\ removed => drop \notin {"none", "diversity_capped"}
         /\ ~dropped /\ ~removed => drop = "none"
<1> DEFINE D == R.dropped
           M == Removed(req, C)
           V == {d \in ToSet(D) : d.cand.index = i}
           W == {c \in ToSet(M) : c.index = i}
           P == {n \in DOMAIN D : D[n] \in V}
           Q == {n \in DOMAIN M : M[n] \in W}
<1>a. Vetted(C) /\ Vetted(Kept(req, C))
  BY ShownIs
<1>0. Vetted(C) /\ Vetted(Kept(req, C)) /\ req \in Requests
  BY <1>a DEF Rendering
<1> PICK draw \in DrawsOf(Kept(req, C)) : R = RankedBy(req, Kept(req, C), draw)
  BY DEF Rendering
<1>1. /\ \A d \in ToSet(D) : /\ d.reason \in {"contextual_disliked", "cooldown_dropped", "diversity_capped"}
                             /\ d.terms # <<>> <=> d.reason = "diversity_capped"
      /\ D \in Seq(ToSet(D))
  BY <1>0, RankingIs
<1>2. /\ Vetted(M)
      /\ \A c : c \in ToSet(M) <=> c \in ToSet(C) /\ DropBeforeRanking(req, c) # "kept"
  BY <1>0, KeptIs
<1>3. \A d, e \in ToSet(D) : d.cand.index = i /\ e.cand.index = i => d = e
  BY DroppedOnce
<1>4. M \in Seq(Candidates)
  BY <1>2 DEF Vetted
<1>5. drop = CASE At(D, P) # <<>>                   -> At(D, P)[1].reason
               [] At(D, P) = <<>> /\ At(M, Q) # <<>> -> DropBeforeRanking(req, At(M, Q)[1])
               [] OTHER                             -> "none"
  <2>1. {n \in DOMAIN D : D[n].cand.index = i} = P
    BY DEF ToSet
  <2>2. {n \in DOMAIN M : M[n].index = i} = Q
    BY DEF ToSet
  <2> HIDE DEF P, Q
  <2> QED BY <2>1, <2>2 DEF DropOf, Evidence, Where
<1>6. /\ At(D, P) # <<>> <=> \E x \in ToSet(D) : x \in V
      /\ At(D, P) # <<>> => At(D, P)[1] \in ToSet(D) /\ At(D, P)[1] \in V
  <2> HIDE DEF D, V
  <2> QED BY <1>1, HeadIs
<1>7. /\ At(M, Q) # <<>> <=> \E x \in ToSet(M) : x \in W
      /\ At(M, Q) # <<>> => At(M, Q)[1] \in ToSet(M) /\ At(M, Q)[1] \in W
  <2> HIDE DEF M, W
  <2> QED BY <1>4, HeadIs
<1> HIDE DEF P, Q
<1>8. ASSUME dropped PROVE drop # "none" /\ (scored <=> drop = "diversity_capped")
  <2>1. At(D, P) # <<>> /\ drop = At(D, P)[1].reason /\ At(D, P)[1] \in ToSet(D) /\ At(D, P)[1].cand.index = i
    BY <1>5, <1>6, <1>8
  <2> QED BY <1>1, <1>3, <2>1
<1>9. ASSUME ~dropped, removed PROVE drop \notin {"none", "diversity_capped"}
  <2>1. At(D, P) = <<>> /\ At(M, Q) # <<>>
    BY <1>6, <1>7, <1>9
  <2>2. drop = DropBeforeRanking(req, At(M, Q)[1]) /\ At(M, Q)[1] \in ToSet(M)
    BY <1>5, <1>7, <2>1
  <2>3. \A c : DropBeforeRanking(req, c) \in {"rescue_forced_item_absent", "stylemove_invalid", "lock_unsatisfied",
                                              "source_membership_excluded", "kept"}
    BY DEF DropBeforeRanking
  <2> QED BY <1>2, <2>2, <2>3
<1>10. ASSUME ~dropped, ~removed PROVE drop = "none"
  BY <1>5, <1>6, <1>7, <1>10
<1> QED BY <1>8, <1>9, <1>10
\* What the snapshot files of one draft says where it went.
LEMMA FileIs ==
  ASSUME NEW req, NEW reply, NEW bound, NEW shown, NEW C, NEW R, NEW L,
         Rendering(req, reply, bound, shown, C, R, L), NEW i \in DOMAIN reply.drafts,
         NEW f, f = FileOf(req, Evidence(reply, bound, shown, C, Removed(req, C), R, L), i),
         NEW funnel \in BOOLEAN, funnel <=> \E n \in DOMAIN R.funnel : R.funnel[n].cand.index = i
  PROVE  /\ f.accepted <=> f.codes = {} /\ ~(~reply.root \/ i > bound)
         /\ f.stage = "generated" <=> ~f.accepted
         /\ f.accepted => (f.drop # "none" <=> ~funnel)
         /\ f.scored <=> f.accepted /\ f.drop \in {"none", "diversity_capped"}
         /\ Cardinality(f.place) = (IF f.stage = "shown" THEN 1 ELSE 0)
         /\ f.stage = "shown" => f.drop = "none"
<1> DEFINE run == Evidence(reply, bound, shown, C, Removed(req, C), R, L)
           has == \E c \in ToSet(C) : c.index = i
           removed == \E c \in ToSet(Removed(req, C)) : c.index = i
           dropped == \E d \in ToSet(R.dropped) : d.cand.index = i
           scored == \E d \in ToSet(R.dropped) : d.cand.index = i /\ d.terms # <<>>
           place == PlacesOf(L, i)
           drop == DropOf(req, run, i)
<1>1. /\ run.reply = reply /\ run.asked = bound /\ run.shown = shown /\ run.accepted = C
      /\ run.ranking = R /\ run.selected = L
  BY DEF Evidence
<1>2. /\ has <=> \E n \in DOMAIN C : C[n].index = i
      /\ dropped <=> \E n \in DOMAIN R.dropped : R.dropped[n].cand.index = i
      /\ scored <=> \E n \in DOMAIN R.dropped : R.dropped[n].cand.index = i /\ R.dropped[n].terms # <<>>
      /\ funnel <=> \E x \in ToSet(R.funnel) : x.cand.index = i
  BY DEF ToSet
<1>3. /\ removed \/ funnel \/ dropped <=> has
      /\ ~(removed /\ funnel) /\ ~(removed /\ dropped) /\ ~(funnel /\ dropped)
      /\ place # {} => funnel
      /\ Cardinality(place) = IF place # {} THEN 1 ELSE 0
  <2> DEFINE gone == \E x \in ToSet(R.funnel) : x.cand.index = i
  <2>1. /\ has \in BOOLEAN /\ (has <=> \E c \in ToSet(C) : c.index = i)
        /\ removed \in BOOLEAN /\ (removed <=> \E c \in ToSet(Removed(req, C)) : c.index = i)
        /\ gone \in BOOLEAN /\ (gone <=> \E x \in ToSet(R.funnel) : x.cand.index = i)
        /\ dropped \in BOOLEAN /\ (dropped <=> \E d \in ToSet(R.dropped) : d.cand.index = i)
    OBVIOUS
  <2> HIDE DEF has, removed, gone, dropped
  <2>2. /\ removed \/ gone \/ dropped <=> has
        /\ ~(removed /\ gone) /\ ~(removed /\ dropped) /\ ~(gone /\ dropped)
        /\ place # {} => gone
        /\ Cardinality(place) = IF place # {} THEN 1 ELSE 0
    BY <2>1, WentIs
  <2>3. funnel <=> gone
    BY <1>2 DEF gone
  <2> QED BY <2>2, <2>3
<1>4. /\ dropped => drop # "none" /\ (scored <=> drop = "diversity_capped")
      /\ scored => dropped
      /\ ~dropped /\ removed => drop \notin {"none", "diversity_capped"}
      /\ ~dropped /\ ~removed => drop = "none"
  <2>1. /\ removed \in BOOLEAN /\ (removed <=> \E c \in ToSet(Removed(req, C)) : c.index = i)
        /\ dropped \in BOOLEAN /\ (dropped <=> \E d \in ToSet(R.dropped) : d.cand.index = i)
        /\ scored \in BOOLEAN /\ (scored <=> \E d \in ToSet(R.dropped) : d.cand.index = i /\ d.terms # <<>>)
        /\ drop = DropOf(req, Evidence(reply, bound, shown, C, Removed(req, C), R, L), i)
    OBVIOUS
  <2> HIDE DEF removed, dropped, scored, drop
  <2> QED BY <2>1, ReasonIs
<1>5. /\ reply.root \in BOOLEAN /\ bound \in Nat /\ i \in Nat
      /\ has <=> reply.root /\ i <= bound /\ Verdict(reply.drafts, i, shown, req.closet) = "accepted"
  <2>1. /\ reply \in Replies /\ bound \in Nat /\ C = Validated(reply, bound, shown, req.closet)
    BY DEF Rendering
  <2>2. has <=> reply.root /\ i <= bound /\ Verdict(reply.drafts, i, shown, req.closet) = "accepted"
    BY <2>1, AcceptedIs
  <2>3. reply.root \in BOOLEAN /\ reply.drafts \in Seq(DraftRecord)
    BY <2>1, ReplyAssumption
  <2> QED BY <2>1, <2>2, <2>3
<1>6. /\ f.stage = IF place # {} THEN "shown" ELSE IF funnel \/ dropped THEN "ranked"
                   ELSE IF has THEN "validated" ELSE "generated"
      /\ f.accepted = (\E n \in DOMAIN C : C[n].index = i)
      /\ f.codes = CodesOf(reply, i, bound, shown, req.closet)
      /\ f.drop = drop /\ f.place = place
      /\ f.scored = (\/ \E n \in DOMAIN R.funnel : R.funnel[n].cand.index = i
                     \/ \E n \in DOMAIN R.dropped : R.dropped[n].cand.index = i /\ R.dropped[n].terms # <<>>)
  <2>1. f = FileOf(req, run, i)
    OBVIOUS
  <2> HIDE DEF run
  <2> QED BY <1>1, <1>2, <2>1 DEF FileOf, PlacesOf
<1>7. (f.accepted <=> has) /\ (f.scored <=> funnel \/ scored)
  BY <1>2, <1>6
<1>8. f.codes = {} <=> ~reply.root \/ i > bound \/ Verdict(reply.drafts, i, shown, req.closet) = "accepted"
  BY <1>6 DEF CodesOf
<1> HIDE DEF run, has, removed, dropped, scored, place, drop
<1>9. f.accepted <=> f.codes = {} /\ ~(~reply.root \/ i > bound)
  BY <1>5, <1>7, <1>8
<1>10. f.stage = "generated" <=> ~f.accepted
  BY <1>3, <1>6, <1>7
<1>11. f.accepted => (f.drop # "none" <=> ~funnel)
  BY <1>3, <1>4, <1>6, <1>7
<1>12. f.scored <=> f.accepted /\ f.drop \in {"none", "diversity_capped"}
  BY <1>3, <1>4, <1>6, <1>7
<1>13. Cardinality(f.place) = (IF f.stage = "shown" THEN 1 ELSE 0)
  BY <1>3, <1>6
<1>14. f.stage = "shown" => f.drop = "none"
  BY <1>3, <1>4, <1>6
<1> QED BY <1>9, <1>10, <1>11, <1>12, <1>13, <1>14

\* Every draft of the last reply is accounted for in what a render files.
LEMMA FunnelFollows == EngineInv => FunnelAccounted
<1> SUFFICES ASSUME EngineInv, filed # <<>>, NEW i \in DOMAIN filed
             PROVE  /\ filed[i].accepted <=> filed[i].codes = {} /\ ~(~Last(attempts).root \/ i > asked)
                    /\ filed[i].stage = "generated" <=> ~filed[i].accepted
                    /\ filed[i].accepted => (filed[i].drop # "none") # (\E n \in DOMAIN ranking.funnel :
                                                                          ranking.funnel[n].cand.index = i)
                    /\ filed[i].scored <=> filed[i].accepted /\ filed[i].drop \in {"none", "diversity_capped"}
                    /\ Cardinality(filed[i].place) = (IF filed[i].stage = "shown" THEN 1 ELSE 0)
                    /\ filed[i].stage = "shown" => filed[i].drop = "none"
  BY DEF FunnelAccounted
<1> DEFINE reply == Last(attempts)
           found == \E n \in DOMAIN ranking.funnel : ranking.funnel[n].cand.index = i
<1>1. Served
  BY DEF EngineInv, AnswerKept
<1>2. /\ Rendering(request, reply, asked, Members(pool), accepted, ranking, spread.selected)
      /\ drops = Removed(request, accepted)
      /\ filed = FiledBy(request, Evidence(reply, asked, Members(pool), accepted, drops, ranking, spread.selected))
  BY <1>1, ServedIs
<1> HIDE DEF reply
<1>3. /\ i \in DOMAIN reply.drafts
      /\ filed[i] = FileOf(request, Evidence(reply, asked, Members(pool), accepted, Removed(request, accepted),
                                             ranking, spread.selected), i)
  BY <1>2 DEF FiledBy, Evidence
<1>4. found \in BOOLEAN
  OBVIOUS
<1>5. found <=> \E n \in DOMAIN ranking.funnel : ranking.funnel[n].cand.index = i
  OBVIOUS
<1> HIDE DEF found
<1> DEFINE f == filed[i]
<1>6. f = FileOf(request, Evidence(reply, asked, Members(pool), accepted, Removed(request, accepted),
                                   ranking, spread.selected), i)
  BY <1>3
<1> HIDE DEF f
<1>7. /\ f.accepted <=> f.codes = {} /\ ~(~reply.root \/ i > asked)
      /\ f.stage = "generated" <=> ~f.accepted
      /\ f.accepted => (f.drop # "none" <=> ~found)
      /\ f.scored <=> f.accepted /\ f.drop \in {"none", "diversity_capped"}
      /\ Cardinality(f.place) = (IF f.stage = "shown" THEN 1 ELSE 0)
      /\ f.stage = "shown" => f.drop = "none"
  BY <1>2, <1>3, <1>4, <1>5, <1>6, FileIs
<1>8. f.accepted => (f.drop # "none") # (\E n \in DOMAIN ranking.funnel : ranking.funnel[n].cand.index = i)
  BY <1>7, Zenon DEF found
<1> QED BY <1>7, <1>8 DEF f, reply

\* However the model answered and whatever was dropped on the way, every
\* draft of the reply is filed as exactly one of rejected, ignored, dropped
\* for one reason, scored and kept back, or shown at one place.
THEOREM FunnelIsAccounted == Spec => []FunnelAccounted
BY EngineHistory, FunnelFollows, PTL
-----------------------------------------------------------------------------
(***************************************************************************)
(* What the engine remembers of the reactions. A list traces the rows at   *)
(* the places Q when it holds them in their order: row at[n] is its n-th.  *)
(***************************************************************************)
Traces(at, list, rows, Q) ==
  /\ list \in Seq(FeedbackRow) /\ rows \in Seq(FeedbackRow) /\ Q \subseteq DOMAIN rows
  /\ \A n \in DOMAIN list : at[n] \in Q /\ list[n] = rows[at[n]]
  /\ \A i \in Q : \E n \in DOMAIN list : at[n] = i
  /\ \A m, n \in DOMAIN list : m < n <=> at[m] < at[n]

\* A sublist of a trace traces the rows it holds.
LEMMA TraceOfPart ==
  ASSUME NEW at, NEW list, NEW rows, NEW Q, Traces(at, list, rows, Q),
         NEW P \in SUBSET (DOMAIN list), NEW U \in SUBSET Q, \A n \in DOMAIN list : n \in P <=> at[n] \in U
  PROVE  \E through : Traces(through, At(list, P), rows, U)
<1> DEFINE part == At(list, P)
           pick == Ascending(P)
           through == [n \in 1..Cardinality(P) |-> at[pick[n]]]
<1>1. /\ list \in Seq(FeedbackRow) /\ rows \in Seq(FeedbackRow) /\ Q \subseteq DOMAIN rows
      /\ \A n \in DOMAIN list : at[n] \in Q /\ list[n] = rows[at[n]]
      /\ \A i \in Q : \E n \in DOMAIN list : at[n] = i
      /\ \A m, n \in DOMAIN list : m < n <=> at[m] < at[n]
  BY DEF Traces
<1>2. DOMAIN list = 1..Len(list)
  BY <1>1, ListIs
<1>3. /\ part \in Seq(FeedbackRow) /\ DOMAIN part = 1..Cardinality(P)
      /\ \A i \in P : \E n \in 1..Cardinality(P) : pick[n] = i
      /\ \A n \in 1..Cardinality(P) : pick[n] \in P /\ part[n] = list[pick[n]]
      /\ \A m, n \in 1..Cardinality(P) : m < n <=> pick[m] < pick[n]
  <2>1. P \in SUBSET (1..Len(list))
    BY <1>2
  <2>2. At(list, P) \in Seq(FeedbackRow) /\ DOMAIN At(list, P) = 1..Cardinality(P)
    BY <1>1, <2>1, AtIs, AtOnce
  <2>3. ASSUME NEW i \in P PROVE \E n \in 1..Cardinality(P) : Ascending(P)[n] = i
    <3>1. IsFiniteSet(P) /\ P \subseteq Int
      BY <1>1, <1>2, <2>1, AtIs
    <3> QED BY <3>1, AscendingIs
  <2>4. \A n \in 1..Cardinality(P) : Ascending(P)[n] \in P /\ At(list, P)[n] = list[Ascending(P)[n]]
    BY <1>1, <2>1, AtIs
  <2>5. \A m, n \in 1..Cardinality(P) : m < n <=> Ascending(P)[m] < Ascending(P)[n]
    BY <1>1, <2>1, AtIs
  <2> QED BY <2>2, <2>3, <2>4, <2>5
<1> HIDE DEF part, pick
<1>4. \A n \in 1..Cardinality(P) : through[n] = at[pick[n]]
  OBVIOUS
<1> HIDE DEF through
<1>5. \A n \in DOMAIN part : through[n] \in U /\ part[n] = rows[through[n]]
  BY <1>1, <1>3, <1>4
<1>6. ASSUME NEW i \in U PROVE \E n \in DOMAIN part : through[n] = i
  <2>1. PICK j \in DOMAIN list : at[j] = i
    BY <1>1
  <2>2. j \in P
    BY <2>1
  <2>3. PICK n \in 1..Cardinality(P) : pick[n] = j
    BY <1>3, <2>2
  <2> QED BY <1>3, <1>4, <2>1, <2>3
<1>7. \A m, n \in DOMAIN part : m < n <=> through[m] < through[n]
  BY <1>1, <1>3, <1>4
<1>8. U \subseteq DOMAIN rows
  BY <1>1
<1>9. Traces(through, part, rows, U)
  BY <1>1, <1>3, <1>5, <1>6, <1>7, <1>8 DEF Traces
<1> QED BY <1>9 DEF part

\* The rows within reach, as they are.
LEMMA TraceOfScan ==
  ASSUME NEW rows \in Seq(FeedbackRow)
  PROVE  \E at : Traces(at, Firstly(rows, ScanLimit), rows, {i \in DOMAIN rows : i <= ScanLimit})
<1> DEFINE list == Firstly(rows, ScanLimit)
           at == [n \in DOMAIN list |-> n]
           Q == {i \in DOMAIN rows : i <= ScanLimit}
<1>1. ScanLimit \in Nat
  BY SignalsAssumption
<1>2. /\ list \in Seq(FeedbackRow) /\ Len(list) = IF ScanLimit < Len(rows) THEN ScanLimit ELSE Len(rows)
      /\ \A i \in 1..Len(list) : i \in 1..Len(rows) /\ list[i] = rows[i]
  BY <1>1, FirstlyIs
<1>3. DOMAIN rows = 1..Len(rows) /\ Len(rows) \in Nat /\ DOMAIN list = 1..Len(list) /\ Len(list) \in Nat
  BY <1>2, ListIs
<1> HIDE DEF list
<1>4. \A n : n \in Q <=> n \in DOMAIN list
  BY <1>1, <1>2, <1>3
<1>5. \A n \in DOMAIN list : at[n] = n
  OBVIOUS
<1> HIDE DEF at
<1>6. Q \subseteq DOMAIN rows
  OBVIOUS
<1> HIDE DEF Q
<1>7. Traces(at, list, rows, Q)
  BY <1>2, <1>3, <1>4, <1>5, <1>6 DEF Traces
<1> QED BY <1>7 DEF list, Q

\* The standing reactions are the rows that are the last word on an outfit.
LEMMA TraceOfStanding ==
  ASSUME NEW rows \in Seq(FeedbackRow)
  PROVE  \E at : Traces(at, Standing(rows), rows, {i \in DOMAIN rows : LastWord(rows, i)})
<1> DEFINE first == Firstly(rows, ScanLimit)
           Q == {i \in DOMAIN rows : i <= ScanLimit}
           P == {n \in DOMAIN first : Reaction(first[n])}
           U == {i \in Q : Reaction(rows[i])}
           scanned == At(first, P)
           about(i) == <<scanned[i].snapshot, scanned[i].candidate>>
           said(i) == <<rows[i].snapshot, rows[i].candidate>>
           T == {i \in DOMAIN scanned : \A j \in 1..(i - 1) : about(j) # about(i)}
           V == {i \in DOMAIN rows : LastWord(rows, i)}
<1>1. Standing(rows) = At(scanned, T)
  BY DEF Standing, Where
<1>2. DOMAIN rows = 1..Len(rows) /\ Len(rows) \in Nat /\ ScanLimit \in Nat
  BY ListIs, SignalsAssumption
<1>3. \A i : i \in V <=> /\ i \in U
                         /\ \A j \in 1..(i - 1) : Reaction(rows[j]) => said(j) # said(i)
  BY DEF LastWord
<1>4. \A i, j : i \in U /\ j \in 1..(i - 1) /\ Reaction(rows[j]) => j \in U
  BY <1>2
<1>5. V \subseteq U /\ U \subseteq Q /\ U \subseteq DOMAIN rows
  BY <1>3
<1>6. PICK at : Traces(at, first, rows, Q)
  BY TraceOfScan
<1>7. \E through : Traces(through, scanned, rows, U)
  <2>1. P \in SUBSET (DOMAIN first)
    OBVIOUS
  <2>2. \A n \in DOMAIN first : n \in P <=> at[n] \in U
    <3>1. \A n \in DOMAIN first : at[n] \in Q /\ first[n] = rows[at[n]]
      BY <1>6 DEF Traces
    <3> HIDE DEF first
    <3> QED BY <3>1
  <2> HIDE DEF first, P, U, Q
  <2>3. \E through : Traces(through, At(first, P), rows, U)
    BY <1>5, <1>6, <2>1, <2>2, TraceOfPart
  <2> QED BY <2>3
<1> PICK through : Traces(through, scanned, rows, U)
  BY <1>7
<1> HIDE DEF first, P, Q, U, V, scanned
<1>8. /\ \A n \in DOMAIN scanned : through[n] \in U /\ scanned[n] = rows[through[n]]
      /\ \A i \in U : \E n \in DOMAIN scanned : through[n] = i
      /\ \A m, n \in DOMAIN scanned : m < n <=> through[m] < through[n]
      /\ scanned \in Seq(FeedbackRow)
  BY DEF Traces
<1>9. DOMAIN scanned = 1..Len(scanned) /\ Len(scanned) \in Nat
  BY <1>8, ListIs
<1>10. \A n \in DOMAIN scanned : n \in T <=> through[n] \in V
  <2> TAKE n \in DOMAIN scanned
  <2>0. /\ n \in 1..Len(scanned) /\ n \in Int /\ through[n] \in U /\ through[n] \in Int /\ about(n) = said(through[n])
        /\ \A j \in 1..(n - 1) : j \in DOMAIN scanned /\ j < n
    BY <1>2, <1>5, <1>8, <1>9
  <2>1. ASSUME n \in T, NEW j \in 1..(through[n] - 1), Reaction(rows[j]) PROVE said(j) # said(through[n])
    <3>1. j \in U /\ j < through[n] /\ j \in Int
      BY <1>4, <2>0, <2>1
    <3>2. PICK m \in DOMAIN scanned : through[m] = j
      BY <1>8, <3>1
    <3>3. m < n
      BY <1>8, <3>1, <3>2
    <3>4. m \in 1..(n - 1)
      BY <1>9, <2>0, <3>3
    <3>5. about(m) # about(n)
      BY <2>1, <3>4
    <3>6. about(m) = said(j)
      BY <1>8, <3>2
    <3> QED BY <2>0, <3>5, <3>6
  <2>2. ASSUME through[n] \in V, NEW j \in 1..(n - 1) PROVE about(j) # about(n)
    <3>1. j \in DOMAIN scanned /\ through[j] < through[n] /\ through[j] \in U
      BY <1>8, <2>0
    <3>2. through[j] \in 1..(through[n] - 1) /\ Reaction(rows[through[j]])
      BY <1>2, <1>5, <2>0, <3>1 DEF U
    <3>3. said(through[j]) # said(through[n])
      BY <1>3, <2>2, <3>2
    <3>4. about(j) = said(through[j])
      BY <1>8, <3>1
    <3> QED BY <2>0, <3>3, <3>4
  <2>3. n \in T => through[n] \in V
    <3> HIDE DEF about, said
    <3> QED BY <1>3, <2>0, <2>1
  <2>4. through[n] \in V => n \in T
    <3> HIDE DEF about, said
    <3> QED BY <2>2
  <2> QED BY <2>3, <2>4
<1>11. T \in SUBSET (DOMAIN scanned) /\ V \in SUBSET U
  BY <1>5
<1> HIDE DEF T
<1>12. \E last : Traces(last, At(scanned, T), rows, V)
  BY <1>10, <1>11, TraceOfPart
<1> QED BY <1>1, <1>12 DEF V

\* A window holds what has fewer distinct elements before it than its limit.
LEMMA WindowIs ==
  ASSUME NEW T, NEW list \in Seq(T), NEW limit \in Nat
  PROVE  /\ ToSet(Window(list, limit)) \subseteq ToSet(list)
         /\ \A n \in DOMAIN list :
              Cardinality({list[m] : m \in 1..(n - 1)}) < limit => list[n] \in ToSet(Window(list, limit))
<1> DEFINE P == {i \in DOMAIN list : \A j \in 1..(i - 1) : list[j] # list[i]}
           W == At(list, P)
           pick == Ascending(P)
<1>1. DOMAIN list = 1..Len(list) /\ Len(list) \in Nat
  BY ListIs
<1>2. Window(list, limit) = Firstly(W, limit)
  BY DEF Window
<1>3. P \in SUBSET (1..Len(list)) /\ \A i : i \in P <=> i \in DOMAIN list /\ \A j \in 1..(i - 1) : list[j] # list[i]
  BY <1>1
<1> HIDE DEF P
<1>4. /\ W \in Seq(T) /\ DOMAIN W = 1..Cardinality(P) /\ Len(W) = Cardinality(P) /\ Len(W) \in Nat
      /\ ToSet(W) = {list[i] : i \in P}
  BY <1>3, AtIs, AtOnce
<1>5. /\ \A n \in 1..Cardinality(P) : pick[n] \in P /\ W[n] = list[pick[n]]
      /\ \A m, n \in 1..Cardinality(P) : m < n <=> pick[m] < pick[n]
  BY <1>3, AtIs
<1>6. ASSUME NEW i \in P PROVE \E n \in 1..Cardinality(P) : pick[n] = i
  <2>1. IsFiniteSet(P) /\ P \subseteq Int
    BY <1>3, AtIs
  <2> QED BY <2>1, AscendingIs
<1> HIDE DEF W, pick
<1>7. /\ ToSet(Firstly(W, limit)) \subseteq ToSet(W)
      /\ Len(Firstly(W, limit)) = IF limit < Len(W) THEN limit ELSE Len(W)
      /\ \A i \in 1..Len(Firstly(W, limit)) : Firstly(W, limit)[i] = W[i]
      /\ Firstly(W, limit) \in Seq(T)
  BY <1>4, FirstlyIs
<1>8. ToSet(W) \subseteq ToSet(list)
  BY <1>3, <1>4 DEF ToSet
<1>9. ASSUME NEW n \in DOMAIN list, Cardinality({list[m] : m \in 1..(n - 1)}) < limit
      PROVE  list[n] \in ToSet(Firstly(W, limit))
  <2> DEFINE S == {m \in DOMAIN list : list[m] = list[n]}
             E == {list[m] : m \in 1..(n - 1)}
  <2>1. S \in SUBSET Nat /\ S # {}
    BY <1>1
  <2>2. PICK least \in S : \A m \in S : least <= m
    BY <2>1, LeastNumber
  <2>3. least \in DOMAIN list /\ list[least] = list[n] /\ least <= n /\ least \in Nat /\ n \in Nat
    BY <1>1, <2>2
  <2>4. least \in P
    <3>1. ASSUME NEW j \in 1..(least - 1), list[j] = list[least] PROVE FALSE
      <4>1. j \in S /\ j < least
        BY <1>1, <2>3, <3>1
      <4> QED BY <2>2, <2>3, <3>1, <4>1
    <3> QED BY <1>3, <2>3, <3>1
  <2>5. PICK r \in 1..Cardinality(P) : pick[r] = least
    BY <1>6, <2>4
  <2>6. r \in Nat \ {0} /\ W[r] = list[n]
    BY <1>4, <1>5, <2>3, <2>5
  <2> DEFINE f == [q \in 1..(r - 1) |-> W[q]]
  <2>7. \A q \in 1..(r - 1) : q \in 1..Cardinality(P) /\ pick[q] < least /\ pick[q] \in 1..(n - 1) /\ W[q] = list[pick[q]]
    <3> TAKE q \in 1..(r - 1)
    <3>1. q \in 1..Cardinality(P) /\ q < r
      BY <1>4, <2>5, <2>6
    <3>2. pick[q] < pick[r] /\ pick[q] \in P /\ W[q] = list[pick[q]]
      BY <1>5, <2>5, <3>1
    <3>3. pick[q] \in Nat \ {0}
      BY <1>3, <3>2
    <3> QED BY <2>3, <2>5, <3>1, <3>2, <3>3
  <2>8. \A p, q \in 1..(r - 1) : W[p] = W[q] => p = q
    <3> TAKE p, q \in 1..(r - 1)
    <3> SUFFICES ASSUME W[p] = W[q] PROVE p = q
      OBVIOUS
    <3>1. /\ p \in 1..Cardinality(P) /\ q \in 1..Cardinality(P) /\ pick[p] \in P /\ pick[q] \in P
          /\ list[pick[p]] = list[pick[q]]
      BY <1>5, <2>7
    <3>2. pick[p] \in Nat \ {0} /\ pick[q] \in Nat \ {0}
      BY <1>3, <3>1
    <3>3. ~(pick[p] < pick[q])
      <4>1. pick[p] < pick[q] => pick[p] \in 1..(pick[q] - 1)
        BY <3>2
      <4> QED BY <1>3, <3>1, <4>1
    <3>4. ~(pick[q] < pick[p])
      <4>1. pick[q] < pick[p] => pick[q] \in 1..(pick[p] - 1)
        BY <3>2
      <4> QED BY <1>3, <3>1, <4>1
    <3> QED BY <1>4, <1>5, <3>1, <3>3, <3>4
  <2>9. f \in Injection(1..(r - 1), E)
    <3>1. f \in [1..(r - 1) -> E]
      BY <2>7
    <3>2. \A q \in 1..(r - 1) : f[q] = W[q]
      OBVIOUS
    <3> HIDE DEF f
    <3> QED BY <2>8, <3>1, <3>2 DEF Injection, IsInjective
  <2>10. IsFiniteSet(E)
    <3> DEFINE g == [m \in 1..(n - 1) |-> list[m]]
    <3>1. g \in Surjection(1..(n - 1), E)
      BY DEF Surjection
    <3>2. IsFiniteSet(1..(n - 1))
      BY <2>3, FS_Interval
    <3> QED BY <3>1, <3>2, FS_Surjection
  <2>11. Cardinality(1..(r - 1)) = r - 1
    <3>1. r - 1 \in Int /\ 1 \in Int
      BY <2>6
    <3>2. Cardinality(1..(r - 1)) = IF 1 > r - 1 THEN 0 ELSE (r - 1) - 1 + 1
      BY <3>1, FS_Interval
    <3> QED BY <2>6, <3>2
  <2>12. r - 1 <= Cardinality(E)
    <3> HIDE DEF f, E
    <3> QED BY <2>9, <2>10, <2>11, FS_Injection
  <2>13. Cardinality(E) \in Nat
    BY <2>10, FS_CardinalityType
  <2>14. r <= limit
    BY <1>9, <2>6, <2>12, <2>13
  <2>15. r \in 1..Len(Firstly(W, limit))
    BY <1>4, <1>7, <2>5, <2>6, <2>14
  <2>16. Firstly(W, limit)[r] = list[n]
    BY <1>7, <2>6, <2>15
  <2>17. r \in DOMAIN Firstly(W, limit)
    BY <1>7, <2>15, ListIs
  <2> QED BY <2>16, <2>17 DEF ToSet
<1> QED BY <1>2, <1>7, <1>8, <1>9

\* The standing rejections, newest first.
LEMMA TraceOfRejected ==
  ASSUME NEW rows \in Seq(FeedbackRow)
  PROVE  \E at : Traces(at, WithAction(rows, "rejected"), rows,
                        {i \in DOMAIN rows : LastWord(rows, i) /\ rows[i].action = "rejected"})
<1> DEFINE list == Standing(rows)
           V == {i \in DOMAIN rows : LastWord(rows, i)}
           P == {n \in DOMAIN list : list[n].action = "rejected"}
           U == {i \in DOMAIN rows : LastWord(rows, i) /\ rows[i].action = "rejected"}
<1>1. PICK at : Traces(at, list, rows, V)
  BY TraceOfStanding
<1>2. P \in SUBSET (DOMAIN list) /\ U \in SUBSET V /\ \A i \in V : i \in U <=> rows[i].action = "rejected"
  OBVIOUS
<1>3. WithAction(rows, "rejected") = At(list, P)
  BY DEF WithAction, Where
<1>4. \A n \in DOMAIN list : n \in P <=> at[n] \in U
  <2>1. \A n \in DOMAIN list : at[n] \in V /\ list[n] = rows[at[n]]
    BY <1>1 DEF Traces
  <2> HIDE DEF list, U, V
  <2> QED BY <1>2, <2>1
<1> HIDE DEF list, U, V, P
<1>5. \E through : Traces(through, At(list, P), rows, U)
  BY <1>1, <1>2, <1>4, TraceOfPart
<1> QED BY <1>3, <1>5 DEF U

\* A silhouette rests when a rejection of it stands, and it does when fewer
\* than the buffer were rejected since.
LEMMA CooledIs ==
  ASSUME NEW rows \in Seq(FeedbackRow), NEW key
  PROVE  /\ key \in ToSet(CooledKeys(rows)) => RejectedNow(rows, key) # {}
         /\ \A i \in RejectedNow(rows, key) :
              Cardinality(RejectedSince(rows, i)) < CooldownBuffer => key \in ToSet(CooledKeys(rows))
<1> DEFINE no == WithAction(rows, "rejected")
           U == {i \in DOMAIN rows : LastWord(rows, i) /\ rows[i].action = "rejected"}
           keys == [n \in DOMAIN no |-> BaseKey(no[n].slots)]
<1>1. PICK at : Traces(at, no, rows, U)
  BY TraceOfRejected
<1>2. CooledKeys(rows) = Window(keys, CooldownBuffer)
  BY DEF CooledKeys
<1>3. CooldownBuffer \in Nat
  BY SignalsAssumption
<1> HIDE DEF no, U
<1>4. /\ no \in Seq(FeedbackRow) /\ U \subseteq DOMAIN rows
      /\ \A n \in DOMAIN no : at[n] \in U /\ no[n] = rows[at[n]]
      /\ \A i \in U : \E n \in DOMAIN no : at[n] = i
      /\ \A m, n \in DOMAIN no : m < n <=> at[m] < at[n]
  BY <1>1 DEF Traces
<1>5. DOMAIN no = 1..Len(no) /\ Len(no) \in Nat /\ DOMAIN rows = 1..Len(rows) /\ Len(rows) \in Nat
  BY <1>4, ListIs
<1>6. DOMAIN keys = DOMAIN no /\ \A n \in DOMAIN no : keys[n] = BaseKey(rows[at[n]].slots)
  BY <1>4
<1>7. keys \in Seq(ToSet(keys))
  <2>1. keys = [n \in 1..Len(no) |-> keys[n]] /\ \A n \in DOMAIN keys : keys[n] \in ToSet(keys)
    BY <1>5, <1>6 DEF ToSet
  <2>2. keys \in [1..Len(no) -> ToSet(keys)]
    <3> HIDE DEF keys
    <3> QED BY <1>5, <1>6, <2>1
  <2> QED BY <1>5, <2>2
<1> HIDE DEF keys
<1>8. \A i, k : i \in RejectedNow(rows, k) <=> i \in U /\ BaseKey(rows[i].slots) = k
  BY DEF RejectedNow, U
<1>9. ASSUME key \in ToSet(CooledKeys(rows)) PROVE RejectedNow(rows, key) # {}
  <2>1. key \in ToSet(keys)
    BY <1>2, <1>3, <1>7, <1>9, WindowIs
  <2>2. PICK n \in DOMAIN keys : keys[n] = key
    BY <2>1 DEF ToSet
  <2> QED BY <1>4, <1>6, <1>8, <2>2
<1>10. ASSUME NEW i \in RejectedNow(rows, key), Cardinality(RejectedSince(rows, i)) < CooldownBuffer
       PROVE  key \in ToSet(CooledKeys(rows))
  <2>1. i \in U /\ BaseKey(rows[i].slots) = key /\ i \in DOMAIN rows
    BY <1>4, <1>8
  <2>2. PICK n \in DOMAIN no : at[n] = i
    BY <1>4, <2>1
  <2>3. {keys[m] : m \in 1..(n - 1)} = RejectedSince(rows, i)
    <3>1. \A k : k \in RejectedSince(rows, i) <=> \E j \in 1..(i - 1) : j \in U /\ k = BaseKey(rows[j].slots)
      <4>1. \A j \in 1..(i - 1) : j \in U <=> LastWord(rows, j) /\ rows[j].action = "rejected"
        BY <1>5, <2>1 DEF U
      <4> QED BY <4>1 DEF RejectedSince
    <3>2. ASSUME NEW m \in 1..(n - 1) PROVE keys[m] \in RejectedSince(rows, i)
      <4>1. m \in DOMAIN no /\ m < n
        BY <1>5, <2>2
      <4>2. at[m] < i /\ at[m] \in U /\ at[m] \in DOMAIN rows
        BY <1>4, <2>2, <4>1
      <4>3. at[m] \in 1..(i - 1)
        BY <1>5, <2>1, <4>2
      <4> QED BY <1>6, <3>1, <4>1, <4>2, <4>3
    <3>3. ASSUME NEW k \in RejectedSince(rows, i) PROVE \E m \in 1..(n - 1) : k = keys[m]
      <4>1. PICK j \in 1..(i - 1) : j \in U /\ k = BaseKey(rows[j].slots)
        BY <3>1
      <4>2. PICK m \in DOMAIN no : at[m] = j
        BY <1>4, <4>1
      <4>3. j < i
        BY <1>5, <2>1
      <4>4. m < n
        BY <1>4, <2>2, <4>2, <4>3
      <4>5. m \in 1..(n - 1)
        BY <1>5, <4>2, <4>4
      <4> QED BY <1>6, <4>1, <4>2, <4>5
    <3> QED BY <3>2, <3>3
  <2>4. keys[n] = key
    BY <1>6, <2>1, <2>2
  <2>5. Cardinality({keys[m] : m \in 1..(n - 1)}) < CooldownBuffer
    BY <1>10, <2>3
  <2> QED BY <1>2, <1>3, <1>6, <1>7, <2>4, <2>5, WindowIs
<1> QED BY <1>9, <1>10

\* A rejection that stands keeps its silhouette back.
LEMMA RestFollows == EngineInv => RejectedRests
<1> SUFFICES ASSUME EngineInv, stage = "answered" PROVE RejectedRests
  BY DEF RejectedRests
<1>1. CASE ~Served
  <2>1. /\ spread.selected = <<>> /\ ranking = NoRanking
    BY <1>1 DEF EngineInv, AnswerKept, NoSpread
  <2>2. ranking.funnel = <<>> /\ ranking.dropped = <<>>
    BY <2>1 DEF NoRanking, Unranked
  <2>3. DOMAIN ranking.funnel = {} /\ DOMAIN ranking.dropped = {} /\ Surfaced = {}
    BY <2>1, <2>2, EmptySeq DEF Surfaced, ToSet
  <2> QED BY <2>3 DEF RejectedRests
<1>2. CASE Served
  <2>1. Rendering(request, Last(attempts), asked, Members(pool), accepted, ranking, spread.selected)
    BY <1>2, ServedIs
  <2>2. /\ Vetted(Kept(request, accepted))
        /\ \A v \in ToSet(spread.selected) :
             \E x \in ToSet(ranking.funnel) : /\ v = AssembleVariant(x, request) /\ ~Excluded(request, x.cand.slots)
                                              /\ x.cand \in ToSet(Kept(request, accepted))
    BY <2>1, ShownIs
  <2>3. request \in Requests
    BY <2>1 DEF Rendering
  <2> PICK draw \in DrawsOf(Kept(request, accepted)) : ranking = RankedBy(request, Kept(request, accepted), draw)
    BY <2>1 DEF Rendering
  <2>4. /\ \A x \in ToSet(ranking.funnel) :
             /\ x.terms.cooldown = IF BaseKey(x.cand.slots) \in ToSet(CooledKeys(request.rows)) THEN -20 ELSE 0
             /\ BaseKey(x.cand.slots) \in ToSet(CooledKeys(request.rows))
                  => ranking.stage \in {"cooldownRelaxed", "insufficient"}
        /\ \A d \in ToSet(ranking.dropped) :
             d.reason = "cooldown_dropped" => BaseKey(d.cand.slots) \in ToSet(CooledKeys(request.rows))
    BY <2>2, <2>3, RankingIs
  <2>5. request.rows \in Seq(FeedbackRow)
    BY <2>3, RequestAssumption
  <2>6. /\ \A n \in DOMAIN ranking.funnel : ranking.funnel[n] \in ToSet(ranking.funnel)
        /\ \A n \in DOMAIN ranking.dropped : ranking.dropped[n] \in ToSet(ranking.dropped)
        /\ \A x : x \in ToSet(ranking.funnel) <=> \E n \in DOMAIN ranking.funnel : ranking.funnel[n] = x
    BY DEF ToSet
  <2>7. ASSUME NEW v \in Surfaced,
               \E i \in RejectedNow(request.rows, BaseKey(v.slots)) :
                 Cardinality(RejectedSince(request.rows, i)) < CooldownBuffer
        PROVE  /\ ranking.stage \in {"cooldownRelaxed", "insufficient"}
               /\ \E n \in DOMAIN ranking.funnel : /\ ranking.funnel[n].cand.index = v.index
                                                   /\ ranking.funnel[n].terms.cooldown < 0
    <3>1. PICK x \in ToSet(ranking.funnel) : v = AssembleVariant(x, request)
      BY <2>2 DEF Surfaced
    <3>2. v.slots = x.cand.slots /\ v.index = x.cand.index
      BY <3>1 DEF AssembleVariant
    <3>3. BaseKey(v.slots) \in ToSet(CooledKeys(request.rows))
      BY <2>5, <2>7, CooledIs
    <3>4. ranking.stage \in {"cooldownRelaxed", "insufficient"} /\ x.terms.cooldown = -20
      BY <2>4, <3>2, <3>3
    <3>5. PICK n \in DOMAIN ranking.funnel : ranking.funnel[n] = x
      BY <2>6
    <3>6. ranking.funnel[n].terms.cooldown < 0
      BY <3>4, <3>5
    <3> QED BY <3>2, <3>4, <3>5, <3>6
  <2>8. ASSUME NEW n \in DOMAIN ranking.dropped, ranking.dropped[n].reason = "cooldown_dropped"
        PROVE  RejectedNow(request.rows, BaseKey(ranking.dropped[n].cand.slots)) # {}
    BY <2>4, <2>5, <2>6, <2>8, CooledIs
  <2>9. ASSUME NEW n \in DOMAIN ranking.funnel, ranking.funnel[n].terms.cooldown < 0
        PROVE  RejectedNow(request.rows, BaseKey(ranking.funnel[n].cand.slots)) # {}
    <3>1. BaseKey(ranking.funnel[n].cand.slots) \in ToSet(CooledKeys(request.rows))
      BY <2>4, <2>6, <2>9
    <3> QED BY <2>5, <3>1, CooledIs
  <2> QED BY <2>7, <2>8, <2>9 DEF RejectedRests
<1> QED BY <1>1, <1>2

\* Whatever the rows and the closet, a silhouette whose rejection stands and
\* is among the latest is shown only when the cooldown was relaxed, at a
\* penalty, and one whose every rejection was taken back is neither dropped
\* nor fined for it.
THEOREM RejectedSilhouettesRest == Spec => []RejectedRests
BY EngineHistory, RestFollows, PTL
=============================================================================
