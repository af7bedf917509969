-------------------------- MODULE JudgeLedgerProofs --------------------------
(* Proofs of the safety of the judge ledgers: paid rows are kept, complete   *)
(* questions are not paid for again, what is scored is one run's, and what   *)
(* was hashed is in git.                                                     *)
EXTENDS JudgeLedger, SequenceTheorems, NaturalsInduction, WellFoundedInduction, TLAPS

Ledger == Seq(Row) \cup {Absent}
Paid   == {"gate-b", "run"}
States == {"idle", "judging", "hashing", "retraining", "rehashing", "reading", "scored", "loading"}

Typed ==
  /\ ledger \in [Ledgers -> Ledger]
  /\ head \in [Ledgers -> Ledger]
  /\ runs \in 0 .. MaxRuns
  /\ pc \in [Commands -> States]
  /\ todo \in [Commands -> SUBSET (Nat \X Nat)]
  /\ mine \in [Commands -> 0 .. MaxRuns]
  /\ seen = [c \in Commands |-> seen[c]]
  /\ held \in [Commands -> Ledger]
  /\ pc["emit"] # "judging" /\ pc["analyze"] # "judging"
  /\ \A c \in Paid :
       /\ pc[c] \in {"idle", "judging"}
       /\ todo[c] \subseteq Batches(Asked(c))
       /\ pc[c] = "judging" => mine[c] # 0

\* What is in HEAD is in a commit, and each ledger has its own questions only.
CommittedKept == \A l \in Ledgers : head[l] # Absent => ToSet(head[l]) \subseteq history

OwnQuestions ==
  /\ \A r \in ToSet(Rows(ledger["original"])) : r.question \in ToSet(Prefix)
  /\ \A r \in ToSet(Rows(ledger["extension"])) : r.question \in ToSet(Extension)

\* One paid run wrote all of it.
OfRun(rows, x) == \A r \in ToSet(rows) : r.run = x

\* The original ledger is of one run, removed before it is written, and the
\* latest so far.
OriginalInv ==
  /\ \E x \in 0 .. MaxRuns : OfRun(Rows(ledger["original"]), x)
  /\ \A r \in ToSet(Rows(ledger["original"])) : r.run <= runs
  /\ pc["gate-b"] = "judging" =>
       OfRun(Rows(ledger["original"]), mine["gate-b"]) /\ mine["gate-b"] <= runs

Later(rows, r) == \A s \in ToSet(rows) : s.run > r.run

\* A row that was hashed is still in the ledger, or was committed before the
\* ledger was regenerated, and then a later run has the ledger.
Traceable(r) ==
  \/ r \in ToSet(Rows(ledger["original"]))
  \/ /\ r \in history
     /\ Later(Rows(ledger["original"]), r)
     /\ pc["gate-b"] = "judging" => mine["gate-b"] > r.run

\* What an emission has hashed is traceable, once git was asked again it is in
\* git, and what is scored is complete, of one run, and holds what was hashed or
\* is of a later run.
EmitInv ==
  /\ pc["emit"] \in {"retraining", "rehashing", "reading", "scored"} =>
       \A r \in ToSet(seen["emit"]) :
         /\ r \in Row /\ r.run <= runs /\ r.question \in ToSet(Prefix)
         /\ Traceable(r)
  /\ pc["emit"] \in {"rehashing", "reading", "scored"} => ToSet(seen["emit"]) \subseteq history
  /\ pc["emit"] = "scored" =>
       /\ held["emit"] \in Seq(Row)
       /\ \E x \in 0 .. MaxRuns : OfRun(held["emit"], x)
       /\ \A r \in ToSet(seen["emit"]) : r \in ToSet(held["emit"]) \/ Later(held["emit"], r)

Full(rows, q, o) == Samples(rows, q, o) = 0 .. K - 1

\* The rows that count for a question, in one order, are of a run.
LatestOf(rows, q, o, x) ==
  \A n \in DOMAIN rows :
    rows[n].question = q /\ rows[n].order = o /\ Latest(rows, n) => rows[n].run = x

\* A question is complete, and what counts of it is of one run.
Whole(rows, q) ==
  /\ Full(rows, q, "forward") /\ Full(rows, q, "reverse")
  /\ \E x \in 0 .. MaxRuns : LatestOf(rows, q, "forward", x) /\ LatestOf(rows, q, "reverse", x)

\* The last sample of the second order is written last.
WholeQuestions(rows) ==
  \A q \in ToSet(Extension) : K - 1 \in Samples(rows, q, "reverse") => Whole(rows, q)

\* What an extension run has before it is not complete, and of the question it
\* is in the middle of, the first order is its own.
Ahead(rows, b) ==
  /\ <<b[1], 2>> \in todo["run"]
  /\ K - 1 \notin Samples(rows, Extension[b[1]], "reverse")
  /\ <<b[1], 1>> \notin todo["run"] =>
       /\ Full(rows, Extension[b[1]], "forward")
       /\ LatestOf(rows, Extension[b[1]], "forward", mine["run"])

ExtensionInv ==
  LET rows == Rows(ledger["extension"]) IN
    /\ WholeQuestions(rows)
    /\ pc["run"] = "judging" => \A b \in todo["run"] : Ahead(rows, b)

\* The extension rows an analysis holds are complete, each question of one run.
AnalyzeInv ==
  pc["analyze"] = "reading" =>
    /\ held["analyze"] \in Seq(Row)
    /\ \A r \in ToSet(held["analyze"]) : r.question \in ToSet(Extension)
    /\ \A q \in ToSet(Extension) : Whole(held["analyze"], q)

JudgeInv ==
  /\ Typed /\ CommittedKept /\ OwnQuestions
  /\ OriginalInv /\ EmitInv /\ ExtensionInv /\ AnalyzeInv
  /\ PaidRowsKept /\ OneRunPerQuestion /\ EmissionInGit

-----------------------------------------------------------------------------
(* Questions and orders. *)

LEMMA OrderNames ==
  /\ ToSet(Orders) = {"forward", "reverse"}
  /\ Orders[1] = "forward" /\ Orders[2] = "reverse"
BY DEF ToSet, Orders

\* The questions of the two lists are all different.
LEMMA Different ==
  /\ \A i, j \in 1 .. Len(Extension) : Extension[i] = Extension[j] => i = j
  /\ \A i \in 1 .. Len(Prefix), j \in 1 .. Len(Extension) : Prefix[i] # Extension[j]
  /\ ToSet(Prefix) \cap ToSet(Extension) = {}
  /\ Questions = ToSet(Prefix) \cup ToSet(Extension)
<1> DEFINE both == Prefix \o Extension
<1>1. /\ Prefix \in Seq(Questions) /\ Extension \in Seq(Questions)
      /\ Len(Prefix) \in Nat /\ Len(Extension) \in Nat
      /\ DOMAIN Prefix = 1 .. Len(Prefix) /\ DOMAIN Extension = 1 .. Len(Extension)
  BY JudgeAssumption, LenProperties DEF JudgeAssumption
<1>2. /\ both \in Seq(Questions) /\ Len(both) = Len(Prefix) + Len(Extension)
      /\ \A i \in 1 .. Len(Prefix) + Len(Extension) :
           both[i] = IF i <= Len(Prefix) THEN Prefix[i] ELSE Extension[i - Len(Prefix)]
  BY <1>1, ConcatProperties
<1>3. DOMAIN both = 1 .. Len(Prefix) + Len(Extension)
  BY <1>2, LenProperties
<1>4. \A i, j \in 1 .. Len(Prefix) + Len(Extension) : both[i] = both[j] => i = j
  BY <1>3, JudgeAssumption DEF JudgeAssumption, IsInjective
<1> HIDE DEF both
<1>5. \A i \in 1 .. Len(Prefix) : both[i] = Prefix[i]
  BY <1>1, <1>2
<1>6. \A j \in 1 .. Len(Extension) : both[Len(Prefix) + j] = Extension[j]
  BY <1>1, <1>2
<1>7. \A i, j \in 1 .. Len(Extension) : Extension[i] = Extension[j] => i = j
  <2> TAKE i, j \in 1 .. Len(Extension)
  <2> QED BY <1>1, <1>4, <1>6
<1>8. \A i \in 1 .. Len(Prefix), j \in 1 .. Len(Extension) : Prefix[i] # Extension[j]
  <2> TAKE i \in 1 .. Len(Prefix), j \in 1 .. Len(Extension)
  <2> QED BY <1>1, <1>4, <1>5, <1>6
<1>9. ToSet(Prefix) \cap ToSet(Extension) = {}
  BY <1>1, <1>8 DEF ToSet
<1>10. Questions = ToSet(Prefix) \cup ToSet(Extension)
  <2>1. Questions = {both[i] : i \in 1 .. Len(Prefix) + Len(Extension)}
    <3>1. Questions = ToSet(both)
      BY DEF Questions, both
    <3> QED BY <1>3, <3>1 DEF ToSet
  <2>2. ASSUME NEW i \in 1 .. Len(Prefix) + Len(Extension)
        PROVE  both[i] \in ToSet(Prefix) \cup ToSet(Extension)
    <3>1. CASE i <= Len(Prefix)
      BY <3>1, <1>1, <1>5 DEF ToSet
    <3>2. CASE ~(i <= Len(Prefix))
      <4>1. i - Len(Prefix) \in 1 .. Len(Extension) /\ both[i] = Extension[i - Len(Prefix)]
        BY <3>2, <1>1, <1>2
      <4> QED BY <4>1, <1>1 DEF ToSet
    <3> QED BY <3>1, <3>2
  <2>3. ToSet(Prefix) \subseteq {both[i] : i \in 1 .. Len(Prefix) + Len(Extension)}
    BY <1>1, <1>5 DEF ToSet
  <2>4. ASSUME NEW j \in 1 .. Len(Extension)
        PROVE  Extension[j] \in {both[i] : i \in 1 .. Len(Prefix) + Len(Extension)}
    <3>1. Len(Prefix) + j \in 1 .. Len(Prefix) + Len(Extension)
      BY <1>1
    <3> QED BY <3>1, <1>6
  <2> QED BY <1>1, <2>1, <2>2, <2>3, <2>4 DEF ToSet
<1> QED BY <1>7, <1>8, <1>9, <1>10

-----------------------------------------------------------------------------
(* Ledgers that grow at the end. *)

LEMMA Concat ==
  ASSUME NEW s \in Seq(Row), NEW t \in Seq(Row)
  PROVE  /\ s \o t \in Seq(Row)
         /\ ToSet(s \o t) = ToSet(s) \cup ToSet(t)
         /\ Len(s) \in Nat /\ Len(t) \in Nat
         /\ DOMAIN s = 1 .. Len(s) /\ DOMAIN t = 1 .. Len(t)
         /\ DOMAIN (s \o t) = 1 .. Len(s) + Len(t)
         /\ \A i \in 1 .. Len(s) : (s \o t)[i] = s[i]
         /\ \A j \in 1 .. Len(t) : (s \o t)[Len(s) + j] = t[j]
<1>1. /\ s \o t \in Seq(Row) /\ Len(s \o t) = Len(s) + Len(t)
      /\ \A i \in 1 .. Len(s) + Len(t) :
           (s \o t)[i] = IF i <= Len(s) THEN s[i] ELSE t[i - Len(s)]
  BY ConcatProperties
<1>2. /\ Len(s) \in Nat /\ Len(t) \in Nat
      /\ DOMAIN s = 1 .. Len(s) /\ DOMAIN t = 1 .. Len(t)
  BY LenProperties
<1>3. DOMAIN (s \o t) = 1 .. Len(s) + Len(t)
  BY <1>1, LenProperties
<1> DEFINE u == s \o t
<1> HIDE DEF u
<1>4. /\ \A i \in 1 .. Len(s) : u[i] = s[i]
      /\ \A j \in 1 .. Len(t) : u[Len(s) + j] = t[j]
  BY <1>1, <1>2 DEF u
<1>5. ToSet(u) = {u[i] : i \in 1 .. Len(s) + Len(t)}
  BY <1>3 DEF ToSet, u
<1>6. ASSUME NEW i \in 1 .. Len(s) + Len(t)
      PROVE  u[i] \in ToSet(s) \cup ToSet(t)
  <2>1. CASE i <= Len(s)
    BY <2>1, <1>2, <1>4 DEF ToSet
  <2>2. CASE ~(i <= Len(s))
    <3>1. i - Len(s) \in 1 .. Len(t) /\ u[i] = t[i - Len(s)]
      BY <2>2, <1>1, <1>2 DEF u
    <3> QED BY <3>1, <1>2 DEF ToSet
  <2> QED BY <2>1, <2>2
<1>7. ToSet(s) \subseteq ToSet(u)
  <2>1. ASSUME NEW i \in 1 .. Len(s) PROVE s[i] \in ToSet(u)
    BY <1>2, <1>4, <1>5
  <2> QED BY <2>1, <1>2 DEF ToSet
<1>8. ToSet(t) \subseteq ToSet(u)
  <2>1. ASSUME NEW j \in 1 .. Len(t) PROVE t[j] \in ToSet(u)
    <3>1. Len(s) + j \in 1 .. Len(s) + Len(t)
      BY <1>2
    <3> QED BY <3>1, <1>4, <1>5
  <2> QED BY <2>1, <1>2 DEF ToSet
<1> QED BY <1>1, <1>2, <1>3, <1>4, <1>5, <1>6, <1>7, <1>8 DEF u

\* Where a row of the longer ledger is.
LEMMA Either ==
  ASSUME NEW s \in Seq(Row), NEW t \in Seq(Row), NEW n \in DOMAIN (s \o t)
  PROVE  \/ n \in DOMAIN s /\ (s \o t)[n] = s[n]
         \/ \E j \in DOMAIN t : n = Len(s) + j /\ (s \o t)[n] = t[j]
<1>1. CASE n <= Len(s)
  BY <1>1, Concat
<1>2. CASE ~(n <= Len(s))
  <2>1. n - Len(s) \in DOMAIN t /\ n = Len(s) + (n - Len(s))
    BY <1>2, Concat
  <2>2. (s \o t)[n] = t[n - Len(s)]
    BY <2>1, Concat
  <2> QED BY <2>1, <2>2
<1> QED BY <1>1, <1>2

LEMMA SamplesConcat ==
  \A s, t \in Seq(Row) : \A q, o :
    Samples(s \o t, q, o) = Samples(s, q, o) \cup Samples(t, q, o)
<1> TAKE s, t \in Seq(Row)
<1> TAKE q, o
<1> QED BY Concat DEF Samples

\* A row counts of the longer ledger only if it counted of the shorter.
LEMMA LatestBefore ==
  ASSUME NEW s \in Seq(Row), NEW t \in Seq(Row), NEW n \in DOMAIN s, Latest(s \o t, n)
  PROVE  /\ Latest(s, n)
         /\ \A j \in DOMAIN t : Place(t[j]) # Place(s[n])
<1> DEFINE u == s \o t
<1>1. /\ Len(s) \in Nat /\ Len(t) \in Nat /\ DOMAIN s = 1 .. Len(s) /\ DOMAIN t = 1 .. Len(t)
      /\ DOMAIN u = 1 .. Len(s) + Len(t)
      /\ \A i \in 1 .. Len(s) : u[i] = s[i]
      /\ \A j \in 1 .. Len(t) : u[Len(s) + j] = t[j]
  BY Concat
<1>2. \A m \in DOMAIN u : Place(u[m]) = Place(u[n]) => m <= n
  BY DEF Latest
<1> HIDE DEF u
<1>3. Latest(s, n)
  BY <1>1, <1>2 DEF Latest
<1>4. ASSUME NEW j \in DOMAIN t, Place(t[j]) = Place(s[n]) PROVE FALSE
  <2>1. Len(s) + j \in DOMAIN u /\ Place(u[Len(s) + j]) = Place(u[n])
    BY <1>1, <1>4
  <2>2. Len(s) + j <= n
    BY <2>1, <1>2
  <2> QED BY <2>2, <1>1
<1> QED BY <1>3, <1>4

\* Rows of other questions or of the other order change nothing.
LEMMA OtherRows ==
  ASSUME NEW s \in Seq(Row), NEW t \in Seq(Row), NEW q, NEW o, NEW x,
         \A r \in ToSet(t) : ~(r.question = q /\ r.order = o)
  PROVE  /\ Samples(s \o t, q, o) = Samples(s, q, o)
         /\ LatestOf(s, q, o, x) => LatestOf(s \o t, q, o, x)
<1>1. Samples(t, q, o) = {}
  BY Zenon DEF Samples
<1>2. Samples(s \o t, q, o) = Samples(s, q, o)
  <2>1. Samples(s \o t, q, o) = Samples(s, q, o) \cup Samples(t, q, o)
    BY SamplesConcat
  <2> QED BY <1>1, <2>1
<1>3. ASSUME LatestOf(s, q, o, x), NEW n \in DOMAIN (s \o t),
             (s \o t)[n].question = q, (s \o t)[n].order = o, Latest(s \o t, n)
      PROVE  (s \o t)[n].run = x
  <2>1. CASE n \in DOMAIN s /\ (s \o t)[n] = s[n]
    <3>1. Latest(s, n)
      BY <2>1, <1>3, LatestBefore
    <3> QED BY <2>1, <3>1, <1>3 DEF LatestOf
  <2>2. CASE \E j \in DOMAIN t : n = Len(s) + j /\ (s \o t)[n] = t[j]
    <3>1. PICK j \in DOMAIN t : (s \o t)[n] = t[j]
      BY <2>2
    <3>2. t[j] \in ToSet(t)
      BY DEF ToSet
    <3> QED BY <3>1, <3>2, <1>3
  <2> QED BY <2>1, <2>2, Either
<1> QED BY <1>2, <1>3 DEF LatestOf

\* A whole batch replaces what there was of its question and order.
LEMMA WholeBatch ==
  ASSUME NEW s \in Seq(Row), NEW t \in Seq(Row), NEW q, NEW o, NEW x,
         Full(t, q, o), OfRun(t, x)
  PROVE  Full(s \o t, q, o) /\ LatestOf(s \o t, q, o, x)
<1>1. Full(s \o t, q, o)
  <2>1. Samples(s, q, o) \subseteq 0 .. K - 1
    BY DEF Samples
  <2>2. Samples(s \o t, q, o) = Samples(s, q, o) \cup Samples(t, q, o)
    BY SamplesConcat
  <2> QED BY <2>1, <2>2 DEF Full
<1>2. ASSUME NEW n \in DOMAIN (s \o t),
             (s \o t)[n].question = q, (s \o t)[n].order = o, Latest(s \o t, n)
      PROVE  (s \o t)[n].run = x
  <2>1. CASE n \in DOMAIN s /\ (s \o t)[n] = s[n]
    <3>1. s[n] \in Row
      BY <2>1, LenProperties, ElementOfSeq
    <3>2. s[n].sample \in Samples(t, q, o)
      BY <3>1 DEF Row, Full
    <3>3. PICK r \in ToSet(t) : r.question = q /\ r.order = o /\ r.sample = s[n].sample
      BY <3>2 DEF Samples
    <3>4. PICK j \in DOMAIN t : t[j] = r
      BY DEF ToSet
    <3>5. Place(t[j]) = Place(s[n])
      BY <2>1, <3>3, <3>4, <1>2 DEF Place
    <3> QED BY <2>1, <3>5, <1>2, LatestBefore
  <2>2. CASE \E j \in DOMAIN t : n = Len(s) + j /\ (s \o t)[n] = t[j]
    BY <2>2 DEF OfRun, ToSet
  <2> QED BY <2>1, <2>2, Either
<1> QED BY <1>1, <1>2 DEF LatestOf

-----------------------------------------------------------------------------
(* What a paid command does to its ledger. *)

\* The rows of one batch, or the first few of them.
Writes(c, b, new) ==
  /\ pc[c] = "judging" /\ b \in Upcoming(c)
  /\ \A r \in ToSet(new) : /\ r.question = Asked(c)[b[1]]
                           /\ r.order = Orders[b[2]]
                           /\ r.run = mine[c]
  /\ ledger' = [ledger EXCEPT ![Into(c)] = Rows(@) \o new]
  /\ paid' = paid \cup ToSet(new)
  /\ \/ /\ Full(new, Asked(c)[b[1]], Orders[b[2]])
        /\ todo' = [todo EXCEPT ![c] = @ \ {b}]
        /\ UNCHANGED <<pc, mine, seen, held>>
     \/ /\ K - 1 \notin Samples(new, Asked(c)[b[1]], Orders[b[2]])
        /\ Ended(c)
  /\ UNCHANGED <<freezes, head, history, runs, outputs>>

Stops(c) == Ended(c) /\ UNCHANGED <<freezes, files, outputs>>

\* The batch that comes next is one of the questions the run asks.
LEMMA UpcomingBatch ==
  ASSUME Typed, NEW c \in Paid, pc[c] = "judging", NEW b \in Upcoming(c)
  PROVE  /\ b \in todo[c] /\ b = <<b[1], b[2]>>
         /\ b[1] \in 1 .. Len(Asked(c)) /\ b[2] \in {1, 2}
         /\ Asked(c)[b[1]] \in ToSet(Asked(c))
         /\ Asked(c)[b[1]] \in Questions /\ Orders[b[2]] \in ToSet(Orders)
         /\ mine[c] \in 1 .. MaxRuns
<1>1. b \in todo[c] /\ b \in Batches(Asked(c))
  BY DEF Upcoming, Typed
<1>2. b = <<b[1], b[2]>> /\ b[1] \in 1 .. Len(Asked(c)) /\ b[2] \in {1, 2}
  BY <1>1 DEF Batches
<1>3. Asked(c) \in Seq(Questions)
  BY JudgeAssumption DEF JudgeAssumption, Asked
<1>4. Asked(c)[b[1]] \in ToSet(Asked(c)) /\ Asked(c)[b[1]] \in Questions
  BY <1>2, <1>3, LenProperties, ElementOfSeq DEF ToSet
<1>5. mine[c] \in 1 .. MaxRuns
  BY JudgeAssumption DEF Typed, Paid, Commands, JudgeAssumption
<1> QED BY <1>1, <1>2, <1>4, <1>5, OrderNames

LEMMA BatchRows ==
  ASSUME Typed, NEW c \in Paid, pc[c] = "judging", NEW b \in Upcoming(c)
  PROVE  /\ Batch(c, b) \in Seq(Row) /\ Len(Batch(c, b)) = K
         /\ Full(Batch(c, b), Asked(c)[b[1]], Orders[b[2]])
         /\ \A n \in 1 .. K :
              Batch(c, b)[n] = [question |-> Asked(c)[b[1]], order |-> Orders[b[2]],
                                sample |-> n - 1, run |-> mine[c]]
<1> DEFINE q == Asked(c)[b[1]]
           o == Orders[b[2]]
           row(n) == [question |-> q, order |-> o, sample |-> n - 1, run |-> mine[c]]
           s == Batch(c, b)
<1>1. K \in Nat /\ K >= 2
  BY JudgeAssumption DEF JudgeAssumption
<1>2. q \in Questions /\ o \in ToSet(Orders) /\ mine[c] \in 1 .. MaxRuns
  BY UpcomingBatch
<1> HIDE DEF q, o
<1>3. \A n \in 1 .. K : row(n) \in Row
  <2> TAKE n \in 1 .. K
  <2>1. n - 1 \in 0 .. K - 1
    BY <1>1
  <2> QED BY <1>2, <2>1 DEF Row
<1>4. s = [n \in 1 .. K |-> row(n)]
  BY DEF Batch, q, o
<1> HIDE DEF s
<1>5. s \in [1 .. K -> Row] /\ \A n \in 1 .. K : s[n] = row(n)
  BY <1>3, <1>4
<1>6. s \in Seq(Row) /\ Len(s) = K /\ DOMAIN s = 1 .. K
  BY <1>1, <1>5, SeqDef, LenProperties
<1>7. Full(s, q, o)
  <2>1. ASSUME NEW i \in 0 .. K - 1
        PROVE  \E r \in ToSet(s) : r.question = q /\ r.order = o /\ r.sample = i
    <3>1. i + 1 \in 1 .. K /\ (i + 1) - 1 = i
      BY <1>1
    <3>2. s[i + 1] \in ToSet(s)
      BY <3>1, <1>6 DEF ToSet
    <3> QED BY <3>1, <3>2, <1>5
  <2> QED BY <2>1 DEF Full, Samples
<1> QED BY <1>5, <1>6, <1>7 DEF q, o, s

LEMMA RowsType ==
  ASSUME Typed, NEW l \in Ledgers
  PROVE  Rows(ledger[l]) \in Seq(Row)
BY EmptySeq DEF Typed, Ledger, Rows

\* A step of a paid command writes, or only stops.
LEMMA PaidStep ==
  ASSUME Typed, NEW c \in Paid, Judge(c) \/ Judged(c) \/ Killed(c)
  PROVE  Stops(c) \/ \E b \in Upcoming(c), new \in Seq(Row) : Writes(c, b, new)
<1>1. K \in Nat /\ K >= 2
  BY JudgeAssumption DEF JudgeAssumption
<1>2. CASE Judged(c)
  BY <1>2 DEF Judged, Stops
<1>3. CASE Judge(c)
  <2>1. PICK b \in Upcoming(c) : /\ Appended(c, Batch(c, b))
                                 /\ todo' = [todo EXCEPT ![c] = @ \ {b}]
    BY <1>3 DEF Judge
  <2>2. pc[c] = "judging" /\ UNCHANGED <<freezes, head, history, runs, pc, mine, seen, held, outputs>>
    BY <1>3 DEF Judge
  <2>3. \A r \in ToSet(Batch(c, b)) : /\ r.question = Asked(c)[b[1]]
                                      /\ r.order = Orders[b[2]]
                                      /\ r.run = mine[c]
    <3>1. DOMAIN Batch(c, b) = 1 .. K
      BY <2>2, BatchRows, LenProperties
    <3>2. \A n \in 1 .. K :
            Batch(c, b)[n] = [question |-> Asked(c)[b[1]], order |-> Orders[b[2]],
                              sample |-> n - 1, run |-> mine[c]]
      BY <2>2, BatchRows
    <3> QED BY <3>1, <3>2 DEF ToSet
  <2> QED BY <2>1, <2>2, <2>3, BatchRows DEF Writes, Appended
<1>4. CASE Killed(c)
  <2>1. PICK b \in Upcoming(c), n \in 0 .. K - 1 :
          IF n = 0 THEN UNCHANGED <<ledger, paid>>
                   ELSE Appended(c, SubSeq(Batch(c, b), 1, n))
    BY <1>4 DEF Killed
  <2>2. pc[c] = "judging" /\ Ended(c) /\ UNCHANGED <<freezes, head, history, runs, outputs>>
    BY <1>4 DEF Killed
  <2>3. CASE n = 0
    BY <2>1, <2>2, <2>3 DEF Stops, files
  <2>4. CASE n # 0
    <3> DEFINE new == SubSeq(Batch(c, b), 1, n)
    <3>1. /\ Batch(c, b) \in Seq(Row) /\ Len(Batch(c, b)) = K
          /\ \A i \in 1 .. K :
              Batch(c, b)[i] = [question |-> Asked(c)[b[1]], order |-> Orders[b[2]],
                                sample |-> i - 1, run |-> mine[c]]
      BY <2>2, BatchRows
    <3>2. /\ \A i \in 1 .. n : Batch(c, b)[i] \in Row
          /\ 1 \in Int /\ n \in Int /\ n \in 1 .. K - 1
      BY <1>1, <2>4, <3>1, ElementOfSeq
    <3>3. new \in Seq(Row) /\ Len(new) = n /\ \A i \in 1 .. n : new[i] = Batch(c, b)[i]
      <4>1. /\ new \in Seq(Row) /\ Len(new) = IF 1 <= n THEN n - 1 + 1 ELSE 0
            /\ \A i \in 1 .. n - 1 + 1 : new[i] = Batch(c, b)[1 + i - 1]
        BY <3>2, SubSeqProperties
      <4>2. n - 1 + 1 = n /\ 1 <= n /\ \A i \in 1 .. n : 1 + i - 1 = i
        BY <3>2
      <4> HIDE DEF new
      <4> QED BY <4>1, <4>2
    <3> HIDE DEF new
    <3>4. DOMAIN new = 1 .. n
      BY <3>3, LenProperties
    <3>5. \A r \in ToSet(new) : /\ r.question = Asked(c)[b[1]]
                                /\ r.order = Orders[b[2]]
                                /\ r.run = mine[c]
                                /\ r.sample # K - 1
      <4> SUFFICES ASSUME NEW i \in 1 .. n
                   PROVE  /\ new[i].question = Asked(c)[b[1]]
                          /\ new[i].order = Orders[b[2]]
                          /\ new[i].run = mine[c]
                          /\ new[i].sample # K - 1
        BY <3>4 DEF ToSet
      <4>1. i \in 1 .. K /\ i - 1 # K - 1
        BY <1>1, <3>2
      <4>2. new[i] = [question |-> Asked(c)[b[1]], order |-> Orders[b[2]],
                      sample |-> i - 1, run |-> mine[c]]
        BY <3>1, <3>3, <4>1
      <4> QED BY <4>1, <4>2
    <3>6. K - 1 \notin Samples(new, Asked(c)[b[1]], Orders[b[2]])
      BY <3>5 DEF Samples
    <3>7. Appended(c, new)
      BY <2>1, <2>4 DEF new
    <3> QED BY <2>2, <3>3, <3>5, <3>6, <3>7 DEF Writes, Appended
  <2> QED BY <2>3, <2>4
<1> QED BY <1>2, <1>3, <1>4

\* Every step: a paid command writes or stops, or one of the others.
LEMMA Steps ==
  ASSUME Typed, Next
  PROVE  \/ \E c \in Paid : Stops(c)
         \/ \E c \in Paid : \E b \in Upcoming(c), new \in Seq(Row) : Writes(c, b, new)
         \/ StartGateB \/ StartRun \/ Scoring \/ Operator
BY PaidStep, Zenon DEF Next, Paying, Paid

\* A write adds its rows to its ledger and leaves the other alone.
LEMMA Written ==
  ASSUME Typed, NEW c \in Paid, NEW b \in Upcoming(c), NEW new \in Seq(Row), Writes(c, b, new)
  PROVE  /\ Rows(ledger'[Into(c)]) = Rows(ledger[Into(c)]) \o new
         /\ ToSet(Rows(ledger'[Into(c)])) = ToSet(Rows(ledger[Into(c)])) \cup ToSet(new)
         /\ ledger'[Into(c)] \in Seq(Row)
         /\ Into(c) \in Ledgers
         /\ \A l \in Ledgers : l # Into(c) => ledger'[l] = ledger[l]
         /\ ledger' \in [Ledgers -> Ledger]
<1>1. Into(c) \in Ledgers /\ ledger \in [Ledgers -> Ledger]
  BY DEF Into, Ledgers, Typed
<1>2. /\ Rows(ledger[Into(c)]) \o new \in Seq(Row)
      /\ ToSet(Rows(ledger[Into(c)]) \o new) = ToSet(Rows(ledger[Into(c)])) \cup ToSet(new)
  <2>1. Rows(ledger[Into(c)]) \in Seq(Row)
    BY <1>1, RowsType
  <2> QED BY <2>1, Concat
<1>3. ledger' = [ledger EXCEPT ![Into(c)] = Rows(ledger[Into(c)]) \o new]
  BY DEF Writes
<1>4. ledger'[Into(c)] = Rows(ledger[Into(c)]) \o new
  BY <1>1, <1>3
<1>5. ledger'[Into(c)] # Absent
  BY <1>2, <1>4, JudgeAssumption DEF JudgeAssumption
<1> QED BY <1>1, <1>2, <1>3, <1>4, <1>5 DEF Rows, Ledger

-----------------------------------------------------------------------------
(* The types. *)

LEMMA Initially == Init => JudgeInv
<1> SUFFICES ASSUME Init PROVE JudgeInv
  OBVIOUS
<1> USE DEF Init
<1>1. MaxRuns \in Nat /\ K \in Nat
  BY JudgeAssumption DEF JudgeAssumption
<1>2. \A l \in Ledgers : ledger[l] = Absent /\ head[l] = Absent /\ Rows(ledger[l]) = <<>>
  BY DEF Rows
<1>3. Typed
  BY <1>1, EmptySeq DEF Typed, Ledger, States, Ledgers, Commands, Paid
<1>4. ToSet(<<>>) = {} /\ DOMAIN <<>> = {}
  BY DEF ToSet
<1>5. CommittedKept /\ OwnQuestions /\ OriginalInv
  BY <1>1, <1>2, <1>4 DEF CommittedKept, OwnQuestions, OriginalInv, OfRun, Ledgers, Commands
<1>6. EmitInv /\ AnalyzeInv /\ ExtensionInv
  <2>1. \A q : Samples(<<>>, q, "reverse") = {}
    BY <1>4 DEF Samples
  <2> QED BY <1>2, <2>1 DEF EmitInv, AnalyzeInv, ExtensionInv, WholeQuestions, Ledgers, Commands
<1>7. PaidRowsKept /\ OneRunPerQuestion /\ EmissionInGit
  BY DEF PaidRowsKept, OneRunPerQuestion, EmissionInGit
<1> QED BY <1>3, <1>5, <1>6, <1>7 DEF JudgeInv

\* A command that ends is idle and has nothing before it.
LEMMA EndedType ==
  ASSUME Typed, NEW c \in Commands, Ended(c), UNCHANGED runs,
         ledger' \in [Ledgers -> Ledger], head' \in [Ledgers -> Ledger]
  PROVE  Typed'
<1>1. MaxRuns \in Nat /\ <<>> \in Ledger
  BY JudgeAssumption, EmptySeq DEF JudgeAssumption, Ledger
<1>2. pc' \in [Commands -> States] /\ pc'[c] = "idle" /\ \A d \in Commands \ {c} : pc'[d] = pc[d]
  BY DEF Ended, Typed, States
<1>3. /\ todo' \in [Commands -> SUBSET (Nat \X Nat)]
      /\ todo'[c] = {} /\ \A d \in Commands \ {c} : todo'[d] = todo[d]
  BY DEF Ended, Typed
<1>4. mine' \in [Commands -> 0 .. MaxRuns] /\ \A d \in Commands \ {c} : mine'[d] = mine[d]
  BY <1>1 DEF Ended, Typed
<1>5. seen' = [d \in Commands |-> seen'[d]]
  BY DEF Ended, Typed
<1>6. held' \in [Commands -> Ledger]
  BY <1>1 DEF Ended, Typed
<1>7. pc'["emit"] # "judging" /\ pc'["analyze"] # "judging"
  BY <1>2 DEF Typed, Commands
<1>8. ASSUME NEW d \in Paid
      PROVE  /\ pc'[d] \in {"idle", "judging"}
             /\ todo'[d] \subseteq Batches(Asked(d))
             /\ pc'[d] = "judging" => mine'[d] # 0
  BY <1>2, <1>3, <1>4 DEF Typed, Paid, Commands
<1> QED BY <1>2, <1>3, <1>4, <1>5, <1>6, <1>7, <1>8 DEF Typed

LEMMA TypedStep == ASSUME Typed, Next PROVE Typed'
<1> USE DEF Typed
<1>1. /\ MaxRuns \in Nat /\ <<>> \in Ledger /\ Absent \in Ledger
      /\ Batches(Prefix) \subseteq Nat \X Nat /\ Batches(Extension) \subseteq Nat \X Nat
  <2>1. Len(Prefix) \in Nat /\ Len(Extension) \in Nat /\ MaxRuns \in Nat
    BY JudgeAssumption, LenProperties DEF JudgeAssumption
  <2> QED BY <2>1, EmptySeq DEF Batches, Ledger
<1>2. ASSUME NEW c \in Paid, Stops(c) PROVE Typed'
  BY <1>2, EndedType DEF Stops, files, Paid, Commands
<1>3. ASSUME NEW c \in Paid, NEW b \in Upcoming(c), NEW new \in Seq(Row), Writes(c, b, new)
      PROVE  Typed'
  <2>1. ledger' \in [Ledgers -> Ledger] /\ UNCHANGED <<head, runs>>
    BY <1>3, Written DEF Writes
  <2>2. CASE todo' = [todo EXCEPT ![c] = @ \ {b}] /\ UNCHANGED <<pc, mine, seen, held>>
    BY <2>1, <2>2 DEF Paid, Commands, Asked
  <2>3. CASE Ended(c)
    BY <2>1, <2>3, EndedType DEF Paid, Commands
  <2> QED BY <1>3, <2>2, <2>3 DEF Writes
<1>4. CASE StartGateB
  BY <1>1, <1>4 DEF StartGateB, Paid, Commands, States, Asked, Ledgers
<1>5. CASE StartRun
  <2>1. Todo(Rows(ledger["extension"])) \subseteq Batches(Extension)
    BY DEF Todo
  <2> QED BY <1>1, <1>5, <2>1 DEF StartRun, Paid, Commands, States, Asked, Ledgers
<1>6. CASE Scoring
  <2> USE <1>1 DEF Paid, Commands, States, Asked, files, Ended, Ledgers
  <2>1. CASE EmitPreflight
    BY <2>1 DEF EmitPreflight, local
  <2>8. CASE EmitHash
    BY <2>8 DEF EmitHash
  <2>9. CASE EmitRecheck
    BY <2>9 DEF EmitRecheck, local
  <2>10. CASE EmitRehash
    BY <2>10 DEF EmitRehash, local
  <2>2. CASE EmitRead
    BY <2>2 DEF EmitRead, Rows
  <2>3. CASE EmitWrite
    <3>1. Ended("emit") /\ UNCHANGED <<ledger, head, runs>>
      BY <2>3 DEF EmitWrite
    <3> QED BY <3>1, EndedType DEF Commands
  <2>4. CASE AnalyzeHash
    BY <2>4 DEF AnalyzeHash
  <2>5. CASE AnalyzeExtension
    <3>1. Rows(ledger["extension"]) \in Ledger
      BY RowsType DEF Ledger
    <3> QED BY <2>5, <3>1 DEF AnalyzeExtension
  <2>6. CASE AnalyzeOriginal
    <3>1. Ended("analyze") /\ UNCHANGED <<ledger, head, runs>>
      BY <2>6 DEF AnalyzeOriginal
    <3> QED BY <3>1, EndedType DEF Commands
  <2>7. ASSUME NEW c \in {"emit", "analyze"}, ScoringKilled(c) PROVE Typed'
    <3>1. Ended(c) /\ UNCHANGED <<ledger, head, runs>>
      BY <2>7 DEF ScoringKilled
    <3> QED BY <3>1, EndedType DEF Commands
  <2> QED BY <1>6, <2>1, <2>2, <2>3, <2>4, <2>5, <2>6, <2>7, <2>8, <2>9, <2>10 DEF Scoring
<1>7. CASE Operator
  BY <1>7 DEF Operator, FreezeAddendum, FreezeExtension, CommitFreeze, Commit, local, files, Ledgers
<1> QED BY <1>2, <1>3, <1>4, <1>5, <1>6, <1>7, Steps

\* The steps of the operator and the scoring commands leave the paid commands
\* alone; those that pay leave the scoring commands alone.
LEMMA Apart ==
  ASSUME Typed, Next
  PROVE  /\ Scoring \/ Operator =>
              /\ UNCHANGED <<ledger, paid, runs>>
              /\ \A c \in Paid : pc'[c] = pc[c] /\ todo'[c] = todo[c] /\ mine'[c] = mine[c]
         /\ ~Scoring /\ ~Operator =>
              /\ UNCHANGED <<freezes, head, history, outputs>>
              /\ \A c \in {"emit", "analyze"} :
                   pc'[c] = pc[c] /\ seen'[c] = seen[c] /\ held'[c] = held[c]
<1>1. ASSUME Scoring \/ Operator
      PROVE  /\ UNCHANGED <<ledger, paid, runs>>
             /\ \A c \in Paid : pc'[c] = pc[c] /\ todo'[c] = todo[c] /\ mine'[c] = mine[c]
  <2>1. CASE Operator
    BY <2>1 DEF Operator, FreezeAddendum, FreezeExtension, CommitFreeze, Commit, local, files
  <2> USE DEF Paid, Commands, files, Ended, Typed
  <2>2. CASE EmitPreflight
    BY <2>2 DEF EmitPreflight, local
  <2>9. CASE EmitHash
    BY <2>9 DEF EmitHash
  <2>10. CASE EmitRecheck \/ EmitRehash
    BY <2>10 DEF EmitRecheck, EmitRehash, local
  <2>3. CASE EmitRead
    BY <2>3 DEF EmitRead
  <2>4. CASE EmitWrite
    BY <2>4 DEF EmitWrite
  <2>5. CASE AnalyzeHash
    BY <2>5 DEF AnalyzeHash
  <2>6. CASE AnalyzeExtension
    BY <2>6 DEF AnalyzeExtension
  <2>7. CASE AnalyzeOriginal
    BY <2>7 DEF AnalyzeOriginal
  <2>8. CASE \E c \in {"emit", "analyze"} : ScoringKilled(c)
    BY <2>8 DEF ScoringKilled
  <2> QED BY <1>1, <2>1, <2>2, <2>3, <2>4, <2>5, <2>6, <2>7, <2>8, <2>9, <2>10 DEF Scoring
<1>2. ASSUME ~Scoring, ~Operator
      PROVE  /\ UNCHANGED <<freezes, head, history, outputs>>
             /\ \A c \in {"emit", "analyze"} :
                  pc'[c] = pc[c] /\ seen'[c] = seen[c] /\ held'[c] = held[c]
  <2> USE DEF Paid, Commands, Typed, Ended
  <2>1. CASE StartGateB
    BY <2>1 DEF StartGateB
  <2>2. CASE StartRun
    BY <2>2 DEF StartRun
  <2>3. ASSUME NEW c \in Paid, Stops(c)
        PROVE  /\ UNCHANGED <<freezes, head, history, outputs>>
               /\ \A d \in {"emit", "analyze"} :
                    pc'[d] = pc[d] /\ seen'[d] = seen[d] /\ held'[d] = held[d]
    BY <2>3 DEF Stops, files
  <2>4. ASSUME NEW c \in Paid, NEW b \in Upcoming(c), NEW new \in Seq(Row), Writes(c, b, new)
        PROVE  /\ UNCHANGED <<freezes, head, history, outputs>>
               /\ \A d \in {"emit", "analyze"} :
                    pc'[d] = pc[d] /\ seen'[d] = seen[d] /\ held'[d] = held[d]
    BY <2>4 DEF Writes
  <2> QED BY <1>2, <2>1, <2>2, <2>3, <2>4, Steps
<1> QED BY <1>1, <1>2

-----------------------------------------------------------------------------
(* The invariants. *)

\* Which of the two ledgers a step changes, and how.
LEMMA LedgerStep ==
  ASSUME Typed, Next
  PROVE  \/ UNCHANGED <<ledger, paid>>
         \/ StartGateB
         \/ \E c \in Paid : \E b \in Upcoming(c), new \in Seq(Row) : Writes(c, b, new)
BY Steps, Apart DEF Stops, StartRun, files

LEMMA CommittedStep == ASSUME Typed, CommittedKept, Next PROVE CommittedKept'
<1>1. ASSUME NEW l \in Ledgers, Commit(l) PROVE CommittedKept'
  BY <1>1 DEF Commit, CommittedKept, Typed
<1>2. CASE ~\E l \in Ledgers : Commit(l)
  <2>1. UNCHANGED <<head, history>>
    <3>1. CASE Scoring
      BY <3>1 DEF Scoring, EmitPreflight, EmitHash, EmitRecheck, EmitRehash, EmitRead, EmitWrite,
                  AnalyzeHash, AnalyzeExtension, AnalyzeOriginal, ScoringKilled, files
    <3>2. CASE Operator
      BY <1>2, <3>2 DEF Operator, FreezeAddendum, FreezeExtension, CommitFreeze, files
    <3> QED BY <3>1, <3>2, Apart
  <2> QED BY <2>1 DEF CommittedKept
<1> QED BY <1>1, <1>2

LEMMA HistoryGrows == ASSUME Typed, Next PROVE history \subseteq history'
<1>1. CASE Scoring
  BY <1>1 DEF Scoring, EmitPreflight, EmitHash, EmitRecheck, EmitRehash, EmitRead, EmitWrite,
              AnalyzeHash, AnalyzeExtension, AnalyzeOriginal, ScoringKilled, files
<1>2. CASE Operator
  BY <1>2 DEF Operator, FreezeAddendum, FreezeExtension, CommitFreeze, Commit, files
<1> QED BY <1>1, <1>2, Apart

LEMMA KeptStep == ASSUME Typed, CommittedKept, PaidRowsKept, Next PROVE PaidRowsKept'
<1> USE DEF Ledgers
<1>1. CASE UNCHANGED <<ledger, paid>>
  BY <1>1, HistoryGrows DEF PaidRowsKept, Rows
<1>2. CASE StartGateB
  <2>1. /\ MayRemove /\ UNCHANGED <<paid, history>>
        /\ ledger' = [ledger EXCEPT !["original"] = Absent]
    BY <1>2 DEF StartGateB
  <2>2. ledger'["extension"] = ledger["extension"]
    BY <2>1 DEF Typed
  <2>3. ToSet(Rows(ledger["original"])) \subseteq history
    <3>1. CASE ledger["original"] = Absent
      BY <3>1 DEF Rows, ToSet
    <3>2. CASE ledger["original"] # Absent
      BY <2>1, <3>2 DEF MayRemove, Clean, CommittedKept, Rows
    <3> QED BY <3>1, <3>2
  <2> QED BY <2>1, <2>2, <2>3 DEF PaidRowsKept, Rows
<1>3. ASSUME NEW c \in Paid, NEW b \in Upcoming(c), NEW new \in Seq(Row), Writes(c, b, new)
      PROVE  PaidRowsKept'
  <2>1. ToSet(Rows(ledger'[Into(c)])) = ToSet(Rows(ledger[Into(c)])) \cup ToSet(new)
    BY <1>3, Written
  <2>2. \A l \in Ledgers : l # Into(c) => ledger'[l] = ledger[l]
    BY <1>3, Written
  <2>3. paid' = paid \cup ToSet(new) /\ history' = history /\ Into(c) \in Ledgers
    BY <1>3 DEF Writes, Into
  <2>4. \A l \in Ledgers : ToSet(Rows(ledger[l])) \subseteq ToSet(Rows(ledger'[l]))
    BY <2>1, <2>2
  <2> QED BY <2>1, <2>3, <2>4 DEF PaidRowsKept
<1> QED BY <1>1, <1>2, <1>3, LedgerStep

LEMMA OwnStep == ASSUME Typed, OwnQuestions, Next PROVE OwnQuestions'
<1> USE DEF Ledgers
<1>1. CASE UNCHANGED <<ledger, paid>>
  BY <1>1 DEF OwnQuestions, Rows
<1>2. CASE StartGateB
  <2>1. ledger'["original"] = Absent /\ ledger'["extension"] = ledger["extension"]
    BY <1>2 DEF StartGateB, Typed
  <2> QED BY <2>1 DEF OwnQuestions, Rows, ToSet
<1>3. ASSUME NEW c \in Paid, NEW b \in Upcoming(c), NEW new \in Seq(Row), Writes(c, b, new)
      PROVE  OwnQuestions'
  <2>1. ToSet(Rows(ledger'[Into(c)])) = ToSet(Rows(ledger[Into(c)])) \cup ToSet(new)
    BY <1>3, Written
  <2>2. \A l \in Ledgers : l # Into(c) => ledger'[l] = ledger[l]
    BY <1>3, Written
  <2>3. \A r \in ToSet(new) : r.question \in ToSet(Asked(c))
    BY <1>3, UpcomingBatch DEF Writes
  <2>4. CASE c = "gate-b"
    BY <2>1, <2>2, <2>3, <2>4 DEF OwnQuestions, Into, Asked, Rows
  <2>5. CASE c = "run"
    BY <2>1, <2>2, <2>3, <2>5 DEF OwnQuestions, Into, Asked, Rows
  <2> QED BY <2>4, <2>5 DEF Paid
<1> QED BY <1>1, <1>2, <1>3, LedgerStep

\* The rows of the original ledger are numbered by runs.
LEMMA RowNumbers ==
  ASSUME Typed
  PROVE  \A r \in ToSet(Rows(ledger["original"])) : r \in Row /\ r.run \in 1 .. MaxRuns /\ r.run \in Nat
<1>1. Rows(ledger["original"]) \in Seq(Row)
  BY RowsType DEF Ledgers
<1>2. \A r \in ToSet(Rows(ledger["original"])) : r \in Row
  BY <1>1, ElementOfSeq, LenProperties DEF ToSet
<1>3. MaxRuns \in Nat
  BY JudgeAssumption DEF JudgeAssumption
<1> QED BY <1>2, <1>3 DEF Row

LEMMA OriginalStep == ASSUME Typed, OriginalInv, Next PROVE OriginalInv'
<1> USE DEF Ledgers
<1>1. CASE Scoring \/ Operator
  BY <1>1, Apart DEF OriginalInv, Rows, Paid, OfRun
<1>2. CASE StartGateB
  <2>1. ledger'["original"] = Absent /\ mine'["gate-b"] = runs + 1 /\ runs' = runs + 1
    BY <1>2 DEF StartGateB, Typed, Commands
  <2>2. runs \in Nat /\ MaxRuns \in Nat
    BY JudgeAssumption DEF Typed, JudgeAssumption
  <2> QED BY <2>1, <2>2 DEF OriginalInv, OfRun, Rows, ToSet
<1>3. CASE StartRun
  <2>1. /\ UNCHANGED ledger /\ pc'["gate-b"] = pc["gate-b"] /\ mine'["gate-b"] = mine["gate-b"]
        /\ runs' = runs + 1
    BY <1>3 DEF StartRun, Typed
  <2>2. runs \in Nat /\ mine["gate-b"] \in Nat /\ \A r \in ToSet(Rows(ledger["original"])) : r.run \in Nat
    BY RowNumbers DEF Typed, Commands
  <2> QED BY <2>1, <2>2 DEF OriginalInv, Rows, OfRun
<1>4. ASSUME NEW c \in Paid, Stops(c) PROVE OriginalInv'
  <2>1. /\ UNCHANGED <<ledger, runs>>
        /\ \/ pc'["gate-b"] = "idle"
           \/ pc'["gate-b"] = pc["gate-b"] /\ mine'["gate-b"] = mine["gate-b"]
    BY <1>4 DEF Stops, Ended, Typed, files, Commands, Paid
  <2> QED BY <2>1 DEF OriginalInv, Rows, OfRun
<1>5. ASSUME NEW c \in Paid, NEW b \in Upcoming(c), NEW new \in Seq(Row), Writes(c, b, new)
      PROVE  OriginalInv'
  <2>1. CASE c = "gate-b"
    <3>1. ToSet(Rows(ledger'["original"])) = ToSet(Rows(ledger["original"])) \cup ToSet(new)
      BY <1>5, <2>1, Written DEF Into
    <3>2. \A r \in ToSet(new) : r.run = mine["gate-b"]
      BY <1>5, <2>1 DEF Writes
    <3>3. pc["gate-b"] = "judging" /\ mine["gate-b"] \in 0 .. MaxRuns /\ UNCHANGED runs
      BY <1>5, <2>1 DEF Writes, Typed, Commands
    <3>4. OfRun(Rows(ledger["original"])', mine["gate-b"])
      BY <3>1, <3>2, <3>3 DEF OriginalInv, OfRun, Rows
    <3>5. pc'["gate-b"] = "judging" => mine'["gate-b"] = mine["gate-b"]
      BY <1>5, <2>1 DEF Writes, Ended, Typed, Commands
    <3>6. \A r \in ToSet(Rows(ledger["original"])') : r.run <= runs'
      BY <3>3, <3>4 DEF OriginalInv, OfRun
    <3> QED BY <3>3, <3>4, <3>5, <3>6 DEF OriginalInv
  <2>2. CASE c = "run"
    <3>1. ledger'["original"] = ledger["original"]
      BY <1>5, <2>2, Written DEF Into
    <3>2. pc'["gate-b"] = pc["gate-b"] /\ mine'["gate-b"] = mine["gate-b"] /\ runs' = runs
      BY <1>5, <2>2 DEF Writes, Ended, Typed, Commands
    <3> QED BY <3>1, <3>2 DEF OriginalInv, Rows, OfRun
  <2> QED BY <2>1, <2>2 DEF Paid
<1> QED BY <1>1, <1>2, <1>3, <1>4, <1>5, Steps

\* A row that was hashed stays traceable.
LEMMA TraceStep ==
  ASSUME Typed, CommittedKept, OriginalInv, Next, NEW r \in Row, r.run <= runs, Traceable(r)
  PROVE  Traceable(r)' /\ r.run <= runs'
<1> USE DEF Ledgers
<1>0. runs \in Nat /\ r.run \in Nat /\ mine["gate-b"] \in Nat
  BY JudgeAssumption DEF Typed, Row, JudgeAssumption, Commands
<1>1. CASE Scoring \/ Operator
  BY <1>1, Apart, HistoryGrows DEF Traceable, Later, Rows, Paid
<1>2. CASE StartGateB
  <2>1. /\ ledger'["original"] = Absent /\ mine'["gate-b"] = runs + 1 /\ runs' = runs + 1
        /\ MayRemove /\ history' = history
    BY <1>2 DEF StartGateB, Typed, Commands
  <2>2. r \in history
    <3>1. CASE ledger["original"] = Absent
      BY <3>1 DEF Traceable, Rows, ToSet
    <3>2. CASE ledger["original"] # Absent
      BY <2>1, <3>2 DEF MayRemove, Clean, CommittedKept, Rows, Traceable
    <3> QED BY <3>1, <3>2
  <2>3. ToSet(Rows(ledger["original"]))' = {}
    BY <2>1 DEF Rows, ToSet
  <2> QED BY <1>0, <2>1, <2>2, <2>3 DEF Traceable, Later
<1>3. CASE StartRun
  <2>1. /\ UNCHANGED <<ledger, history>> /\ pc'["gate-b"] = pc["gate-b"]
        /\ mine'["gate-b"] = mine["gate-b"] /\ runs' = runs + 1
    BY <1>3 DEF StartRun, Typed
  <2> QED BY <1>0, <2>1 DEF Traceable, Later, Rows
<1>4. ASSUME NEW c \in Paid, Stops(c) PROVE Traceable(r)' /\ r.run <= runs'
  <2>1. /\ UNCHANGED <<ledger, runs, history>>
        /\ \/ pc'["gate-b"] = "idle"
           \/ pc'["gate-b"] = pc["gate-b"] /\ mine'["gate-b"] = mine["gate-b"]
    BY <1>4 DEF Stops, Ended, Typed, files, Commands, Paid
  <2> QED BY <2>1 DEF Traceable, Later, Rows
<1>5. ASSUME NEW c \in Paid, NEW b \in Upcoming(c), NEW new \in Seq(Row), Writes(c, b, new)
      PROVE  Traceable(r)' /\ r.run <= runs'
  <2>1. UNCHANGED <<runs, history>>
    BY <1>5 DEF Writes
  <2>2. CASE c = "gate-b"
    <3>1. ToSet(Rows(ledger["original"]))' = ToSet(Rows(ledger["original"])) \cup ToSet(new)
      BY <1>5, <2>2, Written DEF Into, Rows
    <3>2. pc["gate-b"] = "judging" /\ \A s \in ToSet(new) : s.run = mine["gate-b"]
      BY <1>5, <2>2 DEF Writes
    <3>3. pc'["gate-b"] = "judging" => mine'["gate-b"] = mine["gate-b"]
      BY <1>5, <2>2 DEF Writes, Ended, Typed, Commands
    <3> QED BY <2>1, <3>1, <3>2, <3>3 DEF Traceable, Later
  <2>3. CASE c = "run"
    <3>1. ledger'["original"] = ledger["original"]
      BY <1>5, <2>3, Written DEF Into
    <3>2. pc'["gate-b"] = pc["gate-b"] /\ mine'["gate-b"] = mine["gate-b"]
      BY <1>5, <2>3 DEF Writes, Ended, Typed, Commands
    <3> QED BY <2>1, <3>1, <3>2 DEF Traceable, Later, Rows
  <2> QED BY <2>2, <2>3 DEF Paid
<1> QED BY <1>1, <1>2, <1>3, <1>4, <1>5, Steps

LEMMA EmitStep == ASSUME Typed, CommittedKept, OwnQuestions, OriginalInv, EmitInv, Next PROVE EmitInv'
<1> USE DEF Commands
<1> DEFINE Hashed == {"retraining", "rehashing", "reading", "scored"}
           Asked2 == {"rehashing", "reading", "scored"}
           Known(r) == r \in Row /\ r.run <= runs /\ r.question \in ToSet(Prefix) /\ Traceable(r)
           Found(r) == r \in ToSet(held["emit"]) \/ Later(held["emit"], r)
<1>1. ASSUME NEW r, Known(r) PROVE Known(r)'
  BY <1>1, TraceStep
<1>2. history \subseteq history'
  BY HistoryGrows
<1>3. \A r \in ToSet(Rows(ledger["original"])) : Known(r)
  BY RowNumbers DEF OwnQuestions, OriginalInv, Traceable
<1>4. CASE EmitHash
  <2>1. CASE ledger["original"] = Absent
    BY <1>4, <2>1 DEF EmitHash, Ended, EmitInv, Typed
  <2>2. CASE ledger["original"] # Absent
    <3>1. seen'["emit"] = Rows(ledger["original"]) /\ pc'["emit"] = "retraining"
      BY <1>4, <2>2 DEF EmitHash, Typed, Rows
    <3> QED BY <3>1, <1>1, <1>3 DEF EmitInv
  <2> QED BY <2>1, <2>2
<1>5. CASE EmitRecheck
  <2>1. CASE ~StillCommitted
    BY <1>5, <2>1 DEF EmitRecheck, Ended, EmitInv, Typed
  <2>2. CASE StillCommitted
    <3>1. seen'["emit"] = seen["emit"] /\ pc'["emit"] = "rehashing" /\ pc["emit"] = "retraining"
      BY <1>5, <2>2 DEF EmitRecheck, Typed, local
    <3>2. \A r \in ToSet(seen["emit"]) : Known(r)
      BY <3>1 DEF EmitInv
    <3>3. ToSet(Rows(ledger["original"])) \subseteq history
      BY <2>2 DEF StillCommitted, Clean, CommittedKept, Rows, Ledgers
    <3>4. ToSet(seen["emit"]) \subseteq history
      BY <3>2, <3>3 DEF Traceable
    <3> QED BY <3>1, <3>2, <3>4, <1>1, <1>2 DEF EmitInv
  <2> QED BY <2>1, <2>2
<1>6. CASE EmitRehash
  <2>1. CASE ledger["original"] # seen["emit"]
    BY <1>6, <2>1 DEF EmitRehash, Ended, EmitInv, Typed
  <2>2. CASE ledger["original"] = seen["emit"]
    <3>1. seen'["emit"] = seen["emit"] /\ pc'["emit"] = "reading" /\ pc["emit"] = "rehashing"
      BY <1>6, <2>2 DEF EmitRehash, Typed, local
    <3>2. /\ \A r \in ToSet(seen["emit"]) : Known(r)
          /\ ToSet(seen["emit"]) \subseteq history
      BY <3>1 DEF EmitInv
    <3> QED BY <3>1, <3>2, <1>1, <1>2 DEF EmitInv
  <2> QED BY <2>1, <2>2
<1>7. CASE EmitRead
  <2> DEFINE read == ledger["original"] # Absent /\ Grouped(Rows(ledger["original"]), Prefix)
  <2>1. CASE ~read
    BY <1>7, <2>1 DEF EmitRead, Ended, EmitInv, Typed
  <2>2. CASE read
    <3>1. /\ seen'["emit"] = seen["emit"] /\ pc'["emit"] = "scored" /\ pc["emit"] = "reading"
          /\ held'["emit"] = Rows(ledger["original"])
      BY <1>7, <2>2 DEF EmitRead, Typed, Rows
    <3>2. /\ \A r \in ToSet(seen["emit"]) : Known(r)
          /\ ToSet(seen["emit"]) \subseteq history
      BY <3>1 DEF EmitInv
    <3>3. /\ held'["emit"] \in Seq(Row)
          /\ \E x \in 0 .. MaxRuns : OfRun(held'["emit"], x)
          /\ \A r \in ToSet(seen["emit"]) : Found(r)'
      BY <3>1, <3>2, RowsType DEF OriginalInv, Traceable, Later, Ledgers
    <3> QED BY <3>1, <3>2, <3>3, <1>1, <1>2 DEF EmitInv
  <2> QED BY <2>1, <2>2
<1>8. CASE ~EmitHash /\ ~EmitRecheck /\ ~EmitRehash /\ ~EmitRead
  <2>1. \/ pc'["emit"] \notin Hashed
        \/ pc'["emit"] = pc["emit"] /\ seen'["emit"] = seen["emit"] /\ held'["emit"] = held["emit"]
    <3>1. CASE Scoring
      BY <1>8, <3>1 DEF Scoring, EmitPreflight, EmitWrite, AnalyzeHash, AnalyzeExtension,
                        AnalyzeOriginal, ScoringKilled, Ended, Typed, local
    <3>2. CASE Operator
      BY <3>2 DEF Operator, FreezeAddendum, FreezeExtension, CommitFreeze, Commit, local
    <3> QED BY <3>1, <3>2, Apart
  <2>2. CASE pc'["emit"] \notin Hashed
    BY <2>2 DEF EmitInv
  <2>3. CASE /\ pc'["emit"] \in Hashed
             /\ pc'["emit"] = pc["emit"] /\ seen'["emit"] = seen["emit"] /\ held'["emit"] = held["emit"]
    <3>1. \A r \in ToSet(seen["emit"]) : Known(r)
      BY <2>3 DEF EmitInv
    <3> QED BY <2>3, <3>1, <1>1, <1>2 DEF EmitInv, Later
  <2> QED BY <2>1, <2>2, <2>3
<1> QED BY <1>4, <1>5, <1>6, <1>7, <1>8

\* Rows of one question and order leave all the others as they are.
LEMMA WholeKept ==
  ASSUME NEW s \in Seq(Row), NEW t \in Seq(Row), NEW q, Whole(s, q),
         \A r \in ToSet(t) : r.question # q
  PROVE  Whole(s \o t, q)
<1>1. /\ Samples(s \o t, q, "forward") = Samples(s, q, "forward")
      /\ Samples(s \o t, q, "reverse") = Samples(s, q, "reverse")
  BY OtherRows
<1>2. PICK x \in 0 .. MaxRuns : LatestOf(s, q, "forward", x) /\ LatestOf(s, q, "reverse", x)
  BY DEF Whole
<1>3. LatestOf(s \o t, q, "forward", x) /\ LatestOf(s \o t, q, "reverse", x)
  BY <1>2, OtherRows
<1> QED BY <1>1, <1>2, <1>3 DEF Whole, Full

\* A write of the extension run keeps its ledger in order.
LEMMA ExtensionWrite ==
  ASSUME Typed, ExtensionInv,
         NEW b \in Upcoming("run"), NEW new \in Seq(Row), Writes("run", b, new)
  PROVE  ExtensionInv'
<1> PICK s : s = Rows(ledger["extension"])
  OBVIOUS
<1> PICK u : u = s \o new
  OBVIOUS
<1> DEFINE q0 == Extension[b[1]]
           x == mine["run"]
<1>1. s \in Seq(Row) /\ Rows(ledger["extension"])' = u
  <2>1. Rows(ledger'["extension"]) = u
    BY Written DEF Into, Paid
  <2> QED BY <2>1, RowsType DEF Ledgers, Rows
<1>2. /\ b \in todo["run"] /\ b = <<b[1], b[2]>> /\ b[1] \in 1 .. Len(Extension) /\ b[2] \in {1, 2}
      /\ q0 \in ToSet(Extension) /\ x \in 0 .. MaxRuns /\ pc["run"] = "judging"
  <2>1. pc["run"] = "judging" /\ Asked("run") = Extension /\ "run" \in Paid
    BY DEF Writes, Asked, Paid
  <2>2. x \in 0 .. MaxRuns
    BY DEF Typed, Commands
  <2> QED BY <2>1, <2>2, UpcomingBatch
<1>3. /\ \A r \in ToSet(new) : r.question = q0 /\ r.order = Orders[b[2]]
      /\ OfRun(new, x)
  BY DEF Writes, Asked, OfRun
<1>4. WholeQuestions(s) /\ \A d \in todo["run"] : Ahead(s, d)
  BY <1>2 DEF ExtensionInv
<1>5. Ahead(s, b)
  BY <1>2, <1>4
<1>6. b[2] = 2 => <<b[1], 1>> \notin todo["run"]
  <2> SUFFICES ASSUME b[2] = 2, <<b[1], 1>> \in todo["run"] PROVE FALSE
    OBVIOUS
  <2>1. NotAfter(b, <<b[1], 1>>)
    BY DEF Upcoming
  <2> QED BY <2>1, <1>2 DEF NotAfter
<1> HIDE DEF q0, x
<1>7. ASSUME NEW q \in ToSet(Extension), q # q0
      PROVE  /\ Samples(u, q, "forward") = Samples(s, q, "forward")
             /\ Samples(u, q, "reverse") = Samples(s, q, "reverse")
             /\ LatestOf(s, q, "forward", x) => LatestOf(u, q, "forward", x)
             /\ Whole(s, q) => Whole(u, q)
  <2>1. /\ \A r \in ToSet(new) : r.question # q
        /\ \A r \in ToSet(new) : ~(r.question = q /\ r.order = "forward")
        /\ \A r \in ToSet(new) : ~(r.question = q /\ r.order = "reverse")
    BY <1>3, <1>7
  <2>2. /\ Samples(s \o new, q, "forward") = Samples(s, q, "forward")
        /\ LatestOf(s, q, "forward", x) => LatestOf(s \o new, q, "forward", x)
    BY <1>1, <2>1, OtherRows
  <2>3. /\ Samples(s \o new, q, "reverse") = Samples(s, q, "reverse")
        /\ LatestOf(s, q, "reverse", x) => LatestOf(s \o new, q, "reverse", x)
    BY <1>1, <2>1, OtherRows
  <2>4. Whole(s, q) => Whole(s \o new, q)
    BY <1>1, <2>1, WholeKept
  <2> QED BY <2>2, <2>3, <2>4
<1>8. b[2] = 1 => Samples(u, q0, "reverse") = Samples(s, q0, "reverse")
  <2> SUFFICES ASSUME b[2] = 1 PROVE Samples(s \o new, q0, "reverse") = Samples(s, q0, "reverse")
    OBVIOUS
  <2>1. \A r \in ToSet(new) : ~(r.question = q0 /\ r.order = "reverse")
    BY <1>3, OrderNames
  <2> QED BY <1>1, <2>1, OtherRows
<1>9. b[2] = 2 => /\ Samples(u, q0, "forward") = Samples(s, q0, "forward")
                  /\ LatestOf(s, q0, "forward", x) => LatestOf(u, q0, "forward", x)
  <2> SUFFICES ASSUME b[2] = 2
               PROVE  /\ Samples(s \o new, q0, "forward") = Samples(s, q0, "forward")
                      /\ LatestOf(s, q0, "forward", x) => LatestOf(s \o new, q0, "forward", x)
    OBVIOUS
  <2>1. \A r \in ToSet(new) : ~(r.question = q0 /\ r.order = "forward")
    BY <1>3, OrderNames
  <2> QED BY <1>1, <2>1, OtherRows
<1>10. \/ /\ Full(new, q0, Orders[b[2]])
          /\ Full(u, q0, Orders[b[2]]) /\ LatestOf(u, q0, Orders[b[2]], x)
          /\ todo' = [todo EXCEPT !["run"] = @ \ {b}]
          /\ UNCHANGED <<pc, mine>>
       \/ /\ K - 1 \notin Samples(new, q0, Orders[b[2]])
          /\ pc'["run"] = "idle"
  <2>1. CASE Full(new, q0, Orders[b[2]]) /\ todo' = [todo EXCEPT !["run"] = @ \ {b}]
             /\ UNCHANGED <<pc, mine>>
    BY <1>1, <1>3, <2>1, WholeBatch
  <2>2. CASE K - 1 \notin Samples(new, q0, Orders[b[2]]) /\ Ended("run")
    BY <2>2 DEF Ended, Typed, Commands
  <2> QED BY <2>1, <2>2 DEF Writes, Asked, q0
<1>11. K - 1 \in Samples(u, q0, "reverse") => Whole(u, q0)
  <2> SUFFICES ASSUME K - 1 \in Samples(u, q0, "reverse") PROVE Whole(u, q0)
    OBVIOUS
  <2>1. K - 1 \notin Samples(s, q0, "reverse")
    BY <1>5 DEF Ahead, q0
  <2>2. b[2] = 2 /\ Orders[b[2]] = "reverse"
    BY <1>2, <1>8, <2>1, OrderNames
  <2>3. Samples(u, q0, "reverse") = Samples(s, q0, "reverse") \cup Samples(new, q0, "reverse")
    BY <1>1, SamplesConcat
  <2>4. Full(u, q0, "reverse") /\ LatestOf(u, q0, "reverse", x)
    BY <1>10, <2>1, <2>2, <2>3
  <2>5. Full(s, q0, "forward") /\ LatestOf(s, q0, "forward", x)
    BY <1>5, <1>6, <2>2 DEF Ahead, q0, x
  <2> QED BY <1>2, <1>9, <2>2, <2>4, <2>5 DEF Whole, Full
<1>12. WholeQuestions(u)
  <2> SUFFICES ASSUME NEW q \in ToSet(Extension), K - 1 \in Samples(u, q, "reverse")
               PROVE  Whole(u, q)
    BY DEF WholeQuestions
  <2>1. CASE q = q0
    BY <1>11, <2>1
  <2>2. CASE q # q0
    BY <1>4, <1>7, <2>2 DEF WholeQuestions
  <2> QED BY <2>1, <2>2
<1>13. ASSUME pc'["run"] = "judging", NEW d \in todo'["run"] PROVE Ahead(u, d)'
  <2>1. /\ Full(u, q0, Orders[b[2]]) /\ LatestOf(u, q0, Orders[b[2]], x)
        /\ todo'["run"] = todo["run"] \ {b} /\ UNCHANGED mine
    BY <1>10, <1>13 DEF Typed, Commands
  <2>2. d \in todo["run"] /\ d # b /\ Ahead(s, d)
    BY <1>4, <2>1
  <2>3. d = <<d[1], d[2]>> /\ d[1] \in 1 .. Len(Extension) /\ d[2] \in {1, 2}
    BY <2>2 DEF Typed, Paid, Asked, Batches
  <2>5. CASE d[1] = b[1]
    <3>1. b[2] = 1 /\ d = <<b[1], 2>>
      BY <1>2, <1>6, <2>2, <2>3, <2>5
    <3>2. Orders[b[2]] = "forward" /\ Extension[d[1]] = q0
      BY <3>1, OrderNames DEF q0
    <3>3. <<d[1], 2>> \in todo'["run"]
      BY <1>13, <3>1
    <3>4. K - 1 \notin Samples(u, q0, "reverse")
      BY <1>5, <1>8, <3>1 DEF Ahead, q0
    <3> QED BY <2>1, <3>2, <3>3, <3>4 DEF Ahead, x
  <2>6. CASE d[1] # b[1]
    <3>1. Extension[d[1]] # q0 /\ Extension[d[1]] \in ToSet(Extension)
      <4>1. Extension[d[1]] # q0
        BY <1>2, <2>3, <2>6, Different DEF q0
      <4>2. DOMAIN Extension = 1 .. Len(Extension)
        BY JudgeAssumption, LenProperties DEF JudgeAssumption
      <4> QED BY <2>3, <4>1, <4>2 DEF ToSet
    <3>2. <<d[1], 2>> # b /\ <<d[1], 1>> # b
      BY <1>2, <2>6
    <3>3. /\ <<d[1], 2>> \in todo'["run"]
          /\ <<d[1], 1>> \notin todo'["run"] => <<d[1], 1>> \notin todo["run"]
      BY <2>1, <2>2, <3>2 DEF Ahead
    <3> QED BY <1>7, <2>1, <2>2, <3>1, <3>3 DEF Ahead, Full, x
  <2> QED BY <2>5, <2>6
<1> QED BY <1>1, <1>12, <1>13 DEF ExtensionInv

LEMMA ExtensionStep == ASSUME Typed, ExtensionInv, Next PROVE ExtensionInv'
<1> USE DEF Ledgers
<1>1. ASSUME ledger'["extension"] = ledger["extension"],
             \/ pc'["run"] # "judging"
             \/ pc'["run"] = pc["run"] /\ todo'["run"] = todo["run"] /\ mine'["run"] = mine["run"]
      PROVE  ExtensionInv'
  BY <1>1 DEF ExtensionInv, Ahead, Rows
<1>2. CASE Scoring \/ Operator
  BY <1>1, <1>2, Apart DEF Paid
<1>3. CASE StartGateB
  BY <1>1, <1>3 DEF StartGateB, Typed, Commands
<1>4. CASE StartRun
  <2> DEFINE s == Rows(ledger["extension"])
  <2>1. UNCHANGED ledger /\ todo'["run"] = Todo(s)
    BY <1>4 DEF StartRun, Typed, Commands
  <2>2. ASSUME NEW d \in Todo(s)
        PROVE  /\ <<d[1], 2>> \in Todo(s) /\ <<d[1], 1>> \in Todo(s)
               /\ K - 1 \notin Samples(s, Extension[d[1]], "reverse")
    <3>1. d = <<d[1], d[2]>> /\ d[1] \in 1 .. Len(Extension) /\ ~Complete(s, Extension[d[1]])
      BY DEF Todo, Batches
    <3>2. <<d[1], 2>> \in Todo(s) /\ <<d[1], 1>> \in Todo(s)
      BY <3>1 DEF Todo, Batches
    <3>3. Extension[d[1]] \in ToSet(Extension)
      BY <3>1, JudgeAssumption, LenProperties DEF JudgeAssumption, ToSet
    <3>4. ~Whole(s, Extension[d[1]])
      BY <3>1, OrderNames DEF Whole, Full, Complete
    <3> QED BY <3>2, <3>3, <3>4 DEF ExtensionInv, WholeQuestions
  <2> QED BY <2>1, <2>2 DEF ExtensionInv, Ahead, Rows
<1>5. ASSUME NEW c \in Paid, Stops(c) PROVE ExtensionInv'
  <2>1. /\ UNCHANGED ledger
        /\ \/ pc'["run"] = "idle"
           \/ pc'["run"] = pc["run"] /\ todo'["run"] = todo["run"] /\ mine'["run"] = mine["run"]
    BY <1>5 DEF Stops, Ended, Typed, files, Commands, Paid
  <2> QED BY <1>1, <2>1
<1>6. ASSUME NEW c \in Paid, NEW b \in Upcoming(c), NEW new \in Seq(Row), Writes(c, b, new)
      PROVE  ExtensionInv'
  <2>1. CASE c = "gate-b"
    <3>1. ledger'["extension"] = ledger["extension"]
      BY <1>6, <2>1, Written DEF Into
    <3>2. pc'["run"] = pc["run"] /\ todo'["run"] = todo["run"] /\ mine'["run"] = mine["run"]
      BY <1>6, <2>1 DEF Writes, Ended, Typed, Commands
    <3> QED BY <1>1, <3>1, <3>2
  <2>2. CASE c = "run"
    BY <1>6, <2>2, ExtensionWrite
  <2> QED BY <2>1, <2>2 DEF Paid
<1> QED BY <1>2, <1>3, <1>4, <1>5, <1>6, Steps

LEMMA AnalyzeStep == ASSUME Typed, OwnQuestions, ExtensionInv, AnalyzeInv, Next PROVE AnalyzeInv'
<1> USE DEF Commands
<1>1. CASE AnalyzeExtension
  <2>1. CASE Todo(Rows(ledger["extension"])) = {}
    <3> DEFINE s == Rows(ledger["extension"])
    <3>1. held' = [held EXCEPT !["analyze"] = s]
      BY <1>1, <2>1 DEF AnalyzeExtension
    <3>2. \A q \in ToSet(Extension) : Whole(s, q)
      <4> SUFFICES ASSUME NEW i \in 1 .. Len(Extension) PROVE Whole(s, Extension[i])
        BY JudgeAssumption, LenProperties DEF JudgeAssumption, ToSet
      <4>1. Complete(s, Extension[i])
        <5>1. <<i, 1>> \in Batches(Extension)
          BY DEF Batches
        <5> QED BY <2>1, <5>1 DEF Todo
      <4>2. Samples(s, Extension[i], "reverse") = 0 .. K - 1
        BY <4>1, OrderNames DEF Complete
      <4>3. K - 1 \in 0 .. K - 1 /\ Extension[i] \in ToSet(Extension)
        BY JudgeAssumption, LenProperties DEF JudgeAssumption, ToSet
      <4> QED BY <4>2, <4>3 DEF ExtensionInv, WholeQuestions
    <3>3. held'["analyze"] = s /\ s \in Seq(Row)
      BY <3>1, RowsType DEF Typed, Ledgers
    <3> QED BY <3>2, <3>3 DEF AnalyzeInv, OwnQuestions
  <2>2. CASE Todo(Rows(ledger["extension"])) # {}
    <3>1. Ended("analyze")
      BY <1>1, <2>2 DEF AnalyzeExtension
    <3>2. pc'["analyze"] = "idle"
      BY <3>1 DEF Ended, Typed
    <3> QED BY <3>2 DEF AnalyzeInv
  <2> QED BY <2>1, <2>2
<1>2. CASE ~AnalyzeExtension
  <2>1. \/ pc'["analyze"] # "reading"
        \/ pc'["analyze"] = pc["analyze"] /\ held'["analyze"] = held["analyze"]
    <3>1. CASE Scoring
      BY <1>2, <3>1 DEF Scoring, EmitPreflight, EmitHash, EmitRecheck, EmitRehash, EmitRead, EmitWrite,
                        AnalyzeHash, AnalyzeOriginal, ScoringKilled, Ended, Typed, local
    <3>2. CASE Operator
      BY <3>2 DEF Operator, FreezeAddendum, FreezeExtension, CommitFreeze, Commit, local
    <3> QED BY <3>1, <3>2, Apart
  <2> QED BY <2>1 DEF AnalyzeInv
<1> QED BY <1>1, <1>2

\* What an emission writes is what it held; nothing else writes metrics.json.
LEMMA MetricsStep ==
  ASSUME Typed, Next, metrics' # metrics
  PROVE  /\ EmitWrite /\ pc["emit"] = "scored"
         /\ metrics' = [ledger |-> seen["emit"], scores |-> Scores(held["emit"], Prefix)]
<1>1. EmitWrite
  <2>1. CASE Scoring
    BY <2>1 DEF Scoring, EmitPreflight, EmitHash, EmitRecheck, EmitRehash, EmitRead,
                AnalyzeHash, AnalyzeExtension, AnalyzeOriginal, ScoringKilled, outputs
  <2>2. CASE Operator
    BY <2>2 DEF Operator, FreezeAddendum, FreezeExtension, CommitFreeze, Commit, outputs
  <2> QED BY <2>1, <2>2, Apart DEF outputs
<1> QED BY <1>1 DEF EmitWrite

\* A set of places in a ledger that is not empty has a last one.
LEMMA LastPlace ==
  ASSUME NEW N \in Nat, NEW S \in SUBSET (1 .. N), S # {}
  PROVE  \E m \in S : \A n \in S : n <= m
<1> DEFINE R == {p \in Nat \X Nat : p[1] < p[2]}
           T == {N - n : n \in S}
<1>1. IsWellFoundedOn(R, Nat)
  BY NatLessThanWellFounded DEF OpToRel
<1>2. \A m, n \in Nat : m < n => <<m, n>> \in R
  OBVIOUS
<1> HIDE DEF R
<1>3. T \subseteq Nat /\ T # {}
  <2>1. \A n \in S : n \in Nat /\ N - n \in Nat
    OBVIOUS
  <2> QED BY <2>1
<1> HIDE DEF T
<1>4. PICK k \in T : \A d \in T : ~(<<d, k>> \in R)
  BY <1>1, <1>3, WFMin
<1>5. ASSUME NEW d \in T PROVE k <= d
  <2>1. d \in Nat /\ k \in Nat /\ ~(d < k)
    BY <1>2, <1>3, <1>4
  <2> QED BY <2>1
<1>6. PICK m \in S : k = N - m
  BY DEF T
<1>7. ASSUME NEW n \in S PROVE n <= m
  <2>1. N - n \in T
    BY DEF T
  <2> QED BY <2>1, <1>5, <1>6
<1> QED BY <1>7

\* What was hashed is scored when the ledger is of one run: of one place a run
\* has one row, so the last of the place is the row itself.
LEMMA RunScored ==
  ASSUME NEW rows \in Seq(Row), NEW x, OfRun(rows, x), NEW r \in ToSet(rows),
         NEW questions, r.question \in ToSet(questions)
  PROVE  r \in Scores(rows, questions)
<1> DEFINE S == {n \in DOMAIN rows : Place(rows[n]) = Place(r)}
<1>1. /\ Len(rows) \in Nat /\ DOMAIN rows = 1 .. Len(rows)
      /\ \A n \in DOMAIN rows : rows[n] \in Row /\ rows[n] \in ToSet(rows)
  BY LenProperties, ElementOfSeq DEF ToSet
<1>2. S # {} /\ S \subseteq 1 .. Len(rows)
  BY <1>1 DEF ToSet
<1>3. PICK m \in S : \A n \in S : n <= m
  <2> HIDE DEF S
  <2> QED BY <1>1, <1>2, LastPlace
<1>4. Latest(rows, m)
  BY <1>3 DEF Latest
<1>5. rows[m] \in Row /\ r \in Row /\ rows[m].run = x /\ r.run = x /\ Place(rows[m]) = Place(r)
  BY <1>1, <1>3 DEF OfRun, ToSet
<1>6. rows[m] = r
  BY <1>5 DEF Row, Place
<1> QED BY <1>1, <1>3, <1>4, <1>6 DEF Scores

LEMMA EmittedStep == ASSUME Typed, EmitInv, EmissionInGit, Next PROVE EmissionInGit'
<1>1. CASE metrics' = metrics
  BY <1>1, HistoryGrows DEF EmissionInGit
<1>2. CASE metrics' # metrics
  <2>1. /\ pc["emit"] = "scored"
        /\ metrics'.ledger = seen["emit"] /\ metrics'.scores = Scores(held["emit"], Prefix)
    BY <1>2, MetricsStep
  <2> SUFFICES ASSUME NEW r \in ToSet(seen["emit"])
               PROVE  /\ r \in history'
                      /\ \/ r \in Scores(held["emit"], Prefix)
                         \/ \A s \in Scores(held["emit"], Prefix) : s.run > r.run
    BY <2>1 DEF EmissionInGit
  <2>2. /\ r \in history' /\ r.question \in ToSet(Prefix)
        /\ r \in ToSet(held["emit"]) \/ Later(held["emit"], r)
    BY <2>1, HistoryGrows DEF EmitInv
  <2>3. PICK x \in 0 .. MaxRuns : OfRun(held["emit"], x) /\ held["emit"] \in Seq(Row)
    BY <2>1 DEF EmitInv
  <2>4. Scores(held["emit"], Prefix) \subseteq ToSet(held["emit"])
    BY DEF Scores, ToSet
  <2> QED BY <2>2, <2>3, <2>4, RunScored DEF Later
<1> QED BY <1>1, <1>2

\* The same of metrics_extension.json.
LEMMA ExtendedStep ==
  ASSUME Typed, Next, extended' # extended
  PROVE  /\ pc["analyze"] = "reading"
         /\ extended'.scores =
              Scores(Rows(ledger["original"]) \o held["analyze"], Prefix \o Extension)
<1>1. AnalyzeOriginal
  <2>1. CASE Scoring
    BY <2>1 DEF Scoring, EmitPreflight, EmitHash, EmitRecheck, EmitRehash, EmitRead, EmitWrite,
                AnalyzeHash, AnalyzeExtension, ScoringKilled, outputs
  <2>2. CASE Operator
    BY <2>2 DEF Operator, FreezeAddendum, FreezeExtension, CommitFreeze, Commit, outputs
  <2> QED BY <2>1, <2>2, Apart DEF outputs
<1> QED BY <1>1 DEF AnalyzeOriginal

\* What counts of a ledger of one run is of that run.
LEMMA ScoresOfRun ==
  ASSUME NEW rows, NEW x, OfRun(rows, x), NEW questions,
         NEW r \in Scores(rows, questions)
  PROVE  r.run = x
BY DEF Scores, OfRun, ToSet

\* What counts of both ledgers: the original ledger's questions are of its one
\* run, and each question of the extension is of the one that completed it.
LEMMA ScoresOfBoth ==
  ASSUME NEW s \in Seq(Row), NEW t \in Seq(Row), NEW x, OfRun(s, x),
         \A r \in ToSet(s) : r.question \in ToSet(Prefix),
         \A r \in ToSet(t) : r.question \in ToSet(Extension),
         \A q \in ToSet(Extension) : Whole(t, q),
         NEW questions,
         NEW a \in Scores(s \o t, questions), NEW b \in Scores(s \o t, questions),
         a.question = b.question
  PROVE  a.run = b.run
<1> DEFINE u == s \o t
<1>1. ASSUME NEW n \in DOMAIN u, Latest(u, n)
      PROVE  \/ u[n].question \in ToSet(Prefix) /\ u[n].run = x
             \/ /\ u[n].question \in ToSet(Extension)
                /\ \E j \in DOMAIN t : u[n] = t[j] /\ Latest(t, j)
  <2>1. CASE n \in DOMAIN s /\ u[n] = s[n]
    BY <2>1 DEF ToSet, OfRun
  <2>2. CASE \E j \in DOMAIN t : n = Len(s) + j /\ u[n] = t[j]
    <3>1. PICK j \in DOMAIN t : n = Len(s) + j /\ u[n] = t[j]
      BY <2>2
    <3>2. Latest(t, j)
      <4> SUFFICES ASSUME NEW i \in DOMAIN t, Place(t[i]) = Place(t[j]) PROVE i <= j
        BY DEF Latest
      <4>1. Len(s) + i \in DOMAIN u /\ u[Len(s) + i] = t[i]
        BY Concat
      <4>2. Len(s) + i <= n
        BY <1>1, <3>1, <4>1 DEF Latest
      <4>3. Len(s) \in Nat /\ i \in Nat /\ j \in Nat
        BY Concat
      <4> QED BY <3>1, <4>2, <4>3
    <3> QED BY <3>1, <3>2 DEF ToSet
  <2> QED BY <2>1, <2>2, Either
<1>2. PICK n \in DOMAIN u : Latest(u, n) /\ u[n] = a
  BY DEF Scores
<1>3. PICK m \in DOMAIN u : Latest(u, m) /\ u[m] = b
  BY DEF Scores
<1> HIDE DEF u
<1>4. CASE a.question \in ToSet(Prefix)
  BY <1>1, <1>2, <1>3, <1>4, Different
<1>5. CASE a.question \notin ToSet(Prefix)
  <2>1. PICK j \in DOMAIN t : a = t[j] /\ Latest(t, j)
    BY <1>1, <1>2, <1>5
  <2>2. PICK i \in DOMAIN t : b = t[i] /\ Latest(t, i)
    BY <1>1, <1>3, <1>5
  <2>3. t[j] \in Row /\ t[i] \in Row /\ t[j] \in ToSet(t)
    BY ElementOfSeq, LenProperties DEF ToSet
  <2>4. /\ a.question \in ToSet(Extension)
        /\ a.order \in {"forward", "reverse"} /\ b.order \in {"forward", "reverse"}
    BY <2>1, <2>2, <2>3, OrderNames DEF Row
  <2>5. PICK y \in 0 .. MaxRuns : /\ LatestOf(t, a.question, "forward", y)
                                  /\ LatestOf(t, a.question, "reverse", y)
    BY <2>4 DEF Whole
  <2>6. a.run = y
    BY <2>1, <2>4, <2>5 DEF LatestOf
  <2>7. b.run = y
    BY <2>2, <2>4, <2>5 DEF LatestOf
  <2> QED BY <2>6, <2>7
<1> QED BY <1>4, <1>5

LEMMA OneRunStep ==
  ASSUME Typed, OwnQuestions, OriginalInv, EmitInv, AnalyzeInv, OneRunPerQuestion, Next
  PROVE  OneRunPerQuestion'
<1> SUFFICES ASSUME NEW m \in {metrics', extended'} \ {Absent},
                    NEW r \in m.scores, NEW s \in m.scores, r.question = s.question
             PROVE  r.run = s.run
  BY DEF OneRunPerQuestion
<1>1. CASE m = metrics' /\ metrics' # metrics
  <2>1. m.scores = Scores(held["emit"], Prefix) /\ pc["emit"] = "scored"
    BY <1>1, MetricsStep
  <2>2. PICK x \in 0 .. MaxRuns : OfRun(held["emit"], x)
    BY <2>1 DEF EmitInv
  <2>3. r.run = x
    BY <2>1, <2>2, ScoresOfRun
  <2>4. s.run = x
    BY <2>1, <2>2, ScoresOfRun
  <2> QED BY <2>3, <2>4
<1>2. CASE m = extended' /\ extended' # extended
  <2>1. /\ m.scores = Scores(Rows(ledger["original"]) \o held["analyze"], Prefix \o Extension)
        /\ pc["analyze"] = "reading"
    BY <1>2, ExtendedStep
  <2>2. Rows(ledger["original"]) \in Seq(Row)
    BY RowsType DEF Ledgers
  <2>3. PICK x \in 0 .. MaxRuns : OfRun(Rows(ledger["original"]), x)
    BY DEF OriginalInv
  <2>4. /\ \A z \in ToSet(Rows(ledger["original"])) : z.question \in ToSet(Prefix)
        /\ \A z \in ToSet(held["analyze"]) : z.question \in ToSet(Extension)
        /\ \A q \in ToSet(Extension) : Whole(held["analyze"], q)
        /\ held["analyze"] \in Seq(Row)
    BY <2>1 DEF OwnQuestions, AnalyzeInv
  <2> QED BY <2>1, <2>2, <2>3, <2>4, ScoresOfBoth
<1>3. CASE m \in {metrics, extended}
  BY <1>3 DEF OneRunPerQuestion
<1> QED BY <1>1, <1>2, <1>3

-----------------------------------------------------------------------------
(* The theorems. *)

\* JudgeInv is inductive.
LEMMA Inductive == JudgeInv /\ [Next]_vars => JudgeInv'
<1> SUFFICES ASSUME JudgeInv, [Next]_vars PROVE JudgeInv'
  OBVIOUS
<1> USE DEF JudgeInv
<1>1. CASE Next
  BY <1>1, TypedStep, CommittedStep, OwnStep, OriginalStep, EmitStep, ExtensionStep,
     AnalyzeStep, KeptStep, OneRunStep, EmittedStep
<1>2. CASE UNCHANGED vars
  <2> USE <1>2 DEF vars, freezes, files, local, outputs
  <2>1. Typed' /\ CommittedKept' /\ OwnQuestions'
    BY DEF Typed, CommittedKept, OwnQuestions, Rows
  <2>2. OriginalInv' /\ EmitInv' /\ AnalyzeInv'
    BY DEF OriginalInv, EmitInv, Traceable, AnalyzeInv, Rows
  <2>3. ExtensionInv'
    BY DEF ExtensionInv, Ahead, Rows
  <2>4. PaidRowsKept' /\ OneRunPerQuestion' /\ EmissionInGit'
    BY DEF PaidRowsKept, OneRunPerQuestion, EmissionInGit, Rows
  <2> QED BY <2>1, <2>2, <2>3, <2>4
<1> QED BY <1>1, <1>2

\* The invariant of the ledgers: for any questions, samples and number of runs,
\* however the commands overlap and die.
THEOREM JudgeSafe == Spec => []JudgeInv
BY Initially, Inductive, PTL DEF Spec

\* No row that was paid for is lost.
THEOREM PaidIsKept == Spec => []PaidRowsKept
<1>1. JudgeInv => PaidRowsKept
  BY DEF JudgeInv
<1> QED BY <1>1, JudgeSafe, PTL

\* What is scored of one question is one run's.
THEOREM VotesOfOneRun == Spec => []OneRunPerQuestion
<1>1. JudgeInv => OneRunPerQuestion
  BY DEF JudgeInv
<1> QED BY <1>1, JudgeSafe, PTL

\* The rows behind the hash in metrics.json are in git, and were scored unless a
\* later run regenerated the ledger before it was read.
THEOREM EmissionIsInGit == Spec => []EmissionInGit
<1>1. JudgeInv => EmissionInGit
  BY DEF JudgeInv
<1> QED BY <1>1, JudgeSafe, PTL


-----------------------------------------------------------------------------
(* What the second hash is good for. *)

\* Nothing happens to the ledgers between the second hash and the read; in the
\* hours before, anything may.
QuietSpec == Init /\ [][Next /\ (pc["emit"] = "reading" => UNCHANGED ledger)]_vars

QuietInv ==
  /\ pc["emit"] = "reading" => ledger["original"] = seen["emit"]
  /\ pc["emit"] = "scored" => held["emit"] = seen["emit"]
  /\ ShaOfConsumedBytes

LEMMA QuietStep ==
  ASSUME Typed, QuietInv, Next, pc["emit"] = "reading" => UNCHANGED ledger
  PROVE  QuietInv'
<1> USE DEF Commands, Typed
<1>1. CASE EmitRehash
  BY <1>1 DEF EmitRehash, Ended, local, files, outputs, QuietInv, ShaOfConsumedBytes
<1>2. CASE EmitRead
  BY <1>2 DEF EmitRead, Ended, files, outputs, QuietInv, ShaOfConsumedBytes
<1>3. CASE ~EmitRehash /\ ~EmitRead
  <2>1. \/ pc'["emit"] \notin {"reading", "scored"}
        \/ pc'["emit"] = pc["emit"] /\ seen'["emit"] = seen["emit"] /\ held'["emit"] = held["emit"]
    <3>1. CASE Scoring
      BY <1>3, <3>1 DEF Scoring, EmitPreflight, EmitHash, EmitRecheck, EmitWrite, AnalyzeHash,
                        AnalyzeExtension, AnalyzeOriginal, ScoringKilled, Ended, local
    <3>2. CASE Operator
      BY <3>2 DEF Operator, FreezeAddendum, FreezeExtension, CommitFreeze, Commit, local
    <3> QED BY <3>1, <3>2, Apart
  <2>2. ShaOfConsumedBytes'
    <3>1. CASE metrics' = metrics
      BY <3>1 DEF QuietInv, ShaOfConsumedBytes
    <3>2. CASE metrics' # metrics
      BY <3>2, MetricsStep DEF QuietInv, ShaOfConsumedBytes
    <3> QED BY <3>1, <3>2
  <2> QED BY <2>1, <2>2 DEF QuietInv
<1> QED BY <1>1, <1>2, <1>3

\* Only a write in the moment between the second hash and the read gets past the
\* emission: without one the recorded hash is of the rows that were scored,
\* whatever was appended, regenerated and committed during the retrain.
THEOREM EmissionBoundWhenQuiet == QuietSpec => []ShaOfConsumedBytes
<1>1. Init => JudgeInv /\ QuietInv
  <2>1. Init => QuietInv
    BY DEF Init, QuietInv, ShaOfConsumedBytes, Commands
  <2> QED BY <2>1, Initially
<1>2. JudgeInv /\ QuietInv /\ [Next /\ (pc["emit"] = "reading" => UNCHANGED ledger)]_vars
        => (JudgeInv /\ QuietInv)'
  <2> SUFFICES ASSUME JudgeInv, QuietInv,
                      [Next /\ (pc["emit"] = "reading" => UNCHANGED ledger)]_vars
               PROVE  JudgeInv' /\ QuietInv'
    OBVIOUS
  <2>1. JudgeInv'
    BY Inductive
  <2>2. CASE Next /\ (pc["emit"] = "reading" => UNCHANGED ledger)
    BY <2>1, <2>2, QuietStep DEF JudgeInv
  <2>3. CASE UNCHANGED vars
    BY <2>1, <2>3 DEF vars, files, local, outputs, QuietInv, ShaOfConsumedBytes
  <2> QED BY <2>1, <2>2, <2>3
<1>3. QuietInv => ShaOfConsumedBytes
  BY DEF QuietInv
<1> QED BY <1>1, <1>2, <1>3, PTL DEF QuietSpec

-----------------------------------------------------------------------------
\* A complete question is not paid for again.
THEOREM NeverPaidTwice == Spec => CompleteNotRepaid
<1>1. JudgeInv /\ [Next]_vars =>
        [\A q \in ToSet(Extension) :
           Complete(Rows(ledger["extension"]), q) =>
             \A r \in paid' \ paid : r.question # q]_vars
  <2> SUFFICES ASSUME JudgeInv, Next, NEW q \in ToSet(Extension),
                      Complete(Rows(ledger["extension"]), q),
                      NEW r \in paid' \ paid
               PROVE  r.question # q
    OBVIOUS
  <2> USE DEF JudgeInv
  <2>1. PICK c \in Paid : \E b \in Upcoming(c), new \in Seq(Row) : Writes(c, b, new)
    BY LedgerStep DEF StartGateB
  <2>2. PICK b \in Upcoming(c), new \in Seq(Row) : Writes(c, b, new)
    BY <2>1
  <2>3. r \in ToSet(new) /\ r.question = Asked(c)[b[1]] /\ pc[c] = "judging"
    BY <2>2 DEF Writes
  <2>4. Asked(c)[b[1]] \in ToSet(Asked(c)) /\ b \in todo[c]
    BY <2>3, UpcomingBatch
  <2>5. CASE c = "gate-b"
    BY <2>3, <2>4, <2>5, Different DEF Asked
  <2>6. CASE c = "run"
    <3>1. K - 1 \notin Samples(Rows(ledger["extension"]), Extension[b[1]], "reverse")
      BY <2>3, <2>4, <2>6 DEF ExtensionInv, Ahead
    <3>2. K - 1 \in Samples(Rows(ledger["extension"]), q, "reverse")
      BY OrderNames, JudgeAssumption DEF Complete, JudgeAssumption
    <3> QED BY <2>3, <2>6, <3>1, <3>2 DEF Asked
  <2> QED BY <2>5, <2>6 DEF Paid
<1> QED BY <1>1, JudgeSafe, PTL DEF Spec, CompleteNotRepaid
=============================================================================
