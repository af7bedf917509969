------------------------ MODULE RenderServiceProofs ------------------------
(* Proofs of the rate ceiling and of the spend records of RenderService. *)
EXTENDS RenderService, TLAPS

\* The burst is a whole number of shares, at least one token.
LEMMA FullType == Full \in Nat /\ Full >= UnitsPerToken
BY ServiceAssumption DEF Full

\* One token more or one tick more moves a product by one unit.
LEMMA OneMore ==
  ASSUME NEW a \in Int, NEW b \in Int, NEW u \in Int
  PROVE  /\ (a + 1) * u = a * u + u
         /\ (a + b) * u = a * u + b * u
         /\ (a - b) * u = a * u - b * u
         /\ a * u \in Int
OBVIOUS

\* A product of naturals is a natural.
LEMMA Product ==
  ASSUME NEW a \in Nat, NEW u \in Nat
  PROVE  a * u \in Nat
OBVIOUS

\* What a refill does to the balance: it never falls, stays in the burst, and
\* is the old balance with what came back, or full.
LEMMA RefillBounds ==
  ASSUME TypeOK
  PROVE  /\ Refilled \in tokens..Full
         /\ Refilled <= tokens + (clock - refilled) * RefillPerTick
         /\ Refilled = Full \/ Refilled = tokens + (clock - refilled) * RefillPerTick
<1>1. /\ clock \in Nat /\ refilled \in Nat /\ clock - refilled \in Nat
      /\ tokens \in 0..Full /\ RefillPerTick \in Nat /\ Full \in Nat
  BY ServiceAssumption, FullType DEF TypeOK
<1>2. (clock - refilled) * RefillPerTick \in Nat
  BY <1>1, Product
<1> HIDE DEF Full
<1>3. PICK back \in Nat : back = (clock - refilled) * RefillPerTick
  BY <1>2
<1> QED BY <1>1, <1>3 DEF Refilled

\* For any earlier admission, the window that ends now costs as much as the
\* one that ended at the last refill, and brings back what came back since.
LEMMA Window ==
  ASSUME TypeOK, Credit, NEW i \in DOMAIN admissions
  PROVE  /\ admissions[i] \in Nat /\ i \in 1..Len(admissions) /\ Len(admissions) \in Nat
         /\ \E cost, back, since \in Nat :
              /\ (Len(admissions) - i + 1) * UnitsPerToken = cost
              /\ (refilled - admissions[i]) * RefillPerTick = back
              /\ (clock - refilled) * RefillPerTick = since
              /\ (Len(admissions) - i + 2) * UnitsPerToken = cost + UnitsPerToken
              /\ (clock - admissions[i]) * RefillPerTick = back + since
<1>1. /\ admissions[i] \in Nat /\ i \in 1..Len(admissions) /\ Len(admissions) \in Nat
      /\ UnitsPerToken \in Nat /\ RefillPerTick \in Nat
      /\ refilled \in Nat /\ clock \in Nat /\ clock - refilled \in Nat
      /\ refilled - admissions[i] \in Nat
  <2>1. admissions \in Seq(Nat) /\ refilled \in 0..clock /\ clock \in Nat
    BY ServiceAssumption DEF TypeOK
  <2>2. admissions[i] <= refilled
    BY DEF Credit
  <2> QED BY <2>1, <2>2, ServiceAssumption
<1>2. Len(admissions) - i + 1 \in Nat
  BY <1>1
<1>3. /\ (Len(admissions) - i + 1) * UnitsPerToken \in Nat
      /\ (refilled - admissions[i]) * RefillPerTick \in Nat
      /\ (clock - refilled) * RefillPerTick \in Nat
  BY <1>1, <1>2, Product
<1>4. (Len(admissions) - i + 2) * UnitsPerToken
        = (Len(admissions) - i + 1) * UnitsPerToken + UnitsPerToken
  BY <1>1, <1>2, OneMore
<1>5. (clock - admissions[i]) * RefillPerTick
        = (refilled - admissions[i]) * RefillPerTick + (clock - refilled) * RefillPerTick
  BY <1>1, OneMore
<1> QED BY <1>1, <1>3, <1>4, <1>5

BucketInv == TypeOK /\ RateBound /\ Credit /\ RefusedOnlyAtCeiling /\ Ceiling

\* A step of the clock alone, or of a request that leaves the bucket alone.
LEMMA BucketKept ==
  ASSUME BucketInv, UNCHANGED bucket
  PROVE  (RateBound /\ Credit /\ RefusedOnlyAtCeiling /\ Ceiling)'
BY DEF BucketInv, bucket, RateBound, Credit, RefusedOnlyAtCeiling, Ceiling

\* An admission pays for itself out of the refilled balance.
LEMMA AcquireStep ==
  ASSUME BucketInv, Refilled >= UnitsPerToken, Acquire, refilled' = clock, UNCHANGED world
  PROVE  (RateBound /\ Credit /\ RefusedOnlyAtCeiling /\ Ceiling)'
<1> DEFINE n == Len(admissions)
<1>1. /\ admissions \in Seq(Nat) /\ n \in Nat
      /\ clock \in Nat /\ refilled \in 0..clock /\ tokens \in 0..Full
      /\ UnitsPerToken \in Nat /\ RefillPerTick \in Nat /\ Full \in Nat
      /\ Full >= UnitsPerToken
      /\ TypeOK /\ RateBound /\ Credit /\ RefusedOnlyAtCeiling /\ Ceiling
  BY ServiceAssumption, FullType DEF BucketInv, TypeOK
<1>2. /\ admissions' = Append(admissions, clock) /\ Len(admissions') = n + 1
      /\ DOMAIN admissions' = DOMAIN admissions \cup {n + 1}
      /\ \A i \in DOMAIN admissions : admissions'[i] = admissions[i] /\ i \in 1..n
      /\ admissions'[n + 1] = clock
      /\ refusals' = refusals /\ tokens' = Refilled - UnitsPerToken /\ refilled' = clock
  BY <1>1 DEF Acquire
<1>3. Full' = Full
  BY DEF Full
<1>4. /\ Refilled \in 0..Full
      /\ Refilled <= tokens + (clock - refilled) * RefillPerTick
      /\ Refilled = Full \/ Refilled = tokens + (clock - refilled) * RefillPerTick
  BY <1>1, RefillBounds
<1>5. (n + 1 - (n + 1) + 1) * UnitsPerToken = UnitsPerToken
      /\ (clock - clock) * RefillPerTick = 0
  BY <1>1
<1>6. Credit'
  <2> SUFFICES ASSUME NEW i \in DOMAIN admissions'
               PROVE  /\ admissions'[i] <= refilled'
                      /\ tokens' + (Len(admissions') - i + 1) * UnitsPerToken
                           <= Full + (refilled' - admissions'[i]) * RefillPerTick
    BY <1>3 DEF Credit
  <2>1. CASE i = n + 1
    BY <2>1, <1>1, <1>2, <1>4, <1>5
  <2>2. CASE i \in DOMAIN admissions
    <3>1. /\ admissions[i] <= refilled
          /\ tokens + (n - i + 1) * UnitsPerToken
               <= Full + (refilled - admissions[i]) * RefillPerTick
      BY <2>2, <1>1 DEF Credit
    <3>2. Len(admissions') - i + 1 = n - i + 2 /\ admissions'[i] = admissions[i]
      BY <2>2, <1>1, <1>2, Window
    <3> HIDE DEF Full
    <3>3. PICK cost, back, since \in Nat :
            /\ (n - i + 1) * UnitsPerToken = cost
            /\ (refilled - admissions[i]) * RefillPerTick = back
            /\ (clock - refilled) * RefillPerTick = since
            /\ (n - i + 2) * UnitsPerToken = cost + UnitsPerToken
            /\ (clock - admissions[i]) * RefillPerTick = back + since
      BY <2>2, <1>1, Window
    <3>4. tokens + cost <= Full + back /\ Refilled <= tokens + since
      BY <3>1, <3>3, <1>4
    <3>5. Refilled - UnitsPerToken + (cost + UnitsPerToken) <= Full + (back + since)
      BY <3>4, <1>1, <1>4
    <3>6. tokens' + (Len(admissions') - i + 1) * UnitsPerToken
            <= Full + (refilled' - admissions'[i]) * RefillPerTick
      BY <3>2, <3>3, <3>5, <1>2
    <3>7. admissions[i] <= refilled /\ admissions[i] \in Nat
      BY <3>1, <2>2, <1>1, Window
    <3>8. admissions'[i] <= refilled'
      BY <3>2, <3>7, <1>1, <1>2
    <3> QED BY <3>6, <3>8
  <2> QED BY <2>1, <2>2, <1>2
<1>7. RateBound'
  <2> SUFFICES ASSUME NEW i \in DOMAIN admissions', NEW j \in DOMAIN admissions', i <= j
               PROVE  (j - i + 1) * UnitsPerToken
                        <= Full + (admissions'[j] - admissions'[i]) * RefillPerTick
    BY <1>3 DEF RateBound
  <2>1. CASE j \in DOMAIN admissions
    <3>1. i \in DOMAIN admissions
      BY <2>1, <1>1, <1>2
    <3> QED BY <3>1, <2>1, <1>1, <1>2 DEF RateBound
  <2>2. CASE j = n + 1
    <3>1. j - i + 1 = Len(admissions') - i + 1 /\ admissions'[j] = refilled'
      BY <2>2, <1>2
    <3>2. tokens' + (Len(admissions') - i + 1) * UnitsPerToken
            <= Full + (refilled' - admissions'[i]) * RefillPerTick
      BY <1>6, <1>3 DEF Credit
    <3>3. tokens' \in Nat /\ Len(admissions') - i + 1 \in Nat /\ refilled' - admissions'[i] \in Int
      BY <1>1, <1>2, <1>4, <2>2
    <3>4. PICK c \in Int, w \in Int :
            /\ c = (Len(admissions') - i + 1) * UnitsPerToken
            /\ w = (refilled' - admissions'[i]) * RefillPerTick
      BY <3>3, <1>1, OneMore
    <3> QED BY <3>1, <3>2, <3>3, <3>4, <1>1
  <2> QED BY <2>1, <2>2, <1>2
<1>8. RefusedOnlyAtCeiling'
  <2> SUFFICES ASSUME NEW no \in refusals
               PROVE  \E i \in 1..no.after :
                        (no.after - i + 2) * UnitsPerToken
                          > Full + (no.at - admissions'[i]) * RefillPerTick
    BY <1>2, <1>3 DEF RefusedOnlyAtCeiling
  <2>1. no.after \in Nat /\ no.after <= n
    BY <1>1 DEF Ceiling, TypeOK
  <2>2. PICK i \in 1..no.after :
          (no.after - i + 2) * UnitsPerToken > Full + (no.at - admissions[i]) * RefillPerTick
    BY <1>1 DEF RefusedOnlyAtCeiling
  <2>3. admissions'[i] = admissions[i]
    BY <2>1, <1>1, <1>2
  <2> QED BY <2>2, <2>3
<1>9. Ceiling'
  <2>1. \A no \in refusals' : no.after <= Len(admissions')
    <3> SUFFICES ASSUME NEW no \in refusals PROVE no.after <= n + 1
      BY <1>2
    <3>1. no.after \in Nat /\ no.after <= n
      BY <1>1 DEF Ceiling, TypeOK
    <3> QED BY <3>1, <1>1
  <2>2. CASE Refilled = Full
    <3>1. /\ n + 1 \in DOMAIN admissions'
          /\ tokens' + (Len(admissions') - (n + 1) + 1) * UnitsPerToken
               >= Full + (refilled' - admissions'[n + 1]) * RefillPerTick
      BY <2>2, <1>1, <1>2, <1>5
    <3> QED BY <3>1, <2>1, <1>3 DEF Ceiling
  <2>3. CASE Refilled # Full
    <3> HIDE DEF Full
    <3>1. PICK since \in Nat : since = (clock - refilled) * RefillPerTick
      BY <1>1, Product
    <3>2. Refilled = tokens + since /\ tokens # Full
      BY <2>3, <3>1, <1>1, <1>4
    <3>3. PICK i \in DOMAIN admissions :
            tokens + (n - i + 1) * UnitsPerToken >= Full + (refilled - admissions[i]) * RefillPerTick
      BY <3>2, <1>1 DEF Ceiling
    <3>4. Len(admissions') - i + 1 = n - i + 2 /\ admissions'[i] = admissions[i]
      BY <1>1, <1>2
    <3>5. PICK cost, back \in Nat :
            /\ (n - i + 1) * UnitsPerToken = cost
            /\ (refilled - admissions[i]) * RefillPerTick = back
            /\ (n - i + 2) * UnitsPerToken = cost + UnitsPerToken
            /\ (clock - admissions[i]) * RefillPerTick = back + since
      BY <1>1, <3>1, Window
    <3>6. Refilled - UnitsPerToken + (cost + UnitsPerToken) >= Full + (back + since)
      BY <3>2, <3>3, <3>5, <1>1, <1>4
    <3>7. tokens' + (Len(admissions') - i + 1) * UnitsPerToken
            >= Full + (refilled' - admissions'[i]) * RefillPerTick
      BY <3>4, <3>5, <3>6, <1>2
    <3> QED BY <3>7, <2>1, <1>2, <1>3 DEF Ceiling
  <2> QED BY <2>2, <2>3
<1> QED BY <1>6, <1>7, <1>8, <1>9

\* A refusal leaves the refilled balance, which buys no admission.
LEMMA RefuseStep ==
  ASSUME BucketInv, Refilled < UnitsPerToken, Refuse, refilled' = clock, UNCHANGED world
  PROVE  (RateBound /\ Credit /\ RefusedOnlyAtCeiling /\ Ceiling)'
<1> DEFINE n == Len(admissions)
<1>1. /\ admissions \in Seq(Nat) /\ n \in Nat
      /\ clock \in Nat /\ refilled \in 0..clock /\ tokens \in 0..Full
      /\ UnitsPerToken \in Nat /\ RefillPerTick \in Nat /\ Full \in Nat
      /\ Full >= UnitsPerToken
      /\ TypeOK /\ RateBound /\ Credit /\ RefusedOnlyAtCeiling /\ Ceiling
  BY ServiceAssumption, FullType DEF BucketInv, TypeOK
<1>2. /\ admissions' = admissions /\ tokens' = Refilled /\ refilled' = clock
      /\ refusals' = refusals \cup {[at |-> clock, after |-> n]}
  BY DEF Refuse
<1>3. Full' = Full
  BY DEF Full
<1> HIDE DEF Full
<1>4. /\ Refilled \in 0..Full
      /\ Refilled <= tokens + (clock - refilled) * RefillPerTick
      /\ Refilled = Full \/ Refilled = tokens + (clock - refilled) * RefillPerTick
  BY <1>1, RefillBounds
<1>5. PICK since \in Nat : since = (clock - refilled) * RefillPerTick
  BY <1>1, Product
<1>6. RateBound'
  BY <1>1, <1>2, <1>3 DEF RateBound
<1>7. Credit'
  <2> SUFFICES ASSUME NEW i \in DOMAIN admissions
               PROVE  /\ admissions[i] <= clock
                      /\ Refilled + (n - i + 1) * UnitsPerToken
                           <= Full + (clock - admissions[i]) * RefillPerTick
    BY <1>2, <1>3 DEF Credit
  <2>1. /\ admissions[i] <= refilled
        /\ tokens + (n - i + 1) * UnitsPerToken
             <= Full + (refilled - admissions[i]) * RefillPerTick
    BY <1>1 DEF Credit
  <2>2. PICK cost, back \in Nat :
          /\ (n - i + 1) * UnitsPerToken = cost
          /\ (refilled - admissions[i]) * RefillPerTick = back
          /\ (clock - admissions[i]) * RefillPerTick = back + since
    BY <1>1, <1>5, Window
  <2>3. Refilled + cost <= Full + (back + since)
    BY <2>1, <2>2, <1>1, <1>4, <1>5
  <2>4. admissions[i] <= clock
    BY <2>1, <1>1, Window
  <2> QED BY <2>2, <2>3, <2>4
<1>8. PICK i \in DOMAIN admissions :
        tokens + (n - i + 1) * UnitsPerToken >= Full + (refilled - admissions[i]) * RefillPerTick
  <2>1. tokens # Full
    BY <1>1, <1>4, <1>5
  <2> QED BY <2>1, <1>1 DEF Ceiling
<1>9. /\ i \in 1..n
      /\ Refilled + (n - i + 1) * UnitsPerToken
           >= Full + (clock - admissions[i]) * RefillPerTick
      /\ (n - i + 2) * UnitsPerToken > Full + (clock - admissions[i]) * RefillPerTick
  <2>1. Refilled = tokens + since
    BY <1>1, <1>4, <1>5
  <2>2. PICK cost, back \in Nat :
          /\ (n - i + 1) * UnitsPerToken = cost
          /\ (refilled - admissions[i]) * RefillPerTick = back
          /\ (n - i + 2) * UnitsPerToken = cost + UnitsPerToken
          /\ (clock - admissions[i]) * RefillPerTick = back + since
    BY <1>1, <1>5, Window
  <2>3. Refilled + cost >= Full + (back + since)
    BY <2>1, <2>2, <1>1, <1>4, <1>8
  <2>4. cost + UnitsPerToken > Full + (back + since)
    BY <2>3, <1>1, <1>4
  <2>5. i \in 1..n
    BY <1>1, Window
  <2> QED BY <2>2, <2>3, <2>4, <2>5
<1>10. RefusedOnlyAtCeiling'
  <2> SUFFICES ASSUME NEW no \in refusals'
               PROVE  \E h \in 1..no.after :
                        (no.after - h + 2) * UnitsPerToken
                          > Full + (no.at - admissions[h]) * RefillPerTick
    BY <1>2, <1>3 DEF RefusedOnlyAtCeiling
  <2>1. CASE no \in refusals
    BY <2>1, <1>1 DEF RefusedOnlyAtCeiling
  <2>2. CASE no = [at |-> clock, after |-> n]
    BY <2>2, <1>9
  <2> QED BY <2>1, <2>2, <1>2
<1>11. Ceiling'
  <2>1. \A no \in refusals' : no.after <= n
    BY <1>1, <1>2 DEF Ceiling
  <2> QED BY <2>1, <1>2, <1>3, <1>8, <1>9 DEF Ceiling
<1> QED BY <1>6, <1>7, <1>10, <1>11

\* A reply is one of the answers.
LEMMA ReplyType ==
  ASSUME NEW d \in BOOLEAN, NEW n \in 0..2, NEW shown \in {0, 1}, NEW f \in Failures
  PROVE  Reply(200, d, n, shown, f) \in Answers
BY DEF Reply, Answers

LEMMA RefusedType ==
  ASSUME NEW s \in {0, 400, 401, 429, 500}
  PROVE  Refused(s) \in Answers
BY DEF Answers

\* The two ways a request moves on keep the types.
LEMMA MoveType ==
  ASSUME TypeOK, NEW r \in Clients
  PROVE  /\ \A next \in Phases : To(r, next) => /\ phase' \in [Clients -> Phases]
                                                /\ answer' \in [Clients -> Answers]
                                                /\ loop' \in Clients \cup {Nobody}
         /\ \A reply \in Answers : Answer(r, reply) => /\ phase' \in [Clients -> Phases]
                                                       /\ answer' \in [Clients -> Answers]
                                                       /\ loop' \in Clients \cup {Nobody}
         /\ Handed(r) => /\ phase' \in [Clients -> Phases]
                         /\ answer' \in [Clients -> Answers]
                         /\ loop' \in Clients \cup {Nobody}
         /\ \A parts \in {1, 2} : Break(r, parts) => faults' \in [Clients -> 0..MaxFaults]
<1>1. /\ phase \in [Clients -> Phases] /\ answer \in [Clients -> Answers]
      /\ loop \in Clients \cup {Nobody} /\ faults \in [Clients -> 0..MaxFaults]
  BY DEF TypeOK
<1>2. {"done", "parsing"} \subseteq Phases
  BY DEF Phases
<1>3. \A next \in Phases : To(r, next) => /\ phase' \in [Clients -> Phases]
                                          /\ answer' \in [Clients -> Answers]
                                          /\ loop' \in Clients \cup {Nobody}
  BY <1>1 DEF To
<1>4. \A reply \in Answers : Answer(r, reply) => /\ phase' \in [Clients -> Phases]
                                                 /\ answer' \in [Clients -> Answers]
                                                 /\ loop' \in Clients \cup {Nobody}
  BY <1>1, <1>2 DEF Answer
<1>5. Handed(r) => /\ phase' \in [Clients -> Phases]
                   /\ answer' \in [Clients -> Answers]
                   /\ loop' \in Clients \cup {Nobody}
  BY <1>1, <1>2 DEF Handed
<1>6. \A parts \in {1, 2} : Break(r, parts) => faults' \in [Clients -> 0..MaxFaults]
  BY <1>1, ServiceAssumption DEF Break
<1> QED BY <1>3, <1>4, <1>5, <1>6

\* Every step keeps the types.
LEMMA TypeStep ==
  ASSUME TypeOK, Spending, [Next]_vars
  PROVE  TypeOK'
<1>0. /\ UnitsPerToken \in Nat /\ Full \in Nat /\ MaxClock \in Nat
      /\ Phases = {"new", "reading", "parsing", "starting", "rendering", "degrading",
                   "assembling", "salvaging", "wiring", "stripping", "done"}
      /\ Full' = Full
  BY ServiceAssumption, FullType DEF Phases, Full
<1> HIDE DEF Full
<1>1. CASE UNCHANGED vars
  BY <1>1, <1>0 DEF TypeOK, vars, bucket, spend, world
<1>2. CASE Tick
  BY <1>2, <1>0 DEF Tick, TypeOK, bucket, spend
<1>3. ASSUME NEW r \in Clients, TurnAway(r) PROVE TypeOK'
  <2>1. {Refused(401), Refused(500)} \subseteq Answers
    BY RefusedType
  <2> QED BY <1>3, <1>0, <2>1, MoveType DEF TurnAway, TypeOK, bucket, spend, world
<1>4. ASSUME NEW r \in Clients, Throttle(r) PROVE TypeOK'
  <2>1. Refilled \in 0..Full
    BY <1>0, RefillBounds DEF TypeOK
  <2>2. Refused(429) \in Answers
    BY RefusedType
  <2>3. /\ phase' \in [Clients -> Phases] /\ answer' \in [Clients -> Answers]
        /\ loop' \in Clients \cup {Nobody}
    BY <1>4, <1>0, <2>2, MoveType DEF Throttle, Admit
  <2>4. /\ clock \in Nat /\ admissions \in Seq(Nat) /\ refusals \subseteq [at : Nat, after : Nat]
    BY <1>0 DEF TypeOK
  <2>5. tokens' \in 0..Full /\ admissions' \in Seq(Nat) /\ refusals' \subseteq [at : Nat, after : Nat]
    <3>1. CASE Refilled >= UnitsPerToken /\ Acquire
      BY <3>1, <2>1, <2>4, <1>0 DEF Acquire
    <3>2. CASE Refuse
      BY <3>2, <2>1, <2>4 DEF Refuse
    <3> QED BY <1>4, <3>1, <3>2 DEF Throttle
  <2> QED BY <1>4, <1>0, <2>3, <2>4, <2>5 DEF Throttle, TypeOK, spend, world
<1>5. ASSUME NEW r \in Clients, Deliver(r) PROVE TypeOK'
  <2>1. Refused(400) \in Answers
    BY RefusedType
  <2> QED BY <1>5, <1>0, <2>1, MoveType DEF Deliver, TypeOK, bucket, spend, world
<1>6. ASSUME NEW r \in Clients, Disconnect(r) PROVE TypeOK'
  <2>1. kind' \in [Clients -> [key : Keys, body : Bodies]]
    BY <1>6 DEF Disconnect, TypeOK, Bodies
  <2> QED BY <1>6, <1>0, <2>1, MoveType DEF Disconnect, TypeOK, bucket, spend, world
<1>7. ASSUME NEW r \in Clients, Parse(r) PROVE TypeOK'
  <2>1. Refused(400) \in Answers /\ Refused(500) \in Answers
    BY RefusedType
  <2> QED BY <1>7, <1>0, <2>1, MoveType DEF Parse, TypeOK, bucket, spend, world
<1>8. ASSUME NEW r \in Clients, Start(r) PROVE TypeOK'
  BY <1>8, <1>0, MoveType DEF Start, TypeOK, bucket, spend, world
<1>9. ASSUME NEW r \in Clients, Call(r) PROVE TypeOK'
  <2>1. /\ calls \in [Clients -> 0..2] /\ paid \in [Clients -> 0..2]
        /\ calls[r] \in {0, 1} /\ paid[r] <= calls[r]
    BY <1>9 DEF Call, TypeOK, Spending
  <2>2. calls' \in [Clients -> 0..2]
    BY <1>9, <2>1 DEF Call, Counted
  <2>3. paid' \in [Clients -> 0..2]
    <3>1. \E more \in {0, 1} : paid' = [paid EXCEPT ![r] = @ + more]
      BY <1>9 DEF Call
    <3>2. paid[r] \in {0, 1}
      BY <2>1
    <3> QED BY <2>1, <3>1, <3>2
  <2> QED BY <1>9, <1>0, <2>2, <2>3, MoveType DEF Call, TypeOK, bucket, world
<1>10. ASSUME NEW r \in Clients, Return(r) PROVE TypeOK'
  BY <1>10, <1>0, MoveType DEF Return, TypeOK, bucket, spend, world
<1>11. ASSUME NEW r \in Clients
       PROVE  /\ FailureStage(r) \in Failures /\ calls[r] \in 0..2
              /\ Refused(500) \in Answers /\ Salvaged(r) \in Answers
              /\ Reply(200, TRUE, calls[r], 0, FailureStage(r)) \in Answers
              /\ \A shown \in {0, 1} :
                   Reply(200, calls[r] > 0 /\ shown = 0, calls[r], shown, "none") \in Answers
  <2>1. FailureStage(r) \in Failures /\ {"assemble", "none"} \subseteq Failures /\ calls[r] \in 0..2
    BY DEF FailureStage, Failures, TypeOK
  <2>2. Refused(500) \in Answers
    BY RefusedType
  <2>3. Reply(200, TRUE, calls[r], 0, FailureStage(r)) \in Answers /\ Salvaged(r) \in Answers
    BY <2>1, ReplyType DEF Salvaged
  <2>4. ASSUME NEW shown \in {0, 1}
        PROVE  Reply(200, calls[r] > 0 /\ shown = 0, calls[r], shown, "none") \in Answers
    <3>1. (calls[r] > 0 /\ shown = 0) \in BOOLEAN
      BY Zenon
    <3> QED BY <2>1, <3>1, ReplyType, Zenon
  <2> QED BY <2>1, <2>2, <2>3, <2>4
<1>12. ASSUME NEW r \in Clients, Degrade(r) PROVE TypeOK'
  BY <1>12, <1>0, <1>11, MoveType DEF Degrade, TypeOK, bucket, spend, world
<1>13. ASSUME NEW r \in Clients, Assemble(r) PROVE TypeOK'
  <2>1. /\ phase' \in [Clients -> Phases] /\ answer' \in [Clients -> Answers]
        /\ loop' \in Clients \cup {Nobody} /\ faults' \in [Clients -> 0..MaxFaults]
    <3>1. CASE To(r, "salvaging") /\ Break(r, 1)
      BY <3>1, <1>0, MoveType
    <3>2. ASSUME NEW shown \in {0, 1}, UNCHANGED faults,
                 Answer(r, Reply(200, calls[r] > 0 /\ shown = 0, calls[r], shown, "none"))
          PROVE  /\ phase' \in [Clients -> Phases] /\ answer' \in [Clients -> Answers]
                 /\ loop' \in Clients \cup {Nobody} /\ faults' \in [Clients -> 0..MaxFaults]
      <4>1. Reply(200, calls[r] > 0 /\ shown = 0, calls[r], shown, "none") \in Answers
        BY <1>11
      <4>2. faults' \in [Clients -> 0..MaxFaults]
        BY <3>2 DEF TypeOK
      <4> QED BY <3>2, <4>1, <4>2, MoveType, Zenon
    <3> QED BY <1>13, <3>1, <3>2 DEF Assemble
  <2> QED BY <1>13, <1>0, <2>1 DEF Assemble, TypeOK, bucket, spend, world
<1>14. ASSUME NEW r \in Clients, Salvage(r) PROVE TypeOK'
  BY <1>14, <1>0, <1>11, MoveType DEF Salvage, TypeOK, bucket, spend, world
<1>15. ASSUME NEW r \in Clients, Wire(r) PROVE TypeOK'
  BY <1>15, <1>0, <1>11, MoveType DEF Wire, TypeOK, bucket, spend, world
<1>16. ASSUME NEW r \in Clients, Strip(r) PROVE TypeOK'
  <2>1. /\ phase' \in [Clients -> Phases] /\ answer' \in [Clients -> Answers]
        /\ loop' \in Clients \cup {Nobody} /\ faults' \in [Clients -> 0..MaxFaults]
    BY <1>16, <1>11, MoveType DEF Strip, TypeOK
  <2> QED BY <1>16, <1>0, <2>1 DEF Strip, TypeOK, bucket, spend, world
<1> QED
  BY <1>1, <1>2, <1>3, <1>4, <1>5, <1>6, <1>7, <1>8, <1>9, <1>10, <1>12, <1>13, <1>14,
     <1>15, <1>16 DEF Next, Admission, Receive, Handle

\* A step of another request, or none, leaves what a request spent alone.
LEMMA OthersSpend ==
  ASSUME SpendRecorded, Spending, NEW q \in Clients,
         phase'[q] = phase[q], calls'[q] = calls[q], paid'[q] = paid[q],
         answer'[q] = answer[q], faults'[q] = faults[q]
  PROVE  /\ phase'[q] = "done" =>
              /\ paid'[q] > 0 /\ faults'[q] <= 1 => answer'[q].status = 200
              /\ answer'[q].status = 200 => answer'[q].recorded >= paid'[q]
              /\ answer'[q].failure = "pre_generation" => paid'[q] = 0
         /\ paid'[q] <= calls'[q]
         /\ phase'[q] \in {"new", "reading", "parsing", "starting"} => calls'[q] = 0
         /\ phase'[q] \in {"degrading", "salvaging", "wiring"} => faults'[q] >= 1
         /\ phase'[q] = "stripping" => faults'[q] >= 2
         /\ phase'[q] # "done" => answer'[q] = Unanswered
BY DEF SpendRecorded, Spending

\* Every step keeps the records of what was spent.
LEMMA SpendStep ==
  ASSUME TypeOK, SpendRecorded, Spending, [Next]_vars
  PROVE  SpendRecorded' /\ Spending'
<1> DEFINE Settled(q) ==
      /\ phase'[q] = "done" =>
           /\ paid'[q] > 0 /\ faults'[q] <= 1 => answer'[q].status = 200
           /\ answer'[q].status = 200 => answer'[q].recorded >= paid'[q]
           /\ answer'[q].failure = "pre_generation" => paid'[q] = 0
      /\ paid'[q] <= calls'[q]
      /\ phase'[q] \in {"new", "reading", "parsing", "starting"} => calls'[q] = 0
      /\ phase'[q] \in {"degrading", "salvaging", "wiring"} => faults'[q] >= 1
      /\ phase'[q] = "stripping" => faults'[q] >= 2
      /\ phase'[q] # "done" => answer'[q] = Unanswered
<1>1. SUFFICES ASSUME NEW q \in Clients PROVE Settled(q)
  BY DEF SpendRecorded, Spending, Unanswered, Refused, Reply
<1>2. /\ phase \in [Clients -> Phases] /\ answer \in [Clients -> Answers]
      /\ calls \in [Clients -> 0..2] /\ paid \in [Clients -> 0..2]
      /\ faults \in [Clients -> 0..MaxFaults] /\ MaxFaults \in Nat
  BY ServiceAssumption DEF TypeOK
<1>3. /\ paid[q] \in 0..2 /\ calls[q] \in 0..2 /\ faults[q] \in 0..MaxFaults
      /\ paid[q] <= calls[q]
      /\ phase[q] \in {"new", "reading", "parsing", "starting"} => calls[q] = 0
      /\ phase[q] \in {"degrading", "salvaging", "wiring"} => faults[q] >= 1
      /\ phase[q] = "stripping" => faults[q] >= 2
      /\ phase[q] # "done" => answer[q] = Unanswered
  BY <1>2 DEF Spending
<1>4. CASE \/ UNCHANGED vars \/ Tick
           \/ \E r \in Clients \ {q} : Admission(r) \/ Receive(r) \/ Handle(r)
  <2> DEFINE Same == /\ phase'[q] = phase[q] /\ calls'[q] = calls[q] /\ paid'[q] = paid[q]
                     /\ answer'[q] = answer[q] /\ faults'[q] = faults[q]
  <2>1. UNCHANGED vars \/ Tick => Same
    <3>1. UNCHANGED vars \/ Tick => UNCHANGED <<phase, calls, paid, answer, faults>>
      BY DEF vars, Tick, spend
    <3> QED BY <3>1
  <2>2. ASSUME NEW r \in Clients \ {q}
        PROVE  /\ \A next : To(r, next) => phase'[q] = phase[q] /\ answer'[q] = answer[q]
               /\ \A reply : Answer(r, reply) => phase'[q] = phase[q] /\ answer'[q] = answer[q]
               /\ Handed(r) => phase'[q] = phase[q] /\ answer'[q] = answer[q]
               /\ \A parts : Break(r, parts) => faults'[q] = faults[q]
    BY <1>2 DEF To, Answer, Handed, Break
  <2>3. ASSUME NEW r \in Clients \ {q}, Admission(r) \/ Receive(r) \/ Parse(r) \/ Start(r)
        PROVE  Same
    BY <2>2, <2>3 DEF Admission, Receive, TurnAway, Throttle, Admit, Deliver, Disconnect,
       Parse, Start, spend
  <2>4. ASSUME NEW r \in Clients \ {q}, Call(r)
        PROVE  Same
    BY <1>2, <2>2, <2>4 DEF Call
  <2>5. ASSUME NEW r \in Clients \ {q},
               Return(r) \/ Degrade(r) \/ Assemble(r) \/ Salvage(r) \/ Wire(r) \/ Strip(r)
        PROVE  Same
    <3>1. UNCHANGED <<calls, paid>>
      BY <2>5 DEF Return, Degrade, Assemble, Salvage, Wire, Strip, spend
    <3>2. (\E next : To(r, next)) \/ (\E reply : Answer(r, reply))
      BY <2>5, Zenon DEF Return, Degrade, Assemble, Salvage, Wire, Strip
    <3>3. UNCHANGED faults \/ \E parts : Break(r, parts)
      BY <2>5, Zenon DEF Return, Degrade, Assemble, Salvage, Wire, Strip
    <3> QED BY <2>2, <3>1, <3>2, <3>3
  <2>6. Same
    BY <1>4, <2>1, <2>3, <2>4, <2>5 DEF Handle
  <2> QED BY <2>6, OthersSpend
<1>5. CASE Admission(q) \/ Receive(q) \/ Parse(q) \/ Start(q)
  <2>1. calls[q] = 0 /\ paid[q] = 0 /\ calls' = calls /\ paid' = paid
    BY <1>3, <1>5 DEF Admission, Receive, TurnAway, Throttle, Deliver, Disconnect, Parse,
       Start, At, spend
  <2>2. \/ phase'[q] \in {"reading", "parsing", "starting", "rendering"} /\ answer' = answer
        \/ phase'[q] = "degrading" /\ answer' = answer /\ faults'[q] >= 1
        \/ phase'[q] = "done" /\ \E s \in {400, 401, 429, 500} : answer'[q] = Refused(s)
    BY <1>2, <1>3, <1>5 DEF Admission, Receive, TurnAway, Throttle, Admit, Deliver, Disconnect,
       Handed, Parse, Start, To, Answer, Break, At
  <2>3. phase[q] # "done"
    BY <1>5 DEF Admission, Receive, TurnAway, Throttle, Deliver, Disconnect, Parse, Start, At
  <2> QED BY <2>1, <2>2, <2>3, <1>3 DEF Refused, Reply
<1>6. CASE Call(q) \/ Return(q)
  <2>1. phase[q] = "rendering" /\ answer[q] = Unanswered
    BY <1>3, <1>6 DEF Call, Return, At
  <2>2. /\ paid'[q] <= calls'[q] /\ answer' = answer
        /\ \/ phase'[q] \in {"rendering", "assembling"}
           \/ phase'[q] = "degrading" /\ faults'[q] >= 1
    BY <1>2, <1>3, <1>6, <2>1 DEF Call, Return, To, Break, Counted, spend
  <2> QED BY <2>1, <2>2
<1>7. CASE Degrade(q)
  <2>1. faults[q] >= 1 /\ calls' = calls /\ paid' = paid /\ phase'[q] = "done"
    BY <1>2, <1>3, <1>7 DEF Degrade, At, Answer, spend
  <2>2. CASE Answer(q, Reply(200, TRUE, calls[q], 0, FailureStage(q))) /\ UNCHANGED faults
    BY <1>2, <1>3, <2>1, <2>2 DEF Answer, Reply, FailureStage
  <2>3. CASE Answer(q, Refused(500)) /\ Break(q, 1)
    BY <1>2, <1>3, <2>1, <2>3 DEF Answer, Break, Refused, Reply
  <2> QED BY <1>7, <2>2, <2>3 DEF Degrade
<1>8. CASE Assemble(q)
  <2>1. calls' = calls /\ paid' = paid /\ answer[q] = Unanswered
    BY <1>3, <1>8 DEF Assemble, At, spend
  <2>2. ASSUME NEW shown \in {0, 1},
               Answer(q, Reply(200, calls[q] > 0 /\ shown = 0, calls[q], shown, "none"))
        PROVE  Settled(q)
    BY <1>2, <1>3, <2>1, <2>2 DEF Answer, Reply
  <2>3. CASE To(q, "salvaging") /\ Break(q, 1)
    BY <1>2, <1>3, <2>1, <2>3 DEF To, Break
  <2> QED BY <1>8, <2>2, <2>3 DEF Assemble
<1>9. CASE Salvage(q) \/ Wire(q) \/ Strip(q)
  <2>1. /\ faults[q] >= 1 /\ calls' = calls /\ paid' = paid /\ answer[q] = Unanswered
        /\ phase[q] = "stripping" => faults[q] >= 2
    BY <1>3, <1>9 DEF Salvage, Wire, Strip, At, spend
  <2>2. \/ phase'[q] = "wiring" /\ answer' = answer /\ faults'[q] >= faults[q]
        \/ phase'[q] = "stripping" /\ answer' = answer /\ faults'[q] >= faults[q] + 1
        \/ phase'[q] = "done" /\ answer'[q] = Salvaged(q) /\ faults' = faults
        \/ phase'[q] = "done" /\ answer'[q] = Refused(500) /\ faults'[q] >= faults[q] + 1
    BY <1>2, <1>3, <1>9 DEF Salvage, Wire, Strip, To, Answer, Break
  <2>3. CASE phase'[q] = "wiring" /\ answer' = answer /\ faults'[q] >= faults[q]
    BY <1>2, <1>3, <2>1, <2>3, <1>9 DEF Salvage, Wire, Strip, Break
  <2>4. CASE phase'[q] = "stripping" /\ answer' = answer /\ faults'[q] >= faults[q] + 1
    BY <1>2, <1>3, <2>1, <2>4, <1>9 DEF Salvage, Wire, Strip, Break
  <2>5. CASE phase'[q] = "done" /\ answer'[q] = Salvaged(q) /\ faults' = faults
    BY <1>3, <2>1, <2>5 DEF Salvaged, Reply
  <2>6. CASE phase'[q] = "done" /\ answer'[q] = Refused(500) /\ faults'[q] >= faults[q] + 1
    BY <1>2, <1>3, <2>1, <2>6, <1>9 DEF Refused, Reply, Salvage, Wire, Strip, Break
  <2> QED BY <2>2, <2>3, <2>4, <2>5, <2>6
<1> QED
  BY <1>4, <1>5, <1>6, <1>7, <1>8, <1>9 DEF Next, Handle

\* Every step keeps the bucket.
LEMMA BucketStep ==
  ASSUME BucketInv, [Next]_vars
  PROVE  (RateBound /\ Credit /\ RefusedOnlyAtCeiling /\ Ceiling)'
<1>1. CASE UNCHANGED bucket
  BY <1>1, BucketKept
<1>2. ASSUME NEW r \in Clients, Throttle(r)
      PROVE  (RateBound /\ Credit /\ RefusedOnlyAtCeiling /\ Ceiling)'
  BY <1>2, AcquireStep, RefuseStep DEF Throttle
<1>3. UNCHANGED bucket \/ \E r \in Clients : Throttle(r)
  BY DEF Next, Tick, vars, Admission, Receive, Handle, TurnAway, Deliver, Disconnect, Parse,
     Start, Call, Return, Degrade, Assemble, Salvage, Wire, Strip, bucket
<1> QED BY <1>1, <1>2, <1>3

LEMMA InitStep == Init => ServiceInv
<1> SUFFICES ASSUME Init PROVE ServiceInv
  OBVIOUS
<1>1. TypeOK
  BY ServiceAssumption, FullType, RefusedType DEF Init, TypeOK, Phases, Unanswered
<1>2. RateBound /\ Credit /\ RefusedOnlyAtCeiling /\ Ceiling
  BY DEF Init, RateBound, Credit, RefusedOnlyAtCeiling, Ceiling
<1>3. SpendRecorded /\ Spending
  BY DEF Init, SpendRecorded, Spending
<1> QED BY <1>1, <1>2, <1>3 DEF ServiceInv

\* The inductive invariant of the service, for any number of requests, any
\* burst and refill, and any parts that break.
THEOREM Served == Spec => []ServiceInv
<1>1. ServiceInv /\ [Next]_vars => ServiceInv'
  BY TypeStep, BucketStep, SpendStep DEF ServiceInv, BucketInv
<1> QED BY InitStep, <1>1, PTL DEF Spec

\* Every variable keeps its type; the balance stays within the burst.
THEOREM TypeCorrect == Spec => []TypeOK
BY Served, PTL DEF ServiceInv

\* Between any two admissions the service admits no more than the burst and
\* what came back in between.
THEOREM CeilingHolds == Spec => []RateBound
BY Served, PTL DEF ServiceInv

\* A request is refused only when one more admission would break the ceiling.
THEOREM RefusalsJustified == Spec => []RefusedOnlyAtCeiling
BY Served, PTL DEF ServiceInv

\* One part that breaks never loses the record of a paid render, and no
\* record counts less than what was paid.
THEOREM SpendIsRecorded == Spec => []SpendRecorded
BY Served, PTL DEF ServiceInv
=============================================================================
