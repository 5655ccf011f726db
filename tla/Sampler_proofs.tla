--------------------------- MODULE Sampler_proofs ---------------------------
(***************************************************************************)
(* Theorems about Sampler, for any number of callers, rate, burst, clock   *)
(* unit and word, however often the clock is set back.                     *)
(***************************************************************************)
EXTENDS Sampler, FiniteSetTheorems, TLAPS

(***************************************************************************)
(* A caller that won its compare-and-swap of lastRefill owns the time from *)
(* its last to its now until it has credited it.  No two own the same      *)
(* time, so what they will credit is within what the rate gives for all    *)
(* the time they own together: no sum over the callers is needed.          *)
(***************************************************************************)
Owing(c) == pc[c] \in {"load", "credit"}
Interval(c) == last[c] + 1..now[c]
Unpaid == {t \in 1..MaxTime : \E c \in Callers : Owing(c) /\ t \in Interval(c)}

ClaimsOK ==
  /\ \A c \in Callers : last[c] <= lastRefill
  /\ \A c \in Callers : pc[c] \in {"claim", "load", "credit"} => last[c] < now[c]
  /\ \A c \in Callers : Owing(c) => now[c] <= lastRefill
  /\ \A c, d \in Callers : c # d /\ Owing(c) /\ Owing(d) =>
                             now[c] <= last[d] \/ now[d] <= last[c]

(* A token is taken from what was loaded, which was not nothing.           *)
TakesOK == \A c \in Callers : pc[c] = "take" => current[c] > 0

BudgetOK ==
  Second * (admitted + tokens) + Rate * Cardinality(Unpaid)
    <= Second * Burst + Rate * lastRefill

SamplerInv == TypeOK /\ ClaimsOK /\ TakesOK /\ BudgetOK
-----------------------------------------------------------------------------
(* refill gives no more tokens than the rate does, however products wrap,  *)
(* and none for no time.                                                   *)
LEMMA DivFacts ==
  ASSUME NEW m \in Nat, NEW d \in Nat \ {0}
  PROVE  /\ m \div d \in Nat /\ d * (m \div d) <= m
         /\ m \div d = 0 => m < d
OBVIOUS

LEMMA EarnedFacts ==
  ASSUME NEW e \in Int
  PROVE  /\ Earned(e) \in Nat
         /\ Earned(e) # 0 => e > 0
         /\ e >= 0 => Second * Earned(e) <= Rate * e
         /\ Earned(e) = 0 /\ 2 * (e * Rate) < Word => e * Rate < Second
<1> USE SamplerAssumption
<1>1. CASE e <= 0
  <2>1. Earned(e) = 0
    BY <1>1 DEF Earned
  <2>2. e * Rate <= 0 /\ (e >= 0 => Rate * e = 0) /\ Second * 0 = 0
    BY <1>1
  <2> QED
    BY <1>1, <2>1, <2>2
<1>2. CASE e > 0
  <2> DEFINE m == e * Rate
  <2>1. m \in Nat /\ m = Rate * e
    BY <1>2
  <2> HIDE DEF m
  <2>2. Wrapped(m) \in Nat /\ Wrapped(m) <= m /\ (2 * m < Word => Wrapped(m) = m)
    BY <2>1 DEF Wrapped
  <2>3. Earned(e) = IF Negative(m) THEN 0 ELSE Wrapped(m) \div Second
    BY <1>2 DEF Earned, m
  <2>4. 2 * m < Word => ~Negative(m)
    BY <2>1, <2>2 DEF Negative
  <2> DEFINE q == Wrapped(m) \div Second
  <2>5. q \in Nat /\ Second * q <= Wrapped(m) /\ (q = 0 => Wrapped(m) < Second)
    BY <2>2, DivFacts
  <2>6. Second * 0 = 0
    OBVIOUS
  <2> HIDE DEF q
  <2>7. Earned(e) = IF Negative(m) THEN 0 ELSE q
    BY <2>3 DEF q
  <2>8. Second * Earned(e) <= m
    <3>1. Second * q <= m
      BY <2>1, <2>2, <2>5
    <3> QED
      BY <2>1, <2>6, <2>7, <3>1
  <2>9. Earned(e) = 0 /\ 2 * m < Word => m < Second
    BY <2>2, <2>4, <2>5, <2>7
  <2> QED
    BY <1>2, <2>1, <2>5, <2>7, <2>8, <2>9 DEF m
<1> QED
  BY <1>1, <1>2

(* Products, so that the steps below need no multiplication.               *)
LEMMA ProductFacts ==
  ASSUME NEW f \in Nat, NEW a \in Int, NEW b \in Int
  PROVE  /\ f * (a + b) = f * a + f * b
         /\ f * (a - b) = f * a - f * b
         /\ a <= b => f * a <= f * b
         /\ f * a \in Int
OBVIOUS

(* The set of the time that is owned: it is finite, and it changes only    *)
(* when a caller starts or ceases to own.                                  *)
LEMMA UnpaidIsFinite ==
  ASSUME TypeOK
  PROVE  IsFiniteSet(Unpaid) /\ Cardinality(Unpaid) \in Nat
<1>1. IsFiniteSet(1..MaxTime) /\ Unpaid \in SUBSET (1..MaxTime)
  BY FS_Interval, SamplerAssumption DEF Unpaid
<1> QED
  BY <1>1, FS_Subset, FS_CardinalityType
-----------------------------------------------------------------------------
LEMMA InitInv == Init => SamplerInv
<1> SUFFICES ASSUME Init PROVE SamplerInv
  OBVIOUS
<1> USE SamplerAssumption DEF Init
<1>1. TypeOK /\ ClaimsOK /\ TakesOK
  BY DEF TypeOK, ClaimsOK, TakesOK, Owing
<1>2. Unpaid = {}
  BY DEF Unpaid, Owing
<1>3. Cardinality(Unpaid) = 0
  BY <1>2, FS_EmptySet
<1>4. BudgetOK
  BY <1>3 DEF BudgetOK
<1> QED
  BY <1>1, <1>4 DEF SamplerInv

(* Steps that leave lastRefill, the intervals that are owned and the sum   *)
(* of what was and what can be admitted.                                   *)
LEMMA SameBudget ==
  ASSUME BudgetOK, Unpaid' = Unpaid, lastRefill' = lastRefill,
         admitted' + tokens' = admitted + tokens
  PROVE  BudgetOK'
BY DEF BudgetOK

LEMMA QuietInv ==
  ASSUME SamplerInv, NEW c \in Callers,
         ReadClock(c) \/ LoadLastRefill(c) \/ LoadTokens(c) \/ CheckTokens(c) \/ Take(c)
  PROVE  SamplerInv'
<1> USE SamplerAssumption DEF SamplerInv, Goto, locals
<1>1. /\ clock' = clock /\ lastRefill' = lastRefill
      /\ \A d \in Callers : d # c => /\ pc'[d] = pc[d] /\ now'[d] = now[d] /\ last'[d] = last[d]
                                     /\ current'[d] = current[d]
      /\ Owing(c)' = Owing(c)
      /\ Owing(c) => now'[c] = now[c] /\ last'[c] = last[c]
  BY DEF ReadClock, LoadLastRefill, LoadTokens, CheckTokens, Take, TypeOK, Owing
<1>2. TypeOK'
  <2>1. CASE ReadClock(c)
    BY <2>1 DEF ReadClock, TypeOK
  <2>2. CASE LoadLastRefill(c)
    BY <2>2 DEF LoadLastRefill, TypeOK
  <2>3. CASE LoadTokens(c)
    BY <2>3 DEF LoadTokens, TypeOK
  <2>4. CASE CheckTokens(c)
    BY <2>4 DEF CheckTokens, TypeOK
  <2>5. CASE Take(c)
    BY <2>5 DEF Take, TypeOK, TakesOK
  <2> QED
    BY <2>1, <2>2, <2>3, <2>4, <2>5
<1>3. ClaimsOK'
  <2>1. last'[c] <= lastRefill /\ (pc'[c] \in {"claim", "load", "credit"} => last'[c] < now'[c])
    <3>1. CASE ReadClock(c)
      BY <3>1 DEF ReadClock, TypeOK, ClaimsOK
    <3>2. CASE LoadLastRefill(c)
      <4>1. now[c] - lastRefill \in Int /\ now[c] \in Int /\ lastRefill \in Int
        BY DEF TypeOK
      <4>2. Earned(now[c] - lastRefill) # 0 => now[c] - lastRefill > 0
        BY <4>1, EarnedFacts
      <4> QED
        BY <3>2, <4>1, <4>2 DEF LoadLastRefill, TypeOK
    <3>3. CASE LoadTokens(c) \/ CheckTokens(c) \/ Take(c)
      BY <3>3 DEF LoadTokens, CheckTokens, Take, TypeOK, ClaimsOK
    <3> QED
      BY <3>1, <3>2, <3>3
  <2> QED
    BY <1>1, <2>1 DEF ClaimsOK, Owing
<1>4. TakesOK'
  <2>1. pc'[c] = "take" => current'[c] > 0
    BY DEF ReadClock, LoadLastRefill, LoadTokens, CheckTokens, Take, TypeOK
  <2> QED
    BY <1>1, <2>1 DEF TakesOK
<1>5. Unpaid' = Unpaid
  <2>1. \A d \in Callers, t \in 1..MaxTime :
          (Owing(d) /\ t \in Interval(d))' <=> (Owing(d) /\ t \in Interval(d))
    BY <1>1 DEF Owing, Interval
  <2> QED
    BY <2>1 DEF Unpaid
<1>6. admitted' + tokens' = admitted + tokens
  BY DEF ReadClock, LoadLastRefill, LoadTokens, CheckTokens, Take, TypeOK
<1> QED
  BY <1>1, <1>2, <1>3, <1>4, <1>5, <1>6, SameBudget

(* A caller wins an interval, which begins where the last one ended: no    *)
(* one else owns any of it.                                                *)
LEMMA IntervalFacts ==
  ASSUME TypeOK, NEW c \in Callers, last[c] < now[c]
  PROVE  /\ Interval(c) \subseteq 1..MaxTime
         /\ IsFiniteSet(Interval(c)) /\ Cardinality(Interval(c)) = now[c] - last[c]
<1>1. now[c] \in 0..MaxTime /\ last[c] \in 0..MaxTime
  BY DEF TypeOK
<1>2. last[c] + 1 \in Int /\ now[c] \in Int /\ ~(last[c] + 1 > now[c])
      /\ now[c] - (last[c] + 1) + 1 = now[c] - last[c]
  BY <1>1, SamplerAssumption
<1>3. IsFiniteSet(Interval(c)) /\ Cardinality(Interval(c)) = now[c] - last[c]
  BY <1>2, FS_Interval DEF Interval
<1> QED
  BY <1>1, <1>3, SamplerAssumption DEF Interval

LEMMA ClaimInv ==
  ASSUME SamplerInv, NEW c \in Callers, ClaimInterval(c)
  PROVE  SamplerInv'
<1> USE SamplerAssumption DEF SamplerInv, Goto, locals
<1>1. /\ pc[c] = "claim"
      /\ UNCHANGED <<clock, tokens, now, last, current, calls, admitted>>
      /\ \/ lastRefill = last[c] /\ lastRefill' = now[c] /\ pc' = [pc EXCEPT ![c] = "load"]
         \/ lastRefill' = lastRefill /\ pc' = [pc EXCEPT ![c] = "check"]
  BY DEF ClaimInterval
<1>2. TypeOK'
  BY <1>1 DEF TypeOK
<1>3. last[c] < now[c]
  BY <1>1 DEF ClaimsOK
<1>4. \A d \in Callers : /\ now[d] \in 0..MaxTime /\ last[d] \in 0..MaxTime
                         /\ d # c => pc'[d] = pc[d]
  BY <1>1 DEF TypeOK
<1>5. TakesOK'
  BY <1>1 DEF TakesOK, TypeOK
<1>6. CASE lastRefill = last[c] /\ lastRefill' = now[c] /\ pc' = [pc EXCEPT ![c] = "load"]
  <2>1. pc'[c] = "load" /\ lastRefill \in 0..MaxTime
    BY <1>6 DEF TypeOK
  <2>2. ClaimsOK'
    BY <1>1, <1>3, <1>4, <1>6, <2>1 DEF ClaimsOK, Owing
  <2>3. Unpaid' = Unpaid \cup Interval(c)
    <3>1. Interval(c) \subseteq 1..MaxTime
      BY <1>3, IntervalFacts
    <3>2. \A d \in Callers : Owing(d)' <=> (Owing(d) \/ d = c)
      BY <1>4, <2>1 DEF Owing
    <3>3. \A d \in Callers : Interval(d)' = Interval(d)
      BY <1>1 DEF Interval
    <3> QED
      BY <3>1, <3>2, <3>3 DEF Unpaid
  <2>4. Unpaid \cap Interval(c) = {}
    <3> SUFFICES ASSUME NEW t \in Unpaid, t \in Interval(c) PROVE FALSE
      OBVIOUS
    <3>1. PICK d \in Callers : Owing(d) /\ t \in Interval(d)
      BY DEF Unpaid
    <3>2. now[d] <= last[c]
      BY <1>6, <3>1 DEF ClaimsOK
    <3> QED
      BY <1>4, <3>1, <3>2 DEF Interval
  <2>5. Cardinality(Unpaid') = Cardinality(Unpaid) + (now[c] - last[c])
    <3>1. IsFiniteSet(Unpaid) /\ Cardinality(Unpaid) \in Nat
      BY UnpaidIsFinite
    <3>2. IsFiniteSet(Interval(c)) /\ Cardinality(Interval(c)) = now[c] - last[c]
      BY <1>3, IntervalFacts
    <3>3. Cardinality(Unpaid') =
            Cardinality(Unpaid) + Cardinality(Interval(c)) - Cardinality(Unpaid \cap Interval(c))
      BY <2>3, <3>1, <3>2, FS_Union
    <3>4. Cardinality(Unpaid \cap Interval(c)) = 0
      BY <2>4, FS_EmptySet
    <3> QED
      BY <1>4, <3>1, <3>2, <3>3, <3>4
  <2>6. BudgetOK'
    <3> DEFINE e == now[c] - last[c]
               u == Cardinality(Unpaid)
    <3>1. u \in Int /\ e \in Int /\ lastRefill \in Int
      BY <1>4, <2>1, UnpaidIsFinite
    <3>2. Cardinality(Unpaid') = u + e /\ lastRefill' = lastRefill + e
      BY <1>4, <1>6, <2>5
    <3> HIDE DEF e, u
    <3>3. Rate * (u + e) = Rate * u + Rate * e /\ Rate * (lastRefill + e) = Rate * lastRefill + Rate * e
      BY <3>1, ProductFacts
    <3>4. Rate * u \in Int /\ Rate * e \in Int /\ Rate * lastRefill \in Int
      BY <3>1, ProductFacts
    <3>5. Second * (admitted + tokens) \in Int /\ Second * Burst \in Int
      BY DEF TypeOK
    <3>6. Second * (admitted + tokens) + Rate * u <= Second * Burst + Rate * lastRefill
      BY DEF BudgetOK, u
    <3>7. Second * (admitted + tokens) + Rate * (u + e) <= Second * Burst + Rate * (lastRefill + e)
      BY <3>3, <3>4, <3>5, <3>6
    <3> QED
      BY <1>1, <3>2, <3>7 DEF BudgetOK
  <2> QED
    BY <1>2, <1>5, <2>2, <2>6
<1>7. CASE lastRefill' = lastRefill /\ pc' = [pc EXCEPT ![c] = "check"]
  <2>1. pc'[c] = "check"
    BY <1>7 DEF TypeOK
  <2>2. ClaimsOK'
    BY <1>1, <1>4, <1>7, <2>1 DEF ClaimsOK, Owing
  <2>3. Unpaid' = Unpaid
    <3>1. \A d \in Callers : Owing(d)' <=> Owing(d)
      BY <1>1, <1>4, <2>1 DEF Owing
    <3>2. \A d \in Callers : Interval(d)' = Interval(d)
      BY <1>1 DEF Interval
    <3> QED
      BY <3>1, <3>2 DEF Unpaid
  <2> QED
    BY <1>1, <1>2, <1>5, <1>7, <2>2, <2>3, SameBudget
<1> QED
  BY <1>1, <1>6, <1>7

(* The tokens for an interval are credited, and nobody owns it any more.   *)
LEMMA CreditInv ==
  ASSUME SamplerInv, NEW c \in Callers, Credit(c)
  PROVE  SamplerInv'
<1> USE SamplerAssumption DEF SamplerInv, Goto, locals
<1>1. /\ pc[c] = "credit"
      /\ UNCHANGED <<clock, lastRefill, now, last, current, calls, admitted>>
      /\ \/ tokens' = Capped(tokens + NewTokens(c)) /\ pc' = [pc EXCEPT ![c] = "check"]
         \/ tokens' = tokens /\ pc' = [pc EXCEPT ![c] = "load"]
  BY DEF Credit
<1>2. last[c] < now[c] /\ Owing(c)
  BY <1>1 DEF ClaimsOK, Owing
<1>3. \A d \in Callers : /\ now[d] \in 0..MaxTime /\ last[d] \in 0..MaxTime
                         /\ d # c => pc'[d] = pc[d]
  BY <1>1 DEF TypeOK
<1>4. /\ NewTokens(c) \in Nat /\ Second * NewTokens(c) <= Rate * (now[c] - last[c])
      /\ tokens \in Nat /\ tokens <= Burst /\ admitted \in Nat
  <2> DEFINE e == now[c] - last[c]
  <2>1. e \in Int /\ e >= 0
    BY <1>2, <1>3
  <2> HIDE DEF e
  <2>2. Earned(e) \in Nat /\ Second * Earned(e) <= Rate * e
    BY <2>1, EarnedFacts
  <2>3. NewTokens(c) \in Nat /\ NewTokens(c) <= Earned(e)
    BY <2>2 DEF NewTokens, e
  <2>4. Second * NewTokens(c) <= Second * Earned(e)
    BY <2>2, <2>3, ProductFacts
  <2>5. Second * NewTokens(c) \in Int /\ Second * Earned(e) \in Int /\ Rate * e \in Int
    BY <2>1, <2>2, <2>3, ProductFacts
  <2> QED
    BY <2>2, <2>3, <2>4, <2>5 DEF TypeOK, e
<1>5. tokens' \in 0..Burst /\ tokens' <= tokens + NewTokens(c)
  BY <1>1, <1>4 DEF Capped
<1>6. TypeOK'
  BY <1>1, <1>5 DEF TypeOK
<1>7. ClaimsOK'
  BY <1>1, <1>3 DEF ClaimsOK, Owing, TypeOK
<1>8. TakesOK'
  BY <1>1 DEF TakesOK, TypeOK
<1>9. CASE tokens' = Capped(tokens + NewTokens(c)) /\ pc' = [pc EXCEPT ![c] = "check"]
  <2>1. pc'[c] = "check"
    BY <1>9 DEF TypeOK
  <2>2. Unpaid' = Unpaid \ Interval(c)
    <3>1. \A d \in Callers : Owing(d)' <=> (Owing(d) /\ d # c)
      BY <1>3, <2>1 DEF Owing
    <3>2. \A d \in Callers : Interval(d)' = Interval(d)
      BY <1>1 DEF Interval
    <3>3. ASSUME NEW d \in Callers, d # c, Owing(d), NEW t \in Interval(d)
          PROVE  t \notin Interval(c)
      BY <1>2, <1>3, <3>3 DEF ClaimsOK, Interval
    <3> QED
      BY <3>1, <3>2, <3>3 DEF Unpaid
  <2>3. Cardinality(Unpaid') = Cardinality(Unpaid) - (now[c] - last[c])
    <3>1. IsFiniteSet(Unpaid)
      BY UnpaidIsFinite
    <3>2. Interval(c) \subseteq Unpaid /\ Cardinality(Interval(c)) = now[c] - last[c]
      BY <1>2, IntervalFacts DEF Unpaid
    <3>3. Unpaid \cap Interval(c) = Interval(c)
      BY <3>2
    <3> QED
      BY <2>2, <3>1, <3>2, <3>3, FS_Difference
  <2>4. BudgetOK'
    <3> DEFINE e == now[c] - last[c]
               u == Cardinality(Unpaid)
               n == NewTokens(c)
    <3>1. u \in Int /\ e \in Int /\ lastRefill \in Int /\ admitted + tokens \in Int /\ n \in Int
      BY <1>3, <1>4, UnpaidIsFinite DEF TypeOK
    <3>2. Cardinality(Unpaid') = u - e /\ lastRefill' = lastRefill /\ Second * n <= Rate * e
      BY <1>1, <1>4, <2>3
    <3>3. admitted' + tokens' \in Int /\ admitted' + tokens' <= (admitted + tokens) + n
      BY <1>1, <1>4, <1>5
    <3>4. Second * (admitted + tokens) + Rate * u <= Second * Burst + Rate * lastRefill
      BY DEF BudgetOK
    <3> HIDE DEF e, u, n
    <3>5. Rate * (u - e) = Rate * u - Rate * e
          /\ Second * ((admitted + tokens) + n) = Second * (admitted + tokens) + Second * n
      BY <3>1, ProductFacts
    <3>6. Second * (admitted' + tokens') <= Second * ((admitted + tokens) + n)
      BY <3>1, <3>3, ProductFacts
    <3>7. /\ Rate * u \in Int /\ Rate * e \in Int /\ Rate * lastRefill \in Int
          /\ Second * n \in Int /\ Second * (admitted + tokens) \in Int /\ Second * Burst \in Int
          /\ Second * (admitted' + tokens') \in Int
      BY <3>1, <3>3, ProductFacts
    <3>8. Second * (admitted' + tokens') + Rate * (u - e) <= Second * Burst + Rate * lastRefill
      BY <3>2, <3>4, <3>5, <3>6, <3>7
    <3> QED
      BY <3>2, <3>8 DEF BudgetOK
  <2> QED
    BY <1>6, <1>7, <1>8, <2>4
<1>10. CASE tokens' = tokens /\ pc' = [pc EXCEPT ![c] = "load"]
  <2>1. \A d \in Callers : Owing(d)' <=> Owing(d)
    BY <1>2, <1>3, <1>10 DEF Owing, TypeOK
  <2>2. Unpaid' = Unpaid
    <3>1. \A d \in Callers : Interval(d)' = Interval(d)
      BY <1>1 DEF Interval
    <3> QED
      BY <2>1, <3>1 DEF Unpaid
  <2> QED
    BY <1>1, <1>6, <1>7, <1>8, <1>10, <2>2, SameBudget
<1> QED
  BY <1>1, <1>9, <1>10

LEMMA StepInv == SamplerInv /\ [Next]_vars => SamplerInv'
<1> SUFFICES ASSUME SamplerInv, [Next]_vars PROVE SamplerInv'
  OBVIOUS
<1>1. CASE Advance \/ UNCHANGED vars
  <2> USE <1>1 DEF SamplerInv, vars, locals
  <2>1. UNCHANGED <<tokens, lastRefill, pc, now, last, current, calls, admitted>>
    BY DEF Advance
  <2>2. TypeOK' /\ TakesOK'
    BY <2>1 DEF TypeOK, TakesOK, Advance
  <2>3. ClaimsOK' /\ BudgetOK'
    BY <2>1 DEF ClaimsOK, BudgetOK, Unpaid, Owing, Interval
  <2> QED
    BY <2>2, <2>3
<1>2. ASSUME NEW c \in Callers, ReadClock(c) \/ AllowStep(c) PROVE SamplerInv'
  BY <1>2, QuietInv, ClaimInv, CreditInv DEF AllowStep
<1> QED
  BY <1>1, <1>2 DEF Next

(* Every behaviour of the sampler keeps the invariant.                     *)
THEOREM SamplerInvariant == Spec => []SamplerInv
<1> QED
  BY InitInv, StepInv, PTL DEF Spec

(* The bucket never holds a debt, nor more than the burst.                 *)
THEOREM TypeCorrect == Spec => []TypeOK
<1>1. SamplerInv => TypeOK
  BY DEF SamplerInv
<1> QED
  BY <1>1, SamplerInvariant, PTL

(* allow: what got through is within the burst and the rate, for any       *)
(* interleaving of the loads and compare-and-swaps of any number of        *)
(* callers.                                                                *)
THEOREM RateIsKept == Spec => []WithinRate
<1>1. SamplerInv => WithinRate
  <2> SUFFICES ASSUME SamplerInv PROVE WithinRate
    OBVIOUS
  <2>1. Rate * Cardinality(Unpaid) \in Nat
    BY UnpaidIsFinite, SamplerAssumption DEF SamplerInv
  <2>2. Second * (admitted + tokens) \in Int /\ Second * Burst \in Int /\ Rate * lastRefill \in Int
    BY SamplerAssumption DEF SamplerInv, TypeOK
  <2>3. Second * (admitted + tokens) + Rate * Cardinality(Unpaid)
          <= Second * Burst + Rate * lastRefill
    BY DEF SamplerInv, BudgetOK
  <2> QED
    BY <2>1, <2>2, <2>3 DEF WithinRate
<1> QED
  BY <1>1, SamplerInvariant, PTL
-----------------------------------------------------------------------------
(***************************************************************************)
(* Denied calls.  Once a caller has looked at lastRefill, either no token  *)
(* was due then or somebody moved lastRefill on, and it stays so, as       *)
(* lastRefill never goes back.  A product that wraps would hide a token    *)
(* that is due: the clock must not run as far as that.                     *)
(***************************************************************************)
NoWrap == 2 * (MaxTime * Rate) < Word

DueOK ==
  \A c \in Callers : pc[c] \in {"load", "credit", "check", "take"} =>
                       Accrued(c) < Second \/ last[c] < lastRefill

LEMMA InitDue == Init => DueOK
BY DEF Init, DueOK

LEMMA StepDue ==
  ASSUME NoWrap, SamplerInv, DueOK, [Next]_vars
  PROVE  DueOK'
<1> USE SamplerAssumption DEF SamplerInv
<1> SUFFICES ASSUME NEW c \in Callers, pc'[c] \in {"load", "credit", "check", "take"}
             PROVE  Accrued(c)' < Second \/ last'[c] < lastRefill'
  BY DEF DueOK
<1>1. /\ now[c] \in 0..MaxTime /\ last[c] \in 0..MaxTime /\ lastRefill \in 0..MaxTime
      /\ last[c] <= lastRefill
  BY DEF TypeOK, ClaimsOK
<1>2. CASE Advance \/ UNCHANGED vars
  <2>1. UNCHANGED <<lastRefill, pc, now, last>>
    BY <1>2 DEF Advance, vars, locals
  <2> QED
    BY <2>1 DEF DueOK, Accrued
<1>3. ASSUME NEW d \in Callers, ReadClock(d) \/ AllowStep(d), d # c
      PROVE  Accrued(c)' < Second \/ last'[c] < lastRefill'
  <2>1. pc'[c] = pc[c] /\ now'[c] = now[c] /\ last'[c] = last[c]
    BY <1>3 DEF ReadClock, AllowStep, LoadLastRefill, ClaimInterval, LoadTokens, Credit,
       CheckTokens, Take, Goto, locals, TypeOK
  <2>2. lastRefill' = lastRefill \/ (lastRefill' \in Int /\ lastRefill' > lastRefill)
    <3>1. CASE ClaimInterval(d)
      <4>1. pc[d] = "claim" /\ (lastRefill' = lastRefill \/ (lastRefill = last[d] /\ lastRefill' = now[d]))
        BY <3>1 DEF ClaimInterval
      <4>2. last[d] < now[d] /\ now[d] \in Int
        BY <4>1 DEF ClaimsOK, TypeOK
      <4> QED
        BY <4>1, <4>2
    <3>2. CASE ReadClock(d) \/ LoadLastRefill(d) \/ LoadTokens(d) \/ Credit(d) \/ CheckTokens(d) \/ Take(d)
      <4>1. lastRefill' = lastRefill
        BY <3>2 DEF ReadClock, LoadLastRefill, LoadTokens, Credit, CheckTokens, Take
      <4> QED
        BY <4>1
    <3> QED
      BY <1>3, <3>1, <3>2 DEF AllowStep
  <2> QED
    BY <1>1, <2>1, <2>2 DEF DueOK, Accrued
<1>4. CASE LoadLastRefill(c)
  <2> DEFINE e == now[c] - lastRefill
  <2>1. /\ e \in Int /\ e <= MaxTime /\ pc'[c] = "check" /\ Earned(e) = 0
        /\ Accrued(c)' = e * Rate
    BY <1>1, <1>4 DEF LoadLastRefill, Goto, Accrued, TypeOK
  <2> HIDE DEF e
  <2>2. Rate * e <= Rate * MaxTime /\ Rate * e \in Int /\ Rate * MaxTime \in Int
        /\ e * Rate = Rate * e /\ MaxTime * Rate = Rate * MaxTime
    BY <2>1, ProductFacts
  <2>3. 2 * (e * Rate) < Word
    BY <2>2 DEF NoWrap
  <2>4. e * Rate < Second
    BY <2>1, <2>3, EarnedFacts
  <2> QED
    BY <2>1, <2>4
<1>5. CASE ClaimInterval(c)
  BY <1>1, <1>5 DEF ClaimInterval, Goto, locals, ClaimsOK, TypeOK
<1>6. CASE LoadTokens(c) \/ Credit(c) \/ CheckTokens(c) \/ Take(c) \/ ReadClock(c)
  <2>1. CASE ReadClock(c)
    BY <2>1 DEF ReadClock, Goto, TypeOK
  <2>2. CASE ~ReadClock(c)
    <3>1. pc[c] \in {"load", "credit", "check", "take"}
          /\ UNCHANGED <<now, last, lastRefill>>
      BY <1>6, <2>2 DEF LoadTokens, Credit, CheckTokens, Take, locals
    <3> QED
      BY <3>1 DEF DueOK, Accrued
  <2> QED
    BY <2>1, <2>2
<1> QED
  BY <1>2, <1>3, <1>4, <1>5, <1>6 DEF Next, AllowStep

(* allow: while products do not wrap, no call is denied with a token due   *)
(* that nobody has claimed.                                                *)
THEOREM NoTokenIsMissed == NoWrap => (Spec => DueIsClaimed)
<1> SUFFICES ASSUME NoWrap PROVE Spec => DueIsClaimed
  OBVIOUS
<1>1. SamplerInv /\ DueOK /\ [Next]_vars => DueOK'
  BY StepDue
<1>2. SamplerInv /\ DueOK =>
        [\A c \in Callers : Denied(c) => Accrued(c) < Second \/ lastRefill # last[c]]_vars
  BY DEF DueOK, Denied, SamplerInv, TypeOK
<1>3. Spec => [](SamplerInv /\ DueOK)
  BY <1>1, InitInv, InitDue, StepInv, PTL DEF Spec
<1> QED
  BY <1>2, <1>3, PTL DEF DueIsClaimed
=============================================================================
