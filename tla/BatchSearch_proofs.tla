------------------------- MODULE BatchSearch_proofs -------------------------
(***************************************************************************)
(* Proofs about BatchSearch: for every grid, ceiling, memory budget and    *)
(* outcome of the trials, the bounds are measured, a usable result was     *)
(* confirmed, and every trial of the discovery narrows what is left.       *)
(***************************************************************************)
EXTENDS BatchSearch, TLAPS

USE SearchAssumption

Grid == Aligned(lower) /\ Aligned(upper) /\ Aligned(next)

Running ==
  /\ status = "searching" => next # 0 /\ batch = 0
  /\ status # "searching" => next = 0

Distinct == \A i, j \in DOMAIN trials : i # j => trials[i].id # trials[j].id

\* Everything measured lies outside of what is left.
Discovery ==
  status = "searching" /\ ~confirming =>
    /\ ~numerical
    /\ lower < next
    /\ upper # 0 => next < upper
    /\ lower = 0 => next = Step /\ upper = 0
    /\ \A i \in DOMAIN trials :
         trials[i].batch <= lower \/ (upper # 0 /\ trials[i].batch >= upper)

\* What a confirmation knows before its trial.
Confirmation ==
  status = "searching" /\ confirming =>
    /\ next = lower
    /\ numerical => \E i \in DOMAIN trials :
                      trials[i].status = "nonfinite" /\ trials[i].batch > lower
    /\ ~numerical => lower = Ceiling \/ (upper # 0 /\ upper - lower = Step)

\* No batch at or below the lower bound has exceeded the memory.
Clear ==
  status = "searching" =>
    /\ upper # 0 => lower < upper
    /\ \A i \in DOMAIN trials : Exceeded(i) => upper # 0 /\ trials[i].batch >= upper

SearchInv ==
  /\ Grid /\ Running /\ Discovery /\ Confirmation /\ Clear
  /\ BoundsMeasured /\ WinnerConfirmed

IInv == TypeOK /\ SearchInv /\ Distinct /\ CaseHonest

\* The part of TypeOK a trial changes by its measurement.
SearchTypes ==
  /\ lower \in 0..Ceiling /\ upper \in 0..Ceiling /\ next \in 0..Ceiling
  /\ batch \in 0..Ceiling
  /\ confirming \in BOOLEAN /\ numerical \in BOOLEAN
  /\ status \in {"searching", "failed", "no_capacity"} \union Usable

-----------------------------------------------------------------------------
(* The grid *)

\* Division by the step has a remainder below it.
LEMMA Division ==
  ASSUME NEW n \in Int
  PROVE  /\ n \div Step \in Int
         /\ n = Step * (n \div Step) + (n % Step)
         /\ n % Step \in 0..(Step - 1)
  OBVIOUS

\* The remainder is unique.
LEMMA Remainder ==
  ASSUME NEW k \in Int, NEW r \in 0..(Step - 1)
  PROVE  (k * Step + r) % Step = r
  OBVIOUS

\* Multiples of the step are on the grid.
LEMMA Multiple ==
  ASSUME NEW k \in Int
  PROVE  k * Step \in Int /\ Aligned(k * Step)
<1>1. 0 \in 0..(Step - 1)
  OBVIOUS
<1>2. (k * Step + 0) % Step = 0
  BY <1>1, Remainder
<1>3. k * Step \in Int
  OBVIOUS
<1> QED
  BY <1>2, <1>3 DEF Aligned

\* What is on the grid is a multiple of the step.
LEMMA Factor ==
  ASSUME NEW b \in Int, Aligned(b)
  PROVE  b \div Step \in Int /\ b = (b \div Step) * Step
<1>1. b = Step * (b \div Step) + (b % Step) /\ b \div Step \in Int
  BY Division
<1>2. b % Step = 0
  BY DEF Aligned
<1>3. Step * (b \div Step) = (b \div Step) * Step /\ (b \div Step) * Step \in Int
  BY <1>1
<1> QED
  BY <1>1, <1>2, <1>3

\* Different multiples are at least a step apart.
LEMMA Apart ==
  ASSUME NEW j \in Int, NEW k \in Int, j * Step < k * Step
  PROVE  j * Step + Step <= k * Step
<1>1. j < k
  OBVIOUS
<1> QED
  BY <1>1

\* Different points of the grid are at least a step apart.
LEMMA Gap ==
  ASSUME NEW a \in Int, NEW b \in Int, Aligned(a), Aligned(b), a < b
  PROVE  a + Step <= b
<1> DEFINE j == a \div Step
           k == b \div Step
<1>1. j \in Int /\ a = j * Step
  BY Factor
<1>2. k \in Int /\ b = k * Step
  BY Factor
<1> HIDE DEF j, k
<1> QED
  BY <1>1, <1>2, Apart

\* The next point of the grid.
LEMMA Above ==
  ASSUME NEW a \in Int, Aligned(a)
  PROVE  Aligned(a + Step)
<1> DEFINE j == a \div Step
<1>1. j \in Int /\ a = j * Step
  BY Factor
<1> HIDE DEF j
<1>2. (j + 1) * Step = j * Step + Step /\ j + 1 \in Int
  BY <1>1
<1>3. Aligned((j + 1) * Step)
  BY <1>2, Multiple
<1> QED
  BY <1>1, <1>2, <1>3

\* Rounding down stays on the grid and within a step.
LEMMA Rounding ==
  ASSUME NEW n \in Int
  PROVE  LET r == (n \div Step) * Step IN
         r \in Int /\ Aligned(r) /\ r <= n /\ n < r + Step
<1> DEFINE q == n \div Step
<1>1. q \in Int /\ n = Step * q + (n % Step) /\ n % Step \in 0..(Step - 1)
  BY Division
<1> HIDE DEF q
<1>2. Step * q = q * Step /\ q * Step \in Int /\ Aligned(q * Step)
  BY <1>1, Multiple
<1>3. q * Step <= n /\ n < q * Step + Step
  BY <1>1, <1>2
<1> QED
  BY <1>2, <1>3 DEF q

\* The ceiling is on the grid, and above zero.
LEMMA CeilingFacts == Ceiling \in Nat /\ Aligned(Ceiling) /\ Step <= Ceiling
<1>1. Ceiling \in Int /\ Aligned(Ceiling) /\ Ceiling <= MaxBatch /\ MaxBatch < Ceiling + Step
  BY Rounding DEF Ceiling
<1>2. 0 < Ceiling
  BY <1>1
<1>3. Aligned(0)
  <2>1. 0 % Step = 0
    OBVIOUS
  <2> QED
    BY <2>1 DEF Aligned
<1>4. 0 + Step <= Ceiling
  BY <1>1, <1>2, <1>3, Gap
<1> QED
  BY <1>1, <1>2, <1>4

-----------------------------------------------------------------------------
(* Candidates *)

\* A prediction never exceeds the ceiling, whatever the memory did.
LEMMA GrowthFacts ==
  ASSUME NEW low \in Nat, low + Step <= Ceiling,
         NEW log \in Seq(Trial), log # <<>>
  PROVE  Growth(low, log) \in Int /\ Growth(low, log) <= Ceiling
<1>0. Ceiling \in Nat
  BY CeilingFacts
<1> DEFINE doubled == Least(2 * low, Ceiling)
           now == log[Len(log)]
           before == log[Len(log) - 1]
           predicted == now.batch + ((Budget - now.peak) * (now.batch - before.batch))
                                     \div (now.peak - before.peak)
<1>1. doubled \in Int /\ doubled <= Ceiling
  BY <1>0 DEF Least
<1>2. CASE ~Guided \/ Len(log) <= 1
  BY <1>1, <1>2 DEF Growth
<1>3. CASE Guided /\ ~(Len(log) <= 1)
  <2>1. Len(log) \in Nat /\ Len(log) \in 1..Len(log) /\ Len(log) - 1 \in 1..Len(log)
    BY <1>3
  <2>2. now \in Trial /\ before \in Trial
    BY <2>1
  <2>3. now.peak \in Nat /\ before.peak \in Nat /\ now.batch \in Nat /\ before.batch \in Nat
    BY <2>2 DEF Trial
  <2>4. CASE now.peak <= before.peak
    <3>1. Growth(low, log) = doubled
      BY <1>3, <2>4 DEF Growth
    <3> QED
      BY <3>1, <1>1
  <2>5. CASE ~(now.peak <= before.peak)
    <3> HIDE DEF now, before
    <3>1. now.peak - before.peak \in Nat \ {0}
      BY <2>3, <2>5
    <3>2. (Budget - now.peak) * (now.batch - before.batch) \in Int
      BY <2>3
    <3>3. ((Budget - now.peak) * (now.batch - before.batch)) \div (now.peak - before.peak) \in Int
      BY <3>1, <3>2
    <3>4. predicted \in Int
      BY <2>3, <3>3
    <3> HIDE DEF predicted
    <3>5. /\ Greatest(low + Step, Least(predicted, Least(4 * low, Ceiling))) \in Int
          /\ Greatest(low + Step, Least(predicted, Least(4 * low, Ceiling))) <= Ceiling
      BY <3>4, <1>0 DEF Greatest, Least
    <3> USE DEF predicted, now, before
    <3>6. Growth(low, log) = Greatest(low + Step, Least(predicted, Least(4 * low, Ceiling)))
      BY <1>3, <2>5 DEF Growth
    <3> QED
      BY <3>5, <3>6
  <2> QED
    BY <2>4, <2>5
<1> QED
  BY <1>2, <1>3

(***************************************************************************)
(* A candidate is on the grid, above what passed, below what did not.      *)
(***************************************************************************)
LEMMA CandidateFacts ==
  ASSUME NEW low \in Nat, Aligned(low), low < Ceiling,
         NEW up \in Nat, Aligned(up), up <= Ceiling,
         up # 0 => low < up /\ up - low # Step,
         NEW log \in Seq(Trial), log # <<>>
  PROVE  LET c == Candidate(low, up, log) IN
         c \in Nat /\ Aligned(c) /\ low < c /\ c <= Ceiling /\ (up # 0 => c < up)
<1> DEFINE raw == IF up = 0 THEN Growth(low, log) ELSE (low + up) \div 2
           down == (raw \div Step) * Step
<1>0. Ceiling \in Nat /\ Aligned(Ceiling)
  BY CeilingFacts
<1>1. low + Step <= Ceiling
  BY <1>0, Gap
<1>2. raw \in Int /\ raw <= Ceiling /\ (up # 0 => raw < up)
  BY <1>0, <1>1, GrowthFacts
<1>3. up # 0 => low + Step < up
  <2>1. up # 0 => low + Step <= up
    BY Gap
  <2> QED
    BY <2>1
<1>4. Aligned(low + Step)
  BY Above
<1> HIDE DEF raw
<1>5. down \in Int /\ Aligned(down) /\ down <= raw
  BY <1>2, Rounding
<1> HIDE DEF down
<1>6. LET c == Greatest(low + Step, down) IN
      c \in Nat /\ Aligned(c) /\ low < c /\ c <= Ceiling /\ (up # 0 => c < up)
  BY <1>0, <1>1, <1>2, <1>3, <1>4, <1>5 DEF Greatest
<1>7. Candidate(low, up, log) = Greatest(low + Step, down)
  BY DEF Candidate, raw, down
<1> QED
  BY <1>6, <1>7

\* _advance either confirms a bound nothing is left above, or goes on between the bounds.
LEMMA AdvanceFacts ==
  ASSUME TypeOK,
         NEW low \in Nat, Aligned(low), low <= Ceiling,
         NEW up \in Nat, Aligned(up), up <= Ceiling, up # 0 => low < up,
         NEW log \in Seq(Trial), log # <<>>,
         Advance(low, up, log)
  PROVE  /\ lower' = low /\ upper' = up
         /\ UNCHANGED <<numerical, status, batch>>
         /\ \/ /\ confirming' = TRUE /\ next' = low
               /\ low = Ceiling \/ (up # 0 /\ up - low = Step)
            \/ /\ confirming' = confirming
               /\ next' \in Nat /\ Aligned(next') /\ low < next' /\ next' <= Ceiling
               /\ up # 0 => next' < up
<1>0. Ceiling \in Nat
  BY CeilingFacts
<1>1. lower' = low /\ upper' = up /\ UNCHANGED numerical
  BY DEF Advance
<1>2. CASE low = Ceiling \/ (up # 0 /\ up - low = Step)
  BY <1>1, <1>2 DEF Advance, Confirm
<1>3. CASE ~(low = Ceiling \/ (up # 0 /\ up - low = Step))
  <2>1. next' = Candidate(low, up, log) /\ UNCHANGED <<confirming, status, batch>>
    BY <1>3 DEF Advance
  <2>2. low < Ceiling
    BY <1>0, <1>3
  <2> QED
    BY <1>1, <1>3, <2>1, <2>2, CandidateFacts
<1> QED
  BY <1>2, <1>3

-----------------------------------------------------------------------------
(* Trials *)

\* A new trial joins the log; the earlier ones stay what they were.
LEMMA LogFacts ==
  ASSUME TypeOK, NEW t \in Trial, trials' = Append(trials, t)
  PROVE  /\ trials' \in Seq(Trial) /\ trials' # <<>>
         /\ DOMAIN trials' = 1..(Len(trials) + 1)
         /\ DOMAIN trials = 1..Len(trials) /\ Len(trials) \in Nat
         /\ \A i \in DOMAIN trials : i \in DOMAIN trials' /\ trials'[i] = trials[i]
         /\ Len(trials) + 1 \in DOMAIN trials' /\ trials'[Len(trials) + 1] = t
         /\ \A i \in DOMAIN trials' : i \in DOMAIN trials \/ i = Len(trials) + 1
         /\ \A i \in DOMAIN trials : trials[i] \in Trial
<1>1. trials \in Seq(Trial)
  BY DEF TypeOK
<1> QED
  BY <1>1

\* What a trial may be taken for.
LEMMA ObservedFacts ==
  ASSUME NEW t \in Trial
  PROVE  /\ Observed(t) \in {"success", "oom", "memory_limit", "nonfinite", "error"}
         /\ Observed(t) = "nonfinite" => t.status = "nonfinite"
         /\ t.batch \in Nat
  BY DEF Observed, Trial, Failures

\* The strengthening holds before the first trial.
LEMMA InitInv == Init => IInv
<1> SUFFICES ASSUME Init PROVE IInv
  OBVIOUS
<1>1. Ceiling \in Nat /\ Step <= Ceiling
  BY CeilingFacts
<1>2. Aligned(0)
  <2>1. 0 % Step = 0
    OBVIOUS
  <2> QED
    BY <2>1 DEF Aligned
<1>3. Aligned(Step)
  <2>1. Aligned(0 + Step)
    BY <1>2, Above
  <2> QED
    BY <2>1
<1>4. trials \in Seq(Trial) /\ DOMAIN trials = {}
  BY DEF Init
<1>5. TypeOK
  <2>1. case.status \in {"failed"} \union Usable /\ case.batch \in 0..Ceiling
    BY <1>1 DEF Init, Pending, Usable
  <2>2. lower \in 0..Ceiling /\ upper \in 0..Ceiling /\ next \in 0..Ceiling
        /\ batch \in 0..Ceiling
    BY <1>1 DEF Init
  <2> QED
    BY <1>4, <2>1, <2>2 DEF Init, TypeOK
<1>6. Grid
  BY <1>2, <1>3 DEF Init, Grid
<1>7. Running /\ Distinct /\ Discovery /\ Confirmation /\ Clear
  BY <1>4 DEF Init, Running, Distinct, Discovery, Confirmation, Clear
<1>8. BoundsMeasured /\ WinnerConfirmed /\ CaseHonest
  BY <1>4 DEF Init, BoundsMeasured, WinnerConfirmed, CaseHonest, Usable
<1> QED
  BY <1>5, <1>6, <1>7, <1>8 DEF IInv, SearchInv

\* A trial of the pending candidate that ends the search without a result.
LEMMA FailFacts ==
  ASSUME IInv, NEW t \in Trial, t.batch = next, status = "searching",
         trials' = Append(trials, t),
         NEW s \in {"failed", "no_capacity"},
         Finish(s, 0), UNCHANGED <<lower, upper>>,
         Observed(t) # "success", Distinct'
  PROVE  SearchInv'
<1>1. TypeOK /\ Grid /\ BoundsMeasured
  BY DEF IInv, SearchInv
<1>2. status' = s /\ next' = 0 /\ batch' = 0 /\ lower' = lower /\ upper' = upper
  BY DEF Finish
<1>3. Aligned(0)
  <2>1. 0 % Step = 0
    OBVIOUS
  <2> QED
    BY <2>1 DEF Aligned
<1>4. Grid' /\ Running' /\ Discovery' /\ Confirmation' /\ Clear' /\ WinnerConfirmed'
  BY <1>1, <1>2, <1>3
     DEF Grid, Running, Discovery, Confirmation, Clear, WinnerConfirmed, Usable
<1>5. BoundsMeasured'
  BY <1>1, <1>2, LogFacts DEF BoundsMeasured, Passed, Exceeded
<1> QED
  BY <1>4, <1>5 DEF SearchInv

\* A confirmed winner.
LEMMA WinFacts ==
  ASSUME IInv, NEW t \in Trial, t.batch = next, status = "searching", confirming,
         trials' = Append(trials, t),
         NEW s \in Usable,
         Finish(s, lower), UNCHANGED <<lower, upper>>,
         s = "validated" => ~numerical /\ lower # Ceiling,
         s = "ceiling_limited" => lower = Ceiling,
         s = "numerically_limited" => numerical,
         Observed(t) = "success", Distinct'
  PROVE  SearchInv'
<1>1. TypeOK /\ Grid /\ Running /\ BoundsMeasured /\ Confirmation /\ Clear
  BY DEF IInv, SearchInv
<1>2. status' = s /\ next' = 0 /\ batch' = lower /\ lower' = lower /\ upper' = upper
  BY DEF Finish
<1>3. Aligned(0)
  <2>1. 0 % Step = 0
    OBVIOUS
  <2> QED
    BY <2>1 DEF Aligned
<1>4. s # "searching"
  BY DEF Usable
<1>5. Grid' /\ Running' /\ Discovery' /\ Confirmation' /\ Clear'
  BY <1>1, <1>2, <1>3, <1>4 DEF Grid, Running, Discovery, Confirmation, Clear
<1>6. t.batch = lower /\ lower # 0 /\ lower \in Nat /\ upper \in Nat
  BY <1>1, CeilingFacts DEF Confirmation, Running, TypeOK
<1>7. PICK i \in DOMAIN trials : Passed(i) /\ trials[i].batch = lower
  BY <1>1, <1>6 DEF BoundsMeasured
<1> DEFINE n == Len(trials) + 1
<1>8. /\ n \in DOMAIN trials' /\ trials'[n] = t /\ i \in DOMAIN trials'
      /\ trials'[i] = trials[i] /\ i # n
  BY <1>1, LogFacts
<1>9. BoundsMeasured'
  BY <1>1, <1>2, <1>6, LogFacts DEF BoundsMeasured, Passed, Exceeded
<1>10. \E a, b \in DOMAIN trials' :
         /\ trials'[a].id # trials'[b].id
         /\ \A k \in {a, b} : Observed(trials'[k]) = "success" /\ trials'[k].batch = lower
  <2>1. trials'[i].id # trials'[n].id
    BY <1>8 DEF Distinct
  <2>2. \A k \in {i, n} : Observed(trials'[k]) = "success" /\ trials'[k].batch = lower
    BY <1>6, <1>7, <1>8 DEF Passed
  <2> QED
    BY <1>8, <2>1, <2>2
<1>11. \A k \in DOMAIN trials' : Observed(trials'[k]) \in Capacity => trials'[k].batch > lower
  <2> SUFFICES ASSUME NEW k \in DOMAIN trials', Observed(trials'[k]) \in Capacity
               PROVE  trials'[k].batch > lower
    OBVIOUS
  <2>1. k # n
    BY <1>8 DEF Capacity
  <2>2. k \in DOMAIN trials /\ trials'[k] = trials[k] /\ trials[k].batch \in Nat
    BY <1>1, <2>1, LogFacts DEF Trial
  <2>3. upper # 0 /\ trials[k].batch >= upper /\ lower < upper
    BY <1>1, <2>2 DEF Clear, Exceeded
  <2> QED
    BY <1>6, <2>2, <2>3
<1>12. s = "validated" =>
         \E k \in DOMAIN trials' : Observed(trials'[k]) \in Capacity /\ trials'[k].batch = lower + Step
  <2> SUFFICES ASSUME s = "validated"
               PROVE  \E k \in DOMAIN trials' :
                        Observed(trials'[k]) \in Capacity /\ trials'[k].batch = lower + Step
    OBVIOUS
  <2>1. upper # 0 /\ upper = lower + Step
    BY <1>1, <1>6 DEF Confirmation
  <2>2. PICK k \in DOMAIN trials : Exceeded(k) /\ trials[k].batch = upper
    BY <1>1, <2>1 DEF BoundsMeasured
  <2> QED
    BY <2>1, <2>2, LogFacts DEF Exceeded
<1>13. s = "numerically_limited" =>
         \E k \in DOMAIN trials' : trials'[k].status = "nonfinite" /\ trials'[k].batch > lower
  BY <1>1, LogFacts DEF Confirmation
<1>14. WinnerConfirmed'
  BY <1>2, <1>10, <1>11, <1>12, <1>13 DEF WinnerConfirmed, Passed, Exceeded
<1> QED
  BY <1>5, <1>9, <1>14 DEF SearchInv

\* Discovery goes on, or turns to the confirmation of its winner.
LEMMA AdvanceKeeps ==
  ASSUME IInv, NEW t \in Trial, t.batch = next, status = "searching", ~confirming,
         trials' = Append(trials, t), Distinct',
         \/ Observed(t) = "success" /\ Advance(next, upper, trials')
         \/ Observed(t) \in Capacity /\ next # Step /\ Advance(lower, next, trials')
  PROVE  SearchTypes' /\ SearchInv'
<1>1. TypeOK /\ Grid /\ Running /\ Discovery /\ Clear /\ BoundsMeasured
  BY DEF IInv, SearchInv
<1>2. Ceiling \in Nat /\ lower \in Nat /\ upper \in Nat /\ next \in Nat
      /\ lower <= Ceiling /\ upper <= Ceiling /\ next <= Ceiling
      /\ Aligned(lower) /\ Aligned(upper) /\ Aligned(next)
  BY <1>1, CeilingFacts DEF TypeOK, Grid
<1>3. /\ ~numerical /\ next # 0 /\ batch = 0 /\ lower < next /\ (upper # 0 => next < upper)
      /\ lower = 0 => next = Step
      /\ \A i \in DOMAIN trials :
           trials[i].batch <= lower \/ (upper # 0 /\ trials[i].batch >= upper)
  BY <1>1 DEF Discovery, Running
<1>4. /\ trials' \in Seq(Trial) /\ trials' # <<>>
      /\ \A i \in DOMAIN trials : /\ i \in DOMAIN trials' /\ trials'[i] = trials[i]
                                  /\ trials[i] \in Trial /\ trials[i].batch \in Nat
      /\ Len(trials) + 1 \in DOMAIN trials' /\ trials'[Len(trials) + 1] = t
      /\ \A i \in DOMAIN trials' : i \in DOMAIN trials \/ i = Len(trials) + 1
  BY <1>1, LogFacts DEF Trial
<1>5. PICK low \in Nat, up \in Nat :
        /\ Advance(low, up, trials')
        /\ \/ low = next /\ up = upper /\ Observed(t) = "success"
           \/ low = lower /\ up = next /\ Observed(t) \in Capacity /\ next # Step
  BY <1>2
<1>6. /\ Aligned(low) /\ low <= Ceiling /\ low # 0
      /\ Aligned(up) /\ up <= Ceiling /\ (up # 0 => low < up)
  BY <1>2, <1>3, <1>5
<1>7. /\ lower' = low /\ upper' = up /\ UNCHANGED <<numerical, status, batch>>
      /\ \/ /\ confirming' = TRUE /\ next' = low
            /\ low = Ceiling \/ (up # 0 /\ up - low = Step)
         \/ /\ confirming' = confirming
            /\ next' \in Nat /\ Aligned(next') /\ low < next' /\ next' <= Ceiling
            /\ up # 0 => next' < up
  BY <1>1, <1>4, <1>5, <1>6, AdvanceFacts
<1>8. Grid' /\ Running' /\ WinnerConfirmed'
  BY <1>3, <1>6, <1>7 DEF Grid, Running, WinnerConfirmed, Usable
<1>9. /\ lower' \in 0..Ceiling /\ upper' \in 0..Ceiling /\ next' \in 0..Ceiling
      /\ batch' \in 0..Ceiling /\ confirming' \in BOOLEAN /\ numerical' \in BOOLEAN
      /\ status' = "searching"
  <2>1. next' \in Nat /\ next' <= Ceiling
    BY <1>6, <1>7
  <2>2. /\ lower' \in 0..Ceiling /\ upper' \in 0..Ceiling /\ next' \in 0..Ceiling
        /\ batch' \in 0..Ceiling
    BY <1>2, <1>3, <1>6, <1>7, <2>1
  <2>3. confirming \in BOOLEAN /\ numerical \in BOOLEAN
    BY <1>1 DEF TypeOK
  <2>4. confirming' \in BOOLEAN /\ numerical' \in BOOLEAN
    BY <1>7, <2>3, Zenon
  <2> QED
    BY <1>7, <2>2, <2>4
<1>10. SearchTypes'
  BY <1>9 DEF SearchTypes
<1>11. \A i \in DOMAIN trials' :
         trials'[i].batch <= low \/ (up # 0 /\ trials'[i].batch >= up)
  BY <1>2, <1>3, <1>4, <1>5, <1>6
<1>12. Discovery' /\ Confirmation'
  BY <1>3, <1>6, <1>7, <1>11 DEF Discovery, Confirmation
<1>13. \A i \in DOMAIN trials' : Observed(trials'[i]) = "success" => trials'[i].batch <= low
  BY <1>1, <1>2, <1>3, <1>4, <1>5 DEF BoundsMeasured, Passed, Capacity
<1>14. \A i \in DOMAIN trials' :
         Observed(trials'[i]) \in Capacity => up # 0 /\ trials'[i].batch >= up
  BY <1>1, <1>2, <1>3, <1>4, <1>5 DEF Clear, Exceeded, Capacity
<1>15. Clear'
  BY <1>6, <1>7, <1>14 DEF Clear, Exceeded
<1>16. \E i \in DOMAIN trials' : Observed(trials'[i]) = "success" /\ trials'[i].batch = low
  BY <1>1, <1>4, <1>5, <1>6 DEF BoundsMeasured, Passed
<1>17. up # 0 =>
         \E i \in DOMAIN trials' : Observed(trials'[i]) \in Capacity /\ trials'[i].batch = up
  BY <1>1, <1>4, <1>5 DEF BoundsMeasured, Exceeded
<1>18. BoundsMeasured'
  BY <1>7, <1>13, <1>16, <1>17 DEF BoundsMeasured, Passed, Exceeded
<1> QED
  BY <1>8, <1>10, <1>12, <1>15, <1>18 DEF SearchInv

\* A numerical failure turns to the confirmation of the batch below it.
LEMMA StepBackKeeps ==
  ASSUME IInv, NEW t \in Trial, t.batch = next, status = "searching", ~confirming,
         trials' = Append(trials, t), Distinct',
         Observed(t) = "nonfinite", lower > 0, StepBack
  PROVE  SearchTypes' /\ SearchInv'
<1>1. TypeOK /\ Grid /\ Running /\ Discovery /\ Clear /\ BoundsMeasured
  BY DEF IInv, SearchInv
<1>2. /\ lower' = lower /\ upper' = upper /\ next' = lower /\ confirming' = TRUE
      /\ numerical' = TRUE /\ status' = status /\ batch' = batch
  BY DEF StepBack, Confirm
<1>3. /\ \A i \in DOMAIN trials : i \in DOMAIN trials' /\ trials'[i] = trials[i]
      /\ Len(trials) + 1 \in DOMAIN trials' /\ trials'[Len(trials) + 1] = t
      /\ \A i \in DOMAIN trials' : i \in DOMAIN trials \/ i = Len(trials) + 1
  BY <1>1, LogFacts
<1>4. lower < t.batch /\ t.status = "nonfinite"
  BY <1>1, ObservedFacts DEF Discovery
<1>5. Grid' /\ Running' /\ Discovery' /\ Confirmation' /\ WinnerConfirmed'
  BY <1>1, <1>2, <1>3, <1>4
     DEF Grid, Running, Discovery, Confirmation, WinnerConfirmed, Usable, TypeOK
<1>6. Clear'
  BY <1>1, <1>2, <1>3 DEF Clear, Exceeded, Capacity
<1>7. BoundsMeasured'
  BY <1>1, <1>2, <1>3 DEF BoundsMeasured, Passed, Exceeded
<1>8. SearchTypes'
  <2>1. SearchTypes
    BY <1>1 DEF TypeOK, SearchTypes
  <2> QED
    BY <1>2, <2>1 DEF SearchTypes
<1> QED
  BY <1>5, <1>6, <1>7, <1>8 DEF SearchInv

\* The end of a search changes no type.
LEMMA FinishTypes ==
  ASSUME TypeOK, NEW s \in {"failed", "no_capacity"} \union Usable, NEW b \in 0..Ceiling,
         Finish(s, b), UNCHANGED <<lower, upper>>
  PROVE  SearchTypes'
<1>1. next' = 0 /\ batch' = b /\ status' = s /\ confirming' = confirming
      /\ numerical' = numerical /\ lower' = lower /\ upper' = upper
  BY DEF Finish
<1>2. SearchTypes /\ 0 \in 0..Ceiling
  BY CeilingFacts DEF TypeOK, SearchTypes
<1> QED
  BY <1>1, <1>2 DEF SearchTypes

(***************************************************************************)
(* A trial keeps the strengthening, whatever it measured.                  *)
(***************************************************************************)
LEMMA MeasureKeeps ==
  ASSUME IInv, NEW id \in Nat, NEW result \in Result, Measure(id, result)
  PROVE  IInv'
<1> DEFINE t == [id |-> id, batch |-> next, status |-> result.status,
                 complete |-> result.complete, peak |-> result.peak]
<1>1. /\ pc = "search" /\ next # 0 /\ Fresh(id) /\ Observe(t)
      /\ case' = Snapshot(status', batch')
      /\ pc' = IF next' = 0 THEN "returned" ELSE "search"
  BY DEF Measure
<1>2. TypeOK /\ Running /\ status = "searching"
  BY <1>1 DEF IInv, SearchInv, Running
<1>3. Ceiling \in Nat /\ next \in Nat /\ lower \in 0..Ceiling /\ 0 \in 0..Ceiling
  BY <1>2, CeilingFacts DEF TypeOK
<1>4. t \in Trial
  <2>1. /\ result.status \in Failures \union {"success"}
        /\ result.complete \in BOOLEAN /\ result.peak \in Nat
    <3>1. CASE result \in [status : Failures, complete : {FALSE}, peak : {0}]
      <4>1. result.status \in Failures /\ result.complete \in {FALSE} /\ result.peak \in {0}
        BY <3>1
      <4>2. result.complete \in BOOLEAN
        BY <4>1, Zenon
      <4>3. result.peak \in Nat
        BY <4>1
      <4> QED
        BY <4>1, <4>2, <4>3
    <3>2. CASE result \in [status : {"success"}, complete : BOOLEAN, peak : Peaks]
      BY <3>2, SearchAssumption
    <3> QED
      BY <3>1, <3>2 DEF Result
  <2> QED
    BY <1>3, <2>1 DEF Trial
<1>5. t.id = id /\ t.batch = next
  OBVIOUS
<1> HIDE DEF t
<1>6. trials' = Append(trials, t)
  BY <1>1 DEF Observe
<1>7. trials' \in Seq(Trial)
  BY <1>2, <1>4, <1>6, LogFacts
<1>8. Distinct'
  <2>1. Distinct
    BY DEF IInv
  <2>2. \A i \in DOMAIN trials : trials[i].id # id
    BY <1>1 DEF Fresh
  <2> QED
    BY <1>2, <1>4, <1>5, <1>6, <2>1, <2>2, LogFacts DEF Distinct
<1>9. Observed(t) \in {"success", "oom", "memory_limit", "nonfinite", "error"}
  BY <1>4, ObservedFacts
<1>10. ASSUME confirming PROVE SearchTypes' /\ SearchInv'
  <2>1. Confirmed(Observed(t))
    BY <1>1, <1>10 DEF Observe
  <2>2. UNCHANGED <<lower, upper>>
    BY <2>1 DEF Confirmed
  <2>3. CASE Observed(t) # "success"
    <3>1. Finish("failed", 0)
      BY <2>1, <2>3 DEF Confirmed
    <3>2. SearchTypes'
      BY <1>2, <1>3, <2>2, <3>1, FinishTypes
    <3>3. SearchInv'
      BY <1>2, <1>4, <1>5, <1>6, <1>8, <2>2, <2>3, <3>1, FailFacts
    <3> QED
      BY <3>2, <3>3
  <2>4. CASE Observed(t) = "success"
    <3>1. PICK s \in Usable :
            /\ Finish(s, lower)
            /\ s = "validated" => ~numerical /\ lower # Ceiling
            /\ s = "ceiling_limited" => lower = Ceiling
            /\ s = "numerically_limited" => numerical
      BY <2>1, <2>4 DEF Confirmed, Usable
    <3>2. SearchTypes'
      BY <1>2, <1>3, <2>2, <3>1, FinishTypes
    <3>3. SearchInv'
      BY <1>2, <1>4, <1>5, <1>6, <1>8, <1>10, <2>2, <2>4, <3>1, WinFacts
    <3> QED
      BY <3>2, <3>3
  <2> QED
    BY <2>3, <2>4
<1>11. ASSUME ~confirming PROVE SearchTypes' /\ SearchInv'
  <2>1. Discovered(Observed(t), trials')
    BY <1>1, <1>11 DEF Observe
  <2>2. CASE \/ Observed(t) = "success" /\ Advance(next, upper, trials')
             \/ Observed(t) \in Capacity /\ next # Step /\ Advance(lower, next, trials')
    BY <1>2, <1>4, <1>5, <1>6, <1>8, <1>11, <2>2, AdvanceKeeps
  <2>3. CASE Observed(t) = "nonfinite" /\ lower > 0 /\ StepBack
    BY <1>2, <1>4, <1>5, <1>6, <1>8, <1>11, <2>3, StepBackKeeps
  <2>4. CASE \E s \in {"failed", "no_capacity"} :
               Observed(t) # "success" /\ Finish(s, 0) /\ UNCHANGED <<lower, upper>>
    <3>1. SearchTypes'
      BY <1>2, <1>3, <2>4, FinishTypes
    <3>2. SearchInv'
      BY <1>2, <1>4, <1>5, <1>6, <1>8, <2>4, FailFacts
    <3> QED
      BY <3>1, <3>2
  <2> QED
    BY <2>1, <2>2, <2>3, <2>4 DEF Discovered, Capacity
<1>12. SearchTypes' /\ SearchInv'
  BY <1>10, <1>11
<1>13. TypeOK'
  <2>1. case'.status \in {"failed", "no_capacity"} \union Usable /\ case'.batch \in 0..Ceiling
    BY <1>1, <1>3, <1>12 DEF Snapshot, Pending, SearchTypes
  <2> QED
    BY <1>1, <1>7, <1>12, <2>1 DEF TypeOK, SearchTypes
<1>14. CaseHonest'
  BY <1>1, <1>12 DEF CaseHonest, Snapshot, Pending, Usable, SearchInv, Running
<1> QED
  BY <1>8, <1>12, <1>13, <1>14 DEF IInv

\* Every step keeps the strengthening.
LEMMA StepInv == IInv /\ [Next]_vars => IInv'
<1> SUFFICES ASSUME IInv, [Next]_vars PROVE IInv'
  OBVIOUS
<1>1. CASE NextTrial
  <2>1. PICK result \in Result, id \in 1..(Len(trials) + 1) : Measure(id, result)
    BY <1>1 DEF NextTrial
  <2>2. id \in Nat
    <3>1. Len(trials) \in Nat
      BY DEF IInv, TypeOK
    <3> QED
      BY <3>1
  <2> QED
    BY <2>1, <2>2, MeasureKeeps
<1>2. CASE UNCHANGED <<search, trials>>
          /\ pc' \in {"prepare", "search", "returned", "raised"}
          /\ (case' = Pending \/ (pc # "begin" /\ pc # "returned" /\ case' = case))
  <2>1. /\ lower' = lower /\ upper' = upper /\ next' = next /\ confirming' = confirming
        /\ status' = status /\ batch' = batch /\ numerical' = numerical /\ trials' = trials
    BY <1>2 DEF search
  <2>2. SearchInv' /\ Distinct'
    BY <2>1 DEF IInv, SearchInv, Grid, Running, Discovery, Confirmation, Clear, BoundsMeasured,
                WinnerConfirmed, Passed, Exceeded, Distinct
  <2>3. TypeOK'
    <3>1. case'.status \in {"failed", "no_capacity"} \union Usable /\ case'.batch \in 0..Ceiling
      BY <1>2, CeilingFacts DEF IInv, TypeOK, Pending
    <3> QED
      BY <1>2, <2>1, <3>1 DEF IInv, TypeOK
  <2>4. CaseHonest'
    BY <1>2 DEF IInv, CaseHonest, Pending, Usable
  <2> QED
    BY <2>2, <2>3, <2>4 DEF IInv
<1>3. CASE UNCHANGED vars
  BY <1>3 DEF vars, search, IInv, TypeOK, SearchInv, Distinct, CaseHonest, Grid, Running, Discovery,
              Confirmation, Clear, BoundsMeasured, WinnerConfirmed, Passed, Exceeded
<1>4. CASE Begin \/ Prepared \/ PrepareFails \/ MeasureFails \/ Interrupted
  BY <1>2, <1>4 DEF Begin, Prepared, PrepareFails, MeasureFails, Interrupted
<1> QED
  BY <1>1, <1>3, <1>4 DEF Next

-----------------------------------------------------------------------------
(* The theorems *)

\* The strengthening holds in every state of a search.
THEOREM Invariance == Spec => []IInv
<1>1. Init => IInv
  BY InitInv
<1>2. IInv /\ [Next]_vars => IInv'
  BY StepInv
<1> QED
  BY <1>1, <1>2, PTL DEF Spec

\* Every variable keeps its kind of value, and every batch stays in the range.
THEOREM Types == Spec => []TypeOK
<1>1. IInv => TypeOK
  BY DEF IInv
<1> QED
  BY <1>1, Invariance, PTL

\* The bounds of a search are measurements, for any grid, ceiling and outcomes.
THEOREM Measured == Spec => []BoundsMeasured
<1>1. IInv => BoundsMeasured
  BY DEF IInv, SearchInv
<1> QED
  BY <1>1, Invariance, PTL

\* A usable result was confirmed by a second process group, and nothing at or below it failed.
THEOREM Winner == Spec => []WinnerConfirmed
<1>1. IInv => WinnerConfirmed
  BY DEF IInv, SearchInv
<1> QED
  BY <1>1, Invariance, PTL

\* A candidate lies on the grid, strictly between the bounds, and was not measured yet.
THEOREM Bracket == Spec => []Bracketed
<1>1. IInv => Bracketed
  <2> SUFFICES ASSUME IInv, status = "searching", ~confirming
               PROVE  /\ Aligned(lower) /\ Aligned(next) /\ Aligned(upper)
                      /\ lower < next /\ (upper # 0 => next < upper)
                      /\ \A i \in DOMAIN trials : trials[i].batch # next
    BY DEF Bracketed
  <2>1. TypeOK /\ Grid /\ Discovery
    BY DEF IInv, SearchInv
  <2>2. \A i \in DOMAIN trials : trials[i].batch \in Nat
    <3>1. trials \in Seq(Trial)
      BY <2>1 DEF TypeOK
    <3>2. \A i \in 1..Len(trials) : trials[i] \in Trial
      BY <3>1
    <3>3. DOMAIN trials = 1..Len(trials)
      BY <3>1
    <3> QED
      BY <3>2, <3>3 DEF Trial
  <2>3. lower \in Nat /\ upper \in Nat /\ next \in Nat
    BY <2>1, CeilingFacts DEF TypeOK
  <2> QED
    BY <2>1, <2>2, <2>3 DEF Grid, Discovery
<1> QED
  BY <1>1, Invariance, PTL

\* A case is usable only when the search it was saved from has ended so.
THEOREM Honest == Spec => []CaseHonest
<1>1. IInv => CaseHonest
  BY DEF IInv
<1> QED
  BY <1>1, Invariance, PTL

\* Every result is earned, for any grid, ceiling, budget and outcomes.
THEOREM Earned == Spec => []ResultEarned
<1>1. TypeOK /\ Bracketed /\ BoundsMeasured /\ WinnerConfirmed /\ CaseHonest => ResultEarned
  BY DEF ResultEarned
<1> QED
  BY <1>1, Types, Bracket, Measured, Winner, Honest, PTL

(***************************************************************************)
(* Every trial that leaves the discovery open narrows what is left of it:  *)
(* a search has at most one trial per point of the grid, and one more.     *)
(***************************************************************************)
THEOREM Narrowing == Spec => Narrows
<1>1. IInv /\ IInv' /\ [Next]_vars =>
        (trials' # trials /\ status' = "searching" /\ ~confirming' => Left' < Left)
  <2> SUFFICES ASSUME IInv, IInv', Next, trials' # trials, status' = "searching", ~confirming'
               PROVE  Left' < Left
    BY DEF vars
  <2>1. PICK result \in Result, id \in 1..(Len(trials) + 1) : Measure(id, result)
    BY DEF Next, NextTrial, Begin, Prepared, PrepareFails, MeasureFails, Interrupted
  <2> DEFINE t == [id |-> id, batch |-> next, status |-> result.status,
                   complete |-> result.complete, peak |-> result.peak]
  <2>2. Observe(t) /\ next # 0
    BY <2>1 DEF Measure
  <2> HIDE DEF t
  <2>3. TypeOK /\ Discovery /\ Running /\ Grid /\ Running'
    BY DEF IInv, SearchInv
  <2>4. Ceiling \in Nat /\ lower \in 0..Ceiling /\ upper \in 0..Ceiling /\ next \in 0..Ceiling
    BY <2>3, CeilingFacts DEF TypeOK
  <2>5. status = "searching" /\ ~confirming
    BY <2>2, <2>3 DEF Running, Observe, Confirmed, Finish, Usable
  <2>6. \/ Advance(next, upper, trials')
        \/ Advance(lower, next, trials')
    BY <2>2, <2>5 DEF Observe, Discovered, StepBack, Confirm, Finish
  <2>7. \/ lower' = next /\ upper' = upper
        \/ lower' = lower /\ upper' = next
    BY <2>6 DEF Advance
  <2>8. lower < next /\ (upper # 0 => next < upper)
    BY <2>3, <2>5 DEF Discovery
  <2>9. Ceiling' = Ceiling
    BY DEF Ceiling
  <2> QED
    BY <2>2, <2>4, <2>7, <2>8, <2>9 DEF Left
<1>2. IInv /\ IInv' /\ [Next]_vars =>
        [trials' # trials /\ status' = "searching" /\ ~confirming' => Left' < Left]_vars
  BY <1>1
<1> QED
  BY <1>2, Invariance, PTL DEF Spec, Narrows
=============================================================================
