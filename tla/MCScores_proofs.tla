--------------------------- MODULE MCScores_proofs ---------------------------
(***************************************************************************)
(* Proofs about the scores of a run: the accounts an evaluation gives of a *)
(* split, the panel that shows its matches and the verdicts on two models. *)
(* As in MCResults_proofs each component has an invariant of its own.      *)
(***************************************************************************)
EXTENDS MCResults, FiniteSetTheorems, FunctionTheorems, SequenceTheorems, WellFoundedInduction,
        TLAPS

\* The component in focus steps; every other one stays as it is.
LEMMA ScoresFocus ==
  ASSUME [Next]_vars
  PROVE  /\ focus' = focus
         /\ focus = "evaluation" => [Eval!Next]_(Eval!vars)
         /\ focus = "comparison" => [Compare!Next]_(Compare!vars)
         /\ focus = "panel" => [Panel!Next]_(Panel!vars)
<1>1. CASE Next BY <1>1 DEF Next, Alone
<1>2. CASE UNCHANGED vars BY <1>2 DEF vars
<1> QED BY <1>1, <1>2

-----------------------------------------------------------------------------
(* Selecting rows in order (InOrder of Evaluation and NativeEvaluation) *)

\* A set of numbers has a first.
LEMMA First ==
  ASSUME NEW S \in SUBSET Nat, S # {}
  PROVE  \E x \in S : \A y \in S : x <= y
<1>1. PICK x \in S : \A y \in S : ~(<<y, x>> \in OpToRel(<, Nat))
  BY NatLessThanWellFounded, WFMin
<1>2. \A y \in S : x =< y
  <2> SUFFICES ASSUME NEW y \in S, y < x PROVE FALSE OBVIOUS
  <2>1. <<y, x>> \in OpToRel(<, Nat) BY DEF OpToRel
  <2> QED BY <1>1, <2>1
<1> QED BY <1>2

\* A sequence of each member of a set, once.
Lists(s, S) ==
  /\ s \in [1..Cardinality(S) -> S]
  /\ \A i, j \in 1..Cardinality(S) : s[i] = s[j] => i = j
  /\ \A x \in S : \E i \in 1..Cardinality(S) : s[i] = x
Rising(s) == \A i, j \in DOMAIN s : i < j => s[i] < s[j]

LEMMA Listing ==
  ASSUME NEW S, IsFiniteSet(S), NEW s \in Eval!SetToSeqs(S)
  PROVE  Lists(s, S)
<1> DEFINE D == 1..Cardinality(S)
<1>1. Eval!Cardinality(S) = Cardinality(S) BY DEF Eval!Cardinality, Cardinality
<1>2. s \in [D -> S] /\ \A i, j \in D : i # j => s[i] # s[j] BY <1>1 DEF Eval!SetToSeqs
<1>3. Cardinality(S) \in Nat BY FS_CardinalityType
<1>4. IsFiniteSet(D) /\ Cardinality(D) = Cardinality(S) BY <1>3, FS_Interval
<1> HIDE DEF D
<1>5. s \in Injection(D, S) BY <1>2 DEF Injection, IsInjective
<1>6. s \in Surjection(D, S) BY <1>4, <1>5, FS_Injection
<1> QED BY <1>2, <1>6 DEF Lists, Surjection, D

\* A finite set of numbers has a rising list of its members: each at its rank.
LEMMA Sorted ==
  ASSUME NEW S \in SUBSET Nat, IsFiniteSet(S)
  PROVE  /\ Lists(Eval!InOrder(S), S) /\ Rising(Eval!InOrder(S))
         /\ Panel!InOrder(S) = Eval!InOrder(S)
<1> DEFINE N == Cardinality(S)
           Below(x) == {y \in S : y <= x}
           rank == [x \in S |-> Cardinality(Below(x))]
           place(k) == CHOOSE x \in S : rank[x] = k
           s == [k \in 1..N |-> place(k)]
<1>1. N \in Nat BY FS_CardinalityType
<1>2. ASSUME NEW x \in S
      PROVE  IsFiniteSet(Below(x)) /\ rank[x] \in 1..N
  <2>1. Below(x) \in SUBSET S /\ x \in Below(x) OBVIOUS
  <2>2. IsFiniteSet(Below(x)) /\ Cardinality(Below(x)) <= N BY <2>1, FS_Subset
  <2>3. Cardinality(Below(x)) \in Nat /\ Cardinality(Below(x)) # 0
    <3> HIDE DEF Below
    <3> QED BY <2>1, <2>2, FS_CardinalityType, FS_EmptySet
  <2>4. rank[x] = Cardinality(Below(x)) OBVIOUS
  <2> HIDE DEF Below, rank, N
  <2> QED BY <1>1, <2>2, <2>3, <2>4
<1>3. ASSUME NEW x \in S, NEW z \in S, x < z
      PROVE  rank[x] < rank[z]
  <2>1. Below(x) \in SUBSET Below(z) /\ z \in Below(z) /\ z \notin Below(x)
    <3>1. x \in Nat /\ z \in Nat OBVIOUS
    <3>2. \A y \in S : y <= x => y <= z BY <1>3, <3>1
    <3>3. ~(z <= x) /\ z <= z BY <1>3, <3>1
    <3> QED BY <3>2, <3>3
  <2>2. rank[x] = Cardinality(Below(x)) /\ rank[z] = Cardinality(Below(z)) OBVIOUS
  <2>3. IsFiniteSet(Below(z)) /\ IsFiniteSet(Below(x)) BY <1>2
  <2> HIDE DEF Below, rank
  <2>4. Cardinality(Below(x)) <= Cardinality(Below(z))
        /\ Cardinality(Below(z)) # Cardinality(Below(x))
    BY <2>1, <2>3, FS_Subset
  <2>5. Cardinality(Below(x)) \in Nat /\ Cardinality(Below(z)) \in Nat
    BY <2>3, FS_CardinalityType
  <2> QED BY <2>2, <2>4, <2>5
<1>4. rank \in Surjection(S, 1..N)
  <2>1. IsFiniteSet(1..N) /\ Cardinality(1..N) = N BY <1>1, FS_Interval
  <2>2. rank \in [S -> 1..N]
    <3>1. rank = [x \in S |-> rank[x]] OBVIOUS
    <3> HIDE DEF rank, N
    <3> QED BY <1>2, <3>1
  <2>3. \A x, z \in S : rank[x] = rank[z] => x = z
    <3> SUFFICES ASSUME NEW x \in S, NEW z \in S, x # z PROVE rank[x] # rank[z] OBVIOUS
    <3>1. x < z \/ z < x OBVIOUS
    <3>2. rank[x] \in 1..N /\ rank[z] \in 1..N BY <1>2
    <3> HIDE DEF rank, N
    <3> QED BY <1>1, <1>3, <3>1, <3>2
  <2> HIDE DEF rank
  <2>4. rank \in Injection(S, 1..N) BY <2>2, <2>3 DEF Injection, IsInjective
  <2> QED BY <2>1, <2>4, FS_Injection
<1>5. ASSUME NEW k \in 1..N PROVE s[k] \in S /\ rank[s[k]] = k
  <2>1. \E x \in S : rank[x] = k
    <3> HIDE DEF rank
    <3> QED BY <1>4 DEF Surjection
  <2>2. place(k) \in S /\ rank[place(k)] = k
    <3> HIDE DEF rank
    <3> QED BY <2>1
  <2>3. s[k] = place(k) OBVIOUS
  <2> HIDE DEF rank, s, place
  <2> QED BY <2>2, <2>3
<1>6. s \in [1..N -> S] /\ DOMAIN s = 1..N
  <2> HIDE DEF place
  <2>1. s = [k \in 1..N |-> place(k)] /\ \A k \in 1..N : s[k] = place(k) OBVIOUS
  <2> HIDE DEF s
  <2> QED BY <1>5, <2>1
<1>7. \A i, j \in 1..N : i < j => s[i] < s[j]
  <2> SUFFICES ASSUME NEW i \in 1..N, NEW j \in 1..N, i < j PROVE s[i] < s[j] OBVIOUS
  <2>1. /\ s[i] \in S /\ rank[s[i]] = i
        /\ s[j] \in S /\ rank[s[j]] = j
    BY <1>5
  <2> HIDE DEF s, rank
  <2>2. s[j] < s[i] => j < i BY <1>3, <2>1
  <2>3. s[j] # s[i] BY <2>1
  <2>4. s[i] \in Nat /\ s[j] \in Nat /\ i \in Nat /\ j \in Nat
    <3>1. \A x \in S : x \in Nat OBVIOUS
    <3>2. s[i] \in Nat /\ s[j] \in Nat BY <2>1, <3>1
    <3>3. i \in Nat /\ j \in Nat
      <4> HIDE DEF N
      <4> QED BY <1>1
    <3> QED BY <3>2, <3>3
  <2> QED BY <2>2, <2>3, <2>4
<1>8. s \in Eval!SetToSeqs(S) /\ Rising(s)
  <2>1. Eval!Cardinality(S) = N BY DEF Eval!Cardinality, Cardinality
  <2>2. \A i, j \in 1..N : i # j => s[i] # s[j]
    <3> SUFFICES ASSUME NEW i \in 1..N, NEW j \in 1..N, i # j PROVE s[i] # s[j] OBVIOUS
    <3>1. i < j \/ j < i BY <1>1
    <3>2. s[i] \in Nat /\ s[j] \in Nat BY <1>5
    <3> HIDE DEF s
    <3> QED BY <1>7, <3>1, <3>2
  <2> HIDE DEF s, N
  <2> QED BY <1>6, <1>7, <2>1, <2>2 DEF Eval!SetToSeqs, Rising
<1>9. Eval!InOrder(S) = CHOOSE t \in Eval!SetToSeqs(S) : Rising(t) BY DEF Eval!InOrder, Rising
<1> HIDE DEF s, place
<1>10. Eval!InOrder(S) \in Eval!SetToSeqs(S) /\ Rising(Eval!InOrder(S)) BY <1>8, <1>9
<1>11. Panel!InOrder(S) = Eval!InOrder(S)
  BY DEF Panel!InOrder, Eval!InOrder, Panel!SetToSeqs, Eval!SetToSeqs, Panel!Cardinality,
         Eval!Cardinality
<1> QED BY <1>10, <1>11, Listing

-----------------------------------------------------------------------------
(* What an evaluation says of a split (Evaluation) *)

\* Some rows of a file, in some order, none twice.
EvalListed(s, S) == \E P \in SUBSET S : Lists(s, P)
EvalSound == {j \in 1..Rows : Eval!Valid(guess[j])}
EvalSplit == {i \in 1..Rows : evalTruth[i].split = Split /\ Eval!Proper(evalTruth[i])}
EvalRows ==
  /\ evalTruth \in [1..Rows -> TruthRows] /\ guess \in [1..Rows -> GuessRows]
  /\ EvalListed(preparedTruth, 1..Rows) /\ EvalListed(raw, EvalSound)
  /\ EvalListed(preparedGuess, EvalSound) /\ EvalListed(scoped, EvalSplit)

\* A match names rows of the class it is of.
EvalHit(m) ==
  /\ m.type = "TP" /\ <<m.truth, m.guess>> \in Eval!Pairs /\ m.class = Eval!T(m.truth).label
EvalFalse(m) ==
  /\ m.type = "FP" /\ m.guess \in Eval!InScope /\ m.class = Eval!G(m.guess).label
EvalMissed(m) ==
  /\ m.type = "FN" /\ m.truth \in Eval!Boxes /\ m.guess = 0 /\ m.class = Eval!T(m.truth).label
\* A row is judged once: no prediction is in two matches, no box is found
\* twice, or found and missed.
EvalJudged(M) ==
  /\ \A m \in M : EvalHit(m) \/ EvalFalse(m) \/ EvalMissed(m)
  /\ \A m, n \in M : m.guess = n.guess /\ m.guess # 0 => m = n
  /\ \A m, n \in M : m.type # "FP" /\ n.type # "FP" /\ m.truth = n.truth => m = n
\* No box of a scored class goes without a verdict.
EvalCovered(M) ==
  \A i \in Eval!Boxes : Eval!T(i).label \in Scored => \E m \in M : m.type # "FP" /\ m.truth = i
\* The accounts agree: p is the payload, e what is exported, o the outcome.
EvalSaid(e, which, fate, c) ==
  Cardinality({id \in DOMAIN e[which] :
                 e[which][id] = fate /\ (IF which = "truth" THEN evalTruth ELSE guess)[id].label = c})
EvalStory(p, e, o) ==
  /\ \A i \in DOMAIN p.truth :
       /\ e.truth[scoped[i]] = p.truth[i]
       /\ Eval!T(i).label \in Scored => (o.truth[i] <=> p.truth[i] = "TP")
  /\ \A j \in DOMAIN p.guess :
       \/ e.guess[preparedGuess[j]] = p.guess[j]
       \/ p.guess[j] = "filtered" /\ Eval!G(j).label \notin Scored
  /\ \A c \in Scored :
       /\ o.counts[c].tp = EvalSaid(e, "truth", "TP", c)
       /\ o.counts[c].tp = EvalSaid(e, "guess", "TP", c)
       /\ o.counts[c].fn = EvalSaid(e, "truth", "FN", c)
       /\ o.counts[c].fp = EvalSaid(e, "guess", "FP", c)
EvalSliced ==
  EvalJudged(kept) /\ EvalCovered(kept) /\ \A m \in kept : m.class \in Scored
EvalMatches ==
  /\ evalPc = "matched" => EvalJudged(found) /\ EvalCovered(found)
  /\ evalPc \in {"sliced", "scored"} => EvalSliced
EvalInv ==
  /\ EvalRows /\ EvalMatches
  /\ evalPc \in {"thresholds", "selected", "matched", "sliced", "scored"} =>
       DOMAIN evalThresholds = Scored
  /\ evalPc = "scored" => EvalStory(payload, exported, outcome)

\* The rows an index stands for.
LEMMA EvalPlaces ==
  ASSUME EvalRows
  PROVE  /\ \A i \in DOMAIN scoped :
              /\ scoped[i] \in 1..Rows /\ evalTruth[scoped[i]].split = Split
              /\ Eval!Proper(evalTruth[scoped[i]])
         /\ \A i, k \in DOMAIN scoped : scoped[i] = scoped[k] => i = k
         /\ \A j \in DOMAIN preparedGuess :
              j # 0 /\ preparedGuess[j] \in 1..Rows /\ Eval!Valid(guess[preparedGuess[j]])
         /\ \A j, k \in DOMAIN preparedGuess : preparedGuess[j] = preparedGuess[k] => j = k
<1>1. PICK P \in SUBSET EvalSplit : Lists(scoped, P) BY DEF EvalRows, EvalListed
<1>2. PICK Q1 \in SUBSET EvalSound : Lists(preparedGuess, Q1) BY DEF EvalRows, EvalListed
<1>3. DOMAIN scoped = 1..Cardinality(P) /\ \A i \in DOMAIN scoped : scoped[i] \in EvalSplit
  BY <1>1 DEF Lists
<1>4. /\ DOMAIN preparedGuess = 1..Cardinality(Q1)
      /\ \A j \in DOMAIN preparedGuess : preparedGuess[j] \in EvalSound
  BY <1>2 DEF Lists
<1>5. \A j \in 1..Cardinality(Q1) : j # 0
  <2>1. IsFiniteSet(1..Rows)
    <3>1. Rows \in Nat BY ResultsAssumption
    <3> QED BY <3>1, FS_Interval
  <2>2. IsFiniteSet(Q1) BY <2>1, FS_Subset DEF EvalSound
  <2>3. Cardinality(Q1) \in Nat BY <2>2, FS_CardinalityType
  <2> QED BY <2>3
<1> QED BY <1>1, <1>2, <1>3, <1>4, <1>5 DEF Lists, EvalSplit, EvalSound

\* The exported row of a box says what the matches say of it.
LEMMA EvalTruthRow ==
  ASSUME EvalRows, EvalSliced, NEW i \in Eval!Boxes
  PROVE  /\ i \in DOMAIN scoped /\ scoped[i] \in 1..Rows
         /\ evalTruth[scoped[i]].split = Split
         /\ Eval!TruthRow(scoped[i]) = IF i \in Eval!HitTruths THEN "TP" ELSE "FN"
<1> DEFINE id == scoped[i]
           lineage == Eval!Lineage(scoped, DOMAIN scoped)
           places == {k \in DOMAIN scoped : lineage[k] = id}
<1>1. i \in DOMAIN scoped /\ evalTruth[id].shape # "none" BY DEF Eval!Boxes, Eval!T
<1>2. id \in 1..Rows /\ evalTruth[id].split = Split /\ Eval!Proper(evalTruth[id])
  BY <1>1, EvalPlaces
<1>3. evalTruth[id].label # NoLabel /\ Eval!Valid(evalTruth[id])
  BY <1>1, <1>2 DEF Eval!Proper, Eval!Background, Eval!Valid
<1>4. places = {i}
  <2>1. \A k \in DOMAIN scoped : lineage[k] = scoped[k] BY DEF Eval!Lineage
  <2>2. \A k \in DOMAIN scoped : scoped[k] = scoped[i] => k = i BY <1>1, EvalPlaces
  <2> HIDE DEF lineage
  <2> QED BY <1>1, <2>1, <2>2
<1>5. Eval!TruthRow(id) =
        IF "TP" \in UNION {Eval!Statuses("truth", k) : k \in places} THEN "TP" ELSE "FN"
  <2>1. places # {} BY <1>4
  <2>2. Eval!TruthRow(id) =
          IF evalTruth[id].label = NoLabel THEN "background"
          ELSE IF ~Eval!Valid(evalTruth[id]) \/ places = {} THEN "excluded"
          ELSE IF "TP" \in UNION {Eval!Statuses("truth", k) : k \in places} THEN "TP" ELSE "FN"
    BY DEF Eval!TruthRow
  <2> HIDE DEF places, id
  <2> QED BY <1>3, <2>1, <2>2
<1>6. "TP" \in Eval!Statuses("truth", i) <=> i \in Eval!HitTruths
  BY DEF Eval!Statuses, Eval!HitTruths
<1>7. UNION {Eval!Statuses("truth", k) : k \in places} = Eval!Statuses("truth", i)
  <2> HIDE DEF places
  <2> QED BY <1>4
<1> HIDE DEF places
<1> QED BY <1>1, <1>2, <1>5, <1>6, <1>7

LEMMA EvalTruthBack ==
  ASSUME EvalRows, NEW id \in 1..Rows, Eval!TruthRow(id) \in {"TP", "FN"}
  PROVE  \E i \in Eval!Boxes : scoped[i] = id
<1> DEFINE lineage == Eval!Lineage(scoped, DOMAIN scoped)
           places == {k \in DOMAIN scoped : lineage[k] = id}
<1>1. Eval!TruthRow(id) =
        IF evalTruth[id].label = NoLabel THEN "background"
        ELSE IF ~Eval!Valid(evalTruth[id]) \/ places = {} THEN "excluded"
        ELSE IF "TP" \in UNION {Eval!Statuses("truth", k) : k \in places} THEN "TP" ELSE "FN"
  BY DEF Eval!TruthRow
<1>2. places # {} /\ Eval!Valid(evalTruth[id])
  <2> HIDE DEF places
  <2> QED BY <1>1
<1>3. PICK i \in DOMAIN scoped : scoped[i] = id BY <1>2 DEF Eval!Lineage
<1>4. i \in Eval!Boxes BY <1>2, <1>3 DEF Eval!Boxes, Eval!T, Eval!Valid
<1> QED BY <1>3, <1>4

\* The exported row of a prediction, and its entry in the payload.
LEMMA EvalGuessRow ==
  ASSUME EvalRows, EvalSliced, DOMAIN evalThresholds = Scored, NEW j \in Eval!InScope
  PROVE  /\ j \in DOMAIN preparedGuess /\ preparedGuess[j] \in 1..Rows
         /\ guess[preparedGuess[j]].image \in Eval!Images
         /\ \A m \in kept : m.guess = j =>
              Eval!GuessRow(preparedGuess[j]) = m.type /\ Eval!GuessStatus(j) = m.type
         /\ (\A m \in kept : m.guess # j) =>
              /\ Eval!GuessStatus(j) = "filtered"
              /\ Eval!GuessRow(preparedGuess[j]) =
                   IF Eval!G(j).label \in Scored THEN "filtered" ELSE "excluded"
<1> DEFINE id == preparedGuess[j]
           lineage == Eval!Lineage(preparedGuess, Eval!InScope)
           places == {k \in Eval!InScope : lineage[k] = id}
           fates == UNION {Eval!Statuses("guess", k) : k \in places}
<1>1. j \in DOMAIN preparedGuess /\ guess[id].image \in Eval!Images
      /\ Eval!InScope \subseteq DOMAIN preparedGuess
  BY DEF Eval!InScope, Eval!G
<1>2. j # 0 /\ id \in 1..Rows /\ Eval!Valid(guess[id]) BY <1>1, EvalPlaces
<1>3. places = {j}
  <2>1. \A k \in Eval!InScope : lineage[k] = preparedGuess[k] BY DEF Eval!Lineage
  <2>2. \A k \in Eval!InScope : preparedGuess[k] = preparedGuess[j] => k = j BY <1>1, EvalPlaces
  <2> HIDE DEF lineage
  <2> QED BY <2>1, <2>2
<1>4. Eval!GuessRow(id) =
        IF fates # {} THEN (IF "TP" \in fates THEN "TP" ELSE "FP")
        ELSE IF guess[id].label \in Scored THEN "filtered" ELSE "excluded"
  <2>1. places # {} BY <1>3
  <2>2. Eval!GuessRow(id) =
          IF ~Eval!Valid(guess[id]) \/ places = {} THEN "excluded"
          ELSE IF fates # {} THEN (IF "TP" \in fates THEN "TP" ELSE "FP")
          ELSE IF guess[id].label \in DOMAIN evalThresholds THEN "filtered" ELSE "excluded"
    BY DEF Eval!GuessRow
  <2> HIDE DEF places, fates, id
  <2> QED BY <1>2, <2>1, <2>2
<1>5. fates = {m.type : m \in {n \in kept : n.guess = j}}
  <2>1. fates = Eval!Statuses("guess", j)
    <3> HIDE DEF places
    <3> QED BY <1>3
  <2> QED BY <2>1 DEF Eval!Statuses
<1> HIDE DEF fates, places
<1>6. ASSUME NEW m \in kept, m.guess = j
      PROVE  Eval!GuessRow(id) = m.type /\ Eval!GuessStatus(j) = m.type
  <2>1. \A n \in kept : n.guess = j => n = m BY <1>2, <1>6 DEF EvalSliced, EvalJudged
  <2>2. m.type \in {"TP", "FP"}
    BY <1>2, <1>6 DEF EvalSliced, EvalJudged, EvalHit, EvalFalse, EvalMissed
  <2>3. fates = {m.type} BY <1>5, <1>6, <2>1
  <2>4. Eval!GuessRow(id) = m.type BY <1>4, <2>2, <2>3
  <2>5. (CHOOSE n \in kept : n.guess = j) = m BY <1>6, <2>1
  <2> QED BY <1>6, <2>4, <2>5 DEF Eval!GuessStatus
<1>7. ASSUME \A m \in kept : m.guess # j
      PROVE  /\ Eval!GuessStatus(j) = "filtered"
             /\ Eval!GuessRow(id) = IF Eval!G(j).label \in Scored THEN "filtered" ELSE "excluded"
  <2>1. fates = {} BY <1>5, <1>7
  <2> QED BY <1>4, <1>7, <2>1 DEF Eval!GuessStatus, Eval!G
<1> QED BY <1>1, <1>2, <1>6, <1>7

LEMMA EvalGuessBack ==
  ASSUME EvalRows, EvalSliced, DOMAIN evalThresholds = Scored,
         NEW id \in 1..Rows, Eval!GuessRow(id) \in {"TP", "FP"}
  PROVE  \E m \in kept :
           /\ m.guess \in Eval!InScope /\ preparedGuess[m.guess] = id
           /\ m.type = Eval!GuessRow(id)
<1> DEFINE lineage == Eval!Lineage(preparedGuess, Eval!InScope)
           places == {k \in Eval!InScope : lineage[k] = id}
           fates == UNION {Eval!Statuses("guess", k) : k \in places}
<1>1. Eval!GuessRow(id) =
        IF ~Eval!Valid(guess[id]) \/ places = {} THEN "excluded"
        ELSE IF fates # {} THEN (IF "TP" \in fates THEN "TP" ELSE "FP")
        ELSE IF guess[id].label \in DOMAIN evalThresholds THEN "filtered" ELSE "excluded"
  BY DEF Eval!GuessRow
<1>2. places # {}
  <2> HIDE DEF places, fates
  <2> QED BY <1>1
<1>3. PICK j \in Eval!InScope : preparedGuess[j] = id BY <1>2 DEF Eval!Lineage
<1>4. PICK m \in kept : m.guess = j
  <2>1. SUFFICES ASSUME \A m \in kept : m.guess # j PROVE FALSE OBVIOUS
  <2>2. Eval!GuessRow(id) \in {"filtered", "excluded"} BY <1>3, <2>1, EvalGuessRow
  <2> QED BY <2>2
<1>5. m.type = Eval!GuessRow(id) BY <1>3, <1>4, EvalGuessRow
<1> QED BY <1>3, <1>4, <1>5

\* Two sets are alike in number when each member of one stands for one of the other.
LEMMA Counted ==
  ASSUME NEW S, NEW T, IsFiniteSet(T), NEW f, \A x \in S : f[x] \in T, DOMAIN f = S,
         f = [x \in S |-> f[x]],
         \A x, y \in S : f[x] = f[y] => x = y,
         \A y \in T : \E x \in S : f[x] = y
  PROVE  IsFiniteSet(S) /\ Cardinality(S) = Cardinality(T)
<1>1. f \in [S -> T] OBVIOUS
<1>2. f \in Injection(S, T) BY <1>1 DEF Injection, IsInjective
<1>3. f \in Surjection(S, T) BY <1>1 DEF Surjection
<1> QED BY <1>2, <1>3, FS_Injection

\* The matches of a class with a fate, and the rows exported with it.
EvalKept(type, c) == {m \in kept : m.type = type /\ m.class = c}
EvalTruthRows(fate, c) ==
  {id \in 1..Rows : /\ evalTruth[id].split = Split /\ Eval!TruthRow(id) = fate
                    /\ evalTruth[id].label = c}
EvalGuessRows(fate, c) ==
  {id \in 1..Rows : /\ guess[id].image \in Eval!Images /\ Eval!GuessRow(id) = fate
                    /\ guess[id].label = c}

LEMMA EvalTruthCount ==
  ASSUME EvalRows, EvalSliced, NEW c \in Scored, NEW fate \in {"TP", "FN"}
  PROVE  Cardinality(EvalKept(fate, c)) = Cardinality(EvalTruthRows(fate, c))
<1> DEFINE S == EvalKept(fate, c)
           R == EvalTruthRows(fate, c)
           row == [m \in S |-> scoped[m.truth]]
<1>1. IsFiniteSet(R)
  <2>1. Rows \in Nat BY ResultsAssumption
  <2>2. IsFiniteSet(1..Rows) BY <2>1, FS_Interval
  <2> QED BY <2>2, FS_Subset DEF EvalTruthRows
<1>2. ASSUME NEW m \in S
      PROVE  /\ m \in kept /\ m.type = fate /\ m.class = c /\ m.truth \in Eval!Boxes
             /\ Eval!T(m.truth).label = c
  BY DEF EvalKept, EvalSliced, EvalJudged, EvalHit, EvalFalse, EvalMissed, Eval!Pairs
<1>3. ASSUME NEW m \in S
      PROVE  fate = IF m.truth \in Eval!HitTruths THEN "TP" ELSE "FN"
  <2>1. \A n \in kept : n.type = "TP" /\ n.truth = m.truth => n = m
    BY <1>2 DEF EvalSliced, EvalJudged
  <2>2. m.truth \in Eval!HitTruths <=> \E n \in kept : n.type = "TP" /\ n.truth = m.truth
    BY DEF Eval!HitTruths
  <2> QED BY <1>2, <2>1, <2>2
<1>4. ASSUME NEW m \in S PROVE row[m] \in R
  <2>1. m.truth \in Eval!Boxes BY <1>2
  <2>2. /\ scoped[m.truth] \in 1..Rows /\ evalTruth[scoped[m.truth]].split = Split
        /\ Eval!TruthRow(scoped[m.truth]) = fate
    BY <1>3, <2>1, EvalTruthRow
  <2>3. evalTruth[scoped[m.truth]].label = c BY <1>2 DEF Eval!T
  <2> QED BY <2>2, <2>3 DEF EvalTruthRows
<1>5. ASSUME NEW m \in S, NEW n \in S, row[m] = row[n] PROVE m = n
  <2>1. /\ m \in kept /\ m.type # "FP" /\ m.truth \in Eval!Boxes
        /\ n \in kept /\ n.type # "FP" /\ n.truth \in Eval!Boxes
    BY <1>2
  <2>2. scoped[m.truth] = scoped[n.truth] BY <1>5
  <2>3. m.truth = n.truth BY <2>1, <2>2, EvalPlaces DEF Eval!Boxes
  <2> QED BY <2>1, <2>3 DEF EvalSliced, EvalJudged
<1>6. ASSUME NEW id \in R PROVE \E m \in S : row[m] = id
  <2>1. id \in 1..Rows /\ Eval!TruthRow(id) = fate /\ evalTruth[id].label = c
    BY DEF EvalTruthRows
  <2>2. PICK i \in Eval!Boxes : scoped[i] = id BY <2>1, EvalTruthBack
  <2>3. Eval!T(i).label = c BY <2>1, <2>2 DEF Eval!T
  <2>4. fate = IF i \in Eval!HitTruths THEN "TP" ELSE "FN" BY <2>1, <2>2, EvalTruthRow
  <2>5. i \in Eval!HitTruths <=> \E n \in kept : n.type = "TP" /\ n.truth = i
    BY DEF Eval!HitTruths
  <2>6. PICK m \in kept : m.type = fate /\ m.truth = i
    <3>1. \E n \in kept : n.type # "FP" /\ n.truth = i BY <2>3 DEF EvalSliced, EvalCovered
    <3>2. \A n \in kept : n.type \in {"TP", "FP", "FN"}
      BY DEF EvalSliced, EvalJudged, EvalHit, EvalFalse, EvalMissed
    <3> QED BY <2>4, <2>5, <3>1, <3>2
  <2>7. m.class = c
    BY <2>3, <2>6 DEF EvalSliced, EvalJudged, EvalHit, EvalFalse, EvalMissed
  <2>8. m \in S BY <2>6, <2>7 DEF EvalKept
  <2> QED BY <2>2, <2>6, <2>8
<1>7. row = [m \in S |-> row[m]] /\ DOMAIN row = S OBVIOUS
<1> HIDE DEF S, R, row
<1>8. Cardinality(S) = Cardinality(R) BY <1>1, <1>4, <1>5, <1>6, <1>7, Counted
<1> QED BY <1>8 DEF S, R

LEMMA EvalGuessCount ==
  ASSUME EvalRows, EvalSliced, DOMAIN evalThresholds = Scored,
         NEW c \in Scored, NEW fate \in {"TP", "FP"}
  PROVE  Cardinality(EvalKept(fate, c)) = Cardinality(EvalGuessRows(fate, c))
<1> DEFINE S == EvalKept(fate, c)
           R == EvalGuessRows(fate, c)
           row == [m \in S |-> preparedGuess[m.guess]]
<1>1. IsFiniteSet(R)
  <2>1. Rows \in Nat BY ResultsAssumption
  <2>2. IsFiniteSet(1..Rows) BY <2>1, FS_Interval
  <2> QED BY <2>2, FS_Subset DEF EvalGuessRows
<1>2. ASSUME NEW m \in kept, m.type = fate
      PROVE  m.guess \in Eval!InScope /\ m.class = Eval!G(m.guess).label
  <2>1. EvalHit(m) \/ EvalFalse(m) BY <1>2 DEF EvalSliced, EvalJudged, EvalMissed
  <2> QED BY <2>1 DEF EvalHit, EvalFalse, Eval!Pairs
<1>3. ASSUME NEW m \in S
      PROVE  m \in kept /\ m.type = fate /\ m.class = c
  BY DEF EvalKept
<1>4. ASSUME NEW m \in S PROVE row[m] \in R
  <2>1. m.guess \in Eval!InScope /\ m.class = Eval!G(m.guess).label BY <1>2, <1>3
  <2>2. /\ preparedGuess[m.guess] \in 1..Rows /\ guess[preparedGuess[m.guess]].image \in Eval!Images
        /\ Eval!GuessRow(preparedGuess[m.guess]) = fate
    BY <1>3, <2>1, EvalGuessRow
  <2>3. guess[preparedGuess[m.guess]].label = c BY <1>3, <2>1 DEF Eval!G
  <2> QED BY <2>2, <2>3 DEF EvalGuessRows
<1>5. ASSUME NEW m \in S, NEW n \in S, row[m] = row[n] PROVE m = n
  <2>1. /\ m \in kept /\ m.guess \in DOMAIN preparedGuess
        /\ n \in kept /\ n.guess \in DOMAIN preparedGuess
    BY <1>2, <1>3 DEF Eval!InScope
  <2>2. preparedGuess[m.guess] = preparedGuess[n.guess] BY <1>5
  <2>3. m.guess = n.guess /\ m.guess # 0 BY <2>1, <2>2, EvalPlaces
  <2> QED BY <2>1, <2>3 DEF EvalSliced, EvalJudged
<1>6. ASSUME NEW id \in R PROVE \E m \in S : row[m] = id
  <2>1. id \in 1..Rows /\ Eval!GuessRow(id) = fate /\ guess[id].label = c BY DEF EvalGuessRows
  <2>2. PICK m \in kept : m.guess \in Eval!InScope /\ preparedGuess[m.guess] = id /\ m.type = fate
    BY <2>1, EvalGuessBack
  <2>3. m.class = c BY <1>2, <2>1, <2>2 DEF Eval!G
  <2>4. m \in S BY <2>2, <2>3 DEF EvalKept
  <2> QED BY <2>2, <2>4
<1>7. row = [m \in S |-> row[m]] /\ DOMAIN row = S OBVIOUS
<1> HIDE DEF S, R, row
<1>8. Cardinality(S) = Cardinality(R) BY <1>1, <1>4, <1>5, <1>6, <1>7, Counted
<1> QED BY <1>8 DEF S, R

LEMMA EvalAccounts ==
  ASSUME EvalRows, EvalSliced, DOMAIN evalThresholds = Scored
  PROVE  EvalStory(Eval!Payload, Eval!Exported, Eval!Outcome)
<1> DEFINE p == Eval!Payload
           e == Eval!Exported
           o == Eval!Outcome
           ids == {i \in 1..Rows : evalTruth[i].split = Split}
           others == {j \in 1..Rows : guess[j].image \in Eval!Images}
<1>1. /\ DOMAIN p.truth = Eval!Boxes
      /\ \A i \in Eval!Boxes : p.truth[i] = IF i \in Eval!HitTruths THEN "TP" ELSE "FN"
      /\ DOMAIN p.guess = Eval!InScope
      /\ \A j \in Eval!InScope : p.guess[j] = Eval!GuessStatus(j)
  BY DEF Eval!Payload
<1>2. /\ DOMAIN e.truth = ids /\ \A id \in ids : e.truth[id] = Eval!TruthRow(id)
      /\ DOMAIN e.guess = others /\ \A id \in others : e.guess[id] = Eval!GuessRow(id)
  BY DEF Eval!Exported
<1>3. \A i \in Eval!Boxes : Eval!T(i).label \in Scored => (o.truth[i] <=> i \in Eval!HitTruths)
  BY DEF Eval!Outcome, Eval!HitTruths, Eval!Detects
<1>4. ASSUME NEW c \in Scored
      PROVE  /\ o.counts[c].tp = Cardinality(EvalKept("TP", c))
             /\ o.counts[c].fp = Cardinality(EvalKept("FP", c))
             /\ o.counts[c].fn = Cardinality(EvalKept("FN", c))
  <2>1. \A type : Eval!Count(type, c) = Cardinality(EvalKept(type, c))
    BY DEF Eval!Count, EvalKept, Eval!Cardinality, Cardinality
  <2>2. o.counts[c] = [tp |-> Eval!Count("TP", c), fp |-> Eval!Count("FP", c), fn |-> Eval!Count("FN", c)]
    BY DEF Eval!Outcome
  <2> QED BY <2>1, <2>2
<1> HIDE DEF p, e, o
<1>5. \A c \in Scored, fate \in {"TP", "FP", "FN"} :
        /\ EvalSaid(e, "truth", fate, c) = Cardinality(EvalTruthRows(fate, c))
        /\ EvalSaid(e, "guess", fate, c) = Cardinality(EvalGuessRows(fate, c))
  <2>1. SUFFICES ASSUME NEW c \in Scored, NEW fate \in {"TP", "FP", "FN"}
                 PROVE  /\ EvalSaid(e, "truth", fate, c) = Cardinality(EvalTruthRows(fate, c))
                        /\ EvalSaid(e, "guess", fate, c) = Cardinality(EvalGuessRows(fate, c))
    OBVIOUS
  <2>2. {id \in DOMAIN e["truth"] : e["truth"][id] = fate /\ evalTruth[id].label = c} =
          EvalTruthRows(fate, c)
    BY <1>2 DEF EvalTruthRows
  <2>3. {id \in DOMAIN e["guess"] : e["guess"][id] = fate /\ guess[id].label = c} =
          EvalGuessRows(fate, c)
    BY <1>2 DEF EvalGuessRows
  <2> QED BY <2>2, <2>3 DEF EvalSaid
<1>6. ASSUME NEW i \in DOMAIN p.truth
      PROVE  /\ e.truth[scoped[i]] = p.truth[i]
             /\ Eval!T(i).label \in Scored => (o.truth[i] <=> p.truth[i] = "TP")
  <2>1. i \in Eval!Boxes BY <1>1
  <2>2. scoped[i] \in ids /\ Eval!TruthRow(scoped[i]) = p.truth[i] BY <1>1, <2>1, EvalTruthRow
  <2> QED BY <1>1, <1>2, <1>3, <2>1, <2>2
<1>7. ASSUME NEW j \in DOMAIN p.guess
      PROVE  \/ e.guess[preparedGuess[j]] = p.guess[j]
             \/ p.guess[j] = "filtered" /\ Eval!G(j).label \notin Scored
  <2>1. j \in Eval!InScope /\ p.guess[j] = Eval!GuessStatus(j) BY <1>1
  <2>2. preparedGuess[j] \in others BY <2>1, EvalGuessRow
  <2>3. e.guess[preparedGuess[j]] = Eval!GuessRow(preparedGuess[j]) BY <1>2, <2>2
  <2>4. CASE \E m \in kept : m.guess = j BY <2>1, <2>3, <2>4, EvalGuessRow
  <2>5. CASE \A m \in kept : m.guess # j BY <2>1, <2>3, <2>5, EvalGuessRow
  <2> QED BY <2>4, <2>5
<1>8. ASSUME NEW c \in Scored
      PROVE  /\ o.counts[c].tp = EvalSaid(e, "truth", "TP", c)
             /\ o.counts[c].tp = EvalSaid(e, "guess", "TP", c)
             /\ o.counts[c].fn = EvalSaid(e, "truth", "FN", c)
             /\ o.counts[c].fp = EvalSaid(e, "guess", "FP", c)
  BY <1>4, <1>5, EvalTruthCount, EvalGuessCount
<1>9. EvalStory(p, e, o) BY <1>6, <1>7, <1>8 DEF EvalStory
<1> QED BY <1>9 DEF p, e, o

\* The numbering of the rows and what an index stands for.
EvalIndices == <<evalTruth, guess, preparedTruth, raw, preparedGuess, scoped>>
LEMMA EvalSame ==
  ASSUME UNCHANGED EvalIndices
  PROVE  /\ EvalRows => EvalRows'
         /\ UNCHANGED <<Eval!Boxes, Eval!InScope, Eval!Images, Eval!Pairs>>
<1>1. UNCHANGED <<evalTruth, guess, preparedTruth, raw, preparedGuess, scoped>> BY DEF EvalIndices
<1>2. UNCHANGED EvalSound /\ UNCHANGED EvalSplit
  BY <1>1 DEF EvalSound, EvalSplit, Eval!Valid, Eval!Proper, Eval!Background
<1>3. UNCHANGED Eval!Images BY <1>1 DEF Eval!Images, Eval!T
<1>4. UNCHANGED Eval!Boxes /\ UNCHANGED Eval!InScope
  BY <1>1, <1>3 DEF Eval!Boxes, Eval!InScope, Eval!T, Eval!G
<1>5. UNCHANGED Eval!Pairs BY <1>1, <1>4 DEF Eval!Pairs, Eval!T, Eval!G
<1> QED BY <1>1, <1>2, <1>3, <1>4, <1>5 DEF EvalRows, EvalListed, Lists

\* What the matches say depends on them and on the rows.
LEMMA EvalSaidSame ==
  ASSUME UNCHANGED EvalIndices
  PROVE  /\ EvalJudged(found)' <=> EvalJudged(found')
         /\ EvalCovered(found)' <=> EvalCovered(found')
         /\ EvalJudged(kept)' <=> EvalJudged(kept')
         /\ EvalCovered(kept)' <=> EvalCovered(kept')
<1>1. UNCHANGED <<evalTruth, guess, preparedTruth, raw, preparedGuess, scoped>>
      /\ UNCHANGED <<Eval!Boxes, Eval!InScope, Eval!Images, Eval!Pairs>>
  BY EvalSame DEF EvalIndices
<1>2. \A m : /\ EvalHit(m)' <=> EvalHit(m)
             /\ EvalFalse(m)' <=> EvalFalse(m)
             /\ EvalMissed(m)' <=> EvalMissed(m)
  BY <1>1 DEF EvalHit, EvalFalse, EvalMissed, Eval!T, Eval!G
<1>3. EvalJudged(found)' <=> EvalJudged(found') BY <1>2 DEF EvalJudged
<1>4. EvalJudged(kept)' <=> EvalJudged(kept') BY <1>2 DEF EvalJudged
<1>5. EvalCovered(found)' <=> EvalCovered(found') BY <1>1 DEF EvalCovered, Eval!T
<1>6. EvalCovered(kept)' <=> EvalCovered(kept') BY <1>1 DEF EvalCovered, Eval!T
<1> QED BY <1>3, <1>4, <1>5, <1>6

\* A matching judges every prediction and every box once.
EvalVerdicts(M, alone, near) ==
  {Eval!Record("TP", p[1], p[2], Eval!T(p[1]).label) : p \in M}
    \union {Eval!Record("FP", near[j], j, Eval!G(j).label) : j \in alone}
    \union {Eval!Record("FN", i, 0, Eval!T(i).label) : i \in Eval!Boxes \ {p[1] : p \in M}}
LEMMA EvalMatched ==
  ASSUME NEW M \in Eval!Matchings, NEW alone, alone = Eval!InScope \ {p[2] : p \in M}, NEW near
  PROVE  EvalJudged(EvalVerdicts(M, alone, near)) /\ EvalCovered(EvalVerdicts(M, alone, near))
<1> DEFINE F == EvalVerdicts(M, alone, near)
<1> USE DEF EvalVerdicts
<1> USE DEF Eval!Record
<1>1. /\ M \subseteq Eval!Pairs
      /\ \A p \in M : /\ p = <<p[1], p[2]>> /\ p[1] \in Eval!Boxes /\ p[2] \in Eval!InScope
      /\ \A p, q \in M : p # q => p[1] # q[1] /\ p[2] # q[2]
  BY DEF Eval!Matchings, Eval!Pairs
<1> DEFINE hits == {Eval!Record("TP", p[1], p[2], Eval!T(p[1]).label) : p \in M}
           wrong == {Eval!Record("FP", near[j], j, Eval!G(j).label) : j \in alone}
           missed == {Eval!Record("FN", i, 0, Eval!T(i).label) : i \in Eval!Boxes \ {p[1] : p \in M}}
<1>2. ASSUME NEW m \in hits
      PROVE  /\ EvalHit(m) /\ <<m.truth, m.guess>> \in M
             /\ m = Eval!Record("TP", m.truth, m.guess, Eval!T(m.truth).label)
  <2>1. PICK p \in M : m = Eval!Record("TP", p[1], p[2], Eval!T(p[1]).label) OBVIOUS
  <2>2. m.type = "TP" /\ m.truth = p[1] /\ m.guess = p[2] /\ m.class = Eval!T(p[1]).label BY <2>1
  <2>3. <<m.truth, m.guess>> = p BY <1>1, <2>2
  <2> QED BY <1>1, <2>1, <2>2, <2>3 DEF EvalHit
<1>3. ASSUME NEW m \in wrong
      PROVE  /\ EvalFalse(m) /\ m.guess \in alone
             /\ m = Eval!Record("FP", near[m.guess], m.guess, Eval!G(m.guess).label)
  BY DEF EvalFalse
<1>4. ASSUME NEW m \in missed
      PROVE  /\ EvalMissed(m) /\ m.truth \notin {p[1] : p \in M}
             /\ m = Eval!Record("FN", m.truth, 0, Eval!T(m.truth).label)
  BY DEF EvalMissed
<1>5. \A m \in F : m \in hits \/ m \in wrong \/ m \in missed OBVIOUS
<1>6. /\ \A i \in Eval!Boxes \ {p[1] : p \in M} : Eval!Record("FN", i, 0, Eval!T(i).label) \in F
      /\ \A p \in M : Eval!Record("TP", p[1], p[2], Eval!T(p[1]).label) \in F
  OBVIOUS
<1> HIDE DEF hits, wrong, missed, F, EvalVerdicts
<1>7. \A m \in F : EvalHit(m) \/ EvalFalse(m) \/ EvalMissed(m) BY <1>2, <1>3, <1>4, <1>5
<1>8. ASSUME NEW m \in F, NEW n \in F, m.guess = n.guess, m.guess # 0 PROVE m = n
  <2>1. m \notin missed /\ n \notin missed BY <1>4, <1>8 DEF EvalMissed
  <2>2. CASE m \in hits /\ n \in hits
    <3>1. <<m.truth, m.guess>> \in M /\ <<n.truth, n.guess>> \in M BY <1>2, <2>2
    <3>2. <<m.truth, m.guess>> = <<n.truth, n.guess>> BY <1>1, <1>8, <3>1
    <3>3. m.truth = n.truth BY <3>2
    <3> QED BY <1>2, <1>8, <2>2, <3>3
  <2>3. CASE m \in wrong /\ n \in wrong BY <1>3, <1>8, <2>3
  <2>4. \A k \in hits, l \in wrong : k.guess # l.guess
    <3>1. SUFFICES ASSUME NEW k \in hits, NEW l \in wrong PROVE k.guess # l.guess OBVIOUS
    <3>2. <<k.truth, k.guess>> \in M BY <1>2
    <3>3. k.guess \in {p[2] : p \in M} BY <3>2
    <3>4. l.guess \in alone BY <1>3
    <3> QED BY <3>3, <3>4
  <2> QED BY <1>5, <1>8, <2>1, <2>2, <2>3, <2>4
<1>9. ASSUME NEW m \in F, NEW n \in F, m.type # "FP", n.type # "FP", m.truth = n.truth
      PROVE  m = n
  <2>1. m \notin wrong /\ n \notin wrong BY <1>3, <1>9 DEF EvalFalse
  <2>2. CASE m \in hits /\ n \in hits
    <3>1. <<m.truth, m.guess>> \in M /\ <<n.truth, n.guess>> \in M BY <1>2, <2>2
    <3>2. <<m.truth, m.guess>> = <<n.truth, n.guess>> BY <1>1, <1>9, <3>1
    <3>3. m.guess = n.guess BY <3>2
    <3> QED BY <1>2, <1>9, <2>2, <3>3
  <2>3. CASE m \in missed /\ n \in missed BY <1>4, <1>9, <2>3
  <2>4. \A k \in hits, l \in missed : k.truth # l.truth
    <3>1. SUFFICES ASSUME NEW k \in hits, NEW l \in missed PROVE k.truth # l.truth OBVIOUS
    <3>2. <<k.truth, k.guess>> \in M BY <1>2
    <3>3. k.truth \in {p[1] : p \in M} BY <3>2
    <3>4. l.truth \notin {p[1] : p \in M} BY <1>4
    <3> QED BY <3>3, <3>4
  <2> QED BY <1>5, <1>9, <2>1, <2>2, <2>3, <2>4
<1>10. ASSUME NEW i \in Eval!Boxes PROVE \E m \in F : m.type # "FP" /\ m.truth = i
  <2>1. CASE i \in {p[1] : p \in M} BY <1>6, <2>1
  <2>2. CASE i \notin {p[1] : p \in M}
    <3> DEFINE m == Eval!Record("FN", i, 0, Eval!T(i).label)
    <3>1. i \in Eval!Boxes \ {p[1] : p \in M} BY <2>2
    <3>2. m \in F BY <1>6, <3>1
    <3>3. m.type # "FP" /\ m.truth = i OBVIOUS
    <3> QED BY <3>2, <3>3
  <2> QED BY <2>1, <2>2
<1> QED BY <1>7, <1>8, <1>9, <1>10 DEF EvalJudged, EvalCovered, F

\* Slicing by confidence leaves one judgement of every box.
LEMMA EvalThinned ==
  ASSUME EvalJudged(found), EvalCovered(found), NEW K,
         K = {m \in {n \in found : n.class \in Scored} : m.type = "FN" \/ Eval!Passes(m)}
               \union {Eval!Record("FN", m.truth, 0, m.class) :
                         m \in {n \in {l \in found : l.class \in Scored} :
                                  n.type = "TP" /\ ~Eval!Passes(n)}}
  PROVE  EvalJudged(K) /\ EvalCovered(K) /\ \A m \in K : m.class \in Scored
<1> DEFINE stays == {m \in found : m.class \in Scored /\ (m.type = "FN" \/ Eval!Passes(m))}
           turns == {m \in found : m.class \in Scored /\ m.type = "TP" /\ ~Eval!Passes(m)}
           turned(m) == Eval!Record("FN", m.truth, 0, m.class)
<1>1. K = stays \union {turned(m) : m \in turns} OBVIOUS
<1>2. \A m : turned(m).type = "FN" /\ turned(m).truth = m.truth /\ turned(m).guess = 0
             /\ turned(m).class = m.class
  BY DEF Eval!Record
<1>3. /\ \A m \in stays : m \in found /\ m.class \in Scored
      /\ \A m \in turns : m \in found /\ m.class \in Scored /\ m.type = "TP"
      /\ stays \intersect turns = {}
  OBVIOUS
<1>4. \A m \in found : m.class \in Scored =>
        m \in stays \/ m \in turns \/ m.type = "FP"
  <2>1. \A m \in found : m.type \in {"TP", "FP", "FN"}
    BY DEF EvalJudged, EvalHit, EvalFalse, EvalMissed
  <2> QED BY <2>1
<1>5. \A m \in found : EvalHit(m) \/ EvalFalse(m) \/ EvalMissed(m) BY DEF EvalJudged
<1> HIDE DEF stays, turns, turned
<1>6. ASSUME NEW m \in turns PROVE EvalMissed(turned(m))
  <2>1. EvalHit(m) BY <1>3, <1>5 DEF EvalFalse, EvalMissed
  <2> QED BY <1>2, <2>1 DEF EvalHit, EvalMissed, Eval!Pairs
<1>7. \A m \in K : EvalHit(m) \/ EvalFalse(m) \/ EvalMissed(m) BY <1>1, <1>3, <1>5, <1>6
<1>8. ASSUME NEW m \in K, NEW n \in K, m.guess = n.guess, m.guess # 0 PROVE m = n
  <2>1. m \in stays /\ n \in stays BY <1>1, <1>2, <1>8
  <2> QED BY <1>3, <1>8, <2>1 DEF EvalJudged
<1>9. ASSUME NEW m \in K, NEW n \in K, m.type # "FP", n.type # "FP", m.truth = n.truth
      PROVE  m = n
  <2>1. \A k, l \in found : k.type # "FP" /\ l.type # "FP" /\ k.truth = l.truth => k = l
    BY DEF EvalJudged
  <2>2. CASE m \in stays /\ n \in stays BY <1>3, <1>9, <2>1, <2>2
  <2>3. ASSUME NEW k \in turns, NEW l \in stays, l.type # "FP", l.truth = turned(k).truth
        PROVE  FALSE
    <3>1. k = l BY <1>2, <1>3, <2>1, <2>3
    <3> QED BY <1>3, <3>1
  <2>4. ASSUME NEW k \in turns, NEW l \in turns, turned(k).truth = turned(l).truth
        PROVE  turned(k) = turned(l)
    <3>1. k = l BY <1>2, <1>3, <2>1, <2>4
    <3> QED BY <3>1
  <2> QED BY <1>1, <1>9, <2>2, <2>3, <2>4
<1>10. ASSUME NEW i \in Eval!Boxes, Eval!T(i).label \in Scored
       PROVE  \E m \in K : m.type # "FP" /\ m.truth = i
  <2>1. PICK m \in found : m.type # "FP" /\ m.truth = i BY <1>10 DEF EvalCovered
  <2>2. m.class \in Scored BY <1>5, <1>10, <2>1 DEF EvalHit, EvalFalse, EvalMissed
  <2>3. CASE m \in stays BY <1>1, <2>1, <2>3
  <2>4. CASE m \in turns
    <3>1. turned(m) \in K BY <1>1, <2>4
    <3> QED BY <1>2, <2>1, <3>1
  <2> QED BY <1>4, <2>1, <2>2, <2>3, <2>4
<1>11. \A m \in K : m.class \in Scored BY <1>1, <1>2, <1>3
<1> QED BY <1>7, <1>8, <1>9, <1>10, <1>11 DEF EvalJudged, EvalCovered

\* Rows chosen from a file are listed in order.
LEMMA EvalChosen ==
  ASSUME NEW S \in SUBSET (1..Rows), NEW P \in SUBSET S
  PROVE  EvalListed(Eval!InOrder(P), S)
<1>1. Rows \in Nat BY ResultsAssumption
<1>2. IsFiniteSet(1..Rows) BY <1>1, FS_Interval
<1>3. P \in SUBSET (1..Rows) OBVIOUS
<1>4. IsFiniteSet(P) BY <1>2, <1>3, FS_Subset
<1>5. P \in SUBSET Nat BY <1>1, <1>3
<1>6. Lists(Eval!InOrder(P), P) BY <1>4, <1>5, Sorted
<1> QED BY <1>6 DEF EvalListed

\* The members of such a list.
LEMMA EvalMembers ==
  ASSUME NEW S, NEW s, EvalListed(s, S)
  PROVE  Eval!Members(s) \subseteq S
<1>1. PICK P \in SUBSET S : Lists(s, P) BY DEF EvalListed
<1> QED BY <1>1 DEF Lists, Eval!Members

\* Rows listed anew, and the lists that stay.
LEMMA EvalRenumbered ==
  ASSUME EvalRows, UNCHANGED <<evalTruth, guess>>,
         EvalListed(preparedTruth', 1..Rows), EvalListed(raw', EvalSound),
         EvalListed(preparedGuess', EvalSound), EvalListed(scoped', EvalSplit)
  PROVE  EvalRows'
<1>1. UNCHANGED EvalSound /\ UNCHANGED EvalSplit
  BY DEF EvalSound, EvalSplit, Eval!Valid, Eval!Proper, Eval!Background
<1>2. EvalListed(preparedTruth, 1..Rows)' BY DEF EvalListed, Lists
<1>3. EvalListed(raw, EvalSound)' BY <1>1 DEF EvalListed, Lists
<1>4. EvalListed(preparedGuess, EvalSound)' BY <1>1 DEF EvalListed, Lists
<1>5. EvalListed(scoped, EvalSplit)' BY <1>1 DEF EvalListed, Lists
<1> QED BY <1>2, <1>3, <1>4, <1>5 DEF EvalRows

LEMMA EvalStep ==
  ASSUME EvalInv, [Eval!Next]_(Eval!vars)
  PROVE  EvalInv'
<1>1. /\ EvalRows /\ EvalMatches
      /\ evalPc \in {"thresholds", "selected", "matched", "sliced", "scored"} =>
           DOMAIN evalThresholds = Scored
      /\ evalPc = "scored" => EvalStory(payload, exported, outcome)
  BY DEF EvalInv
<1>2. CASE Eval!PrepareTruth
  <2>1. /\ evalPc = "read" /\ evalPc' = "truth"
        /\ UNCHANGED <<evalTruth, guess, raw, preparedGuess, scoped>>
        /\ \E D \in Eval!Duplicates : preparedTruth' = Eval!InOrder((1..Rows) \ D)
    BY <1>2 DEF Eval!PrepareTruth, Eval!Step, Eval!source
  <2>2. EvalListed(preparedTruth', 1..Rows) BY <2>1, EvalChosen
  <2>3. EvalRows' BY <1>1, <2>1, <2>2, EvalRenumbered DEF EvalRows
  <2> QED BY <2>1, <2>3 DEF EvalInv, EvalMatches
<1>3. CASE Eval!FilterInvalid
  <2>1. /\ evalPc = "truth" /\ evalPc' = "filtered"
        /\ UNCHANGED <<evalTruth, guess, preparedTruth, preparedGuess, scoped>>
        /\ raw' = Eval!InOrder(EvalSound)
    BY <1>3 DEF Eval!FilterInvalid, Eval!Step, Eval!source, EvalSound
  <2>2. EvalListed(raw', EvalSound) BY <2>1, EvalChosen DEF EvalSound
  <2>3. EvalRows' BY <1>1, <2>1, <2>2, EvalRenumbered DEF EvalRows
  <2> QED BY <2>1, <2>3 DEF EvalInv, EvalMatches
<1>4. CASE Eval!PrepareGuesses
  <2>1. /\ evalPc = "filtered" /\ evalPc' = "prepared"
        /\ UNCHANGED <<evalTruth, guess, preparedTruth, raw, scoped>>
        /\ \E keep \in SUBSET Eval!Members(raw) : preparedGuess' = Eval!InOrder(keep)
    BY <1>4 DEF Eval!PrepareGuesses, Eval!Step, Eval!source
  <2>2. Eval!Members(raw) \subseteq EvalSound BY <1>1, EvalMembers DEF EvalRows
  <2>3. EvalListed(preparedGuess', EvalSound) BY <2>1, <2>2, EvalChosen DEF EvalSound
  <2>4. EvalRows' BY <1>1, <2>1, <2>3, EvalRenumbered DEF EvalRows
  <2> QED BY <2>1, <2>4 DEF EvalInv, EvalMatches
<1>5. CASE Eval!Thresholds
  <2>1. /\ evalPc = "prepared" /\ evalPc' = "thresholds" /\ UNCHANGED EvalIndices
        /\ \E t \in [Scored -> Confidences] : evalThresholds' = t
    BY <1>5 DEF Eval!Thresholds, Eval!Step, Eval!source, Eval!ready, EvalIndices
  <2>2. EvalRows' BY <1>1, <2>1, EvalSame
  <2> QED BY <2>1, <2>2 DEF EvalInv, EvalMatches
<1>6. CASE Eval!Select
  <2> DEFINE P == {i \in Eval!Members(preparedTruth) : evalTruth[i].split = Split}
  <2>1. /\ evalPc = "thresholds" /\ evalPc' = "selected"
        /\ UNCHANGED <<evalTruth, guess, preparedTruth, raw, preparedGuess, evalThresholds>>
        /\ scoped' = Eval!InOrder(P)
        /\ \A i \in Eval!Members(scoped') : Eval!Proper(evalTruth[i])
    BY <1>6 DEF Eval!Select, Eval!Step, Eval!source
  <2>2. Eval!Members(preparedTruth) \subseteq 1..Rows BY <1>1, EvalMembers DEF EvalRows
  <2>3. Lists(scoped', P)
    <3>1. Rows \in Nat BY ResultsAssumption
    <3>2. IsFiniteSet(1..Rows) BY <3>1, FS_Interval
    <3>3. P \in SUBSET (1..Rows) BY <2>2
    <3>4. IsFiniteSet(P) BY <3>2, <3>3, FS_Subset
    <3>5. P \in SUBSET Nat BY <3>1, <3>3
    <3> HIDE DEF P
    <3> QED BY <2>1, <3>4, <3>5, Sorted
  <2>4. P \subseteq EvalSplit
    <3>1. \A i \in P : i \in Eval!Members(scoped')
      <4> HIDE DEF P
      <4> QED BY <2>3 DEF Lists, Eval!Members
    <3> QED BY <2>1, <2>2, <3>1 DEF EvalSplit
  <2>5. EvalListed(scoped', EvalSplit)
    <3> HIDE DEF P
    <3> QED BY <2>3, <2>4 DEF EvalListed
  <2>6. EvalRows' BY <1>1, <2>1, <2>5, EvalRenumbered DEF EvalRows
  <2> QED BY <1>1, <2>1, <2>6 DEF EvalInv, EvalMatches
<1>7. CASE Eval!Match
  <2>1. /\ evalPc = "selected" /\ evalPc' = "matched" /\ UNCHANGED EvalIndices
        /\ UNCHANGED evalThresholds
    BY <1>7 DEF Eval!Match, Eval!Step, Eval!source, Eval!ready, EvalIndices
  <2>2. EvalJudged(found') /\ EvalCovered(found')
    <3>1. PICK M \in Eval!Matchings :
            \E near : found' = EvalVerdicts(M, Eval!InScope \ {p[2] : p \in M}, near)
      BY <1>7 DEF Eval!Match, EvalVerdicts
    <3> DEFINE alone == Eval!InScope \ {p[2] : p \in M}
    <3>2. PICK near : found' = EvalVerdicts(M, alone, near) BY <3>1
    <3>3. alone = Eval!InScope \ {p[2] : p \in M} OBVIOUS
    <3> HIDE DEF alone
    <3> QED BY <3>2, <3>3, EvalMatched
  <2>3. EvalRows' BY <1>1, <2>1, EvalSame
  <2>4. EvalMatches' BY <2>1, <2>2, EvalSaidSame DEF EvalMatches
  <2> QED BY <1>1, <2>1, <2>3, <2>4 DEF EvalInv
<1>8. CASE Eval!Slice
  <2>1. /\ evalPc = "matched" /\ evalPc' = "sliced" /\ UNCHANGED EvalIndices
        /\ UNCHANGED evalThresholds
    BY <1>8 DEF Eval!Slice, Eval!Step, Eval!source, Eval!ready, EvalIndices
  <2>2. kept' = {m \in {n \in found : n.class \in Scored} : m.type = "FN" \/ Eval!Passes(m)}
                  \union {Eval!Record("FN", m.truth, 0, m.class) :
                            m \in {n \in {l \in found : l.class \in Scored} :
                                     n.type = "TP" /\ ~Eval!Passes(n)}}
    BY <1>8 DEF Eval!Slice
  <2>3. EvalJudged(found) /\ EvalCovered(found) BY <1>1, <2>1 DEF EvalMatches
  <2>4. EvalJudged(kept') /\ EvalCovered(kept') /\ \A m \in kept' : m.class \in Scored
    BY <2>2, <2>3, EvalThinned
  <2>5. EvalRows' BY <1>1, <2>1, EvalSame
  <2>6. EvalMatches' BY <2>1, <2>4, EvalSaidSame DEF EvalMatches, EvalSliced
  <2> QED BY <1>1, <2>1, <2>5, <2>6 DEF EvalInv
<1>9. CASE Eval!Score
  <2>1. /\ evalPc = "sliced" /\ evalPc' = "scored" /\ UNCHANGED EvalIndices
        /\ UNCHANGED <<evalThresholds, kept>>
        /\ payload' = Eval!Payload /\ exported' = Eval!Exported /\ outcome' = Eval!Outcome
    BY <1>9 DEF Eval!Score, Eval!Step, Eval!source, Eval!ready, EvalIndices
  <2>2. EvalSliced BY <1>1, <2>1 DEF EvalMatches
  <2>3. EvalStory(payload', exported', outcome') BY <1>1, <2>1, <2>2, EvalAccounts
  <2>4. EvalStory(payload, exported, outcome)'
    <3>1. \A which, fate, c :
            EvalSaid(exported, which, fate, c)' = EvalSaid(exported', which, fate, c)
      BY <2>1 DEF EvalSaid, EvalIndices
    <3> QED BY <2>1, <2>3, <3>1 DEF EvalStory, EvalIndices, Eval!T, Eval!G
  <2>5. EvalRows' BY <1>1, <2>1, EvalSame
  <2>6. EvalMatches' BY <2>1, <2>2, EvalSaidSame DEF EvalMatches, EvalSliced
  <2> QED BY <1>1, <2>1, <2>4, <2>5, <2>6 DEF EvalInv
<1>10. CASE Eval!Refused
  <2>1. evalPc' = "refused" /\ UNCHANGED EvalIndices
    BY <1>10 DEF Eval!Refused, Eval!source, Eval!ready, EvalIndices
  <2>2. EvalRows' BY <1>1, <2>1, EvalSame
  <2> QED BY <2>1, <2>2 DEF EvalInv, EvalMatches
<1>11. CASE UNCHANGED Eval!vars
  <2>1. /\ UNCHANGED EvalIndices
        /\ UNCHANGED <<evalPc, evalThresholds, found, kept, payload, exported, outcome>>
    BY <1>11 DEF Eval!vars, Eval!source, Eval!ready, Eval!told, EvalIndices
  <2>2. EvalRows' BY <1>1, <2>1, EvalSame
  <2>3. EvalMatches' BY <1>1, <2>1, EvalSaidSame DEF EvalMatches, EvalSliced
  <2>4. EvalStory(payload, exported, outcome)' <=> EvalStory(payload, exported, outcome)
    BY <2>1 DEF EvalStory, EvalSaid, EvalIndices, Eval!T, Eval!G
  <2> QED BY <1>1, <2>1, <2>2, <2>3, <2>4 DEF EvalInv
<1> QED
  BY <1>2, <1>3, <1>4, <1>5, <1>6, <1>7, <1>8, <1>9, <1>10, <1>11 DEF Eval!Next, Eval!Done

(***************************************************************************)
(* For any rows, duplicates and thresholds the accounts of an evaluation   *)
(* agree: a row, its box in the payload and its flag have one fate (but    *)
(* for filtered predictions of classes that are not scored), and the       *)
(* counts of a class are its rows of that fate.                            *)
(* (build_evaluation_payload, build_result_rows, _outcome_from_matches)    *)
(***************************************************************************)
THEOREM Accounts == Spec => []OneStory
<1>1. Init => (focus = "evaluation" => EvalInv)
  <2> SUFFICES ASSUME Init, focus = "evaluation" PROVE EvalInv OBVIOUS
  <2>1. Eval!Init BY DEF Init
  <2>2. \A S : EvalListed(<<>>, S)
    <3>1. Cardinality({}) = 0 BY FS_EmptySet
    <3>2. <<>> \in [1..0 -> {}] /\ 1..0 = {} OBVIOUS
    <3>3. Lists(<<>>, {}) BY <3>1, <3>2 DEF Lists
    <3> QED BY <3>3 DEF EvalListed
  <2>3. EvalRows BY <2>1, <2>2 DEF EvalRows, Eval!Init
  <2> QED BY <2>1, <2>3 DEF EvalInv, EvalMatches, Eval!Init
<1>2. (focus = "evaluation" => EvalInv) /\ [Next]_vars => (focus = "evaluation" => EvalInv)'
  <2> SUFFICES ASSUME focus = "evaluation" => EvalInv, [Next]_vars, focus' = "evaluation"
               PROVE  EvalInv'
    OBVIOUS
  <2> QED BY ScoresFocus, EvalStep
<1>3. (focus = "evaluation" => EvalInv) => OneStory
  <2> SUFFICES ASSUME EvalInv, evalPc = "scored" PROVE Eval!OneStory
    BY DEF OneStory, Eval!OneStory
  <2>1. EvalStory(payload, exported, outcome) BY DEF EvalInv
  <2> QED
    BY <2>1
       DEF EvalStory, EvalSaid, Eval!OneStory, Eval!RowsSaid, Eval!Cardinality, Cardinality
<1> QED BY <1>1, <1>2, <1>3, PTL DEF Spec

-----------------------------------------------------------------------------
(* An evaluation in its panel (NativeEvaluation) *)

PanelListed(s) == Cardinality(DOMAIN s) \in Nat /\ DOMAIN s = 1..Cardinality(DOMAIN s)
PanelMatch(m) ==
  /\ m = Panel!Match(m.gt, m.pred, m.status)
  /\ \/ m.status = "TP" /\ m.gt \in Annotations /\ m.pred \in Detections
     \/ m.status = "FP" /\ m.gt \in Annotations \union {Absent} /\ m.pred \in Detections
     \/ m.status = "FN" /\ m.gt \in Annotations /\ m.pred = Absent
  /\ m.gt # Absent /\ m.pred # Absent => ImageOf[m.gt] = ImageOf[m.pred]
\* What the scorer says: every prediction is in one match, and every
\* annotation is found once or missed once.
PanelScored ==
  /\ PanelListed(matches)
  /\ \A i \in DOMAIN matches : PanelMatch(matches[i])
  /\ \A p \in Detections : \E i \in DOMAIN matches : matches[i].pred = p
  /\ \A i, k \in DOMAIN matches : matches[i].pred = matches[k].pred /\ matches[i].pred # Absent => i = k
  /\ \A g \in Annotations : \E i \in DOMAIN matches : matches[i].status # "FP" /\ matches[i].gt = g
  /\ \A i, k \in DOMAIN matches :
       matches[i].status # "FP" /\ matches[k].status # "FP" /\ matches[i].gt = matches[k].gt => i = k
\* The tuples of a native run: every box is in one of them, with a box of its image.
PanelTuple(m) ==
  /\ m.gt \in Annotations \union {Absent} /\ m.pred \in Detections \union {Absent}
  /\ m.gt # Absent /\ m.pred # Absent => ImageOf[m.gt] = ImageOf[m.pred]
PanelIn(b, m) == b \in {m.gt, m.pred}
PanelOnce(s, S) ==
  \A b \in Panel!Boxes :
    \E i \in S : PanelIn(b, s[i]) /\ \A k \in S : PanelIn(b, s[k]) => k = i
PanelWhole(s) ==
  PanelListed(s) /\ PanelOnce(s, DOMAIN s) /\ \A i \in DOMAIN s : PanelTuple(s[i])
PanelNative == PanelWhole(panelNative)
\* The partners written to the labels are those of the tuples.
PanelPartners ==
  \A i \in DOMAIN panelNative :
    /\ panelNative[i].gt # Absent => association[panelNative[i].gt] = panelNative[i].pred
    /\ panelNative[i].pred # Absent => association[panelNative[i].pred] = panelNative[i].gt
\* The results of the whole run, and what a view keeps of them.
PanelPairs == [i \in DOMAIN panelNative |-> <<panelNative[i].gt, panelNative[i].pred>>]
PanelIous == [i \in DOMAIN panelNative |-> Panel!Iou(panelNative[i])]
PanelSelected(v) == {i \in DOMAIN panelNative : Panel!Selected(v, <<panelNative[i].gt, panelNative[i].pred>>)}
PanelResults ==
  IF view = Absent THEN pairs = PanelPairs /\ ious = PanelIous
  ELSE /\ view \in SUBSET Panel!Boxes
       /\ origPairs = PanelPairs /\ origIous = PanelIous
       /\ pairs = Panel!Those(PanelPairs, PanelSelected(view))
       /\ ious = Panel!Those(PanelIous, PanelSelected(view))
\* As many labels as the panel counts.
PanelNavigable ==
  (shown # Absent /\ (view = Absent \/ view \in Panel!ByImage))
    => /\ \A s \in {"FP", "FN"} : shown.count[s] = Cardinality(shown.labels[s])
       /\ 2 * shown.count["TP"] = Cardinality(shown.labels["TP"])
PanelInv ==
  /\ PanelScored
  /\ panelPc \in {"scored", "registered", "saved", "loaded"}
  /\ panelPc # "scored" => PanelNative
  /\ panelPc \in {"saved", "loaded"} => PanelPartners
  /\ IF panelPc = "loaded" THEN PanelResults ELSE view = Absent /\ shown = Absent
  /\ PanelNavigable

\* A list of the members of a set.
LEMMA ListedSet ==
  ASSUME NEW S, IsFiniteSet(S), NEW s, Lists(s, S)
  PROVE  PanelListed(s) /\ Cardinality(DOMAIN s) = Cardinality(S)
<1>1. Cardinality(S) \in Nat BY FS_CardinalityType
<1>2. DOMAIN s = 1..Cardinality(S) BY DEF Lists
<1>3. Cardinality(DOMAIN s) = Cardinality(S) BY <1>1, <1>2, FS_Interval
<1> QED BY <1>1, <1>2, <1>3 DEF PanelListed

LEMMA PanelToldOnce ==
  ASSUME NEW judge \in Panel!Judgements, Lists(matches, Panel!Told(judge)),
         IsFiniteSet(Panel!Told(judge))
  PROVE  PanelScored
<1> DEFINE hit == {judge[p][1] : p \in {q \in Detections : judge[q][2] = "TP"}}
           said(p) == Panel!Match(judge[p][1], p, judge[p][2])
           lost(g) == Panel!Match(g, Absent, "FN")
<1>1. Panel!Told(judge) = {said(p) : p \in Detections} \union {lost(g) : g \in Annotations \ hit}
  BY DEF Panel!Told
<1>2. /\ \A p \in Detections :
           /\ \/ judge[p][1] = Absent /\ judge[p][2] = "FP"
              \/ judge[p][1] \in Annotations /\ judge[p][2] \in {"TP", "FP"}
           /\ judge[p][1] # Absent => ImageOf[judge[p][1]] = ImageOf[p]
           /\ judge[p] = <<judge[p][1], judge[p][2]>>
      /\ \A p, q \in Detections : p # q /\ judge[p] = judge[q] => judge[p][2] = "FP"
  BY DEF Panel!Judgements, Panel!Near
<1>3. Absent \notin Annotations \union Detections BY ResultsAssumption
<1>4. /\ \A p : said(p).gt = judge[p][1] /\ said(p).pred = p /\ said(p).status = judge[p][2]
      /\ \A p : said(p) = Panel!Match(said(p).gt, said(p).pred, said(p).status)
  BY DEF Panel!Match
<1>5. /\ \A g : lost(g).gt = g /\ lost(g).pred = Absent /\ lost(g).status = "FN"
      /\ \A g : lost(g) = Panel!Match(lost(g).gt, lost(g).pred, lost(g).status)
  BY DEF Panel!Match
<1> HIDE DEF said, lost
<1>6. PanelListed(matches) BY ListedSet
<1>7. /\ \A i \in DOMAIN matches : matches[i] \in Panel!Told(judge)
      /\ \A i, k \in DOMAIN matches : matches[i] = matches[k] => i = k
      /\ \A m \in Panel!Told(judge) : \E i \in DOMAIN matches : matches[i] = m
  BY DEF Lists
<1>8. \A m \in Panel!Told(judge) :
        \/ \E p \in Detections : m = said(p)
        \/ \E g \in Annotations \ hit : m = lost(g)
  BY <1>1
<1>9. \A i \in DOMAIN matches : PanelMatch(matches[i])
  <2> SUFFICES ASSUME NEW m \in Panel!Told(judge) PROVE PanelMatch(m) BY <1>7
  <2>1. CASE \E p \in Detections : m = said(p)
    <3>1. PICK p \in Detections : m = said(p) BY <2>1
    <3> QED BY <1>2, <1>3, <1>4, <3>1 DEF PanelMatch
  <2>2. CASE \E g \in Annotations \ hit : m = lost(g)
    BY <1>5, <2>2 DEF PanelMatch
  <2> QED BY <1>8, <2>1, <2>2
<1>10. ASSUME NEW p \in Detections PROVE \E i \in DOMAIN matches : matches[i].pred = p
  <2>1. said(p) \in Panel!Told(judge) BY <1>1
  <2> QED BY <1>4, <1>7, <2>1
<1>11. ASSUME NEW i \in DOMAIN matches, NEW k \in DOMAIN matches,
              matches[i].pred = matches[k].pred, matches[i].pred # Absent
       PROVE  i = k
  <2>1. \A m \in Panel!Told(judge) : m.pred # Absent => m = said(m.pred) BY <1>4, <1>5, <1>8
  <2>2. matches[i] = matches[k] BY <1>7, <1>11, <2>1
  <2> QED BY <1>7, <2>2
<1>12. ASSUME NEW g \in Annotations
       PROVE  \E i \in DOMAIN matches : matches[i].status # "FP" /\ matches[i].gt = g
  <2>1. CASE g \in hit
    <3>1. PICK p \in Detections : judge[p][2] = "TP" /\ judge[p][1] = g BY <2>1
    <3>2. said(p) \in Panel!Told(judge) BY <1>1
    <3> QED BY <1>4, <1>7, <3>1, <3>2
  <2>2. CASE g \notin hit
    <3>1. lost(g) \in Panel!Told(judge) BY <1>1, <2>2
    <3> QED BY <1>5, <1>7, <3>1
  <2> QED BY <2>1, <2>2
<1>13. ASSUME NEW i \in DOMAIN matches, NEW k \in DOMAIN matches, matches[i].status # "FP",
              matches[k].status # "FP", matches[i].gt = matches[k].gt
       PROVE  i = k
  <2> DEFINE m == matches[i]
             n == matches[k]
  <2>1. m \in Panel!Told(judge) /\ n \in Panel!Told(judge) BY <1>7
  <2>2. \A l \in Panel!Told(judge) : l.status # "FP" =>
          \/ l.pred \in Detections /\ l = said(l.pred) /\ judge[l.pred] = <<l.gt, "TP">>
          \/ l.gt \notin hit /\ l = lost(l.gt)
    <3> SUFFICES ASSUME NEW l \in Panel!Told(judge), l.status # "FP"
                 PROVE  \/ l.pred \in Detections /\ l = said(l.pred) /\ judge[l.pred] = <<l.gt, "TP">>
                        \/ l.gt \notin hit /\ l = lost(l.gt)
      OBVIOUS
    <3>1. CASE \E p \in Detections : l = said(p)
      <4>1. PICK p \in Detections : l = said(p) BY <3>1
      <4>2. l.pred = p /\ l.gt = judge[p][1] /\ l.status = judge[p][2] BY <1>4, <4>1
      <4>3. judge[p][2] = "TP" /\ judge[p] = <<judge[p][1], judge[p][2]>> BY <1>2, <4>2
      <4> QED BY <4>1, <4>2, <4>3
    <3>2. CASE \E g \in Annotations \ hit : l = lost(g) BY <1>5, <3>2
    <3> QED BY <1>8, <3>1, <3>2
  <2>3. \A l \in Panel!Told(judge) :
          l.pred \in Detections /\ judge[l.pred] = <<l.gt, "TP">> => l.gt \in hit
    <3> SUFFICES ASSUME NEW p \in Detections, NEW g, judge[p] = <<g, "TP">> PROVE g \in hit
      OBVIOUS
    <3>1. judge[p][1] = g /\ judge[p][2] = "TP" BY <1>2
    <3> QED BY <3>1
  <2>4. CASE m.pred \in Detections /\ n.pred \in Detections
                /\ judge[m.pred] = <<m.gt, "TP">> /\ judge[n.pred] = <<n.gt, "TP">>
    <3>1. judge[m.pred] = judge[n.pred] /\ judge[m.pred][2] = "TP" BY <1>13, <2>4
    <3>2. m.pred = n.pred BY <1>2, <2>4, <3>1
    <3> QED BY <1>3, <1>11, <2>4, <3>2
  <2>5. CASE m = lost(m.gt) /\ n = lost(n.gt) BY <1>7, <1>13, <2>5
  <2> HIDE DEF m, n, hit
  <2>6. m.gt = n.gt /\ m.status # "FP" /\ n.status # "FP" BY <1>13 DEF m, n
  <2> QED BY <2>1, <2>2, <2>3, <2>4, <2>5, <2>6
<1> QED BY <1>6, <1>9, <1>10, <1>11, <1>12, <1>13 DEF PanelScored

LEMMA PanelTold ==
  ASSUME NEW judge \in Panel!Judgements, matches \in Panel!SetToSeqs(Panel!Told(judge))
  PROVE  PanelScored
<1> DEFINE hit == {judge[p][1] : p \in {q \in Detections : judge[q][2] = "TP"}}
           said == {Panel!Match(judge[p][1], p, judge[p][2]) : p \in Detections}
           lost == {Panel!Match(g, Absent, "FN") : g \in Annotations \ hit}
<1>1. IsFiniteSet(Annotations) /\ IsFiniteSet(Detections) BY ResultsAssumption
<1>2. IsFiniteSet(said)
  <2> DEFINE f == [p \in Detections |-> Panel!Match(judge[p][1], p, judge[p][2])]
  <2>1. f \in Surjection(Detections, said) BY DEF Surjection
  <2> HIDE DEF f
  <2> QED BY <1>1, <2>1, FS_Surjection
<1>3. IsFiniteSet(lost)
  <2> DEFINE f == [g \in Annotations \ hit |-> Panel!Match(g, Absent, "FN")]
  <2>1. f \in Surjection(Annotations \ hit, lost) BY DEF Surjection
  <2>2. IsFiniteSet(Annotations \ hit) BY <1>1, FS_Subset
  <2> HIDE DEF f, hit
  <2> QED BY <2>1, <2>2, FS_Surjection
<1>4. Panel!Told(judge) = said \union lost BY DEF Panel!Told
<1>5. IsFiniteSet(Panel!Told(judge))
  <2> HIDE DEF said, lost
  <2> QED BY <1>2, <1>3, <1>4, FS_Union
<1>6. matches \in Eval!SetToSeqs(Panel!Told(judge))
  BY DEF Panel!SetToSeqs, Eval!SetToSeqs, Panel!Cardinality, Eval!Cardinality
<1> QED BY <1>5, <1>6, Listing, PanelToldOnce

\* Taking the elements at some places keeps them, in order.
LEMMA PanelThose ==
  ASSUME NEW s, NEW S \in SUBSET Nat, IsFiniteSet(S)
  PROVE  /\ Lists(Panel!InOrder(S), S) /\ Cardinality(S) \in Nat
         /\ Panel!Those(s, S) = [k \in 1..Cardinality(S) |-> s[Panel!InOrder(S)[k]]]
<1> DEFINE order == Panel!InOrder(S)
<1>1. Lists(order, S) BY Sorted
<1>2. DOMAIN order = 1..Cardinality(S)
  <2> HIDE DEF order
  <2> QED BY <1>1 DEF Lists
<1>3. Panel!Those(s, S) = [k \in DOMAIN order |-> s[order[k]]] BY DEF Panel!Those
<1>4. Cardinality(S) \in Nat BY FS_CardinalityType
<1> HIDE DEF order
<1>5. Panel!Those(s, S) = [k \in 1..Cardinality(S) |-> s[order[k]]] BY <1>2, <1>3
<1> QED BY <1>1, <1>4, <1>5 DEF order

\* Two selections one after the other: the elements of both sets of places.
LEMMA PanelJoined ==
  ASSUME NEW s, NEW S \in SUBSET Nat, NEW T \in SUBSET Nat, IsFiniteSet(S), IsFiniteSet(T),
         S \intersect T = {}
  PROVE  LET n == Cardinality(S \union T)
         IN  \E src : /\ Lists(src, S \union T)
                      /\ Panel!Those(s, S) \o Panel!Those(s, T) = [k \in 1..n |-> s[src[k]]]
<1> DEFINE a == Panel!InOrder(S)
           b == Panel!InOrder(T)
           N == Cardinality(S)
           M == Cardinality(T)
           L == Cardinality(S \union T)
           from(k) == IF k <= N THEN a[k] ELSE b[k - N]
           src == [k \in 1..L |-> from(k)]
           X == {s[i] : i \in S \union T}
           p == Panel!Those(s, S)
           q == Panel!Those(s, T)
<1>1. /\ N \in Nat /\ Lists(a, S) /\ p = [k \in 1..N |-> s[a[k]]]
      /\ M \in Nat /\ Lists(b, T) /\ q = [k \in 1..M |-> s[b[k]]]
  BY PanelThose
<1>2. L = N + M
  <2>1. L = N + M - Cardinality(S \intersect T) BY FS_Union
  <2>2. Cardinality(S \intersect T) = 0 BY FS_EmptySet
  <2> HIDE DEF N, M, L
  <2> QED BY <1>1, <2>1, <2>2
<1> HIDE DEF a, b, N, M, L, p, q
<1>3. /\ \A k \in 1..N : a[k] \in S
      /\ \A k \in 1..M : b[k] \in T
      /\ \A j, k \in 1..N : a[j] = a[k] => j = k
      /\ \A j, k \in 1..M : b[j] = b[k] => j = k
      /\ \A x \in S : \E k \in 1..N : a[k] = x
      /\ \A x \in T : \E k \in 1..M : b[k] = x
  BY <1>1 DEF Lists, N, M
<1>4. /\ \A k \in 1..N : k \in 1..L /\ from(k) = a[k]
      /\ \A k \in 1..L : k \in 1..N \/ (k - N \in 1..M /\ from(k) = b[k - N])
      /\ \A k \in 1..M : k + N \in 1..L /\ from(k + N) = b[k]
  BY <1>1, <1>2
<1>5. \A k \in 1..L : src[k] = from(k) OBVIOUS
<1>6. src = [k \in 1..L |-> src[k]] OBVIOUS
<1>7. \A k \in 1..L : \/ (k \in 1..N /\ from(k) = a[k] /\ from(k) \in S)
                      \/ (k - N \in 1..M /\ from(k) = b[k - N] /\ from(k) \in T)
  <2> HIDE DEF from
  <2> QED BY <1>3, <1>4
<1> HIDE DEF from, src
<1>8. Lists(src, S \union T)
  <2>1. src \in [1..L -> S \union T] BY <1>5, <1>6, <1>7
  <2>2. ASSUME NEW j \in 1..L, NEW k \in 1..L, src[j] = src[k] PROVE j = k
    <3>1. from(j) = from(k) BY <1>5, <2>2
    <3>2. CASE j \in 1..N /\ from(j) = a[j] /\ from(j) \in S
      <4>1. ~(from(k) \in T) BY <3>1, <3>2
      <4>2. k \in 1..N /\ from(k) = a[k] BY <1>7, <4>1
      <4> QED BY <1>3, <3>1, <3>2, <4>2
    <3>3. CASE j - N \in 1..M /\ from(j) = b[j - N] /\ from(j) \in T
      <4>1. k - N \in 1..M /\ from(k) = b[k - N] BY <1>7, <3>1, <3>3
      <4>2. j - N = k - N BY <1>3, <3>1, <3>3, <4>1
      <4>3. L \in Nat BY <1>1, <1>2
      <4> QED BY <1>1, <4>2, <4>3
    <3> QED BY <1>7, <3>2, <3>3
  <2>3. ASSUME NEW x \in S \union T PROVE \E k \in 1..L : src[k] = x
    <3>1. CASE x \in S
      <4>1. PICK k \in 1..N : a[k] = x BY <1>3, <3>1
      <4> QED BY <1>4, <1>5, <4>1
    <3>2. CASE x \in T
      <4>1. PICK k \in 1..M : b[k] = x BY <1>3, <3>2
      <4> QED BY <1>4, <1>5, <4>1
    <3> QED BY <3>1, <3>2
  <2> QED BY <2>1, <2>2, <2>3 DEF Lists, L
<1>9. p \o q = [k \in 1..L |-> s[src[k]]]
  <2>1. \A x \in S \union T : s[x] \in X OBVIOUS
  <2> HIDE DEF X
  <2>2. p \in Seq(X) /\ Len(p) = N
    <3>1. p \in [1..N -> X] BY <1>1, <1>3, <2>1
    <3> QED BY <1>1, <3>1, SeqDef, LenProperties
  <2>3. q \in Seq(X) /\ Len(q) = M
    <3>1. q \in [1..M -> X] BY <1>1, <1>3, <2>1
    <3> QED BY <1>1, <3>1, SeqDef, LenProperties
  <2>4. /\ p \o q \in Seq(X) /\ Len(p \o q) = N + M
        /\ \A k \in 1..(N + M) : (p \o q)[k] = IF k <= N THEN p[k] ELSE q[k - N]
    BY <2>2, <2>3, ConcatProperties
  <2>5. p \o q = [k \in 1..L |-> (p \o q)[k]] BY <1>2, <2>4, LenProperties
  <2>6. ASSUME NEW k \in 1..L PROVE (p \o q)[k] = s[src[k]]
    <3>1. CASE k \in 1..N /\ from(k) = a[k]
      <4>1. p[k] = s[a[k]] BY <1>1, <3>1
      <4>2. (p \o q)[k] = p[k] BY <1>1, <1>2, <2>4, <3>1
      <4> QED BY <1>5, <3>1, <4>1, <4>2
    <3>2. CASE k - N \in 1..M /\ from(k) = b[k - N]
      <4>1. q[k - N] = s[b[k - N]] BY <1>1, <3>2
      <4>2. ~(k <= N) BY <1>1, <1>2, <3>2
      <4>3. (p \o q)[k] = q[k - N] BY <1>2, <2>4, <4>2
      <4> QED BY <1>5, <3>2, <4>1, <4>3
    <3> QED BY <1>7, <3>1, <3>2
  <2> QED BY <2>5, <2>6
<1> QED BY <1>8, <1>9 DEF p, q, L

\* canonical_matches puts every box into one tuple: a prediction into its own,
\* an annotation into that of the prediction that found it, else of the first
\* wrong one, else into a tuple of its own.
LEMMA PanelCanonical == PanelScored => PanelWhole(Panel!CanonicalMatches)
<1> SUFFICES ASSUME PanelScored PROVE PanelWhole(Panel!CanonicalMatches) OBVIOUS
<1> DEFINE D == DOMAIN matches
           made(i) == IF matches[i].status = "FP" /\ Panel!Claimed(i)
                      THEN [matches[i] EXCEPT !.gt = Absent] ELSE matches[i]
           tuple == [i \in D |-> made(i)]
           taking == {i \in D : tuple[i].status # "FN"}
           predictions == Panel!Those(tuple, taking)
           partners == {m.gt : m \in Panel!Members(predictions)}
           missed == {i \in D : tuple[i].status = "FN" /\ tuple[i].gt \notin partners}
           chosen == taking \union missed
           Cell(i, b) == PanelIn(b, tuple[i])
<1>1. Panel!CanonicalMatches = predictions \o Panel!Those(tuple, missed)
  BY DEF Panel!CanonicalMatches
<1>2. Cardinality(D) \in Nat /\ D = 1..Cardinality(D) BY DEF PanelScored, PanelListed
<1>3. IsFiniteSet(D) /\ D \in SUBSET Nat
  <2> HIDE DEF D
  <2>1. IsFiniteSet(1..Cardinality(D)) BY <1>2, FS_Interval
  <2> QED BY <1>2, <2>1
<1>4. Absent \notin Annotations \union Detections /\ Annotations \intersect Detections = {}
  BY ResultsAssumption
<1>5. \A i \in D : PanelMatch(matches[i]) BY DEF PanelScored
<1>6. ASSUME NEW i \in D
      PROVE  /\ tuple[i].status = matches[i].status /\ tuple[i].pred = matches[i].pred
             /\ tuple[i].gt = IF matches[i].status = "FP" /\ Panel!Claimed(i) THEN Absent ELSE matches[i].gt
  <2>1. matches[i] = [gt |-> matches[i].gt, pred |-> matches[i].pred, status |-> matches[i].status]
    BY <1>5 DEF PanelMatch, Panel!Match
  <2>2. tuple[i] = made(i) OBVIOUS
  <2> HIDE DEF tuple, D
  <2> QED BY <2>1, <2>2
<1>7. /\ taking \in SUBSET Nat /\ IsFiniteSet(taking)
      /\ missed \in SUBSET Nat /\ IsFiniteSet(missed)
      /\ taking \intersect missed = {}
  <2>1. taking \in SUBSET D /\ missed \in SUBSET D /\ taking \intersect missed = {} OBVIOUS
  <2> HIDE DEF taking, missed, D
  <2> QED BY <1>3, <2>1, FS_Subset
<1>8. \A g : g \in partners <=> \E i \in taking : tuple[i].gt = g
  <2> DEFINE order == Panel!InOrder(taking)
             n == Cardinality(taking)
  <2>1. Lists(order, taking) /\ predictions = [k \in 1..n |-> tuple[order[k]]]
    <3> HIDE DEF tuple, taking
    <3> QED BY <1>7, PanelThose
  <2>2. partners = {m.gt : m \in {predictions[k] : k \in DOMAIN predictions}} BY DEF Panel!Members
  <2> HIDE DEF order, taking, predictions, partners, tuple
  <2>3. /\ \A k \in 1..n : order[k] \in taking
        /\ \A i \in taking : \E k \in 1..n : order[k] = i
    BY <2>1 DEF Lists
  <2> QED BY <2>1, <2>2, <2>3
<1> HIDE DEF partners, predictions
<1>9. /\ \A i : i \in taking <=> i \in D /\ matches[i].status # "FN"
      /\ \A i : i \in missed <=> i \in D /\ matches[i].status = "FN" /\ matches[i].gt \notin partners
  <2>1. /\ \A i : i \in taking <=> i \in D /\ tuple[i].status # "FN"
        /\ \A i : i \in missed <=> i \in D /\ tuple[i].status = "FN" /\ tuple[i].gt \notin partners
    OBVIOUS
  <2> HIDE DEF tuple, D, taking, missed
  <2> QED BY <1>6, <2>1
<1>10. \A i \in D : Panel!Claimed(i) <=>
         \/ \E j \in D : matches[j].status = "TP" /\ matches[j].gt = matches[i].gt
         \/ \E j \in 1..(i - 1) : matches[j].status = "FP" /\ matches[j].gt = matches[i].gt
  BY DEF Panel!Claimed, Panel!Owners
<1> HIDE DEF tuple, taking, missed, D
<1>11. ASSUME NEW g \in Annotations
       PROVE  \E i \in chosen : tuple[i].gt = g /\ \A k \in chosen : tuple[k].gt = g => k = i
  <2>1. g # Absent BY <1>4
  <2>2. \A k \in D : tuple[k].gt = g => matches[k].gt = g BY <1>6, <2>1
  <2>3. \A i, k \in D : matches[i].status # "FP" /\ matches[k].status # "FP"
                       /\ matches[i].gt = matches[k].gt => i = k
    BY DEF PanelScored, D
  <2>4. PICK i \in D : matches[i].status # "FP" /\ matches[i].gt = g BY DEF PanelScored, D
  <2>5. \A k \in D : matches[k].status \in {"TP", "FP", "FN"} BY <1>5 DEF PanelMatch
  <2>6. CASE matches[i].status = "TP"
    <3>1. i \in chosen /\ tuple[i].gt = g BY <1>6, <1>9, <2>4, <2>6
    <3>2. ASSUME NEW k \in chosen, tuple[k].gt = g PROVE k = i
      <4>1. k \in D /\ matches[k].gt = g BY <1>9, <2>2, <3>2
      <4>2. Panel!Claimed(k) BY <1>10, <2>4, <2>6, <4>1
      <4>3. matches[k].status # "FP" BY <1>6, <2>1, <3>2, <4>1, <4>2
      <4> QED BY <2>3, <2>4, <4>1, <4>3
    <3> QED BY <3>1, <3>2
  <2>7. CASE matches[i].status = "FN"
    <3> DEFINE wrong == {k \in D : matches[k].status = "FP" /\ matches[k].gt = g}
    <3>1. \A k \in D : matches[k].gt = g => k = i \/ k \in wrong BY <2>3, <2>4
    <3>2. ~ \E j \in D : matches[j].status = "TP" /\ matches[j].gt = g BY <2>3, <2>4, <2>7
    <3>3. CASE wrong = {}
      <4>1. \A k \in D : matches[k].gt = g => k = i BY <3>1, <3>3
      <4>2. i \in missed BY <1>8, <1>9, <2>2, <2>4, <2>7, <4>1
      <4>3. tuple[i].gt = g BY <1>6, <2>4, <2>7
      <4> QED BY <1>9, <2>2, <4>1, <4>2, <4>3
    <3>4. CASE wrong # {}
      <4>1. wrong \in SUBSET Nat BY <1>3
      <4>2. PICK first \in wrong : \A k \in wrong : first <= k
        <5> HIDE DEF wrong
        <5> QED BY <3>4, <4>1, First
      <4>3. first \in D /\ matches[first].status = "FP" /\ matches[first].gt = g OBVIOUS
      <4>4. ~Panel!Claimed(first)
        <5>1. \A j \in 1..(first - 1) : j \in D /\ ~(first <= j) BY <1>2, <4>3
        <5> QED BY <1>10, <3>2, <4>2, <4>3, <5>1
      <4>5. first \in taking /\ tuple[first].gt = g BY <1>6, <1>9, <4>3, <4>4
      <4>6. g \in partners BY <1>8, <4>5
      <4>7. ASSUME NEW k \in chosen, tuple[k].gt = g PROVE k = first
        <5>1. k \in D /\ matches[k].gt = g BY <1>9, <2>2, <4>7
        <5>2. k \notin missed BY <1>9, <4>6, <5>1
        <5>3. matches[k].status # "FN" BY <1>9, <5>2
        <5>4. k \in wrong BY <2>7, <3>1, <5>1, <5>3
        <5>5. ~Panel!Claimed(k) BY <1>6, <2>1, <4>7, <5>1, <5>4
        <5>6. ~(first \in 1..(k - 1)) BY <1>10, <4>3, <5>1, <5>5
        <5>7. first <= k /\ first \in Nat /\ first # 0 /\ k \in Nat BY <1>2, <4>2, <4>3, <5>1, <5>4
        <5> QED BY <5>6, <5>7
      <4> QED BY <4>5, <4>7
    <3> QED BY <3>3, <3>4
  <2> QED BY <2>4, <2>5, <2>6, <2>7
<1>12. ASSUME NEW p \in Detections
       PROVE  \E i \in chosen : tuple[i].pred = p /\ \A k \in chosen : tuple[k].pred = p => k = i
  <2>1. p # Absent BY <1>4
  <2>2. PICK i \in D : matches[i].pred = p BY DEF PanelScored, D
  <2>3. matches[i].status # "FN" BY <1>5, <2>1, <2>2 DEF PanelMatch
  <2>4. i \in chosen /\ tuple[i].pred = p BY <1>6, <1>9, <2>2, <2>3
  <2>5. ASSUME NEW k \in chosen, tuple[k].pred = p PROVE k = i
    <3>1. k \in D BY <1>9
    <3>2. matches[k].pred = p BY <1>6, <2>5, <3>1
    <3> QED BY <2>1, <2>2, <3>1, <3>2 DEF PanelScored, D
  <2> QED BY <2>4, <2>5
<1>13. \A i \in chosen : PanelTuple(tuple[i])
  <2> SUFFICES ASSUME NEW i \in chosen PROVE PanelTuple(tuple[i]) OBVIOUS
  <2>1. i \in D BY <1>9
  <2>2. /\ tuple[i].pred = matches[i].pred
        /\ tuple[i].gt = matches[i].gt \/ tuple[i].gt = Absent
    BY <1>6, <2>1
  <2> QED BY <1>5, <2>1, <2>2 DEF PanelMatch, PanelTuple
<1>14. PanelOnce(tuple, chosen)
  <2> SUFFICES ASSUME NEW b \in Annotations \union Detections
               PROVE  \E i \in chosen : PanelIn(b, tuple[i])
                                      /\ \A k \in chosen : PanelIn(b, tuple[k]) => k = i
    BY DEF PanelOnce, Panel!Boxes
  <2>1. CASE b \in Annotations
    <3>1. \A i \in chosen : PanelIn(b, tuple[i]) <=> tuple[i].gt = b
      BY <1>4, <1>13, <2>1 DEF PanelIn, PanelTuple
    <3> QED BY <1>11, <2>1, <3>1
  <2>2. CASE b \in Detections
    <3>1. \A i \in chosen : PanelIn(b, tuple[i]) <=> tuple[i].pred = b
      BY <1>4, <1>13, <2>2 DEF PanelIn, PanelTuple
    <3> QED BY <1>12, <2>2, <3>1
  <2> QED BY <2>1, <2>2
<1> DEFINE n == Cardinality(chosen)
           canon == Panel!CanonicalMatches
<1>15. PICK src : Lists(src, chosen) /\ canon = [k \in 1..n |-> tuple[src[k]]]
  <2>1. \E src : /\ Lists(src, chosen)
                 /\ Panel!Those(tuple, taking) \o Panel!Those(tuple, missed)
                       = [k \in 1..n |-> tuple[src[k]]]
    BY <1>7, PanelJoined
  <2>2. canon = Panel!Those(tuple, taking) \o Panel!Those(tuple, missed) BY <1>1 DEF predictions
  <2> HIDE DEF canon, chosen
  <2> QED BY <2>1, <2>2
<1>16. IsFiniteSet(chosen)
  <2> HIDE DEF taking, missed
  <2> QED BY <1>7, FS_Union
<1> HIDE DEF chosen, canon
<1>17. n \in Nat BY <1>16, FS_CardinalityType
<1> HIDE DEF n
<1>18. DOMAIN canon = 1..n /\ \A k \in 1..n : canon[k] = tuple[src[k]] BY <1>15
<1>19. /\ \A k \in 1..n : src[k] \in chosen
       /\ \A j, k \in 1..n : src[j] = src[k] => j = k
       /\ \A i \in chosen : \E k \in 1..n : src[k] = i
  BY <1>15 DEF Lists, n
<1>20. PanelListed(canon)
  <2>1. Cardinality(DOMAIN canon) = n BY <1>17, <1>18, FS_Interval
  <2> QED BY <1>17, <1>18, <2>1 DEF PanelListed
<1>21. PanelOnce(canon, DOMAIN canon)
  <2> SUFFICES ASSUME NEW b \in Panel!Boxes
               PROVE  \E i \in 1..n : PanelIn(b, canon[i])
                                     /\ \A k \in 1..n : PanelIn(b, canon[k]) => k = i
    BY <1>18 DEF PanelOnce
  <2>1. PICK x \in chosen : PanelIn(b, tuple[x]) /\ \A k \in chosen : PanelIn(b, tuple[k]) => k = x
    BY <1>14 DEF PanelOnce
  <2>2. PICK i \in 1..n : src[i] = x BY <1>19
  <2>3. PanelIn(b, canon[i]) BY <1>18, <2>1, <2>2
  <2>4. ASSUME NEW k \in 1..n, PanelIn(b, canon[k]) PROVE k = i
    <3>1. src[k] = x BY <1>18, <1>19, <2>1, <2>4
    <3> QED BY <1>19, <2>2, <3>1
  <2> QED BY <2>3, <2>4
<1>22. \A i \in DOMAIN canon : PanelTuple(canon[i]) BY <1>13, <1>18, <1>19
<1> QED BY <1>20, <1>21, <1>22 DEF PanelWhole, canon

LEMMA PanelTyped ==
  ASSUME PanelNative, NEW i \in DOMAIN panelNative
  PROVE  /\ panelNative[i].gt \in Annotations \union {Absent}
         /\ panelNative[i].pred \in Detections \union {Absent}
         /\ panelNative[i].gt # Absent /\ panelNative[i].pred # Absent =>
              ImageOf[panelNative[i].gt] = ImageOf[panelNative[i].pred]
         /\ panelNative[i].gt = panelNative[i].pred => panelNative[i].gt = Absent
         /\ Absent \notin Panel!Boxes
<1>1. Absent \notin Annotations \union Detections /\ Annotations \intersect Detections = {}
  BY ResultsAssumption
<1>2. PanelTuple(panelNative[i]) BY DEF PanelNative, PanelWhole
<1> QED BY <1>1, <1>2 DEF PanelTuple, Panel!Boxes

\* _write_native_fields: the only tuple of a label gives it its partner.
LEMMA PanelWritten ==
  ASSUME PanelNative, NEW i \in DOMAIN panelNative,
         NEW b \in {panelNative[i].gt, panelNative[i].pred}, b # Absent
  PROVE  Panel!Partner(b) = IF panelNative[i].gt = b THEN panelNative[i].pred
                            ELSE panelNative[i].gt
<1> DEFINE own == {j \in DOMAIN panelNative : b \in {panelNative[j].gt, panelNative[j].pred}}
           last == CHOOSE j \in own : \A k \in own : k <= j
<1>1. b \in Panel!Boxes /\ i \in Nat
  <2>1. b \in Panel!Boxes BY PanelTyped DEF Panel!Boxes
  <2>2. i \in Nat BY DEF PanelNative, PanelWhole, PanelListed
  <2> QED BY <2>1, <2>2
<1>2. own = {i} BY <1>1 DEF PanelNative, PanelWhole, PanelOnce, PanelIn
<1>3. Panel!Partner(b) = IF own = {} THEN Absent
                         ELSE IF panelNative[last].gt = b THEN panelNative[last].pred
                         ELSE panelNative[last].gt
  BY DEF Panel!Partner
<1> HIDE DEF own
<1>4. last = i BY <1>1, <1>2
<1> HIDE DEF last
<1> QED BY <1>2, <1>3, <1>4

\* What a view of some labels keeps of the tuples, whatever the view before.
LEMMA PanelNarrowed ==
  ASSUME PanelResults, NEW v
  PROVE  /\ Panel!Base.pairs = PanelPairs /\ Panel!Base.ious = PanelIous
         /\ Panel!InView(v) = PanelSelected(v)
<1>1. Panel!Base.pairs = PanelPairs /\ Panel!Base.ious = PanelIous
  BY DEF PanelResults, Panel!Base
<1>2. /\ DOMAIN PanelPairs = DOMAIN panelNative
      /\ \A i \in DOMAIN panelNative : PanelPairs[i] = <<panelNative[i].gt, panelNative[i].pred>>
  BY DEF PanelPairs
<1>3. Panel!InView(v) = PanelSelected(v) BY <1>1, <1>2 DEF Panel!InView, PanelSelected
<1> QED BY <1>1, <1>3

\* The tuples in use: those of the view, each once.
PanelUsed(i) ==
  view = Absent \/ Panel!Selected(view, <<panelNative[i].gt, panelNative[i].pred>>)
LEMMA PanelTaken ==
  ASSUME PanelNative, PanelResults
  PROVE  \E src :
           LET S == {i \in DOMAIN panelNative : PanelUsed(i)}
               n == Cardinality(S)
           IN  /\ n \in Nat /\ Lists(src, S)
               /\ pairs = [k \in 1..n |-> PanelPairs[src[k]]]
               /\ ious = [k \in 1..n |-> PanelIous[src[k]]]
<1> DEFINE D == DOMAIN panelNative
           S == {i \in D : PanelUsed(i)}
           n == Cardinality(S)
<1>1. Cardinality(D) \in Nat /\ D = 1..Cardinality(D) BY DEF PanelNative, PanelWhole, PanelListed
<1>2. IsFiniteSet(S) /\ S \in SUBSET Nat
  <2> HIDE DEF D
  <2>1. IsFiniteSet(D) /\ D \in SUBSET Nat
    <3>1. IsFiniteSet(1..Cardinality(D)) BY <1>1, FS_Interval
    <3> QED BY <1>1, <3>1
  <2>2. S \in SUBSET D OBVIOUS
  <2> HIDE DEF S
  <2> QED BY <2>1, <2>2, FS_Subset
<1>3. n \in Nat BY <1>2, FS_CardinalityType
<1>4. CASE view = Absent
  <2>1. S = D BY <1>4 DEF PanelUsed
  <2>2. pairs = PanelPairs /\ ious = PanelIous BY <1>4 DEF PanelResults
  <2>3. DOMAIN PanelPairs = D /\ PanelPairs = [i \in D |-> PanelPairs[i]] BY DEF PanelPairs
  <2>4. DOMAIN PanelIous = D /\ PanelIous = [i \in D |-> PanelIous[i]] BY DEF PanelIous
  <2> DEFINE src == [k \in 1..n |-> k]
  <2> HIDE DEF D, S
  <2>5. D = 1..n BY <1>1, <2>1
  <2>6. Lists(src, S) BY <2>1, <2>5 DEF Lists
  <2>7. /\ pairs = [k \in 1..n |-> PanelPairs[src[k]]]
        /\ ious = [k \in 1..n |-> PanelIous[src[k]]]
    BY <2>2, <2>3, <2>4, <2>5
  <2> HIDE DEF src, n
  <2> QED BY <1>3, <2>6, <2>7 DEF n, S, D
<1>5. CASE view # Absent
  <2>1. S = PanelSelected(view) BY <1>5 DEF PanelUsed, PanelSelected
  <2>2. pairs = Panel!Those(PanelPairs, S) /\ ious = Panel!Those(PanelIous, S)
    BY <1>5, <2>1 DEF PanelResults
  <2> DEFINE order == Panel!InOrder(S)
  <2> HIDE DEF S
  <2>3. /\ Lists(order, S)
        /\ pairs = [k \in 1..n |-> PanelPairs[order[k]]]
        /\ ious = [k \in 1..n |-> PanelIous[order[k]]]
    BY <1>2, <2>2, PanelThose
  <2> HIDE DEF order, n
  <2> QED BY <1>3, <2>3 DEF S, n, D
<1> QED BY <1>4, <1>5

\* _source_matches and label_ids: in a view of whole images, a match is in scope
\* as its own box is visible.
PanelKey(m) == IF m.status = "FN" THEN m.gt ELSE m.pred
LEMMA PanelScope ==
  ASSUME PanelNative, PanelResults, view = Absent \/ view \in Panel!ByImage, NEW m, PanelMatch(m)
  PROVE  Panel!Scope(m) <=> PanelKey(m) \in Panel!Visible
<1>1. PanelKey(m) \in Panel!Boxes BY DEF PanelMatch, PanelKey, Panel!Boxes
<1>2. CASE view = Absent
  BY <1>1, <1>2 DEF Panel!Scope, Panel!Visible
<1>3. CASE view # Absent
  <2>1. Panel!Visible = view /\ view \in SUBSET Panel!Boxes
    BY <1>3 DEF Panel!Visible, PanelResults
  <2>2. \A b, c \in Panel!Boxes : ImageOf[b] = ImageOf[c] => (b \in view <=> c \in view)
    <3>1. PICK S \in SUBSET Panel!Images : view = {b \in Panel!Boxes : ImageOf[b] \in S}
      BY <1>3 DEF Panel!ByImage
    <3> QED BY <3>1
  <2> DEFINE firsts == {pair[1] : pair \in Panel!Members(pairs)}
             seconds == {pair[2] : pair \in Panel!Members(pairs)}
             used == {i \in DOMAIN panelNative : PanelUsed(i)}
  <2>3. /\ \A x : x \in firsts <=> \E i \in used : panelNative[i].gt = x
        /\ \A x : x \in seconds <=> \E i \in used : panelNative[i].pred = x
    <3> DEFINE n == Cardinality(used)
    <3>1. PICK src : Lists(src, used) /\ pairs = [k \in 1..n |-> PanelPairs[src[k]]]
      BY PanelTaken
    <3>2. \A i \in used : PanelPairs[i] = <<panelNative[i].gt, panelNative[i].pred>> BY DEF PanelPairs
    <3>3. /\ firsts = {pair[1] : pair \in {pairs[k] : k \in DOMAIN pairs}}
          /\ seconds = {pair[2] : pair \in {pairs[k] : k \in DOMAIN pairs}}
      BY DEF Panel!Members
    <3>4. /\ \A k \in 1..n : src[k] \in used
          /\ \A i \in used : \E k \in 1..n : src[k] = i
      BY <3>1 DEF Lists
    <3> HIDE DEF used, n, firsts, seconds
    <3>5. DOMAIN pairs = 1..n
          /\ \A k \in 1..n : pairs[k] = <<panelNative[src[k]].gt, panelNative[src[k]].pred>>
      BY <3>1, <3>2, <3>4
    <3> QED BY <3>3, <3>4, <3>5
  <2>4. \A i \in DOMAIN panelNative :
          i \in used <=> (panelNative[i].gt \in view
                         \/ (panelNative[i].gt = Absent /\ panelNative[i].pred \in view))
    BY <1>3 DEF PanelUsed, Panel!Selected
  <2>5. Absent \notin Annotations \union Detections /\ Annotations \intersect Detections = {}
    BY ResultsAssumption
  <2>6. Panel!Scope(m) <=> ((m.status = "FN" /\ m.gt \in firsts)
                           \/ (m.status # "FN" /\ m.pred \in seconds))
    BY <1>3 DEF Panel!Scope
  <2> HIDE DEF firsts, seconds, used
  <2>7. \A b \in Panel!Boxes : \E i \in DOMAIN panelNative : b \in {panelNative[i].gt, panelNative[i].pred}
    BY DEF PanelNative, PanelWhole, PanelOnce, PanelIn
  <2>8. \A i \in DOMAIN panelNative :
          /\ panelNative[i].gt \in Annotations \union {Absent}
          /\ panelNative[i].pred \in Detections \union {Absent}
          /\ panelNative[i].gt # Absent /\ panelNative[i].pred # Absent =>
               ImageOf[panelNative[i].gt] = ImageOf[panelNative[i].pred]
    BY PanelTyped
  <2>9. ASSUME NEW g \in Annotations PROVE g \in firsts <=> g \in view
    <3>1. g \in Panel!Boxes /\ g # Absent BY <2>5 DEF Panel!Boxes
    <3>2. PICK i \in DOMAIN panelNative : panelNative[i].gt = g BY <2>5, <2>7, <2>8, <3>1
    <3>3. g \in view => g \in firsts BY <2>3, <2>4, <3>2
    <3>4. g \in firsts => g \in view
      <4>1. \A k \in used : k \in DOMAIN panelNative BY DEF used
      <4>2. \A k \in used : panelNative[k].gt = g => g \in view BY <2>4, <3>1, <4>1
      <4> QED BY <2>3, <4>2
    <3> QED BY <3>3, <3>4
  <2>10. ASSUME NEW p \in Detections PROVE p \in seconds <=> p \in view
    <3>1. p \in Panel!Boxes /\ p # Absent BY <2>5 DEF Panel!Boxes
    <3>2. PICK i \in DOMAIN panelNative : panelNative[i].pred = p BY <2>5, <2>7, <2>8, <3>1
    <3>3. ASSUME NEW k \in DOMAIN panelNative, panelNative[k].pred = p
          PROVE  k \in used <=> p \in view
      <4>1. CASE panelNative[k].gt = Absent
        <5>1. Absent \notin view BY <2>1, <2>5 DEF Panel!Boxes
        <5> QED BY <2>4, <3>3, <4>1, <5>1
      <4>2. CASE panelNative[k].gt # Absent
        <5>1. panelNative[k].gt \in Panel!Boxes /\ ImageOf[panelNative[k].gt] = ImageOf[p]
          BY <2>8, <3>1, <3>3, <4>2 DEF Panel!Boxes
        <5>2. panelNative[k].gt \in view <=> p \in view BY <2>2, <3>1, <5>1
        <5> QED BY <2>4, <4>2, <5>2
      <4> QED BY <4>1, <4>2
    <3>4. \A k \in used : k \in DOMAIN panelNative BY DEF used
    <3> QED BY <2>3, <3>2, <3>3, <3>4
  <2> QED BY <2>1, <2>6, <2>9, <2>10 DEF PanelKey, PanelMatch
<1> QED BY <1>2, <1>3

\* tp_fp_fn and label_ids: as many labels as matches, and both labels of a hit.
LEMMA PanelCounts ==
  ASSUME PanelScored, PanelNative, PanelResults, view = Absent \/ view \in Panel!ByImage
  PROVE  /\ \A s \in {"FP", "FN"} : Panel!Count(s) = Cardinality(Panel!LabelIds(s))
         /\ 2 * Panel!Count("TP") = Cardinality(Panel!LabelIds("TP"))
<1> DEFINE Sees(b) == b \in Panel!Visible
           Told(s) == {i \in DOMAIN matches : matches[i].status = s}
           Seen(s) == {i \in Told(s) : Sees(PanelKey(matches[i]))}
           Preds(s) == {b \in Panel!Visible : \E i \in Told(s) : matches[i].pred = b}
           Gts(s) == {b \in Panel!Visible : \E i \in Told(s) : matches[i].gt = b}
<1>1. \A i \in DOMAIN matches : PanelMatch(matches[i]) BY DEF PanelScored
<1>2. Absent \notin Annotations \union Detections /\ Annotations \intersect Detections = {}
      /\ IsFiniteSet(Annotations) /\ IsFiniteSet(Detections)
  BY ResultsAssumption
<1>3. Panel!Visible \in SUBSET Panel!Boxes BY DEF Panel!Visible, PanelResults
<1>4. IsFiniteSet(Panel!Visible)
  <2>1. IsFiniteSet(Annotations \union Detections) BY <1>2, FS_Union
  <2> QED BY <1>3, <2>1, FS_Subset DEF Panel!Boxes
<1>5. ASSUME NEW s PROVE Panel!Count(s) = Cardinality(Seen(s))
  <2>1. {i \in DOMAIN matches : matches[i].status = s /\ Panel!Scope(matches[i])} = Seen(s)
    BY <1>1, PanelScope
  <2> QED BY <2>1 DEF Panel!Count, Panel!Cardinality, Cardinality
<1>6. ASSUME NEW s
      PROVE  Panel!LabelIds(s) = Preds(s) \union {b \in Gts(s) : s # "FP"}
  <2>1. \A b : (\E m \in {n \in Panel!Members(matches) : n.status = s} : m.pred = b)
               <=> \E i \in Told(s) : matches[i].pred = b
    BY DEF Panel!Members
  <2>2. \A b : (\E m \in {n \in Panel!Members(matches) : n.status = s /\ s # "FP"} : m.gt = b)
               <=> s # "FP" /\ \E i \in Told(s) : matches[i].gt = b
    BY DEF Panel!Members
  <2> DEFINE A == {m.pred : m \in {n \in Panel!Members(matches) : n.status = s}}
             B == {m.gt : m \in {n \in Panel!Members(matches) : n.status = s /\ s # "FP"}}
  <2>3. Panel!LabelIds(s) = Panel!Visible \intersect (A \union B) BY DEF Panel!LabelIds
  <2>4. \A b : /\ b \in A <=> \E i \in Told(s) : matches[i].pred = b
               /\ b \in B <=> s # "FP" /\ \E i \in Told(s) : matches[i].gt = b
    <3> HIDE DEF Told
    <3> QED BY <2>1, <2>2
  <2>5. \A b : /\ b \in Preds(s) <=> b \in Panel!Visible /\ \E i \in Told(s) : matches[i].pred = b
               /\ b \in Gts(s) <=> b \in Panel!Visible /\ \E i \in Told(s) : matches[i].gt = b
    OBVIOUS
  <2> HIDE DEF A, B, Told, Preds, Gts
  <2>6. \A b : b \in Panel!LabelIds(s) <=> b \in Panel!Visible /\ (b \in A \/ b \in B) BY <2>3
  <2>7. \A b : b \in Panel!LabelIds(s) <=> b \in Preds(s) \/ (b \in Gts(s) /\ s # "FP")
    BY <2>4, <2>5, <2>6, Zenon
  <2> QED BY <2>7
<1>7. \A s : IsFiniteSet(Preds(s)) /\ IsFiniteSet(Gts(s))
  <2> TAKE s
  <2>1. Preds(s) \in SUBSET Panel!Visible /\ Gts(s) \in SUBSET Panel!Visible OBVIOUS
  <2> HIDE DEF Preds, Gts
  <2> QED BY <1>4, <2>1, FS_Subset
<1>8. \A i, k \in DOMAIN matches :
        /\ matches[i].pred = matches[k].pred /\ matches[i].pred # Absent => i = k
        /\ matches[i].status # "FP" /\ matches[k].status # "FP" /\ matches[i].gt = matches[k].gt => i = k
  BY DEF PanelScored
<1>9. ASSUME NEW s \in {"TP", "FP"} PROVE Cardinality(Seen(s)) = Cardinality(Preds(s))
  <2> DEFINE f == [i \in Seen(s) |-> matches[i].pred]
  <2>1. \A i \in Seen(s) : /\ i \in DOMAIN matches /\ f[i] = matches[i].pred
                           /\ matches[i].pred \in Detections /\ matches[i].pred \in Preds(s)
    BY <1>1 DEF PanelKey, PanelMatch
  <2>2. \A b \in Preds(s) : \E i \in Seen(s) : f[i] = b BY <1>1 DEF PanelKey, PanelMatch
  <2>3. DOMAIN f = Seen(s) /\ f = [i \in Seen(s) |-> f[i]] OBVIOUS
  <2> HIDE DEF f, Seen, Preds
  <2>4. \A i, k \in Seen(s) : f[i] = f[k] => i = k BY <1>2, <1>8, <2>1
  <2>5. \A i \in Seen(s) : f[i] \in Preds(s) BY <2>1
  <2>6. IsFiniteSet(Preds(s)) BY <1>7
  <2> QED BY <2>2, <2>3, <2>4, <2>5, <2>6, Counted
<1>10. ASSUME NEW s \in {"TP", "FN"} PROVE Cardinality(Seen(s)) = Cardinality(Gts(s))
  <2>1. \A i \in Told(s) : Sees(PanelKey(matches[i])) <=> Sees(matches[i].gt)
    <3> SUFFICES ASSUME NEW i \in Told(s), s = "TP" PROVE Sees(matches[i].pred) <=> Sees(matches[i].gt)
      BY DEF PanelKey
    <3>1. /\ matches[i].gt \in Panel!Boxes /\ matches[i].pred \in Panel!Boxes
          /\ ImageOf[matches[i].gt] = ImageOf[matches[i].pred]
      BY <1>1, <1>2 DEF PanelMatch, Panel!Boxes
    <3>2. CASE view = Absent BY <3>1, <3>2 DEF Panel!Visible
    <3>3. CASE view # Absent
      <4>1. PICK S \in SUBSET Panel!Images : view = {b \in Panel!Boxes : ImageOf[b] \in S}
        BY <3>3 DEF Panel!ByImage
      <4> QED BY <3>1, <3>3, <4>1 DEF Panel!Visible
    <3> QED BY <3>2, <3>3
  <2> DEFINE f == [i \in Seen(s) |-> matches[i].gt]
  <2>2. \A i \in Seen(s) : /\ i \in DOMAIN matches /\ f[i] = matches[i].gt
                           /\ matches[i].status # "FP" /\ matches[i].gt \in Gts(s)
    BY <2>1
  <2>3. \A b \in Gts(s) : \E i \in Seen(s) : f[i] = b BY <2>1
  <2>4. DOMAIN f = Seen(s) /\ f = [i \in Seen(s) |-> f[i]] OBVIOUS
  <2> HIDE DEF f, Seen, Gts
  <2>5. \A i, k \in Seen(s) : f[i] = f[k] => i = k BY <1>8, <2>2
  <2>6. \A i \in Seen(s) : f[i] \in Gts(s) BY <2>2
  <2>7. IsFiniteSet(Gts(s)) BY <1>7
  <2> QED BY <2>3, <2>4, <2>5, <2>6, <2>7, Counted
<1>11. Panel!Count("FP") = Cardinality(Panel!LabelIds("FP"))
  <2>1. Panel!LabelIds("FP") = Preds("FP")
    <3> HIDE DEF Preds, Gts
    <3> QED BY <1>6
  <2> HIDE DEF Preds, Seen
  <2> QED BY <1>5, <1>9, <2>1
<1>12. Panel!Count("FN") = Cardinality(Panel!LabelIds("FN"))
  <2>1. Preds("FN") = {} BY <1>1, <1>2, <1>3 DEF PanelMatch, Panel!Boxes
  <2>2. Panel!LabelIds("FN") = Gts("FN")
    <3> HIDE DEF Preds, Gts
    <3> QED BY <1>6, <2>1
  <2> HIDE DEF Gts, Seen
  <2> QED BY <1>5, <1>10, <2>2
<1>13. 2 * Panel!Count("TP") = Cardinality(Panel!LabelIds("TP"))
  <2>1. Preds("TP") \intersect Gts("TP") = {}
    <3>1. \A b \in Preds("TP") : b \in Detections BY <1>1 DEF PanelMatch
    <3>2. \A b \in Gts("TP") : b \in Annotations BY <1>1 DEF PanelMatch
    <3> HIDE DEF Preds, Gts
    <3> QED BY <1>2, <3>1, <3>2
  <2>2. Panel!LabelIds("TP") = Preds("TP") \union Gts("TP")
    <3> HIDE DEF Preds, Gts
    <3> QED BY <1>6
  <2> HIDE DEF Preds, Gts, Seen
  <2>3. Cardinality(Preds("TP") \union Gts("TP")) =
          Cardinality(Preds("TP")) + Cardinality(Gts("TP")) - Cardinality({})
    BY <1>7, <2>1, FS_Union
  <2>4. Cardinality({}) = 0 BY FS_EmptySet
  <2> DEFINE n == Panel!Count("TP")
  <2>5. n = Cardinality(Preds("TP")) /\ n = Cardinality(Gts("TP")) BY <1>5, <1>9, <1>10
  <2>6. Cardinality(Preds("TP")) \in Nat BY <1>7, FS_CardinalityType
  <2>7. n \in Nat BY <2>5, <2>6
  <2>8. Cardinality(Panel!LabelIds("TP")) = n + n - 0 BY <2>2, <2>3, <2>4, <2>5
  <2> HIDE DEF n
  <2> QED BY <2>7, <2>8 DEF n
<1> QED BY <1>11, <1>12, <1>13

LEMMA PanelSame ==
  ASSUME UNCHANGED <<matches, panelNative>>
  PROVE  /\ PanelScored => PanelScored'
         /\ PanelNative => PanelNative'
         /\ UNCHANGED <<PanelPairs, PanelIous>> /\ \A v : UNCHANGED PanelSelected(v)
<1>1. PanelScored' <=> PanelScored BY DEF PanelScored
<1>2. PanelNative' <=> PanelNative BY DEF PanelNative
<1>3. UNCHANGED PanelPairs /\ UNCHANGED PanelIous BY DEF PanelPairs, PanelIous, Panel!Iou
<1>4. \A v : UNCHANGED PanelSelected(v) BY DEF PanelSelected, Panel!Selected
<1> QED BY <1>1, <1>2, <1>3, <1>4

LEMMA PanelStep == PanelInv /\ [Panel!Next]_(Panel!vars) => PanelInv'
<1> SUFFICES ASSUME PanelInv, [Panel!Next]_(Panel!vars) PROVE PanelInv' OBVIOUS
<1>1. /\ PanelScored /\ panelPc \in {"scored", "registered", "saved", "loaded"}
      /\ panelPc # "scored" => PanelNative
      /\ panelPc \in {"saved", "loaded"} => PanelPartners
      /\ panelPc = "loaded" => PanelResults
      /\ panelPc # "loaded" => view = Absent /\ shown = Absent
      /\ PanelNavigable
  BY DEF PanelInv
<1>2. shown' = Absent => PanelNavigable' BY DEF PanelNavigable
<1>3. CASE Panel!Import
  <2>1. /\ panelPc = "scored" /\ panelPc' = "registered" /\ panelNative' = Panel!CanonicalMatches
        /\ UNCHANGED <<matches, view, shown>>
    BY <1>3 DEF Panel!Import, Panel!results
  <2>2. PanelScored' BY <1>1, <2>1 DEF PanelScored
  <2>3. PanelWhole(panelNative') BY <1>1, <2>1, PanelCanonical
  <2>4. PanelNative' BY <2>3 DEF PanelNative
  <2> QED BY <1>1, <1>2, <2>1, <2>2, <2>4 DEF PanelInv
<1>4. CASE Panel!WriteNativeFields
  <2>1. /\ panelPc = "registered" /\ panelPc' = "saved" /\ UNCHANGED <<matches, panelNative, view, shown>>
        /\ association' = [b \in Panel!Boxes |-> Panel!Partner(b)]
    BY <1>4 DEF Panel!WriteNativeFields, Panel!results
  <2>2. PanelScored' /\ PanelNative' /\ PanelNative BY <1>1, <2>1, PanelSame
  <2>3. PanelPartners'
    <3> SUFFICES ASSUME NEW i \in DOMAIN panelNative
                 PROVE  /\ panelNative[i].gt # Absent => association'[panelNative[i].gt] = panelNative[i].pred
                        /\ panelNative[i].pred # Absent => association'[panelNative[i].pred] = panelNative[i].gt
      BY <2>1 DEF PanelPartners
    <3>1. /\ panelNative[i].gt # Absent => panelNative[i].gt \in Panel!Boxes
          /\ panelNative[i].pred # Absent => panelNative[i].pred \in Panel!Boxes
          /\ panelNative[i].gt = panelNative[i].pred => panelNative[i].gt = Absent
      BY <2>2, PanelTyped DEF Panel!Boxes
    <3>2. /\ panelNative[i].gt # Absent => Panel!Partner(panelNative[i].gt) = panelNative[i].pred
          /\ panelNative[i].pred # Absent => Panel!Partner(panelNative[i].pred) = panelNative[i].gt
      BY <2>2, <3>1, PanelWritten
    <3> QED BY <2>1, <3>1, <3>2
  <2> QED BY <1>1, <1>2, <2>1, <2>2, <2>3 DEF PanelInv
<1>5. CASE Panel!Load
  <2>1. /\ panelPc = "saved" /\ panelPc' = "loaded"
        /\ UNCHANGED <<matches, panelNative, association, view, shown>>
        /\ pairs' = PanelPairs /\ ious' = PanelIous
    BY <1>5 DEF Panel!Load, Panel!run, PanelPairs, PanelIous
  <2>2. PanelScored' /\ PanelNative' /\ UNCHANGED <<PanelPairs, PanelIous>>
    BY <1>1, <2>1, PanelSame
  <2>3. PanelPartners' BY <1>1, <2>1 DEF PanelPartners
  <2>4. PanelResults' BY <1>1, <2>1, <2>2 DEF PanelResults
  <2> QED BY <1>1, <1>2, <2>1, <2>2, <2>3, <2>4 DEF PanelInv
<1>6. CASE Panel!ClearSubset
  <2>1. /\ panelPc = "loaded" /\ panelPc' = "loaded" /\ UNCHANGED <<matches, panelNative, association>>
        /\ view # Absent /\ view' = Absent /\ shown' = Absent
        /\ pairs' = origPairs /\ ious' = origIous
    BY <1>6 DEF Panel!ClearSubset, Panel!run
  <2>2. PanelScored' /\ PanelNative' /\ UNCHANGED <<PanelPairs, PanelIous>>
    BY <1>1, <2>1, PanelSame
  <2>3. PanelPartners' BY <1>1, <2>1 DEF PanelPartners
  <2>4. PanelResults' BY <1>1, <2>1, <2>2 DEF PanelResults
  <2> QED BY <1>1, <1>2, <2>1, <2>2, <2>3, <2>4 DEF PanelInv
<1>7. CASE Panel!Show
  <2>1. /\ panelPc = "loaded" /\ panelPc' = "loaded" /\ UNCHANGED <<matches, panelNative, association>>
        /\ UNCHANGED <<pairs, ious, origPairs, origIous, view>>
        /\ shown' = [count |-> [s \in {"TP", "FP", "FN"} |-> Panel!Count(s)],
                     labels |-> [s \in {"TP", "FP", "FN"} |-> Panel!LabelIds(s)], ap |-> Panel!Report]
    BY <1>7 DEF Panel!Show, Panel!run, Panel!results
  <2>2. PanelScored' /\ PanelNative' /\ UNCHANGED <<PanelPairs, PanelIous>>
        /\ \A v : UNCHANGED PanelSelected(v)
    BY <1>1, <2>1, PanelSame
  <2>3. PanelPartners' BY <1>1, <2>1 DEF PanelPartners
  <2>4. PanelResults'
    <3>1. PanelSelected(view)' = PanelSelected(view) BY <2>1 DEF PanelSelected, Panel!Selected
    <3> QED
      BY <1>1, <2>1, <2>2, <3>1 DEF PanelResults, Panel!Those, Panel!InOrder, Panel!Boxes
  <2>5. PanelNavigable'
    <3>1. UNCHANGED <<Panel!ByImage, Panel!Boxes>> BY DEF Panel!ByImage, Panel!Boxes, Panel!Images
    <3>2. CASE view = Absent \/ view \in Panel!ByImage
      <4>1. /\ \A s \in {"FP", "FN"} : Panel!Count(s) = Cardinality(Panel!LabelIds(s))
            /\ 2 * Panel!Count("TP") = Cardinality(Panel!LabelIds("TP"))
        BY <1>1, <2>1, <3>2, PanelCounts
      <4>2. \A s \in {"TP", "FP", "FN"} : /\ shown'.count[s] = Panel!Count(s)
                                          /\ shown'.labels[s] = Panel!LabelIds(s)
        BY <2>1
      <4> QED BY <4>1, <4>2 DEF PanelNavigable
    <3>3. CASE ~(view = Absent \/ view \in Panel!ByImage)
      BY <2>1, <3>1, <3>3 DEF PanelNavigable
    <3> QED BY <3>2, <3>3
  <2> QED BY <1>1, <2>1, <2>2, <2>3, <2>4, <2>5 DEF PanelInv
<1>8. CASE \E v \in Panel!Views : Panel!UseSubset(v)
  <2>1. PICK v \in Panel!Views : Panel!UseSubset(v) BY <1>8
  <2>2. /\ panelPc = "loaded" /\ panelPc' = "loaded" /\ UNCHANGED <<matches, panelNative, association>>
        /\ view' = v /\ shown' = Absent
        /\ origPairs' = Panel!Base.pairs /\ origIous' = Panel!Base.ious
        /\ pairs' = Panel!Those(Panel!Base.pairs, Panel!InView(v))
        /\ ious' = Panel!Those(Panel!Base.ious, Panel!InView(v))
    BY <2>1 DEF Panel!UseSubset, Panel!KeptIous, Panel!run
  <2>3. Panel!Base.pairs = PanelPairs /\ Panel!Base.ious = PanelIous /\ Panel!InView(v) = PanelSelected(v)
    BY <1>1, <2>2, PanelNarrowed
  <2>4. PanelScored' /\ PanelNative' /\ UNCHANGED <<PanelPairs, PanelIous>>
        /\ UNCHANGED PanelSelected(v)
    BY <1>1, <2>2, PanelSame
  <2>5. PanelPartners' BY <1>1, <2>2 DEF PanelPartners
  <2>6. v \in SUBSET Panel!Boxes /\ v # Absent
    BY ResultsAssumption DEF Panel!Views, Panel!Boxes
  <2>7. PanelResults'
    <3>1. PanelSelected(view)' = PanelSelected(v) BY <2>2, <2>4 DEF PanelSelected, Panel!Selected
    <3>2. /\ pairs' = Panel!Those(PanelPairs, PanelSelected(v))
          /\ ious' = Panel!Those(PanelIous, PanelSelected(v))
      BY <2>2, <2>3
    <3> QED
      BY <2>2, <2>3, <2>4, <2>6, <3>1, <3>2
         DEF PanelResults, Panel!Those, Panel!InOrder, Panel!Boxes
  <2> QED BY <1>1, <1>2, <2>2, <2>4, <2>5, <2>7 DEF PanelInv
<1>9. CASE UNCHANGED Panel!vars
  <2>1. UNCHANGED <<matches, panelNative, association, pairs, ious, origPairs, origIous, view, shown, panelPc>>
    BY <1>9 DEF Panel!vars, Panel!run, Panel!results
  <2>2. PanelScored' /\ (PanelNative => PanelNative') /\ UNCHANGED <<PanelPairs, PanelIous>>
        /\ \A v : UNCHANGED PanelSelected(v)
    BY <1>1, <2>1, PanelSame
  <2>3. PanelPartners => PanelPartners' BY <2>1 DEF PanelPartners
  <2>4. PanelResults => PanelResults'
    <3>1. PanelSelected(view)' = PanelSelected(view) BY <2>1 DEF PanelSelected, Panel!Selected
    <3> QED BY <2>1, <2>2, <3>1 DEF PanelResults, Panel!Those, Panel!InOrder, Panel!Boxes
  <2>5. PanelNavigable' <=> PanelNavigable
    BY <2>1 DEF PanelNavigable, Panel!ByImage, Panel!Boxes, Panel!Images
  <2> QED BY <1>1, <2>1, <2>2, <2>3, <2>4, <2>5 DEF PanelInv
<1> QED BY <1>3, <1>4, <1>5, <1>6, <1>7, <1>8, <1>9 DEF Panel!Next

\* What the panel works with is whole.
LEMMA PanelPaired == PanelInv => Panel!Paired
<1> SUFFICES ASSUME PanelInv, panelPc = "loaded" PROVE Panel!Paired BY DEF Panel!Paired
<1>1. PanelNative /\ PanelPartners /\ PanelResults BY DEF PanelInv
<1> DEFINE S == {i \in DOMAIN panelNative : PanelUsed(i)}
           n == Cardinality(S)
<1>2. PICK src : /\ n \in Nat /\ Lists(src, S)
                 /\ pairs = [k \in 1..n |-> PanelPairs[src[k]]]
                 /\ ious = [k \in 1..n |-> PanelIous[src[k]]]
  BY <1>1, PanelTaken
<1>3. /\ \A k \in 1..n : src[k] \in S
      /\ \A j, k \in 1..n : src[j] = src[k] => j = k
      /\ \A i \in S : \E k \in 1..n : src[k] = i
  BY <1>2 DEF Lists
<1>4. \A i \in DOMAIN panelNative :
        /\ PanelPairs[i] = <<panelNative[i].gt, panelNative[i].pred>>
        /\ PanelIous[i] = IF Absent \in {panelNative[i].gt, panelNative[i].pred} THEN Absent
                          ELSE <<panelNative[i].gt, panelNative[i].pred>>
  BY DEF PanelPairs, PanelIous, Panel!Iou
<1>5. \A i \in S : i \in DOMAIN panelNative OBVIOUS
<1> HIDE DEF S, n
<1>6. /\ DOMAIN pairs = 1..n /\ DOMAIN ious = 1..n
      /\ \A k \in 1..n :
           /\ src[k] \in DOMAIN panelNative
           /\ pairs[k][1] = panelNative[src[k]].gt /\ pairs[k][2] = panelNative[src[k]].pred
           /\ pairs[k] = <<pairs[k][1], pairs[k][2]>>
           /\ ious[k] = IF Absent \in {pairs[k][1], pairs[k][2]} THEN Absent ELSE pairs[k]
  <2>1. DOMAIN pairs = 1..n /\ DOMAIN ious = 1..n BY <1>2
  <2>2. ASSUME NEW k \in 1..n
        PROVE  /\ src[k] \in DOMAIN panelNative
               /\ pairs[k] = <<panelNative[src[k]].gt, panelNative[src[k]].pred>>
               /\ ious[k] = PanelIous[src[k]]
    BY <1>2, <1>3, <1>4, <1>5
  <2>3. ASSUME NEW k \in 1..n
        PROVE  /\ pairs[k][1] = panelNative[src[k]].gt /\ pairs[k][2] = panelNative[src[k]].pred
               /\ pairs[k] = <<pairs[k][1], pairs[k][2]>>
    BY <2>2
  <2>4. ASSUME NEW k \in 1..n
        PROVE  ious[k] = IF Absent \in {pairs[k][1], pairs[k][2]} THEN Absent ELSE pairs[k]
    <3>1. PanelIous[src[k]] = IF Absent \in {panelNative[src[k]].gt, panelNative[src[k]].pred} THEN Absent
                              ELSE <<panelNative[src[k]].gt, panelNative[src[k]].pred>>
      BY <1>4, <2>2
    <3> QED BY <2>2, <2>3, <3>1
  <2> QED BY <2>1, <2>2, <2>3, <2>4
<1>7. Len(ious) = Len(pairs)
  <2> DEFINE X == {pairs[k] : k \in 1..n} \union {ious[k] : k \in 1..n}
  <2>1. pairs \in [1..n -> X] /\ ious \in [1..n -> X] BY <1>2, <1>6
  <2> HIDE DEF X
  <2>2. pairs \in Seq(X) BY <1>2, <2>1, SeqDef
  <2>3. ious \in Seq(X) BY <1>2, <2>1, SeqDef
  <2>4. Len(pairs) = n BY <1>2, <1>6, <2>2, LenProperties
  <2>5. Len(ious) = n BY <1>2, <1>6, <2>3, LenProperties
  <2> QED BY <2>4, <2>5
<1>8. ASSUME NEW k \in 1..n
      PROVE  \A l \in 1..2 : pairs[k][l] # Absent => association[pairs[k][l]] = pairs[k][3 - l]
  <2>1. /\ pairs[k][1] # Absent => association[pairs[k][1]] = pairs[k][2]
        /\ pairs[k][2] # Absent => association[pairs[k][2]] = pairs[k][1]
    BY <1>1, <1>6 DEF PanelPartners
  <2>2. \A l \in 1..2 : (l = 1 /\ 3 - l = 2) \/ (l = 2 /\ 3 - l = 1) OBVIOUS
  <2> QED BY <2>1, <2>2
<1>9. ASSUME NEW b \in Panel!Boxes
      PROVE  LET own == {k \in DOMAIN pairs : b \in {pairs[k][1], pairs[k][2]}}
             IN  Cardinality(own) <= 1 /\ (view = Absent => own # {})
  <2> DEFINE own == {k \in DOMAIN pairs : b \in {pairs[k][1], pairs[k][2]}}
  <2>1. \A k \in DOMAIN pairs : k \in own <=> PanelIn(b, panelNative[src[k]])
    BY <1>6 DEF PanelIn
  <2>2. PICK i \in DOMAIN panelNative :
          /\ PanelIn(b, panelNative[i])
          /\ \A j \in DOMAIN panelNative : PanelIn(b, panelNative[j]) => j = i
    BY <1>1 DEF PanelNative, PanelWhole, PanelOnce
  <2>3. \A k \in own : k \in DOMAIN pairs /\ k \in 1..n BY <1>6
  <2> HIDE DEF own
  <2>4. \A j, k \in own : j = k BY <1>3, <1>6, <2>1, <2>2, <2>3
  <2>5. Cardinality(own) <= 1
    <3>1. CASE own = {} BY <3>1, FS_EmptySet
    <3>2. CASE own # {}
      <4>1. PICK k \in own : own = {k} BY <2>4, <3>2
      <4> QED BY <4>1, FS_Singleton
    <3> QED BY <3>1, <3>2
  <2>6. view = Absent => own # {}
    <3> SUFFICES ASSUME view = Absent PROVE own # {} OBVIOUS
    <3>1. i \in S BY DEF S, PanelUsed
    <3>2. PICK k \in 1..n : src[k] = i BY <1>3, <3>1
    <3>3. k \in own BY <1>6, <2>1, <2>2, <3>2
    <3> QED BY <3>3
  <2> QED BY <2>5, <2>6 DEF own
<1> QED BY <1>6, <1>7, <1>8, <1>9 DEF Panel!Paired, Panel!Cardinality, Cardinality

(***************************************************************************)
(* For any boxes and judgements, however often the view is narrowed and    *)
(* restored: a box is in one tuple, an overlap stays with its pair, the    *)
(* partners written to the labels are those of the tuples, and in a view   *)
(* of whole images the panel counts what it leads to.  (canonical_matches, *)
(* use_subset, clear_subset, tp_fp_fn, label_ids)                          *)
(***************************************************************************)
THEOREM Display == Spec => []PanelTrue
<1>1. Init => (focus = "panel" => PanelInv)
  <2> SUFFICES ASSUME Init, focus = "panel" PROVE PanelInv OBVIOUS
  <2>1. Panel!Init BY DEF Init
  <2>2. PICK judge \in Panel!Judgements : matches \in Panel!SetToSeqs(Panel!Told(judge))
    BY <2>1 DEF Panel!Init
  <2>3. PanelScored BY <2>2, PanelTold
  <2> QED BY <2>1, <2>3 DEF PanelInv, Panel!Init, PanelNavigable
<1>2. (focus = "panel" => PanelInv) /\ [Next]_vars => (focus = "panel" => PanelInv)'
  <2> SUFFICES ASSUME focus = "panel" => PanelInv, [Next]_vars, focus' = "panel"
               PROVE  PanelInv'
    OBVIOUS
  <2> QED BY ScoresFocus, PanelStep
<1>3. (focus = "panel" => PanelInv) => PanelTrue
  <2>1. PanelInv => Panel!Navigable
    BY DEF PanelInv, PanelNavigable, Panel!Navigable, Panel!Cardinality, Cardinality
  <2> QED BY <2>1, PanelPaired DEF PanelTrue, Panel!PanelTrue
<1> QED BY <1>1, <1>2, <1>3, PTL DEF Spec

-----------------------------------------------------------------------------
(* The verdicts of a comparison (Comparison) *)

ClassCount == Len(Classes)
Metric == {"precision", "recall"}
\* One test of a row.
CompareTest == [p : 0..Unit, delta : {0 - 1, 0, 1}]

CompareTypes ==
  /\ class \in [Compare!All -> Tallies]
  /\ comparePc \in {"split", "rows", "adjusted", "pooled", "done"}
  /\ next \in 1..ClassCount + 1 /\ Len(rows) = next - 1 /\ (comparePc = "split" => next = 1)
  /\ rows \in Seq([name : STRING, tests : [Metric -> CompareTest]])
\* A class that is not compared is not tested.
CompareRows ==
  \A i \in 1..Len(rows) :
    /\ rows[i].name = Classes[i]
    /\ Classes[i] \notin compared => \A m \in Metric : rows[i].tests[m].p = 0
CompareSplit ==
  comparePc # "split" => compared = {c \in Compare!All : Compare!Reason(c) = "none"}
CompareAdjusted ==
  comparePc \in {"adjusted", "pooled", "done"} =>
    next = ClassCount + 1 /\ adjusted = Compare!Corrected(Compare!PValues)
CompareDegraded ==
  comparePc = "done" =>
    degraded = {rows[i].name : i \in {j \in 1..ClassCount :
                                        \E m \in Metric : Compare!Verdict(j, m) = "degraded"}}
CompareInv ==
  CompareTypes /\ CompareRows /\ CompareSplit /\ CompareAdjusted /\ CompareDegraded

LEMMA Ordered ==
  ASSUME NEW a \in Nat, NEW b \in Nat, NEW c \in Nat, a <= b
  PROVE  a * c <= b * c
<1>1. PICK d \in Nat : b = a + d
  <2>1. b - a \in Nat OBVIOUS
  <2> QED BY <2>1
<1>2. b * c = a * c + d * c BY <1>1
<1>3. d * c \in Nat /\ a * c \in Nat OBVIOUS
<1> QED BY <1>2, <1>3

\* The rule in its two forms: by the rank of the values at or above one's own,
\* as the array computes it, and by the greatest number of discoveries.
LEMMA Rejected ==
  ASSUME NEW H, IsFiniteSet(H), NEW f \in [H -> Nat], NEW top \in Nat, NEW q \in Nat,
         \A x \in H : f[x] <= top, NEW h \in H
  PROVE  (\E x \in H : f[x] * Cardinality(H) <= q * Cardinality({g \in H : f[g] <= f[x]})
                       /\ f[x] >= f[h])
         <=> \E k \in 1..Cardinality(H) :
               /\ Cardinality({g \in H : f[g] * Cardinality(H) <= q * k}) >= k
               /\ f[h] * Cardinality(H) <= q * k
<1> DEFINE m == Cardinality(H)
           low(x) == {g \in H : f[g] <= f[x]}
           within(k) == {g \in H : f[g] * m <= q * k}
<1>1. m \in Nat BY FS_CardinalityType
<1>2. \A T \in SUBSET H : IsFiniteSet(T) /\ Cardinality(T) \in Nat /\ Cardinality(T) <= m
  BY FS_Subset, FS_CardinalityType
<1>3. ASSUME NEW T \in SUBSET H, NEW U \in SUBSET T
      PROVE  Cardinality(U) <= Cardinality(T)
  BY <1>2, <1>3, FS_Subset
<1>4. \A T \in SUBSET H : T # {} => Cardinality(T) >= 1
  <2>1. \A T \in SUBSET H : T # {} => Cardinality(T) # 0 BY <1>2, FS_EmptySet
  <2> QED BY <1>2, <2>1
<1>5. ASSUME NEW x \in H, f[x] * m <= q * Cardinality(low(x)), f[x] >= f[h]
      PROVE  \E k \in 1..m : Cardinality(within(k)) >= k /\ f[h] * m <= q * k
  <2> DEFINE k == Cardinality(low(x))
  <2>1. k \in 1..m
    <3>1. low(x) # {} /\ low(x) \in SUBSET H BY DEF low
    <3> HIDE DEF low
    <3> QED BY <1>1, <1>2, <1>4, <3>1
  <2>2. k \in Nat BY <1>1, <2>1
  <2> HIDE DEF k
  <2>3. f[x] * m <= q * k BY <1>5 DEF k
  <2>4. \A g \in H : f[g] <= f[x] => f[g] * m <= q * k
    <3>1. SUFFICES ASSUME NEW g \in H, f[g] <= f[x] PROVE f[g] * m <= q * k OBVIOUS
    <3>2. f[g] \in Nat /\ f[x] \in Nat OBVIOUS
    <3>3. f[g] * m <= f[x] * m BY <1>1, <3>1, <3>2, Ordered
    <3>4. f[g] * m \in Nat /\ f[x] * m \in Nat /\ q * k \in Nat BY <1>1, <2>2, <3>2
    <3> QED BY <2>3, <3>3, <3>4
  <2>5. low(x) \in SUBSET within(k) /\ within(k) \in SUBSET H BY <2>4
  <2>6. Cardinality(within(k)) >= k
    <3> HIDE DEF low, within
    <3>1. Cardinality(low(x)) <= Cardinality(within(k)) BY <1>3, <2>5
    <3> QED BY <1>2, <2>2, <2>5, <3>1 DEF k
  <2>7. f[h] * m <= q * k BY <1>5, <2>4
  <2> QED BY <2>1, <2>6, <2>7
<1>6. ASSUME NEW k \in 1..m, Cardinality(within(k)) >= k, f[h] * m <= q * k
      PROVE  \E x \in H : f[x] * m <= q * Cardinality(low(x)) /\ f[x] >= f[h]
  <2> DEFINE below == {top - f[g] : g \in within(k)}
  <2>1. h \in within(k) BY <1>6
  <2>2. below \in SUBSET Nat /\ below # {}
    <3>1. \A g \in H : f[g] \in Nat /\ f[g] <= top OBVIOUS
    <3>2. \A g \in H : top - f[g] \in Nat BY <3>1
    <3>3. within(k) \in SUBSET H OBVIOUS
    <3> QED BY <2>1, <3>2, <3>3
  <2> HIDE DEF below
  <2>3. PICK least \in below : \A b \in below : least <= b
    BY <2>2, First
  <2>4. PICK x \in within(k) : least = top - f[x] BY <2>3 DEF below
  <2>5. \A g \in within(k) : f[g] <= f[x]
    <3>1. SUFFICES ASSUME NEW g \in within(k) PROVE f[g] <= f[x] OBVIOUS
    <3>2. top - f[g] \in below BY <3>1 DEF below
    <3>3. least <= top - f[g] BY <2>3, <3>2
    <3>4. f[g] \in Nat /\ f[x] \in Nat BY <2>4, <3>1
    <3> QED BY <2>4, <3>3, <3>4
  <2>6. within(k) \in SUBSET low(x) /\ low(x) \in SUBSET H BY <2>5
  <2>7. k \in Nat /\ Cardinality(low(x)) \in Nat /\ k <= Cardinality(low(x))
    <3> HIDE DEF low, within
    <3>1. Cardinality(within(k)) <= Cardinality(low(x)) BY <1>3, <2>6
    <3>2. within(k) \in SUBSET H BY <2>6
    <3> QED BY <1>1, <1>2, <1>6, <2>6, <3>1, <3>2
  <2> DEFINE c == Cardinality(low(x))
  <2>8. c \in Nat /\ k <= c /\ k \in Nat BY <2>7
  <2> HIDE DEF c
  <2>9. q * k <= q * c
    <3>1. k * q <= c * q BY <2>8, Ordered
    <3>2. k * q = q * k /\ c * q = q * c BY <2>8
    <3> QED BY <3>1, <3>2
  <2>10. x \in H /\ f[x] * m <= q * k BY <2>4
  <2>11. f[x] * m <= q * c
    <3>1. f[x] * m \in Nat /\ q * k \in Nat /\ q * c \in Nat BY <1>1, <2>8, <2>10
    <3> QED BY <2>9, <2>10, <3>1
  <2>12. f[x] >= f[h] BY <2>1, <2>5, <2>10
  <2> QED BY <2>10, <2>11, <2>12 DEF c
<1> QED BY <1>5, <1>6

\* Each hypothesis has a place of its own in the array that is corrected.
LEMMA Placed ==
  ASSUME NEW A \in SUBSET ((1..ClassCount) \X Metric), ClassCount \in Nat
  PROVE  /\ IsFiniteSet(A)
         /\ Cardinality({Compare!Place(x[1], x[2]) : x \in A}) = Cardinality(A)
<1>1. IsFiniteSet(A)
  <2>1. IsFiniteSet({}) BY FS_EmptySet
  <2>2. IsFiniteSet({} \union {"precision"}) BY <2>1, FS_AddElement
  <2>3. IsFiniteSet(({} \union {"precision"}) \union {"recall"}) BY <2>2, FS_AddElement
  <2>4. Metric = ({} \union {"precision"}) \union {"recall"} BY DEF Metric
  <2>5. IsFiniteSet(Metric) BY <2>3, <2>4
  <2>6. IsFiniteSet(1..ClassCount) BY FS_Interval
  <2>7. IsFiniteSet((1..ClassCount) \X Metric) BY <2>5, <2>6, FS_Product
  <2> QED BY <2>7, FS_Subset
<1> DEFINE T == {Compare!Place(x[1], x[2]) : x \in A}
           F == [x \in A |-> Compare!Place(x[1], x[2])]
<1>2. F \in [A -> T] /\ \A t \in T : \E x \in A : F[x] = t OBVIOUS
<1>3. \A x, y \in A : F[x] = F[y] => x = y
  <2>1. SUFFICES ASSUME NEW x \in A, NEW y \in A,
                        Compare!Place(x[1], x[2]) = Compare!Place(y[1], y[2])
                 PROVE  x = y
    OBVIOUS
  <2>2. /\ x = <<x[1], x[2]>> /\ x[1] \in 1..ClassCount /\ x[2] \in Metric
        /\ y = <<y[1], y[2]>> /\ y[1] \in 1..ClassCount /\ y[2] \in Metric
    OBVIOUS
  <2>3. x[1] = y[1] /\ x[2] = y[2]
    BY <2>1, <2>2 DEF Compare!Place, Compare!Half, ClassCount, Metric
  <2> QED BY <2>2, <2>3
<1> HIDE DEF F, T
<1>4. F \in Bijection(A, T) BY <1>2, <1>3, Fun_IsBij
<1>5. ExistsBijection(A, T) BY <1>4 DEF ExistsBijection
<1>6. Cardinality(T) = Cardinality(A) BY <1>1, <1>5, FS_Bijection
<1> QED BY <1>1, <1>6 DEF T

\* Compared are the classes both models can be held to.
LEMMA Comparable ==
  ASSUME CompareInv, NEW c \in Compare!All
  PROVE  Compare!Reason(c) = "none" <=> Compare!Fair(c)
<1>1. /\ class[c].truth \in Nat
      /\ \A s \in Compare!Sides :
           class[c].tp[s] \in Nat /\ class[c].fp[s] \in Nat /\ class[c].known[s] \in BOOLEAN
  <2>1. class[c] \in Tallies BY DEF CompareInv, CompareTypes
  <2> QED BY <2>1, ResultsAssumption DEF Tallied
<1>2. \A s \in Compare!Sides : Compare!Predicted(c, s) \in Nat BY <1>1 DEF Compare!Predicted
<1>3. Compare!Fair(c) <=>
        /\ \A s \in Compare!Sides : class[c].known[s]
        /\ class[c].truth # 0 /\ \E s \in Compare!Sides : Compare!Predicted(c, s) # 0
  BY <1>1, <1>2 DEF Compare!Fair
<1>4. Compare!Sides # {} BY DEF Compare!Sides
<1> HIDE DEF Compare!Sides
<1> QED BY <1>3, <1>4 DEF Compare!Reason

\* What a finished table is about.
LEMMA Family ==
  ASSUME CompareInv, comparePc \in {"adjusted", "pooled", "done"}
  PROVE  /\ ClassCount \in Nat /\ Len(rows) = ClassCount
         /\ Compare!Hypotheses \in SUBSET ((1..ClassCount) \X Metric)
         /\ \A h \in (1..ClassCount) \X Metric :
              /\ Compare!P(h) \in 0..Unit /\ rows[h[1]].tests[h[2]].delta \in {0 - 1, 0, 1}
              /\ h \in Compare!Hypotheses <=> Compare!P(h) # 0
              /\ Compare!Place(h[1], h[2]) \in DOMAIN Compare!PValues
              /\ Compare!PValues[Compare!Place(h[1], h[2])] = Compare!P(h)
         /\ \A g \in DOMAIN Compare!PValues :
              \E h \in (1..ClassCount) \X Metric : g = Compare!Place(h[1], h[2])
<1>1. ClassCount \in Nat /\ Len(rows) = ClassCount
  BY ResultsAssumption DEF ClassCount, CompareInv, CompareTypes, CompareAdjusted
<1>2. \A i \in 1..ClassCount : rows[i] \in [name : STRING, tests : [Metric -> CompareTest]]
  <2> DEFINE S == [name : STRING, tests : [Metric -> CompareTest]]
  <2>1. rows \in Seq(S) BY DEF CompareInv, CompareTypes
  <2> HIDE DEF S
  <2>2. \A i \in 1..ClassCount : rows[i] \in S BY <1>1, <2>1
  <2> QED BY <2>2 DEF S
<1>3. \A h \in (1..ClassCount) \X Metric :
        Compare!P(h) \in 0..Unit /\ rows[h[1]].tests[h[2]].delta \in {0 - 1, 0, 1}
  BY <1>2 DEF Compare!P, CompareTest
<1>4. Compare!Hypotheses = {h \in (1..ClassCount) \X Metric :
                             Compare!Fair(rows[h[1]].name) /\ Compare!P(h) # 0}
  BY DEF Compare!Hypotheses, Compare!Half, ClassCount, Compare!Metrics, Metric
<1>5. ASSUME NEW h \in (1..ClassCount) \X Metric, Compare!P(h) # 0
      PROVE  Compare!Fair(rows[h[1]].name)
  <2>1. h[1] \in 1..ClassCount /\ h[2] \in Metric OBVIOUS
  <2>2. rows[h[1]].name = Classes[h[1]] BY <1>1, <2>1 DEF CompareInv, CompareRows
  <2>3. Classes[h[1]] \in compared BY <1>1, <1>5, <2>1 DEF CompareInv, CompareRows, Compare!P
  <2>4. Classes[h[1]] \in Compare!All /\ Compare!Reason(Classes[h[1]]) = "none"
    BY <2>3 DEF CompareInv, CompareSplit
  <2> QED BY <2>2, <2>4, Comparable
<1>6. DOMAIN Compare!PValues = 1..2 * ClassCount
  BY DEF Compare!PValues, Compare!Half, ClassCount
<1>7. \A h \in (1..ClassCount) \X Metric :
        /\ Compare!Place(h[1], h[2]) \in 1..2 * ClassCount
        /\ Compare!PValues[Compare!Place(h[1], h[2])] = Compare!P(h)
  <2> SUFFICES ASSUME NEW i \in 1..ClassCount, NEW m \in Metric
               PROVE  /\ Compare!Place(i, m) \in 1..2 * ClassCount
                      /\ Compare!PValues[Compare!Place(i, m)] = rows[i].tests[m].p
    BY DEF Compare!P
  <2>1. CASE m = "precision"
    <3>1. Compare!Place(i, m) = i BY <2>1 DEF Compare!Place
    <3> QED BY <1>1, <2>1, <3>1 DEF Compare!PValues, Compare!Half, ClassCount
  <2>2. CASE m = "recall"
    <3>1. Compare!Place(i, m) = ClassCount + i
      BY <2>2 DEF Compare!Place, Compare!Half, ClassCount
    <3>2. ClassCount + i \in 1..2 * ClassCount /\ ~(ClassCount + i <= ClassCount)
          /\ (ClassCount + i) - ClassCount = i
      BY <1>1
    <3> QED BY <2>2, <3>1, <3>2 DEF Compare!PValues, Compare!Half, ClassCount
  <2> QED BY <2>1, <2>2 DEF Metric
<1>8. \A g \in 1..2 * ClassCount :
        \E h \in (1..ClassCount) \X Metric : g = Compare!Place(h[1], h[2])
  <2> SUFFICES ASSUME NEW g \in 1..2 * ClassCount
               PROVE  \E h \in (1..ClassCount) \X Metric : g = Compare!Place(h[1], h[2])
    OBVIOUS
  <2>1. CASE g <= ClassCount
    <3>1. <<g, "precision">> \in (1..ClassCount) \X Metric BY <1>1, <2>1 DEF Metric
    <3>2. g = Compare!Place(g, "precision") BY DEF Compare!Place
    <3> QED BY <3>1, <3>2
  <2>2. CASE ~(g <= ClassCount)
    <3>1. g - ClassCount \in 1..ClassCount /\ g = ClassCount + (g - ClassCount) BY <1>1, <2>2
    <3>2. <<g - ClassCount, "recall">> \in (1..ClassCount) \X Metric BY <3>1 DEF Metric
    <3>3. g = Compare!Place(g - ClassCount, "recall")
      BY <3>1 DEF Compare!Place, Compare!Half, ClassCount
    <3> QED BY <3>2, <3>3
  <2> QED BY <2>1, <2>2
<1>9. \A h \in (1..ClassCount) \X Metric : h \in Compare!Hypotheses <=> Compare!P(h) # 0
  BY <1>4, <1>5
<1>10. Compare!Hypotheses \in SUBSET ((1..ClassCount) \X Metric) BY <1>4
<1> QED BY <1>1, <1>3, <1>6, <1>7, <1>8, <1>9, <1>10

\* Each adjusted value is what the rule says of its hypothesis.
LEMMA Adjusted ==
  ASSUME CompareInv, comparePc \in {"adjusted", "pooled", "done"},
         NEW h \in (1..ClassCount) \X Metric
  PROVE  adjusted[Compare!Place(h[1], h[2])] =
           IF h \notin Compare!Hypotheses THEN "undefined"
           ELSE IF h \in Compare!StepUp THEN "within" ELSE "above"
<1> DEFINE H == Compare!Hypotheses
           p == Compare!PValues
           f == [x \in H |-> Compare!P(x)]
           m == Cardinality(H)
           family == {g \in DOMAIN p : Compare!Defined(p[g])}
           low(v) == {x \in H : Compare!P(x) <= v}
           rank(v) == Cardinality({g \in family : p[g] <= v})
           passing == {v \in {p[g] : g \in family} : v * Cardinality(family) <= Q * rank(v)}
           spot(x) == Compare!Place(x[1], x[2])
<1>1. /\ ClassCount \in Nat /\ H \in SUBSET ((1..ClassCount) \X Metric)
      /\ \A x \in (1..ClassCount) \X Metric :
           /\ Compare!P(x) \in 0..Unit /\ (x \in H <=> Compare!P(x) # 0)
           /\ spot(x) \in DOMAIN p /\ p[spot(x)] = Compare!P(x)
      /\ \A g \in DOMAIN p : \E x \in (1..ClassCount) \X Metric : g = spot(x)
  BY Family
<1>2. family = {spot(x) : x \in H}
  <2> HIDE DEF H, p, spot
  <2> QED BY <1>1 DEF Compare!Defined
<1>3. \A v : {g \in family : p[g] <= v} = {spot(x) : x \in low(v)}
  <2> HIDE DEF H, p, spot, family
  <2> QED BY <1>1, <1>2
<1>4. Cardinality(family) = m /\ IsFiniteSet(H)
  BY <1>1, <1>2, Placed
<1>5. \A v : rank(v) = Cardinality(low(v))
  <2>1. ASSUME NEW v PROVE Cardinality({spot(x) : x \in low(v)}) = Cardinality(low(v))
    <3>1. low(v) \in SUBSET ((1..ClassCount) \X Metric) BY <1>1
    <3> HIDE DEF low
    <3> QED BY <1>1, <3>1, Placed
  <2> QED BY <1>3, <2>1
<1>6. adjusted[spot(h)] = IF p[spot(h)] = 0 THEN "undefined"
                          ELSE IF \E v \in passing : v >= p[spot(h)] THEN "within" ELSE "above"
  <2>1. adjusted = Compare!Corrected(p) BY DEF CompareInv, CompareAdjusted
  <2>2. spot(h) \in DOMAIN p BY <1>1
  <2> HIDE DEF p, spot
  <2> QED BY <2>1, <2>2 DEF Compare!Corrected, Compare!Cardinality, Cardinality
<1>7. CASE h \notin H BY <1>1, <1>6, <1>7
<1>8. CASE h \in H
  <2>1. (\E v \in passing : v >= p[spot(h)])
        <=> \E x \in H : f[x] * m <= Q * Cardinality({g \in H : f[g] <= f[x]}) /\ f[x] >= f[h]
    <3>1. \A x \in H : {g \in H : f[g] <= f[x]} = low(f[x]) OBVIOUS
    <3>2. {p[g] : g \in family} = {f[x] : x \in H}
      <4>1. \A x \in H : p[spot(x)] = f[x] BY <1>1
      <4> HIDE DEF p, f, H, spot, family
      <4> QED BY <1>2, <4>1
    <3>3. p[spot(h)] = f[h] BY <1>1, <1>8
    <3>4. passing = {v \in {f[x] : x \in H} : v * m <= Q * Cardinality(low(v))}
      <4> HIDE DEF p, f, H, family, rank, low
      <4> QED BY <1>4, <1>5, <3>2
    <3> HIDE DEF p, f, H, family, rank, passing, low, spot
    <3> QED BY <3>1, <3>3, <3>4
  <2>2. /\ f \in [H -> Nat] /\ Unit \in Nat /\ Q \in Nat /\ \A x \in H : f[x] <= Unit
    BY <1>1, ResultsAssumption
  <2>3. (\E x \in H : f[x] * m <= Q * Cardinality({g \in H : f[g] <= f[x]}) /\ f[x] >= f[h])
        <=> \E k \in 1..m : /\ Cardinality({g \in H : f[g] * m <= Q * k}) >= k
                          /\ f[h] * m <= Q * k
    <3> HIDE DEF f, H
    <3> QED BY <1>4, <1>8, <2>2, Rejected
  <2>4. h \in Compare!StepUp <=>
          \E k \in 1..m : /\ Cardinality({g \in H : Compare!P(g) * m <= Q * k}) >= k
                        /\ Compare!P(h) * m <= Q * k
    BY <1>8 DEF Compare!StepUp, Compare!Cardinality, Cardinality
  <2>5. \A k : {g \in H : f[g] * m <= Q * k} = {g \in H : Compare!P(g) * m <= Q * k} OBVIOUS
  <2>6. f[h] = Compare!P(h) BY <1>8
  <2>7. h \in Compare!StepUp <=> \E v \in passing : v >= p[spot(h)]
    <3> HIDE DEF f, H, p, spot, passing
    <3> QED BY <2>1, <2>3, <2>4, <2>5, <2>6
  <2>8. p[spot(h)] # 0 BY <1>1, <1>8
  <2> QED BY <1>6, <1>8, <2>7, <2>8
<1> QED BY <1>7, <1>8

\* What the tests of a class may return.
LEMMA Tested ==
  /\ Compare!Unavailable \in [Metric -> CompareTest]
  /\ \A m \in Metric : Compare!Unavailable[m].p = 0
  /\ \A C, t : t \in Compare!TestPair(C) => t \in [Metric -> CompareTest]
<1>0. Unit \in Nat /\ Outcomes \subseteq 1..Unit BY ResultsAssumption
<1>1. Compare!Untested \in CompareTest /\ Compare!Untested.p = 0
  BY <1>0 DEF Compare!Untested, CompareTest
<1>2. \A n : Compare!Sign(n) \in {0 - 1, 0, 1} BY DEF Compare!Sign
<1>3. Outcomes \union {0} \subseteq 0..Unit /\ Outcomes \union {Unit} \subseteq 0..Unit BY <1>0
<1>4. \A C : Compare!Precision(C) \subseteq CompareTest
  BY <1>1, <1>2, <1>3 DEF Compare!Precision, CompareTest
<1>5. \A C : Compare!Recall(C) \subseteq CompareTest
  BY <1>1, <1>2, <1>3 DEF Compare!Recall, CompareTest
<1>6. ASSUME NEW C, NEW t \in Compare!TestPair(C) PROVE t \in [Metric -> CompareTest]
  <2>1. PICK a \in Compare!Precision(C), b \in Compare!Recall(C) : t = [precision |-> a, recall |-> b]
    BY <1>6 DEF Compare!TestPair
  <2>2. a \in CompareTest /\ b \in CompareTest BY <1>4, <1>5
  <2> QED BY <2>1, <2>2 DEF Metric
<1> QED BY <1>1, <1>6 DEF Compare!Unavailable, Compare!Metrics, Metric

LEMMA CompareStep ==
  ASSUME CompareInv, [Compare!Next]_(Compare!vars)
  PROVE  CompareInv'
<1> DEFINE Table == [name : STRING, tests : [Metric -> CompareTest]]
<1>0. /\ ClassCount \in Nat /\ next \in 1..ClassCount + 1 /\ rows \in Seq(Table) /\ Len(rows) = next - 1
      /\ comparePc = "split" => next = 1
  BY ResultsAssumption DEF ClassCount, CompareInv, CompareTypes
<1>1. CASE Compare!Exclude
  <2>1. /\ comparePc = "split" /\ comparePc' = "rows"
        /\ compared' = {c \in Compare!All : Compare!Reason(c) = "none"}
        /\ UNCHANGED <<class, next, rows>>
    BY <1>1 DEF Compare!Exclude
  <2>2. \A c : (Compare!Reason(c))' = Compare!Reason(c)
    BY <2>1 DEF Compare!Reason, Compare!Predicted
  <2>3. CompareRows' BY <1>0, <2>1 DEF CompareRows
  <2>4. CompareTypes' BY <2>1 DEF CompareInv, CompareTypes
  <2>5. CompareSplit' BY <2>1, <2>2 DEF CompareSplit
  <2> QED BY <2>1, <2>3, <2>4, <2>5 DEF CompareInv, CompareAdjusted, CompareDegraded
<1>2. CASE Compare!Row
  <2> DEFINE c == Classes[next]
  <2>1. /\ comparePc = "rows" /\ comparePc' = "rows" /\ next <= ClassCount /\ next' = next + 1
        /\ \E t \in IF c \in compared THEN Compare!TestPair({c}) ELSE {Compare!Unavailable} :
             rows' = Append(rows, [name |-> c, tests |-> t])
        /\ UNCHANGED <<class, compared>>
    BY <1>2 DEF Compare!Row, ClassCount
  <2>2. PICK t \in [Metric -> CompareTest] :
          /\ rows' = Append(rows, [name |-> c, tests |-> t])
          /\ c \notin compared => \A m \in Metric : t[m].p = 0
    BY <2>1, Tested
  <2>3. c \in STRING BY <1>0, <2>1, ResultsAssumption DEF ClassCount
  <2> DEFINE row == [name |-> c, tests |-> t]
  <2>4. row \in Table BY <2>3
  <2>5. row.name = c /\ row.tests = t OBVIOUS
  <2> HIDE DEF row, Table
  <2>6. /\ rows' \in Seq(Table) /\ Len(rows') = next
        /\ \A i \in 1..Len(rows) : rows'[i] = rows[i]
        /\ rows'[next] = row
    BY <1>0, <2>2, <2>4 DEF row
  <2>7. CompareTypes'
    BY <1>0, <2>1, <2>6 DEF CompareInv, CompareTypes, Table
  <2>8. CompareRows'
    <3>1. SUFFICES ASSUME NEW i \in 1..next
                   PROVE  /\ rows'[i].name = Classes[i]
                          /\ Classes[i] \notin compared => \A m \in Metric : rows'[i].tests[m].p = 0
      BY <2>1, <2>6 DEF CompareRows
    <3>2. CASE i = next BY <2>2, <2>5, <2>6, <3>2
    <3>3. CASE i # next
      <4>1. i \in 1..Len(rows) BY <1>0, <3>3
      <4> QED BY <2>6, <4>1 DEF CompareInv, CompareRows
    <3> QED BY <3>2, <3>3
  <2>9. CompareSplit'
    <3>1. \A x : (Compare!Reason(x))' = Compare!Reason(x)
      BY <2>1 DEF Compare!Reason, Compare!Predicted
    <3> QED BY <2>1, <3>1 DEF CompareInv, CompareSplit
  <2> QED BY <2>1, <2>7, <2>8, <2>9 DEF CompareInv, CompareAdjusted, CompareDegraded
<1>3. CASE Compare!Adjust
  <2>1. /\ comparePc = "rows" /\ comparePc' = "adjusted" /\ next > ClassCount
        /\ adjusted' = Compare!Corrected(Compare!PValues)
        /\ UNCHANGED <<class, next, compared, rows>>
    BY <1>3 DEF Compare!Adjust, ClassCount
  <2>2. /\ \A c : (Compare!Reason(c))' = Compare!Reason(c)
        /\ (Compare!PValues)' = Compare!PValues
    BY <2>1 DEF Compare!Reason, Compare!Predicted, Compare!PValues
  <2>3. next' = ClassCount + 1 BY <1>0, <2>1
  <2>4. CompareTypes' /\ CompareRows' BY <2>1 DEF CompareInv, CompareTypes, CompareRows
  <2>5. CompareSplit' BY <2>1, <2>2 DEF CompareInv, CompareSplit
  <2>6. CompareAdjusted'
    <3>1. \A x : (Compare!Corrected(x))' = Compare!Corrected(x)
      BY DEF Compare!Corrected, Compare!Defined
    <3> QED BY <2>1, <2>2, <2>3, <3>1 DEF CompareAdjusted
  <2> QED BY <2>1, <2>4, <2>5, <2>6 DEF CompareInv, CompareDegraded
<1>4. CASE Compare!Pool \/ Compare!Degraded \/ Compare!Done \/ UNCHANGED Compare!vars
  <2>1. /\ UNCHANGED <<class, next, compared, rows, adjusted>>
        /\ \/ comparePc = "adjusted" /\ comparePc' = "pooled"
           \/ comparePc = "pooled" /\ comparePc' = "done"
           \/ comparePc' = comparePc /\ degraded' = degraded
    BY <1>4 DEF Compare!Pool, Compare!Degraded, Compare!Done, Compare!vars
  <2>2. /\ \A c : (Compare!Reason(c))' = Compare!Reason(c)
        /\ (Compare!PValues)' = Compare!PValues
        /\ \A i, m : (Compare!Verdict(i, m))' = Compare!Verdict(i, m)
    BY <2>1 DEF Compare!Reason, Compare!Predicted, Compare!PValues, Compare!Verdict, Compare!Place
  <2>3. CompareTypes' /\ CompareRows' BY <2>1 DEF CompareInv, CompareTypes, CompareRows
  <2>4. CompareSplit' BY <2>1, <2>2 DEF CompareInv, CompareSplit
  <2>5. CompareAdjusted'
    <3>1. \A x : (Compare!Corrected(x))' = Compare!Corrected(x)
      BY DEF Compare!Corrected, Compare!Defined
    <3> QED BY <2>1, <2>2, <3>1 DEF CompareInv, CompareAdjusted
  <2>6. CompareDegraded'
    <3>1. CASE comparePc' = "done" /\ comparePc = "pooled"
      <4>1. Compare!Degraded BY <1>4, <3>1 DEF Compare!Pool, Compare!Done, Compare!vars
      <4>2. degraded' = {rows[i].name : i \in {j \in 1..ClassCount :
                                                \E m \in Metric : Compare!Verdict(j, m) = "degraded"}}
        BY <4>1 DEF Compare!Degraded, Compare!Half, ClassCount, Compare!Metrics, Metric
      <4> QED BY <2>1, <2>2, <4>2 DEF CompareDegraded
    <3>2. CASE ~(comparePc' = "done" /\ comparePc = "pooled")
      BY <2>1, <2>2, <3>2 DEF CompareInv, CompareDegraded
    <3> QED BY <3>1, <3>2
  <2> QED BY <2>3, <2>4, <2>5, <2>6 DEF CompareInv
<1> QED BY <1>1, <1>2, <1>3, <1>4 DEF Compare!Next

(***************************************************************************)
(* Whatever classes, tallies and p-values, and whatever the rate: every    *)
(* verdict is what the step-up rule says of its own class and metric among *)
(* the classes both models can be held to, and exactly those degraded are  *)
(* listed.  (adjust_benjamini_hochberg, core/comparison; _degraded of      *)
(* use_cases/compare.py)                                                   *)
(***************************************************************************)
THEOREM Judgement == Spec => []VerdictsEarned
<1> DEFINE Inv == focus = "comparison" => CompareInv
<1>1. Init => Inv
  <2>1. ASSUME Compare!Init PROVE CompareInv
    <3>1. /\ class \in [Compare!All -> Tallies] /\ comparePc = "split" /\ next = 1 /\ rows = <<>>
      BY <2>1 DEF Compare!Init
    <3>2. ClassCount \in Nat BY ResultsAssumption DEF ClassCount
    <3>3. CompareTypes
      <4>1. next \in 1..ClassCount + 1 /\ Len(rows) = next - 1 BY <3>1, <3>2
      <4> QED BY <3>1, <4>1 DEF CompareTypes
    <3> QED BY <3>1, <3>3
            DEF CompareInv, CompareRows, CompareSplit, CompareAdjusted, CompareDegraded
  <2> QED BY <2>1 DEF Init
<1>2. Inv /\ [Next]_vars => Inv' BY ScoresFocus, CompareStep
<1>3. Inv => VerdictsEarned
  <2>1. SUFFICES ASSUME CompareInv, comparePc = "done" PROVE Compare!VerdictsEarned
    BY DEF VerdictsEarned, Compare!VerdictsEarned
  <2> DEFINE tested == Compare!Hypotheses
             rejected == Compare!StepUp
  <2>2. ClassCount = Compare!Half /\ Metric = Compare!Metrics
    BY DEF ClassCount, Metric, Compare!Half, Compare!Metrics
  <2>3. ASSUME NEW i \in 1..ClassCount, NEW m \in Metric
        PROVE  Compare!Verdict(i, m) =
                 Compare!Judge(rows[i].tests[m].delta,
                               IF <<i, m>> \notin tested THEN "undefined"
                               ELSE IF <<i, m>> \in rejected THEN "within" ELSE "above")
    <3> DEFINE h == <<i, m>>
    <3>1. h \in (1..ClassCount) \X Metric /\ h[1] = i /\ h[2] = m OBVIOUS
    <3>2. adjusted[Compare!Place(h[1], h[2])] =
            IF h \notin tested THEN "undefined" ELSE IF h \in rejected THEN "within" ELSE "above"
      <4> HIDE DEF h
      <4> QED BY <2>1, <3>1, Adjusted
    <3>3. adjusted[Compare!Place(i, m)] =
            IF h \notin tested THEN "undefined" ELSE IF h \in rejected THEN "within" ELSE "above"
      BY <3>1, <3>2
    <3> QED BY <3>3 DEF Compare!Verdict
  <2>4. degraded = {rows[h[1]].name : h \in {g \in rejected : rows[g[1]].tests[g[2]].delta < 0}}
    <3>1. rejected \subseteq tested /\ tested \subseteq (1..ClassCount) \X Metric
      BY <2>1, Family DEF Compare!StepUp
    <3>2. \A i \in 1..ClassCount, m \in Metric :
            Compare!Verdict(i, m) = "degraded" <=>
              <<i, m>> \in rejected /\ rows[i].tests[m].delta < 0
      <4>1. SUFFICES ASSUME NEW i \in 1..ClassCount, NEW m \in Metric
                     PROVE  Compare!Verdict(i, m) = "degraded" <=>
                              <<i, m>> \in rejected /\ rows[i].tests[m].delta < 0
        OBVIOUS
      <4>2. rows[i].tests[m].delta \in {0 - 1, 0, 1}
        <5>1. <<i, m>> \in (1..ClassCount) \X Metric OBVIOUS
        <5>2. rows[<<i, m>>[1]].tests[<<i, m>>[2]].delta \in {0 - 1, 0, 1} BY <2>1, <5>1, Family
        <5> QED BY <5>2
      <4>3. <<i, m>> \in rejected => <<i, m>> \in tested BY <3>1
      <4> HIDE DEF tested, rejected
      <4> QED BY <2>3, <4>2, <4>3 DEF Compare!Judge
    <3>3. degraded = {rows[i].name : i \in {j \in 1..ClassCount :
                                              \E m \in Metric : Compare!Verdict(j, m) = "degraded"}}
      BY <2>1 DEF CompareInv, CompareDegraded
    <3>4. \A h \in rejected : h = <<h[1], h[2]>> /\ h[1] \in 1..ClassCount /\ h[2] \in Metric
      BY <3>1
    <3> DEFINE lost == {g \in rejected : rows[g[1]].tests[g[2]].delta < 0}
    <3>5. \A i \in 1..ClassCount :
            (\E m \in Metric : Compare!Verdict(i, m) = "degraded") <=> \E h \in lost : h[1] = i
      <4>1. ASSUME NEW i \in 1..ClassCount, NEW m \in Metric, Compare!Verdict(i, m) = "degraded"
            PROVE  \E h \in lost : h[1] = i
        <5>1. <<i, m>> \in lost BY <3>2, <4>1
        <5> HIDE DEF lost
        <5> QED BY <5>1
      <4>2. ASSUME NEW i \in 1..ClassCount, NEW h \in lost, h[1] = i
            PROVE  \E m \in Metric : Compare!Verdict(i, m) = "degraded"
        BY <3>2, <3>4, <4>2
      <4> QED BY <4>1, <4>2
    <3>6. \A h \in lost : h[1] \in 1..ClassCount BY <3>4
    <3> HIDE DEF lost
    <3>7. degraded = {rows[h[1]].name : h \in lost}
      BY <3>3, <3>5, <3>6
    <3> QED BY <3>7 DEF lost
  <2> QED BY <2>2, <2>3, <2>4 DEF Compare!VerdictsEarned
<1> QED BY <1>1, <1>2, <1>3, PTL DEF Spec
=============================================================================
