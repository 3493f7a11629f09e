------------------------------ MODULE Comparison ------------------------------
(***************************************************************************)
(* Two scored splits compared class by class and pooled                    *)
(* (core/comparison, adapters/evaluation/comparison.py, _degraded of       *)
(* use_cases/compare.py): which classes are compared, the two tests of     *)
(* each, one false discovery correction over all of them, the verdicts.    *)
(*                                                                         *)
(* A class is given by its tallies: [truth, tp, fp, known], the last three *)
(* by side.  Probabilities are whole numbers out of Unit and 0 is an       *)
(* undefined one (no test returns zero); a delta is its sign.              *)
(***************************************************************************)
EXTENDS Naturals, Integers, Sequences, FiniteSets, FiniteSetsExt

CONSTANTS Names,       \* class names in their sorted order, a sequence
          Tallies,     \* what a class may look like
          Outcomes,    \* the p-values a test may return, subset of 1..Unit
          Unit, Q

VARIABLES class,       \* tallies by name
          pc, next,    \* next: the class the loop is at
          compared, excluded, rows, adjusted, pooled, degraded

vars == <<class, pc, next, compared, excluded, rows, adjusted, pooled, degraded>>

Sides == {"baseline", "candidate"}
Metrics == {"precision", "recall"}
Untested == [p |-> 0, delta |-> 0]
Unavailable == [m \in Metrics |-> Untested]
All == {Names[i] : i \in DOMAIN Names}

Init ==
  /\ class \in [All -> Tallies]
  /\ pc = "split" /\ next = 1
  /\ compared = {} /\ excluded = <<>> /\ rows = <<>>
  /\ adjusted = <<>> /\ pooled = Unavailable /\ degraded = {}

\* _exclusion_reason: unknown to a model, no truth, nothing predicted.
Predicted(c, s) == class[c].tp[s] + class[c].fp[s]
Reason(c) ==
  CASE \A s \in Sides : ~class[c].known[s] -> "neither"
    [] \E s \in Sides : ~class[c].known[s] -> "one"
    [] class[c].truth = 0 -> "truth"
    [] \A s \in Sides : Predicted(c, s) = 0 -> "predictions"
    [] OTHER -> "none"

Exclude ==
  /\ pc = "split" /\ pc' = "rows"
  /\ compared' = {c \in All : Reason(c) = "none"}
  /\ excluded' = [c \in All \ compared' |-> Reason(c)]
  /\ UNCHANGED <<class, next, rows, adjusted, pooled, degraded>>

\* The sign of candidate minus baseline, of rates over the given classes.
Sign(n) == IF n > 0 THEN 1 ELSE IF n < 0 THEN -1 ELSE 0
Tp(C, s) == MapThenSumSet(LAMBDA c : class[c].tp[s], C)
Of(C, s) == MapThenSumSet(LAMBDA c : Predicted(c, s), C)
Truth(C) == MapThenSumSet(LAMBDA c : class[c].truth, C)

\* bootstrap_precision_delta: rows from both models, or every draw useless.
Precision(C) ==
  IF \E s \in Sides : Of(C, s) = 0 THEN {Untested}
  ELSE [p : Outcomes \union {0},
        delta : {Sign(Tp(C, "candidate") * Of(C, "baseline") - Tp(C, "baseline") * Of(C, "candidate"))}]

\* mcnemar_recall over the boxes both were scored on; no discordant pair
\* gives 1.  bootstrap_recall_delta adds an interval and no p-value.
Recall(C) ==
  IF Truth(C) = 0 THEN {Untested}
  ELSE [p : Outcomes \union {Unit}, delta : {Sign(Tp(C, "candidate") - Tp(C, "baseline"))}]

TestPair(C) == {[precision |-> a, recall |-> b] : a \in Precision(C), b \in Recall(C)}

\* One row per displayed class, tested only when it is compared.
Row ==
  /\ pc = "rows" /\ next <= Len(Names)
  /\ LET c == Names[next] IN
     \E t \in IF c \in compared THEN TestPair({c}) ELSE {Unavailable} :
       rows' = Append(rows, [name |-> c, tests |-> t])
  /\ next' = next + 1
  /\ UNCHANGED <<class, pc, compared, excluded, adjusted, pooled, degraded>>

\* adjust_benjamini_hochberg: undefined tests are held out and come back
\* undefined.  Values are scaled by the number of hypotheses over each rank.
Half == Len(Names)
PValues == [h \in 1..(2 * Half) |-> IF h <= Half THEN rows[h].tests["precision"].p
                                    ELSE rows[h - Half].tests["recall"].p]
Defined(p) == p # 0
\* h is rejected when some p at or above its own, times the family, over the
\* rank of that p, is at most q.
Corrected(p) ==
  LET family == {h \in DOMAIN p : Defined(p[h])}
      size == Cardinality(family)
      rank(v) == Cardinality({g \in family : p[g] <= v})
      passing == {v \in {p[g] : g \in family} : v * size <= Q * rank(v)}
  IN [h \in DOMAIN p |-> IF p[h] = 0 THEN "undefined"
                         ELSE IF \E v \in passing : v >= p[h] THEN "within" ELSE "above"]

Adjust ==
  /\ pc = "rows" /\ next > Len(Names) /\ pc' = "adjusted"
  /\ adjusted' = Corrected(PValues)
  /\ UNCHANGED <<class, next, compared, excluded, rows, pooled, degraded>>

\* The first half of the adjusted values are the precisions, in row order.
PlaceAlternating(i, m) == IF m = "precision" THEN 2 * i - 1 ELSE 2 * i
Place(i, m) == IF m = "precision" THEN i ELSE Half + i

Judge(delta, adj) ==
  IF adj = "undefined" THEN "unavailable"
  ELSE IF adj = "above" \/ delta = 0 THEN "not_significant"
  ELSE IF delta > 0 THEN "improved" ELSE "degraded"
Verdict(i, m) == Judge(rows[i].tests[m].delta, adjusted[Place(i, m)])

\* The pooled row: the same compared classes for counts and tests, judged by
\* its own p-values and outside the family.
Pool ==
  /\ pc = "adjusted" /\ pc' = "pooled"
  /\ \E t \in IF compared = {} THEN {Unavailable} ELSE TestPair(compared) : pooled' = t
  /\ UNCHANGED <<class, next, compared, excluded, rows, adjusted, degraded>>

Degraded ==
  /\ pc = "pooled" /\ pc' = "done"
  /\ degraded' = {rows[i].name : i \in {j \in 1..Half : \E m \in Metrics : Verdict(j, m) = "degraded"}}
  /\ UNCHANGED <<class, next, compared, excluded, rows, adjusted, pooled>>

Done == pc = "done" /\ UNCHANGED vars

Next == Exclude \/ Row \/ Adjust \/ Pool \/ Degraded \/ Done
Spec == Init /\ [][Next]_vars

---------------------------------------------------------------------------
\* The step-up rule, said of the classes both models can be held to: the k
\* smallest p-values are discoveries for the greatest k whose k-th is within
\* k/m of q.  A class of one model, without truth or without predictions is
\* no hypothesis and weighs on nobody else's.
Fair(c) == /\ \A s \in Sides : class[c].known[s]
           /\ class[c].truth > 0 /\ \E s \in Sides : Predicted(c, s) > 0
P(h) == rows[h[1]].tests[h[2]].p
Hypotheses == {h \in (1..Half) \X Metrics : Fair(rows[h[1]].name) /\ P(h) # 0}
StepUp ==
  LET m == Cardinality(Hypotheses)
      within(k) == {g \in Hypotheses : P(g) * m <= Q * k}
  IN UNION {within(k) : k \in {j \in 1..m : Cardinality(within(j)) >= j}}

\* Every verdict of the table, and the list of degraded classes, is what that
\* rule says of its own class and metric.
VerdictsEarned ==
  pc = "done" =>
    LET tested == Hypotheses  found == StepUp IN
    /\ \A i \in 1..Half, m \in Metrics :
         Verdict(i, m) = Judge(rows[i].tests[m].delta,
                               IF <<i, m>> \notin tested THEN "undefined"
                               ELSE IF <<i, m>> \in found THEN "within" ELSE "above")
    /\ degraded = {rows[h[1]].name : h \in {g \in found : rows[g[1]].tests[g[2]].delta < 0}}
=============================================================================
