------------------------------ MODULE Evaluation ------------------------------
(***************************************************************************)
(* One split scored at frozen thresholds (adapters/evaluation/scoring.py,  *)
(* core/evaluation): rows of ground truth and predictions are prepared,    *)
(* matched and thresholded, and the result is told three times: by class   *)
(* counts with box flags, by the payload of the viewer and by the exported *)
(* source rows.                                                            *)
(*                                                                         *)
(* A row's source id is its position in the file.  Every preparation       *)
(* renumbers: "prepared" maps the new index to the source position, a      *)
(* second numbering starts inside the split, and a match names its rows by *)
(* these indices, 0 (-1 in the code) being no row.  A shape is "box",      *)
(* "none" (no coordinates) or "bad" (what _geometry_reason rejects).       *)
(***************************************************************************)
EXTENDS Naturals, Sequences, FiniteSets, SequencesExt

CONSTANTS Truths, Guesses,   \* the rows a file may hold
          Rows,              \* rows per file
          Split, Scored, Confidences, NoLabel

VARIABLES truth, guess, pc,
          preparedTruth, raw, preparedGuess, scoped, thresholds,
          found, kept, payload, exported, outcome

source == <<truth, guess>>
ready == <<preparedTruth, raw, preparedGuess, scoped>>
told == <<payload, exported, outcome>>
vars == <<source, pc, ready, thresholds, found, kept, told>>

Nothing == <<>>

Init ==
  /\ truth \in [1..Rows -> Truths] /\ guess \in [1..Rows -> Guesses]
  /\ pc = "read"
  /\ preparedTruth = <<>> /\ raw = <<>> /\ preparedGuess = <<>> /\ scoped = <<>>
  /\ thresholds = Nothing /\ found = {} /\ kept = {}
  /\ payload = Nothing /\ exported = Nothing /\ outcome = Nothing

Step(from, to) == pc = from /\ pc' = to
InOrder(S) == CHOOSE s \in SetToSeqs(S) : \A i, j \in DOMAIN s : i < j => s[i] < s[j]
Members(s) == {s[i] : i \in DOMAIN s}

\* validate_split_membership and validate_prediction_identity.
Owned == \A i, j \in 1..Rows :
           truth[i].image = truth[j].image => {truth[i].split, truth[j].split} # {"val", "test"}
Known == \A i \in 1..Rows : \E j \in 1..Rows : guess[i].image = truth[j].image

\* find_duplicates_bboxes: of overlapping boxes of an image, one stays.
Duplicates ==
  {D \in SUBSET {i \in 1..Rows : truth[i].shape # "none"} :
     \A i \in D : \E j \in (1..Rows) \ D : truth[j].image = truth[i].image /\ truth[j].shape # "none"}

PrepareTruth ==
  /\ Step("read", "truth") /\ Owned /\ Known
  /\ \E D \in Duplicates : preparedTruth' = InOrder((1..Rows) \ D)
  /\ UNCHANGED <<source, raw, preparedGuess, scoped, thresholds, found, kept, told>>

\* Every copy of the predictions but the raw file loses invalid geometry.
Valid(r) == r.shape = "box"
FilterInvalid ==
  /\ Step("truth", "filtered")
  /\ raw' = InOrder({i \in 1..Rows : Valid(guess[i])})
  /\ UNCHANGED <<source, preparedTruth, preparedGuess, scoped, thresholds, found, kept, told>>

\* PredictionPreprocessor: confidence and NMS thresholds, any rows may go.
PrepareGuesses ==
  /\ Step("filtered", "prepared")
  /\ \E keep \in SUBSET Members(raw) : preparedGuess' = InOrder(keep)
  /\ UNCHANGED <<source, preparedTruth, raw, scoped, thresholds, found, kept, told>>

\* Calibrated on val or read from a file: every required class is there.
RequiredThere(t) == Scored \subseteq DOMAIN t
Thresholds ==
  /\ Step("prepared", "thresholds")
  /\ \E t \in [Scored -> Confidences] : RequiredThere(t) /\ thresholds' = t
  /\ UNCHANGED <<source, ready, found, kept, told>>

\* The split's rows, numbered again; a labelled row has a proper box.
Background(r) == r.label = NoLabel /\ r.shape = "none"
Proper(r) == Background(r) \/ (r.label # NoLabel /\ r.shape = "box")
Select ==
  /\ Step("thresholds", "selected")
  /\ scoped' = InOrder({i \in Members(preparedTruth) : truth[i].split = Split})
  /\ scoped' # <<>>
  /\ \A i \in Members(scoped') : Proper(truth[i])
  /\ UNCHANGED <<source, preparedTruth, raw, preparedGuess, thresholds, found, kept, told>>

T(i) == truth[scoped[i]]
G(j) == guess[preparedGuess[j]]
Images == {T(i).image : i \in DOMAIN scoped}
Boxes == {i \in DOMAIN scoped : T(i).shape # "none"}
InScope == {j \in DOMAIN preparedGuess : G(j).image \in Images}

\* match_boxes: pairs of one class, at most one per box; every other
\* prediction is a false positive, which may name the box of another class.
Pairs == {p \in Boxes \X InScope : T(p[1]).image = G(p[2]).image /\ T(p[1]).label = G(p[2]).label}
Matchings == {M \in SUBSET Pairs : \A p, q \in M : p # q => p[1] # q[1] /\ p[2] # q[2]}
Record(type, i, j, class) == [type |-> type, truth |-> i, guess |-> j, class |-> class]
Others(j) == {0} \union {i \in Boxes : T(i).image = G(j).image /\ T(i).label # G(j).label}
Match ==
  /\ Step("selected", "matched")
  /\ \E M \in Matchings :
       LET alone == InScope \ {p[2] : p \in M} IN
       \E near \in [alone -> 0..Rows] :
         /\ \A j \in alone : near[j] \in Others(j)
         /\ found' = {Record("TP", p[1], p[2], T(p[1]).label) : p \in M}
              \union {Record("FP", near[j], j, G(j).label) : j \in alone}
              \union {Record("FN", i, 0, T(i).label) : i \in Boxes \ {p[1] : p \in M}}
  /\ UNCHANGED <<source, ready, thresholds, kept, told>>

\* slice_by_conf: classes outside the list go, a hit below its threshold
\* becomes a miss.
Passes(m) == G(m.guess).conf >= thresholds[m.class]
Slice ==
  /\ Step("matched", "sliced")
  /\ LET known == {m \in found : m.class \in Scored} IN
     kept' = {m \in known : m.type = "FN" \/ Passes(m)}
       \union {Record("FN", m.truth, 0, m.class) : m \in {n \in known : n.type = "TP" /\ ~Passes(n)}}
  /\ UNCHANGED <<source, ready, thresholds, found, told>>

\* build_evaluation_payload.
HitTruths == {m.truth : m \in {n \in kept : n.type = "TP"}}
GuessStatus(j) == IF \E m \in kept : m.guess = j
                    THEN (CHOOSE m \in kept : m.guess = j).type ELSE "filtered"
Payload == [truth |-> [i \in Boxes |-> IF i \in HitTruths THEN "TP" ELSE "FN"],
            guess |-> [j \in InScope |-> GuessStatus(j)]]

\* _outcome_from_matches: a false positive may carry a box it did not detect.
Detects(m) == m.type = "TP"
Count(type, c) == Cardinality({m \in kept : m.type = type /\ m.class = c})
Outcome ==
  [counts |-> [c \in Scored |-> [tp |-> Count("TP", c), fp |-> Count("FP", c), fn |-> Count("FN", c)]],
   truth |-> [i \in {b \in Boxes : T(b).label \in Scored} |->
                \E m \in kept : Detects(m) /\ m.truth = i],
   guess |-> {<<m.guess, m.type = "TP">> : m \in {n \in kept : n.guess # 0}}]

\* prepared_source_mapping: by the id a row carries, never by its position.
LineageByPosition(prepared, indices) == [i \in indices |-> i]
Lineage(prepared, indices) == [i \in indices |-> prepared[i]]

\* build_result_rows: every source row of the split and of its images.
Statuses(field, i) == {m.type : m \in {n \in kept : n[field] = i}}
TruthRow(id) ==
  LET lineage == Lineage(scoped, DOMAIN scoped)
      at == {i \in DOMAIN scoped : lineage[i] = id}
  IN IF truth[id].label = NoLabel THEN "background"
     ELSE IF ~Valid(truth[id]) \/ at = {} THEN "excluded"
     ELSE IF "TP" \in UNION {Statuses("truth", i) : i \in at} THEN "TP" ELSE "FN"
GuessRow(id) ==
  LET lineage == Lineage(preparedGuess, InScope)
      at == {j \in InScope : lineage[j] = id}
      fates == UNION {Statuses("guess", j) : j \in at}
  IN IF ~Valid(guess[id]) \/ at = {} THEN "excluded"
     ELSE IF fates # {} THEN (IF "TP" \in fates THEN "TP" ELSE "FP")
     ELSE IF guess[id].label \in DOMAIN thresholds THEN "filtered" ELSE "excluded"
Exported ==
  [truth |-> [id \in {i \in 1..Rows : truth[i].split = Split} |-> TruthRow(id)],
   guess |-> [id \in {j \in 1..Rows : guess[j].image \in Images} |-> GuessRow(id)]]

Score ==
  /\ Step("sliced", "scored")
  /\ payload' = Payload /\ exported' = Exported /\ outcome' = Outcome
  /\ UNCHANGED <<source, ready, thresholds, found, kept>>

\* A raised error: overlapping splits, unknown images, no rows, bad geometry.
Refused ==
  /\ pc' = "refused"
  /\ \/ pc = "read" /\ ~(Owned /\ Known)
     \/ /\ pc = "thresholds"
        /\ LET rows == {i \in Members(preparedTruth) : truth[i].split = Split} IN
           rows = {} \/ \E i \in rows : ~Proper(truth[i])
  /\ UNCHANGED <<source, ready, thresholds, found, kept, told>>

Done == pc \in {"scored", "refused"} /\ UNCHANGED vars

Next == \/ PrepareTruth \/ FilterInvalid \/ PrepareGuesses \/ Thresholds \/ Select
        \/ Match \/ Slice \/ Score \/ Refused \/ Done
Spec == Init /\ [][Next]_vars

---------------------------------------------------------------------------
\* The three accounts of a split are one story: the row a box came from, the
\* box in the payload and its flag have the same fate, and the counts of a
\* class are the rows of that fate, whatever was dropped or renumbered and
\* whichever box of another class a false positive names.
RowsSaid(which, fate, c) ==
  Cardinality({id \in DOMAIN exported[which] :
                 exported[which][id] = fate /\ (IF which = "truth" THEN truth ELSE guess)[id].label = c})
OneStory ==
  pc = "scored" =>
    /\ \A i \in DOMAIN payload.truth :
         /\ exported.truth[scoped[i]] = payload.truth[i]
         /\ T(i).label \in Scored => (outcome.truth[i] <=> payload.truth[i] = "TP")
    /\ \A j \in DOMAIN payload.guess :
         \/ exported.guess[preparedGuess[j]] = payload.guess[j]
         \/ payload.guess[j] = "filtered" /\ G(j).label \notin Scored
    /\ \A c \in Scored :
         /\ outcome.counts[c].tp = RowsSaid("truth", "TP", c)
         /\ outcome.counts[c].tp = RowsSaid("guess", "TP", c)
         /\ outcome.counts[c].fn = RowsSaid("truth", "FN", c)
         /\ outcome.counts[c].fp = RowsSaid("guess", "FP", c)
=============================================================================
