-------------------------- MODULE NativeEvaluation --------------------------
(***************************************************************************)
(* An evaluation imported into FiftyOne (fiftyone/evaluation.py) and shown *)
(* by its panel (fiftyone/panel.py).  The matches of a payload become the  *)
(* tuples of a native run, where a box has at most one partner; the run's  *)
(* results are narrowed to a view and restored, over and over.             *)
(*                                                                         *)
(* None stands for no box, no overlap and no view; ImageOf gives the image *)
(* of a box, and MaxUses bounds how often the results are narrowed.        *)
(***************************************************************************)
EXTENDS Naturals, Sequences, FiniteSets, SequencesExt

CONSTANTS Truths, Guesses, None, ImageOf, MaxUses

VARIABLES
  matches,               \* EvaluationPayload.matches
  native, association,   \* the stored tuples, and key_id of every label
  pairs, ious,           \* the results in use: (ytrue_ids, ypred_ids) and ious
  origPairs, origIous,   \* what clear_subset restores
  view, uses,            \* the labels in scope, and how often it was set
  shown,                 \* what the panel reports
  pc

run == <<matches, native, association>>
results == <<pairs, ious, origPairs, origIous, view>>
vars == <<run, results, uses, shown, pc>>

Boxes == Truths \union Guesses
Images == {ImageOf[b] : b \in Boxes}
Members(s) == {s[i] : i \in DOMAIN s}
InOrder(S) == CHOOSE s \in SetToSeqs(S) : \A i, j \in DOMAIN s : i < j => s[i] < s[j]
\* The elements of a sequence at some of its places.
Those(s, places) == [k \in DOMAIN InOrder(places) |-> s[InOrder(places)[k]]]

\* What the scorer may say: a prediction is right about a ground truth of its
\* image, or wrong, overlapping one or none; what nothing found is missed.
Near(p) == {t \in Truths : ImageOf[t] = ImageOf[p]}
Judgements ==
  {judge \in [Guesses -> (Truths \X {"TP", "FP"}) \union {<<None, "FP">>}] :
     /\ \A p \in Guesses : judge[p][1] \in Near(p) \union {None}
     /\ \A p, q \in Guesses : (p # q /\ judge[p] = judge[q]) => judge[p][2] = "FP"}
Match(g, p, status) == [gt |-> g, pred |-> p, status |-> status]
Told(judge) ==
  LET found == {judge[p][1] : p \in {q \in Guesses : judge[q][2] = "TP"}}
  IN  {Match(judge[p][1], p, judge[p][2]) : p \in Guesses}
        \union {Match(g, None, "FN") : g \in Truths \ found}

Init ==
  /\ \E judge \in Judgements : matches \in SetToSeqs(Told(judge))
  /\ native = <<>> /\ association = [b \in Boxes |-> None]
  /\ pairs = <<>> /\ ious = <<>> /\ origPairs = None /\ origIous = None
  /\ view = None /\ uses = 0 /\ shown = None /\ pc = "scored"

Iou(m) == IF None \in {m.gt, m.pred} THEN None ELSE <<m.gt, m.pred>>

\* canonical_matches: an overlapped ground truth is claimed by the prediction
\* that found it, or by the first wrong one.
Owners(S, status) == {matches[j].gt : j \in {k \in S : matches[k].status = status}}
ClaimedInOrder(i) == matches[i].gt \in Owners(1..(i - 1), "TP") \union Owners(1..(i - 1), "FP")
Claimed(i) == matches[i].gt \in Owners(DOMAIN matches, "TP") \union Owners(1..(i - 1), "FP")

CanonicalMatches ==
  LET tuple == [i \in DOMAIN matches |->
                  IF matches[i].status = "FP" /\ Claimed(i)
                  THEN [matches[i] EXCEPT !.gt = None] ELSE matches[i]]
      predicted == Those(tuple, {i \in DOMAIN tuple : tuple[i].status # "FN"})
      partners == {m.gt : m \in Members(predicted)}
      missed == {i \in DOMAIN tuple : tuple[i].status = "FN" /\ tuple[i].gt \notin partners}
  IN  predicted \o Those(tuple, missed)

Import ==
  /\ pc = "scored"
  /\ native' = CanonicalMatches /\ pc' = "registered"
  /\ UNCHANGED <<matches, association, results, uses, shown>>

\* _write_native_fields: later tuples overwrite the partner of a label.
Partner(b) ==
  LET own == {i \in DOMAIN native : b \in {native[i].gt, native[i].pred}}
      last == CHOOSE i \in own : \A j \in own : j <= i
  IN  IF own = {} THEN None ELSE IF native[last].gt = b THEN native[last].pred ELSE native[last].gt

WriteNativeFields ==
  /\ pc = "registered"
  /\ association' = [b \in Boxes |-> Partner(b)] /\ pc' = "saved"
  /\ UNCHANGED <<matches, native, results, uses, shown>>

\* load_evaluation_results: the arrays are built from the stored run.
Load ==
  /\ pc = "saved"
  /\ pairs' = [i \in DOMAIN native |-> <<native[i].gt, native[i].pred>>]
  /\ ious' = [i \in DOMAIN native |-> Iou(native[i])]
  /\ pc' = "loaded"
  /\ UNCHANGED <<run, origPairs, origIous, view, uses, shown>>

\* The views of a dataset: some of its images, or some of its labels.
Views == SUBSET Boxes
ByImage == {{b \in Boxes : ImageOf[b] \in S} : S \in SUBSET Images}

Base == IF view = None THEN [pairs |-> pairs, ious |-> ious]
        ELSE [pairs |-> origPairs, ious |-> origIous]

\* Upstream slices every array but the overlaps by ground truth in the view,
\* or prediction without one in the view.
Selected(v, pair) == pair[1] \in v \/ (pair[1] = None /\ pair[2] \in v)
InView(v) == {i \in DOMAIN Base.pairs : Selected(v, Base.pairs[i])}
KeptIous(v) == Those(Base.ious, InView(v))

UseSubset(v) ==
  /\ pc = "loaded" /\ uses < MaxUses /\ uses' = uses + 1
  /\ view' = v
  /\ origPairs' = Base.pairs /\ origIous' = Base.ious
  /\ pairs' = Those(Base.pairs, InView(v))
  /\ ious' = KeptIous(v)
  /\ shown' = None
  /\ UNCHANGED <<run, pc>>

ClearSubset ==
  /\ pc = "loaded" /\ view # None
  /\ pairs' = origPairs /\ ious' = origIous
  /\ view' = None /\ origPairs' = None /\ origIous' = None /\ shown' = None
  /\ UNCHANGED <<run, uses, pc>>

\* _source_matches: the statuses of the narrowed population.
Scope(m) ==
  \/ view = None
  \/ m.status = "FN" /\ m.gt \in {pair[1] : pair \in Members(pairs)}
  \/ m.status # "FN" /\ m.pred \in {pair[2] : pair \in Members(pairs)}
Count(status) == Cardinality({i \in DOMAIN matches : matches[i].status = status /\ Scope(matches[i])})

\* label_ids: the visible labels whose own status is asked for.
Visible == IF view = None THEN Boxes ELSE view
LabelIds(status) ==
  Visible \intersect
    ({m.pred : m \in {n \in Members(matches) : n.status = status}}
       \union {m.gt : m \in {n \in Members(matches) : n.status = status /\ status # "FP"}})

\* is_subset: a view that holds every evaluated label and image is the whole.
IsSubset == view # None /\ ~ (Boxes \subseteq view)

\* report_data: average precision is that of the whole population or none.
Report == ~IsSubset

\* EvaluationPanel.get_tp_fp_fn, load_view and load_report.
Show ==
  /\ pc = "loaded" /\ shown = None
  /\ shown' = [count |-> [s \in {"TP", "FP", "FN"} |-> Count(s)],
               labels |-> [s \in {"TP", "FP", "FN"} |-> LabelIds(s)], ap |-> Report]
  /\ UNCHANGED <<run, results, uses, pc>>

Next ==
  \/ Import \/ WriteNativeFields \/ Load \/ ClearSubset \/ Show
  \/ \E v \in Views : UseSubset(v)

Spec == Init /\ [][Next]_vars

---------------------------------------------------------------------------
\* However a run is narrowed and restored, its tuples stay whole: no box is in
\* two of them, none is lost when the view is, an overlap stays with its pair,
\* and the partners written to the labels are the tuples' (canonical_matches,
\* use_subset, clear_subset, _write_native_fields).
Paired ==
  pc = "loaded" =>
    /\ Len(ious) = Len(pairs)
    /\ \A i \in DOMAIN pairs :
         /\ ious[i] = IF None \in {pairs[i][1], pairs[i][2]} THEN None ELSE pairs[i]
         /\ \A k \in 1..2 : pairs[i][k] # None => association[pairs[i][k]] = pairs[i][3 - k]
    /\ \A b \in Boxes :
         LET own == {i \in DOMAIN pairs : b \in {pairs[i][1], pairs[i][2]}}
         IN  Cardinality(own) <= 1 /\ (view = None => own # {})

\* The counts of the panel are the labels it navigates to, in every view of
\* whole images (tp_fp_fn, label_ids).
Navigable ==
  (shown # None /\ (view = None \/ view \in ByImage))
    => /\ \A s \in {"FP", "FN"} : shown.count[s] = Cardinality(shown.labels[s])
       /\ 2 * shown.count["TP"] = Cardinality(shown.labels["TP"])

\* The panel shows the scorer's judgements: its tuples are whole and lead to the
\* labels they count.
PanelTrue == Paired /\ Navigable
===========================================================================
