---------------------------- MODULE ResultBundle ----------------------------
(***************************************************************************)
(* The immutable results of one task: _ResultBundle of                     *)
(* adapters/clearml/results.py, shared by every stage of a command, and    *)
(* the artifacts its stages declare and upload (session.py).  Each call is *)
(* a pair: what it requires (it raises otherwise) and what it changes.     *)
(*                                                                         *)
(* A context is a role and a split; its rows are "raw" when predictions    *)
(* are registered and "scored" when an evaluation enriches them.           *)
(***************************************************************************)
EXTENDS Naturals, FiniteSets, Functions

VARIABLES
  producers,  \* bundle.producers: who contributes, or Undeclared
  completed,  \* bundle.completed_producers
  truth,      \* bundle.truth: which ground truth was published
  contexts,   \* bundle.contexts: the rows of every context
  aggregate,  \* what predicts_csv held when it was uploaded
  expected,   \* artifacts a stage declared
  uploaded    \* artifacts the server confirmed

bundleVars == <<producers, completed, truth, contexts, aggregate, expected, uploaded>>

Producers == {"predict", "metrics", "compare"}
Undeclared == {"undeclared"}
NoTruth == "none"
NoAggregate == [c \in {<<"none", "none">>} |-> "none"]
NoContexts == [c \in {} |-> "raw"]

BundleInit ==
  /\ producers = Undeclared /\ completed = {}
  /\ truth = NoTruth
  /\ contexts = NoContexts /\ aggregate = NoAggregate
  /\ expected = {} /\ uploaded = {}

With(f, c, rows) == [x \in DOMAIN f \union {c} |-> IF x = c THEN rows ELSE f[x]]

\* expect_artifacts refuses a name it knows; upload_artifact one that was uploaded.
Unknown(names) == names \intersect (expected \union uploaded) = {}

\* declare: the first call freezes the set, nested stages name active members.
MayDeclare(P) ==
  \/ producers = Undeclared
  \/ P \subseteq producers /\ P \intersect completed = {}
Declare(P) ==
  /\ producers' = IF producers = Undeclared THEN P ELSE producers
  /\ UNCHANGED <<completed, truth, contexts, aggregate, expected, uploaded>>

\* require_writable
Writable == producers # Undeclared /\ completed # producers

\* set_truth: expects, writes and uploads the first one; later ones must be equal.
MaySetTruth(t) == truth \in {NoTruth, t} /\ (truth = NoTruth => Unknown({<<"gt">>}))
SetTruth(t) ==
  /\ truth' = t
  /\ expected' = expected \union {<<"gt">>}
  /\ uploaded' = uploaded \union {<<"gt">>}
  /\ UNCHANGED <<producers, completed, contexts, aggregate>>

\* put, through register_predictions: a context that exists keeps its rows.
MayRegister(t) == Writable /\ MaySetTruth(t)
Register(t, C) ==
  LET new == C \ DOMAIN contexts
  IN /\ truth' = t
     /\ contexts' = [c \in DOMAIN contexts \union new |->
                       IF c \in new THEN "raw" ELSE contexts[c]]
     /\ expected' = expected \union {<<"gt">>} \union (IF new = {} THEN {} ELSE {<<"predicts">>})
     /\ uploaded' = uploaded \union {<<"gt">>}
     /\ UNCHANGED <<producers, completed, aggregate>>

\* publish_evaluation: the context's rows are replaced, its dashboards are
\* expected and then uploaded.
Dashboards(c) == {<<"dashboard", c[1], c[2]>>}
MayPublish(t, c) == Writable /\ MaySetTruth(t) /\ Unknown(Dashboards(c))
PublishEvaluation(t, c, up) ==
  /\ truth' = t
  /\ contexts' = With(contexts, c, "scored")
  /\ expected' = expected \union {<<"gt">>, <<"predicts">>} \union Dashboards(c)
  /\ uploaded' = uploaded \union {<<"gt">>} \union up
  /\ UNCHANGED <<producers, completed, aggregate>>

\* complete: the last contributor assembles predicts_csv and uploads it.
MayComplete(p) == p \in producers \ completed

Complete(p, up) ==
  /\ completed' = completed \union {p}
  /\ IF completed' = producers /\ <<"predicts">> \in expected /\ up
     THEN aggregate' = contexts /\ uploaded' = uploaded \union {<<"predicts">>}
     ELSE UNCHANGED <<aggregate, uploaded>>
  /\ UNCHANGED <<producers, truth, contexts, expected>>

\* finalize, and the check of the owner for artifacts that never arrived.
Final ==
  /\ producers # Undeclared => completed = producers
  /\ <<"predicts">> \in expected => aggregate # NoAggregate
  /\ expected \subseteq uploaded
=============================================================================
