----------------------------- MODULE MCResults ------------------------------
(***************************************************************************)
(* What one run computes, publishes and leaves for a later run: eleven     *)
(* components that share no state here, each explored alone.  A behaviour  *)
(* is about the component in focus; the variables of the others are off.   *)
(***************************************************************************)
EXTENDS Naturals, Sequences, FiniteSets

CONSTANTS
  MaxFaults,                \* Pipeline: calls that raise
  Runs, MaxWeights, MaxStamps,  \* PredictionCache
  TruthRows, GuessRows, Rows, Split, Scored, Confidences, NoLabel,  \* Evaluation
  Classes, Tallies, Outcomes, Unit, Q,  \* Comparison, and its Names
  Annotations, Detections, ImageOf, MaxUses,  \* NativeEvaluation
  Absent, NoFile,             \* nothing
  Names, Contents,          \* RunTables
  Models, Own, Checkpoints,    \* ModelPublication
  MaxEdits, MaxClones,      \* edits of the server; clones of a task
  Settings, Sensitive, Words, Documents, Contexts, Edits, Copies,  \* ConfigurationFiles
  Tasks, Repeated,          \* TaskCache, and its MaxRuns
  Invocations, TaskRequest, ModelRequest, Suffixes, MaxAttempts, Taken  \* DisplayNames

VARIABLES
  focus,  \* the component a behaviour is about
  producers, completed, pipeTruth, contexts, aggregate, pipeExpected, uploaded,
  command, skip, pipePc, at, todo, status, trained, fatal, ready,
  pipeThresholds, comparable, files, reads, told, faults,
  weights, csv, meta, prov, stamp, cachePc, identity, key, reuse, cacheUsed,
  digest,
  evalTruth, guess, evalPc, preparedTruth, raw, preparedGuess, scoped,
  evalThresholds, found, kept, payload, exported, outcome,
  class, comparePc, next, compared, excluded, rows, adjusted, pooled, degraded,
  matches, panelNative, association, pairs, ious, origPairs, origIous, view,
  uses, shown, panelPc,
  record, byDigest, byKey, taken, remote, promised,
  modelFile, sidecar, outputs, server, artifacts, hash, predicted,
  modelExpected, modelPc, check, reader, links, modelUsed, fresh,
  modelEdits, since,
  task, snapshot, requested, executes, training, asked, late, configEdits,
  configClones, configPc,
  override, context, docFile, attached, execution, sanitized, original, edited,
  docClones, docPc,
  runs, reused,
  taskName, modelName, suffix, effective, candidate, attempt, busy, phase,
  namePc

\* Evaluation: two images of a split, one of another, and rows no reader accepts.
MCTruths ==
  {[image |-> "a", split |-> "val", label |-> "cat", shape |-> "box"],
   [image |-> "a", split |-> "val", label |-> "dog", shape |-> "box"],
   [image |-> "b", split |-> "val", label |-> NoLabel, shape |-> "none"],
   [image |-> "c", split |-> "test", label |-> "cat", shape |-> "box"],
   [image |-> "c", split |-> "val", label |-> "cat", shape |-> "bad"]}
MCGuesses ==
  {[image |-> "a", label |-> "cat", shape |-> "box", conf |-> 1],
   [image |-> "a", label |-> "cat", shape |-> "box", conf |-> 2],
   [image |-> "a", label |-> "dog", shape |-> "box", conf |-> 2],
   [image |-> "a", label |-> "owl", shape |-> "box", conf |-> 2],
   [image |-> "b", label |-> "cat", shape |-> "bad", conf |-> 2]}

\* Comparison: classes that are won, lost, undefined on one side, and without truth.
MCClasses == <<"a", "b", "c">>
Sided(b, c) == [baseline |-> b, candidate |-> c]
Tally(truths, tps, fps, knowns) == [truth |-> truths, tp |-> tps, fp |-> fps, known |-> knowns]
MCTallies ==
  {Tally(2, Sided(1, 2), Sided(1, 0), Sided(TRUE, TRUE)),
   Tally(2, Sided(1, 0), Sided(0, 1), Sided(TRUE, TRUE)),
   Tally(2, Sided(0, 2), Sided(0, 0), Sided(FALSE, TRUE)),
   Tally(0, Sided(0, 0), Sided(1, 1), Sided(TRUE, TRUE))}

\* NativeEvaluation: two annotations and two predictions, one of them on another image.
MCImageOf == [g1 |-> "i1", g2 |-> "i2", p1 |-> "i1", p2 |-> "i1"]

\* ConfigurationFiles: words, references, bare, in a text or escaped, one of them secret.
To(k) == <<"refers", k>>
Kept(k) == <<"escaped", k>>
Named(n, t) == [name |-> n, token |-> t]
MCDocuments ==
  {Named(n, t) : n \in {<<"v1">>, To("root"), <<"in">> \o To("token"), To("token"), Kept("root")},
                 t \in {<<"v1">>, To("root"), To("name")}}
  \union {[name |-> To("root"), root |-> <<"v2">>], [name |-> <<"in">> \o To("token")],
          [name |-> <<"in">> \o To("root"), root |-> <<"in">> \o Kept("token")]}
MCContexts ==
  {[root |-> <<"v1">>, token |-> <<"v2">>], [root |-> <<"v2">>, token |-> To("root")],
   [root |-> <<"in">> \o To("token"), token |-> <<"v1">>], [root |-> <<"v3">>]}
MCEdits == {<<"v3">>, To("token")}

\* TaskCache: a plain request, and every way to ask for something else.
Plain ==
  [command |-> "pipeline", doc |-> "json", backend |-> "ultralytics", where |-> "run",
   device |-> <<"ids", <<0>>>>, data |-> <<"path", "d1", "x">>, root |-> "d1", content |-> "A",
   skip |-> "nothing", output |-> "o1", project |-> "p1", reference |-> "search",
   overrides |-> "v1", policy |-> 0]
Devices ==
  {<<"cpu">>, <<"dict", 1>>, <<"dict", 2>>, <<"ids", <<1>>>>, <<"ids", <<0, 1>>>>,
   <<"ids", <<0, 0>>>>, <<"zeros", <<0>>>>}
Datas == {<<"path", "d1", "x">>, <<"path", "d2", "x">>, <<"marker", "A", "x">>}
MCTasks ==
  {[Plain EXCEPT !.device = d, !.backend = b, !.where = w, !.doc = o] :
     d \in Devices, b \in {"ultralytics", "fcos"}, w \in {"run", "hyper"}, o \in {"json", "hocon"}}
  \union
  {[Plain EXCEPT !.data = d, !.root = r, !.content = c, !.where = w, !.doc = o] :
     d \in Datas, r \in {"d1", "d2"}, c \in {"none", "A", "B"}, w \in {"run", "hyper"},
     o \in {"json", "escapes"}}
  \union
  {[Plain EXCEPT !.command = c, !.skip = s, !.output = o, !.project = p, !.reference = r,
                 !.overrides = v] :
     c \in {"pipeline", "compare", "other"}, s \in {"nothing", "train", "compare"},
     o \in {"o1", "o2"}, p \in {"p1", "p2"}, r \in {"search", "local"}, v \in {"v1", "v2"}}

\* DisplayNames: invocations of one project and one experiment, whose model
\* has a name somebody took before.
MCTaskRequest == [i \in Invocations |-> "t"]
MCModelRequest == [i \in Invocations |-> "m"]
MCTaken == {<<"m", "plain">>}

Pipe == INSTANCE Pipeline WITH
  PredictSplits <- {"val", "test"}, ScoredSplits <- <<"val", "test">>,
  truth <- pipeTruth, expected <- pipeExpected, pc <- pipePc,
  thresholds <- pipeThresholds
Cache == INSTANCE PredictionCache WITH pc <- cachePc, used <- cacheUsed
Eval == INSTANCE Evaluation WITH
  Truths <- TruthRows, Guesses <- GuessRows, truth <- evalTruth, pc <- evalPc,
  thresholds <- evalThresholds
Compare == INSTANCE Comparison WITH Names <- Classes, pc <- comparePc
Panel == INSTANCE NativeEvaluation WITH
  None <- Absent, Truths <- Annotations, Guesses <- Detections,
  native <- panelNative, pc <- panelPc
Tables == INSTANCE RunTables WITH None <- Absent
Model == INSTANCE ModelPublication WITH
  Versions <- Checkpoints,
  file <- modelFile, expected <- modelExpected, pc <- modelPc,
  used <- modelUsed, edits <- modelEdits
Config == INSTANCE RunConfiguration WITH
  edits <- configEdits, clones <- configClones, pc <- configPc
ConfigFile == INSTANCE ConfigurationFiles WITH
  Keys <- Settings, MaxClones <- Copies, file <- docFile,
  clones <- docClones, pc <- docPc
Task == INSTANCE TaskCache WITH MaxRuns <- Repeated
Name == INSTANCE DisplayNames WITH pc <- namePc

\* What the variables of a component are, and stay, while it is not in focus.
Off(value) == value = "off"
Stays(value) == value' = value

PipeAll(P(_)) ==
  /\ P(producers) /\ P(completed) /\ P(pipeTruth) /\ P(contexts) /\ P(aggregate)
  /\ P(pipeExpected) /\ P(uploaded) /\ P(command) /\ P(skip) /\ P(pipePc)
  /\ P(at) /\ P(todo) /\ P(status) /\ P(trained) /\ P(fatal) /\ P(ready)
  /\ P(pipeThresholds) /\ P(comparable) /\ P(files) /\ P(reads) /\ P(told)
  /\ P(faults)
CacheAll(P(_)) ==
  /\ P(weights) /\ P(csv) /\ P(meta) /\ P(prov) /\ P(stamp) /\ P(cachePc)
  /\ P(identity) /\ P(key) /\ P(reuse) /\ P(cacheUsed) /\ P(digest)
EvalAll(P(_)) ==
  /\ P(evalTruth) /\ P(guess) /\ P(evalPc) /\ P(preparedTruth) /\ P(raw)
  /\ P(preparedGuess) /\ P(scoped) /\ P(evalThresholds) /\ P(found) /\ P(kept)
  /\ P(payload) /\ P(exported) /\ P(outcome)
CompareAll(P(_)) ==
  /\ P(class) /\ P(comparePc) /\ P(next) /\ P(compared) /\ P(excluded)
  /\ P(rows) /\ P(adjusted) /\ P(pooled) /\ P(degraded)
PanelAll(P(_)) ==
  /\ P(matches) /\ P(panelNative) /\ P(association) /\ P(pairs) /\ P(ious)
  /\ P(origPairs) /\ P(origIous) /\ P(view) /\ P(uses) /\ P(shown) /\ P(panelPc)
TablesAll(P(_)) ==
  /\ P(record) /\ P(byDigest) /\ P(byKey) /\ P(taken) /\ P(remote)
  /\ P(promised)
ModelAll(P(_)) ==
  /\ P(modelFile) /\ P(sidecar) /\ P(outputs) /\ P(server) /\ P(artifacts)
  /\ P(hash) /\ P(predicted) /\ P(modelExpected) /\ P(modelPc)
  /\ P(check) /\ P(reader) /\ P(links) /\ P(modelUsed) /\ P(fresh)
  /\ P(modelEdits) /\ P(since)
ConfigAll(P(_)) ==
  /\ P(task) /\ P(snapshot) /\ P(requested) /\ P(executes) /\ P(training)
  /\ P(asked) /\ P(late) /\ P(configEdits) /\ P(configClones) /\ P(configPc)
ConfigFileAll(P(_)) ==
  /\ P(override) /\ P(context) /\ P(docFile) /\ P(attached) /\ P(execution)
  /\ P(sanitized) /\ P(original) /\ P(edited) /\ P(docClones) /\ P(docPc)
TaskAll(P(_)) ==
  /\ P(runs) /\ P(reused)
NameAll(P(_)) ==
  /\ P(taskName) /\ P(modelName) /\ P(suffix) /\ P(effective) /\ P(candidate)
  /\ P(attempt) /\ P(busy) /\ P(phase) /\ P(namePc)

Init ==
  /\ focus \in
       {"pipeline", "predictions", "evaluation", "comparison", "panel",
        "tables", "models", "configuration", "files", "task cache", "names"}
  /\ IF focus = "pipeline" THEN Pipe!Init ELSE PipeAll(Off)
  /\ IF focus = "predictions" THEN Cache!Init ELSE CacheAll(Off)
  /\ IF focus = "evaluation" THEN Eval!Init ELSE EvalAll(Off)
  /\ IF focus = "comparison" THEN Compare!Init ELSE CompareAll(Off)
  /\ IF focus = "panel" THEN Panel!Init ELSE PanelAll(Off)
  /\ IF focus = "tables" THEN Tables!Init ELSE TablesAll(Off)
  /\ IF focus = "models" THEN Model!Init ELSE ModelAll(Off)
  /\ IF focus = "configuration" THEN Config!Init ELSE ConfigAll(Off)
  /\ IF focus = "files" THEN ConfigFile!Init ELSE ConfigFileAll(Off)
  /\ IF focus = "task cache" THEN Task!Init ELSE TaskAll(Off)
  /\ IF focus = "names" THEN Name!Init ELSE NameAll(Off)

Alone ==
  /\ UNCHANGED focus
  /\ IF focus = "pipeline" THEN TRUE ELSE PipeAll(Stays)
  /\ IF focus = "predictions" THEN TRUE ELSE CacheAll(Stays)
  /\ IF focus = "evaluation" THEN TRUE ELSE EvalAll(Stays)
  /\ IF focus = "comparison" THEN TRUE ELSE CompareAll(Stays)
  /\ IF focus = "panel" THEN TRUE ELSE PanelAll(Stays)
  /\ IF focus = "tables" THEN TRUE ELSE TablesAll(Stays)
  /\ IF focus = "models" THEN TRUE ELSE ModelAll(Stays)
  /\ IF focus = "configuration" THEN TRUE ELSE ConfigAll(Stays)
  /\ IF focus = "files" THEN TRUE ELSE ConfigFileAll(Stays)
  /\ IF focus = "task cache" THEN TRUE ELSE TaskAll(Stays)
  /\ IF focus = "names" THEN TRUE ELSE NameAll(Stays)

Next ==
  \/ focus = "pipeline" /\ Pipe!Next /\ Alone
  \/ focus = "predictions" /\ Cache!Next /\ Alone
  \/ focus = "evaluation" /\ Eval!Next /\ Alone
  \/ focus = "comparison" /\ Compare!Next /\ Alone
  \/ focus = "panel" /\ Panel!Next /\ Alone
  \/ focus = "tables" /\ Tables!Next /\ Alone
  \/ focus = "models" /\ Model!Next /\ Alone
  \/ focus = "configuration" /\ Config!Next /\ Alone
  \/ focus = "files" /\ ConfigFile!Next /\ Alone
  \/ focus = "task cache" /\ Task!Next /\ Alone
  \/ focus = "names" /\ Name!Next /\ Alone

vars == <<focus, Pipe!vars, Cache!vars, Eval!vars, Compare!vars, Panel!vars,
          Tables!vars, Model!vars, Config!vars, ConfigFile!vars, Task!vars,
          Name!vars>>

Spec == Init /\ [][Next]_vars

\* What the cfg's values have in common with the program's: a bound on the
\* faults, at least one checkpoint, a model of the task's own, finitely many
\* tables, "nothing" told apart from what there is, requests of the form the
\* controller sees, counts and probabilities that are numbers, boxes of two
\* kinds, and fields that are a text or refer to one key.
Request(t) ==
  /\ DOMAIN t = DOMAIN Plain
  /\ t.where \in {"run", "hyper"} /\ t.policy = 0
  /\ t.device[1] \in {"ids", "zeros"} => t.device[2] \in Seq(Nat)
Tallied(t) ==
  /\ t.truth \in Nat
  /\ \A s \in Compare!Sides : t.tp[s] \in Nat /\ t.fp[s] \in Nat /\ t.known[s] \in BOOLEAN
Signs == {"refers", "escaped"}
Marks == Words \union Settings \union Signs \union {"in", "redacted", "???"}
\* Texts before a word, or before a key that is referred to or escaped.
Text ==
  {t \in Seq(Marks) :
     /\ t # <<>> /\ t[Len(t)] \notin Signs \union {"in"}
     /\ \A i \in 1..(Len(t) - 1) :
          t[i] = "in" \/ (i = Len(t) - 1 /\ t[i] \in Signs /\ t[Len(t)] \in Settings)
     /\ t[Len(t)] \in Settings => Len(t) > 1 /\ t[Len(t) - 1] \in Signs}
ASSUME ResultsAssumption ==
  /\ MaxFaults \in Nat
  /\ MaxWeights \in Nat \ {0}
  /\ Own \in Models
  /\ IsFiniteSet(Contents)
  /\ Absent \notin Contents \union Tables!Remotes
  /\ \A t \in Tasks : Request(t)
  /\ Classes \in Seq(STRING) /\ \A t \in Tallies : Tallied(t)
  /\ Unit \in Nat /\ Q \in Nat /\ Outcomes \subseteq 1..Unit
  /\ Rows \in Nat
  /\ IsFiniteSet(Annotations) /\ IsFiniteSet(Detections) /\ Annotations \intersect Detections = {}
  /\ Absent \notin Annotations \union Detections
  /\ \A boxes \in SUBSET (Annotations \union Detections) : boxes # Absent
  /\ IsFiniteSet(Settings)
  /\ (Words \union Settings) \intersect (Signs \union {"in", "redacted", "???"}) = {}
  /\ Words \intersect Settings = {}
  /\ \A f \in Documents \union Contexts : DOMAIN f \subseteq Settings /\ \A k \in DOMAIN f : f[k] \in Text
  /\ Edits \subseteq Text
  /\ NoFile \notin Documents /\ \A D \in SUBSET Settings : NoFile \notin [D -> Text]

-----------------------------------------------------------------------------
\* What a command publishes is of this run and whole (Pipeline, ResultBundle).
ResultsHonest == focus = "pipeline" => Pipe!ResultsHonest
\* Cached predictions are of the weights they are used for (PredictionCache).
Attributed == focus = "predictions" => Cache!Attributed
\* Every output of an evaluation tells the same matches (Evaluation).
OneStory == focus = "evaluation" => Eval!OneStory
\* A verdict on a class is earned by corrected evidence (Comparison).
VerdictsEarned == focus = "comparison" => Compare!VerdictsEarned
\* The panel shows the scorer's judgements in every view (NativeEvaluation).
PanelTrue == focus = "panel" => Panel!PanelTrue
\* A published table stays under its name (RunTables).
TablesKept == focus = "tables" => Tables!TablesKept
\* A registered model is the verified checkpoint (ModelPublication).
Attested == focus = "models" => Model!Attested
\* A clone repeats the run it was cloned from (RunConfiguration).
Repeats == focus = "configuration" => Config!Repeats
\* A published file means to a clone what it meant to the run (ConfigurationFiles).
Portable == focus = "files" => ConfigFile!Portable
\* A run is reused only for a request of the same work (TaskCache).
Alike == focus = "task cache" => Task!Alike
\* No two tasks or models of a project share a name (DisplayNames).
Unique == focus = "names" => Name!Unique
=============================================================================
