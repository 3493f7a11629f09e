------------------------------ MODULE Pipeline ------------------------------
(***************************************************************************)
(* The commands of application/use_cases as sequences of stages over one   *)
(* ResultBundle.  cy-pipeline wraps every stage after training in          *)
(* _PipelineStages.run: a failure is recorded, and swallowed once training *)
(* has succeeded.  The other commands run their stages bare.               *)
(*                                                                         *)
(* A run directory may hold files of an earlier attempt ("old"); a stage   *)
(* that writes a file leaves it "new", whether or not it then fails.       *)
(* MaxFaults bounds the calls and outcome writes that raise.               *)
(***************************************************************************)
EXTENDS ResultBundle, Sequences

CONSTANTS MaxFaults, PredictSplits, ScoredSplits

VARIABLES
  command, skip,   \* which use case; stages disabled by configuration
  pc, at, todo,    \* control; the stage under way and its remaining calls
  status,          \* PipelineOutcome.stages
  trained, fatal,  \* outcome.training_succeeded, outcome.fatal_error
  ready,           \* predictions_ready
  thresholds,      \* the thresholds the comparison is given
  comparable,      \* comparison_ready
  files, reads,    \* the run directory; what stages have read of it
  told,            \* pipeline_outcome.json holds the current outcome
  faults

stageVars == <<command, skip, trained, ready, thresholds, comparable, files, reads>>
vars == <<pc, at, todo, status, fatal, told, faults, stageVars, bundleVars>>

Order == <<"training", "training_resources", "training_metadata", "prediction", "metrics",
           "thresholds", "threshold_publication", "comparison", "report", "visualization">>
Stages == {Order[i] : i \in DOMAIN Order}
Commands == {"pipeline", "val", "predict", "metrics", "compare", "report"}
Files == {"predictions", "thresholds", "manifest"}
Producer == [predictions |-> "prediction", thresholds |-> "threshold_publication",
             manifest |-> "comparison"]
Compute == {"prediction", "metrics", "comparison", "report", "visualization"}

Stage == Order[at]
Piped == command = "pipeline"
Skipped(s) == s \in skip
Effective == IF trained THEN "cleaned" ELSE "source"

\* The stages of a command that has no stage boundary.
Bare ==
  [val |-> {"prediction", "metrics"}, predict |-> {"prediction"}, metrics |-> {"metrics"},
   compare |-> {"comparison"}, report |-> {"report"}, pipeline |-> {}]

RawContexts == {<<"prediction", s>> : s \in PredictSplits}

\* The calls of a stage, in the order of its use case.
WithBaseline == <<<<"publish", "baseline">>, <<"publish", "candidate">>, <<"complete", "compare">>,
                  <<"workbook">>, <<"write", "manifest">>, <<"record">>>>
Unpaired == <<<<"publish", "candidate">>, <<"complete", "compare">>, <<"record">>>>
Scores == [i \in 1 .. Len(ScoredSplits) |-> <<"score", ScoredSplits[i]>>]
TrainCalls == <<<<"truth">>, <<"fit">>, <<"checkpoint">>>>
PredictCalls == <<<<"declare", "predict">>, <<"truth">>, <<"write", "predictions">>, <<"register">>,
                  <<"complete", "predict">>, <<"record">>>>
MetricsCalls == <<<<"read", "predictions">>, <<"declare", "metrics">>, <<"register">>>>
                \o Scores \o <<<<"complete", "metrics">>>>
CompareCalls == <<<<"declare", "compare">>, <<"truth">>, <<"baseline">>>>
ReportCalls == <<<<"read", "manifest">>, <<"render">>>>
ThresholdCalls == IF Skipped("metrics") THEN <<<<"read", "thresholds">>>> ELSE <<<<"record">>>>
Calls ==
  [training |-> TrainCalls, training_resources |-> <<<<"record">>>>,
   training_metadata |-> <<<<"record">>>>, prediction |-> PredictCalls, metrics |-> MetricsCalls,
   thresholds |-> ThresholdCalls, threshold_publication |-> <<<<"write", "thresholds">>>>,
   comparison |-> CompareCalls, report |-> ReportCalls, visualization |-> <<<<"show">>>>]

Init ==
  /\ command = "none" /\ skip = {} /\ pc = "idle" /\ at = 1 /\ todo = <<>>
  /\ status = [s \in Stages \union {"outcome"} |-> "none"]
  /\ trained = FALSE /\ fatal = FALSE /\ ready = FALSE /\ thresholds = "none"
  /\ comparable = FALSE /\ files = [f \in Files |-> "none"] /\ reads = {}
  /\ told = FALSE /\ faults = 0
  /\ BundleInit

\* _result_producers, and what val declares for its two stages.
Declared ==
  CASE Piped -> {p \in Producers : ~Skipped([predict |-> "prediction", metrics |-> "metrics",
                                             compare |-> "comparison"][p])}
    [] command = "val" -> {"predict", "metrics"}
    [] OTHER -> Undeclared

\* The prologue: configuration is validated before any result exists.
Start ==
  /\ pc = "idle" /\ pc' = "plan"
  /\ command' \in Commands
  /\ skip' \in IF command' = "pipeline"
               THEN SUBSET {"training", "prediction", "metrics", "comparison", "report"}
               ELSE {{}}
  /\ files' \in {[f \in Files |-> "none"], [f \in Files |-> "old"]}
  /\ producers' = Declared'
  /\ UNCHANGED <<at, todo, status, fatal, told, faults, trained, ready, thresholds, comparable,
                 reads, completed, truth, contexts, aggregate, expected, uploaded>>

---------------------------------------------------------------------------
\* resources_ready: after training, prediction and the rest need the leases.
LeasesLost == trained /\ status["training_resources"] # "succeeded"

\* A failed producer's previous or partial file is never an eligible input.
PredictionsReady == IF Skipped("prediction") THEN ~trained ELSE status["prediction"] = "succeeded"

\* What the pipeline does with the stage it has come to.
Applies ==
  CASE Stage = "training" -> TRUE
    [] Stage \in {"training_resources", "training_metadata"} -> trained
    [] Stage = "thresholds" ->
         IF Skipped("metrics") THEN Skipped("training") /\ ~Skipped("comparison")
         ELSE status["metrics"] = "succeeded"
    [] Stage = "threshold_publication" -> status["metrics"] = "succeeded" /\ thresholds # "none"
    [] OTHER -> TRUE

Skips ==
  \/ Skipped(Stage)
  \/ Stage \in Compute /\ LeasesLost
  \/ Stage \in {"metrics", "visualization"} /\ ~PredictionsReady
  \/ Stage = "comparison" /\ thresholds = "none"
  \/ Stage = "report" /\ ~comparable

Proceed == IF at = Len(Order) THEN pc' = "finalize" /\ at' = at ELSE pc' = "plan" /\ at' = at + 1

(***************************************************************************)
(* persist: the server, then pipeline_outcome.json and .txt.  After        *)
(* successful training a failure becomes a failed outcome stage; before    *)
(* it, the exception leaves the command (unless one is already under way). *)
(***************************************************************************)
Saved(st) == status' = st /\ told' = TRUE /\ UNCHANGED faults
SaveFails(st) ==
  /\ faults < MaxFaults /\ faults' = faults + 1
  /\ status' = IF trained' THEN [st EXCEPT !["outcome"] = "failed"] ELSE st
  /\ told' \in BOOLEAN

Persisted(st) ==
  \/ Saved(st) /\ Proceed
  \/ SaveFails(st) /\ IF trained' THEN Proceed ELSE pc' = "raised" /\ UNCHANGED at

Enter ==
  /\ pc = "plan" /\ Piped /\ Applies /\ ~Skips
  /\ pc' = "call" /\ todo' = Calls[Stage]
  /\ UNCHANGED <<at, status, fatal, told, faults, stageVars, bundleVars>>

Skip ==
  /\ pc = "plan" /\ Piped /\ Applies /\ Skips
  /\ comparable' = IF Stage = "comparison" THEN Skipped("training") /\ Skipped(Stage) ELSE comparable
  /\ ready' = IF Stage = "prediction" THEN PredictionsReady ELSE ready
  /\ UNCHANGED trained
  /\ Persisted([status EXCEPT ![Stage] = "skipped"])
  /\ UNCHANGED <<todo, fatal, command, skip, thresholds, files, reads, bundleVars>>

Pass ==
  /\ pc = "plan" /\ Piped /\ ~Applies
  /\ Proceed
  /\ UNCHANGED <<todo, status, fatal, told, faults, stageVars, bundleVars>>

EnterBare ==
  /\ pc = "plan" /\ ~Piped
  /\ IF Stage \in Bare[command]
     THEN pc' = "call" /\ todo' = Calls[Stage] /\ at' = at
     ELSE Proceed /\ todo' = todo
  /\ UNCHANGED <<status, fatal, told, faults, stageVars, bundleVars>>

---------------------------------------------------------------------------
Call == IF todo = <<>> THEN <<"none">> ELSE Head(todo)
Calling(op) == pc = "call" /\ Call[1] = op
Advance == todo' = Tail(todo) /\ UNCHANGED <<pc, at, status, fatal, told, faults, command, skip>>

CallDeclare ==
  /\ Calling("declare") /\ MayDeclare({Call[2]}) /\ Declare({Call[2]}) /\ Advance
  /\ UNCHANGED <<trained, ready, thresholds, comparable, files, reads>>

\* Training publishes the truth it cleaned, every other stage the effective one.
CallTruth ==
  LET t == IF Stage = "training" THEN "cleaned" ELSE Effective
  IN /\ Calling("truth") /\ MaySetTruth(t) /\ SetTruth(t) /\ Advance
     /\ UNCHANGED <<trained, ready, thresholds, comparable, files, reads>>

CallRead ==
  LET f == Call[2]
  IN /\ Calling("read") /\ files[f] # "none"
     /\ reads' = reads \union {<<f, files[f]>>}
     /\ thresholds' = IF f = "thresholds" THEN files[f] ELSE thresholds
     /\ Advance
     /\ UNCHANGED <<trained, ready, comparable, files, bundleVars>>

CallWrite ==
  /\ Calling("write") /\ files' = [files EXCEPT ![Call[2]] = "new"] /\ Advance
  /\ UNCHANGED <<trained, ready, thresholds, comparable, reads, bundleVars>>

CallRegister ==
  /\ Calling("register") /\ MayRegister(Effective) /\ Register(Effective, RawContexts) /\ Advance
  /\ UNCHANGED <<trained, ready, thresholds, comparable, files, reads>>

\* One split of metrics, or one side of a comparison.
Context == IF Call[1] = "score" THEN <<"prediction", Call[2]>> ELSE <<Call[2], "test">>
CallPublish ==
  /\ pc = "call" /\ Call[1] \in {"score", "publish"}
  /\ MayPublish(Effective, Context) /\ PublishEvaluation(Effective, Context, Dashboards(Context))
  /\ Advance
  /\ UNCHANGED <<trained, ready, thresholds, comparable, files, reads>>

CallComplete ==
  /\ Calling("complete") /\ MayComplete(Call[2]) /\ Complete(Call[2], TRUE) /\ Advance
  /\ UNCHANGED <<trained, ready, thresholds, comparable, files, reads>>

\* compare: an automatic baseline may be absent, the candidate is then scored alone.
CallBaseline ==
  /\ Calling("baseline")
  /\ todo' \in {WithBaseline, Unpaired}
  /\ comparable' = (todo' = WithBaseline)
  /\ UNCHANGED <<pc, at, status, fatal, told, faults, command, skip, trained, ready, thresholds,
                 files, reads, bundleVars>>

\* Uploads of a workbook or of both reports: declared first, then uploaded.
Workbooks == IF Call[1] = "render" THEN {<<"report_dev">>, <<"report_business">>} ELSE {<<"comparison">>}
CallUpload ==
  /\ pc = "call" /\ Call[1] \in {"workbook", "render"} /\ Unknown(Workbooks)
  /\ expected' = expected \union Workbooks /\ uploaded' = uploaded \union Workbooks
  /\ Advance
  /\ UNCHANGED <<trained, ready, thresholds, comparable, files, reads, producers, completed, truth,
                 contexts, aggregate>>

\* _publish_pipeline hands predictions.csv to the viewer when it exists; its
\* errors are logged only.
CallShow ==
  /\ Calling("show")
  /\ reads' = IF files["predictions"] = "none" THEN reads
              ELSE reads \union {<<"predictions", files["predictions"]>>}
  /\ Advance
  /\ UNCHANGED <<trained, ready, thresholds, comparable, files, bundleVars>>

CallOther ==
  /\ pc = "call" /\ Call[1] \in {"fit", "checkpoint", "record"} /\ Advance
  /\ UNCHANGED <<trained, ready, thresholds, comparable, files, reads, bundleVars>>

---------------------------------------------------------------------------
\* The stage returned.  Training is not wrapped: run_pipeline itself records it.
Result == IF Stage = "comparison" /\ ~comparable THEN "skipped" ELSE "succeeded"
Finish ==
  /\ pc = "call" /\ todo = <<>>
  /\ trained' = (trained \/ Stage = "training")
  /\ ready' = IF Stage = "prediction" THEN TRUE ELSE ready
  /\ thresholds' = IF Stage = "thresholds" /\ ~Skipped("metrics") THEN "new" ELSE thresholds
  /\ comparable' = (comparable /\ Stage # "report")
  /\ UNCHANGED <<todo, fatal, command, skip, files, reads, bundleVars>>
  /\ IF Piped
     THEN Persisted([status EXCEPT ![Stage] = Result])
     ELSE Proceed /\ UNCHANGED <<status, told, faults>>

\* run_report found training counts that do not add up: recorded after the
\* stage was persisted, told by the next one.
FinishIssues ==
  /\ pc = "call" /\ todo = <<>> /\ Piped /\ Stage = "report"
  /\ status' = [status EXCEPT !["report"] = "warned"] /\ told' = FALSE
  /\ Proceed
  /\ UNCHANGED <<todo, fatal, faults, stageVars, bundleVars>>

\* A call may have taken effect in part before it raised.
Partly ==
  \/ UNCHANGED <<files, bundleVars>>
  \/ /\ Call[1] = "write" /\ files' = [files EXCEPT ![Call[2]] = "new"]
     /\ UNCHANGED bundleVars
  \/ /\ Call[1] = "complete" /\ MayComplete(Call[2]) /\ Complete(Call[2], FALSE)
     /\ UNCHANGED files
  \/ /\ Call[1] \in {"score", "publish"} /\ MayPublish(Effective, Context)
     /\ PublishEvaluation(Effective, Context, {})
     /\ UNCHANGED files

\* What a call requires does not hold: it raises by itself.
Refused ==
  \/ Call[1] = "declare" /\ ~MayDeclare({Call[2]})
  \/ Call[1] = "truth" /\ ~MaySetTruth(IF Stage = "training" THEN "cleaned" ELSE Effective)
  \/ Call[1] = "read" /\ files[Call[2]] = "none"
  \/ Call[1] = "register" /\ ~MayRegister(Effective)
  \/ Call[1] \in {"score", "publish"} /\ ~MayPublish(Effective, Context)
  \/ Call[1] = "complete" /\ ~MayComplete(Call[2])

Wrapped == Piped /\ Stage # "training"
\* Faulty variant: the stage boundary re-raises whatever was trained.
ContainNothing == pc' = "raised" /\ UNCHANGED at
\* The exception is recorded; after training the next stage follows.
Contain == IF Wrapped /\ trained THEN Proceed ELSE pc' = "raised" /\ UNCHANGED at

Failed == IF Wrapped THEN [status EXCEPT ![Stage] = "failed"] ELSE status

\* _PipelineStages.run, except Exception.
Raise ==
  /\ pc = "call" /\ todo # <<>>
  /\ \/ faults < MaxFaults /\ faults' = faults + 1 /\ Partly
     \/ Refused /\ UNCHANGED <<faults, files, bundleVars>>
  /\ \/ status' = Failed /\ told' = Wrapped
     \/ /\ Wrapped /\ told' = FALSE
        /\ status' = IF trained THEN [Failed EXCEPT !["outcome"] = "failed"] ELSE Failed
  /\ ready' = (ready /\ Stage # "prediction")
  /\ comparable' = (comparable /\ Stage # "comparison")
  /\ Contain
  /\ todo' = <<>>
  /\ UNCHANGED <<fatal, command, skip, trained, thresholds, reads>>

\* _PipelineStages.run, except BaseException: an interruption is never contained.
Interrupt ==
  /\ pc = "call" /\ todo # <<>> /\ faults < MaxFaults /\ faults' = faults + 1
  /\ fatal' = (fatal \/ Wrapped)
  /\ status' = Failed /\ told' \in {FALSE, Wrapped}
  /\ pc' = "raised" /\ todo' = <<>>
  /\ UNCHANGED <<at, stageVars, bundleVars>>

\* finish, and the owner's _finalize_preserving_training.
Finalize ==
  /\ pc = "finalize"
  /\ UNCHANGED <<at, todo, fatal, stageVars, bundleVars>>
  /\ IF Final
     THEN /\ pc' = "returned"
          /\ \/ status' = status /\ told' = Piped /\ faults' = faults
             \/ Piped /\ trained /\ SaveFails(status)
     ELSE /\ pc' = IF trained THEN "returned" ELSE "raised"
          /\ status' = [status EXCEPT !["outcome"] = "failed"] /\ told' = Piped /\ faults' = faults

Next ==
  \/ Start \/ Enter \/ Skip \/ Pass \/ EnterBare
  \/ CallDeclare \/ CallTruth \/ CallRead \/ CallWrite \/ CallRegister \/ CallPublish
  \/ CallComplete \/ CallBaseline \/ CallUpload \/ CallShow \/ CallOther
  \/ Finish \/ FinishIssues \/ Raise \/ Interrupt \/ Finalize

Spec == Init /\ [][Next]_vars

---------------------------------------------------------------------------
\* Every variable keeps its kind of value.
TypeOK ==
  /\ pc \in {"idle", "plan", "call", "finalize", "returned", "raised"}
  /\ at \in DOMAIN Order /\ faults \in 0 .. MaxFaults
  /\ status \in [Stages \union {"outcome"} -> {"none", "succeeded", "skipped", "warned", "failed"}]
  /\ files \in [Files -> {"none", "old", "new"}]
  /\ producers = Undeclared \/ producers \subseteq Producers
  /\ completed \subseteq Producers

(***************************************************************************)
(* "A failed producer's previous/partial file is never an eligible input": *)
(* after training nothing of an earlier attempt is read, and a file whose  *)
(* stage failed in this attempt is read by nobody.                         *)
(***************************************************************************)
FreshInputs ==
  \A r \in reads :
    /\ trained => r[2] = "new"
    /\ Piped => status[Producer[r[1]]] \in {"none", "skipped", "succeeded", "warned"}

(***************************************************************************)
(* predicts_csv is published once, whole and for good: it holds the rows   *)
(* of every context as they are now, and every contributor has finished.   *)
(***************************************************************************)
AggregateWhole ==
  <<"predicts">> \in uploaded => aggregate = contexts /\ completed = producers

(***************************************************************************)
(* A verified checkpoint is never lost to a later failure: only an         *)
(* interruption ends the command then, and a pipeline that returns without *)
(* a failed stage has delivered all it declared and told its outcome.      *)
(***************************************************************************)
TrainingKept ==
  /\ pc = "raised" /\ trained => fatal
  /\ pc = "returned" /\ "failed" \notin {status[s] : s \in DOMAIN status} => Final
  /\ pc = "returned" /\ Piped /\ status["outcome"] # "failed" => told

(***************************************************************************)
(* What a command publishes is of this run and whole, and what it says of  *)
(* itself is so (use_cases/pipeline.py, results.py): the four above.       *)
(***************************************************************************)
ResultsHonest == TypeOK /\ FreshInputs /\ AggregateWhole /\ TrainingKept
=============================================================================
