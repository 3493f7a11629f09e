# clearml-yolo in TLA+

clearml-yolo trains, evaluates, compares and exports detection models from the command line and reports
everything to ClearML. Its numeric work is done by external frameworks; its own difficulty is *ownership and
identity*: who owns the one remote task of an invocation and may say it succeeded, who owns the native processes
a command started and when are they gone, which bytes of output were delivered, which checkpoint made the
predictions that are scored, whether a cached entry, a receipt or a name still means what it meant when it was
written. All of it has to survive calls that raise after they took effect, signals between any two statements,
processes that are killed, other commands on the same files, and deadlines.

This directory holds TLA+ modules of that, configurations that model-check them with TLC, and proofs that TLAPS
checks. Paths below are relative to `src/src/clearml_yolo/` unless they start with `docs/`.

## 1. Inventory

### Components modelled (all of them in part; `PROJECT.json` names the gaps)

| Component | Code | State it keeps | Operations | What is hard |
| --- | --- | --- | --- | --- |
| Task session | `adapters/clearml/session.py`, `core/pipeline_outcome.py`, `adapters/clearml/deadline.py` | guard of an incomplete owner, the SDK's main task and exit callback, stage verdicts, expected and confirmed artifacts, tables by content, configuration objects | `invocation`, `_task_owner`, `_finalize`, `_finish_console`, `publish_table`, `replay_configuration`, `connect_config_file` | remote calls that fail after taking effect, SIGTERM anywhere, several commands in one process, clones that replay what others recorded |
| Process ownership | `adapters/runtime/process_tree.py` | process identities, fork records, exclusions, the two-scan barrier | `native_descendant_scope`: scan, attribute, signal by pidfd, terminate | `/proc` is read one process at a time while processes fork, die, are adopted and pids are reused |
| Console delivery | `adapters/clearml/console.py`, `console_worker.py`, `adapters/observability/capture.py` | append-only logs, four files of offsets, the worker's decoder | start, barrier, finish, one batch of the worker, drain | the logs grow while they are read, a worker dies between flush and receipt, batches end inside a character, a token or a row |
| Batch estimation | `core/batch_estimation.py`, `application/use_cases/batch_estimate.py` | bounds, next batch, confirmation, trials, the saved case | `BatchSearch.observe`, `_measure` | rounding to the grid, predictions, outcomes that contradict each other |
| Batch estimation scheduler | `entrypoints/batch_estimate.py`, `entrypoints/batch_estimate_worker.py`, `adapters/runtime/worker_pool.py`, `adapters/storage/batch_estimates.py` | pending and active keys, quarantined GPUs, results, one catalogue shared by commands and cases | admit, launch, poll, receive, publish, close | two writers of one file, kills between any two steps, cleanups that cannot be verified |
| Use cases | `application/use_cases/`, `adapters/clearml/results.py`, `adapters/yolo/reinfer.py` | stage statuses, files of the run directory, the bundle of results, cached predictions with their provenance | the six commands stage by stage, `_PipelineStages.run`, `_scored`, `reinfer_split` | files of an earlier attempt, a stage that fails half-way, a checkpoint replaced between two hashes |
| Evaluation | `adapters/evaluation/scoring.py`, `core/evaluation/` | rows, their numberings, matches, thresholds | prepare, match, slice, payload, export | three numberings of one row |
| Comparison | `core/comparison/`, `adapters/evaluation/comparison.py` | class rows, p-values, verdicts | exclusion, tests, correction, verdicts | undefined tests in one family |
| ClearML caches and publication | `adapters/clearml/cache.py`, `naming.py`, `native.py`, `detectors.py`, `models.py` | identity of a task, display names, the model record and its metadata | `normalize_task_hash`, `_resolve`, publish, verify, recover | decisions taken on what others may change next |
| Storage | `adapters/storage/dataset*.py`, `adapters/storage/dedup.py` | rows, staging directories, entries under locks | validate, export, prepare and rename, deduplicate | kills between steps, sources edited meanwhile, names that collide |
| Assets | `adapters/assets/`, `adapters/deim/hf_weights.py` | flat files, Hub snapshots, archives, receipts | resolve, repair, promote, seed, prepare the catalogue, convert | readers without the lock, corrupt files that native loading would choose |
| Training workers | `adapters/runtime/workers.py`, `adapters/integrations/distributed_training.py`, `training_worker.py` | ranks, their receipts, relayed scalars | spawn, poll, relay, stop, reap | failure, deadline and interruption in any order |
| Native distributed training | `adapters/integrations/native_ddp.py`, `native_runtime.py`, `training.py` | journal of rank zero, live consumer, dispatched records | capture, consume, stop, join, replay | the consumer is stopped while it reads |
| FiftyOne | `adapters/fiftyone/` | the shared dataset's description, overlays, evaluations; a worker with its gate, receipt and scratch directory | publish, bounded execution, narrow and restore | kills between writes, helpers that outlive their parent |
| Documentation site | `adapters/documentation/` | connections, permits, preview processes and directories | accept, preview, stop, close | request threads and `close()` compete for one process group |
| Entry points | `entrypoints/hydra/config_resolution.py`, `common.py` | the resolved configuration | resolve references, redact, replay | credentials that travel through references |

### Not modelled

| Component | Why |
| --- | --- |
| Batch probes and profiles | one CUDA measurement in external frameworks; its outcome is an arbitrary input of `BatchSearch` |
| Ports and contracts | value types and interfaces |
| Execution lifecycle and queue handoff | hands over to a queue supervisor outside this repository, whose promises are not in the source |
| Observability other than capture | progress bars and traces are formatting; the terminal mirror acknowledges nothing to the task |
| Model backends, export, augmentation | numeric code around external frameworks |

`PROJECT.json` lists every component with its files, and under `hazards` the places of the code that are hardest to
test, at their lines, with the properties that watch them.

### How the parts interact

* A command opens a task session, runs its use case, and finalizes the session. `TaskSession` models what a use case
  reports as `SkipTraining`, `StageFails`, `StageWarns`, `PreserveTraining`, in the orders the code's guards permit;
  which reports a pipeline really makes, over which files, is `Pipeline`.
* Stages share one `ResultBundle` per task (`Pipeline` EXTENDS it). The rows they register are those `Evaluation`
  exports; the predictions a comparison scores come from `PredictionCache`; its tables go through `Comparison` and are
  uploaded by `RunTables`.
* `TaskSession` starts a `ConsolePublisher`, asks it for a barrier before it closes the task and for a final drain. It
  sees only the outcome; what the outcome means is `ConsoleDelivery!AnswerMeansDelivered`.
* Training workers, batch cases and commands stop their processes through `native_descendant_scope`. `BatchCases` and
  `TrainingRanks` use its promise ("gone, or it raises"); that the promise is true is `ProcessTree!NothingOutlives`.
  The viewer's worker and the documentation previews have schemes of their own (`ViewerWorker`,
  `DocumentationServer`).
* `BatchSearch` is what one case of `BatchCases` runs: its honest outcome (`CaseHonest`, part of `ResultEarned`) is
  the receipt there.
* A payload of `Evaluation` is what `ViewerDataset` publishes and `NativeEvaluation` imports.
* A validated CSV (`DatasetRecords`) is what an entry of `DatasetCache` is prepared from; `Deduplication` may run over
  the same files at any time, which is why it must not change a byte.
* `CataloguePreparation` prepares what `AssetStore` installs; both trust files by digest only.

## 2. Modules

| Module | Role |
| --- | --- |
| `TaskVerdict` | abstract: what a command promises about its task's status |
| `TaskSession`, `TaskSession_proofs` | the owner's code path with every call that may fail; implements `TaskVerdict`; theorems |
| `RunTables` | tables by content under names the server may hold |
| `RunConfiguration`, `ConfigurationFiles` | what a run records of its configuration and files, and what a clone executes |
| `ProcessTree`, `ProcessTree_proofs` | kernel, scans, signals, barrier; theorems |
| `ConsoleDelivery`, `ConsoleDelivery_proofs` | logs, owner, worker and the files between them; theorems |
| `BatchSearch`, `BatchSearch_proofs` | one search and its loop; theorems |
| `BatchCases`, `BatchCases_proofs` | commands, their case processes, GPUs and catalogue; theorems |
| `ResultBundle`, `Pipeline` | the results of a task; the commands as sequences of stages over them |
| `PredictionCache` | cached predictions between runs, checkpoints and kills |
| `Evaluation`, `Comparison`, `NativeEvaluation` | scoring, verdicts, the viewer's evaluation |
| `ModelPublication`, `DisplayNames`, `TaskCache` | the model on the server, its names, the identity of a task |
| `DatasetRecords`, `DatasetCache`, `Deduplication` | CSV, prepared entries, reflinks |
| `AssetStore`, `CataloguePreparation` | installed assets; passes and receipts |
| `TrainingRanks`, `TrainingRelay` | ranks of a distributed training; the relay of rank zero's callbacks |
| `ViewerDataset`, `ViewerWorker` | the shared dataset of the viewer; the process that writes it |
| `DocumentationServer` | previews and their server |
| `MCTaskSession`, `MCProcessTree`, `MCConsoleDelivery`, `MCBatchSearch`, `MCBatchCases` | bounds of one component's runs |
| `MCProgress`, `MCResults`, `MCHost` | joint runs: several components side by side (section 3) |
| `MCResults_proofs`, `MCScores_proofs` | theorems about the components of `MCResults`: files, publication and configuration; scores |
| `MCHost_proofs` | theorems about the components of `MCHost`: stores and processes |

Conventions: one action is one call of the code between two places where something may raise, a signal may arrive or
another process may act. `pc` (of a process, a thread or a command) is the place in the code. A faulty variant that
stands before a definition (`ClaimByName` before `Claim`) is a plausible bug of that code; `mutants` in `PROJECT.json`
pairs it with the property that finds it.

### TaskSession

`pc` is the place in `_task_owner`; one action is one call of the code between two places where something may raise or
a signal may arrive. Every call has a failing twin (`CompleteFails`, `CloseFails`, `MarkFails`, ...) that may or may
not have taken effect on the server. `Next` follows the code: `Entry` (the guard's refusal, `Task.init`), `Workload` (stages
and artifacts), `Finalize` (`_finalize`), `Settle` (the chain that turns a failed finalization over verified
training into a warning), `Leave` (handlers, file removal, `_finish_console`, process exit). `outcome` is the record of
`PipelineOutcome`; `Status` is its derived status. `saved` is the status in the local JSON file.

The refinement mapping to `TaskVerdict` is a plain substitution: the number of tasks, the server's status, "all
artifacts and the console confirmed" and "training verified".

A `Task.init` that raises is taken as it is in the code: the guard stays set, nothing is detached, and the SDK may
have come as far as registering its main task, its exit callback and its monitor (`BeginFails`). Such a process takes no
further invocation, so the callback that may then run at its exit belongs to a task no owner ever had: `ExitHookInert` and
`SingleFaultReported` say that this is the only exception, and `TaskVerdict` speaks of the tasks of owners (`OwnedStatus`).

Abstracted: what artifacts contain, names, retries inside the SDK, deadlines (each guarded step may be interrupted).
Not modelled: nested `invocation()`, the two instructions between a finished guarded body and the clearing of its
timer. `OwnersApart` is the conjunction of the types, `OneLiveOwner` and `ExitHookInert`.

### ProcessTree

The kernel (`Launch`, `Fork`, `Unrelated`, `Record`, `Exit`, `Wait`) moves between any two steps of the
scope. A scan (`BeginScan`, `Visit`, `ReadChildren`, `EndScan`) visits one `/proc` entry at a time; `Judge` is the
attribution after it. A process is identified by pid and birth, as the code identifies it by pid and start time. `aim` and
`pidfd` separate "found", "opened" and "signalled". A child shows its launch by its environment (`"marked"`), by a fork
record still to be written (`"pending"`) or not at all (`"silent"`: the record is lost).

Abstractions: pids of a directory listing are visited in any order; `Judge`'s rereads of `/proc` happen at one instant;
processes have one thread; no process of the workload is itself a subreaper; once the scope ends the caller's own
threads start nothing. The scan for a marker over the whole host is not modelled. `Contained` is the conjunction of the
types, `NothingOutlives`, `OnlyWorkSignalled` and `WorkNeverExcluded`, for the run with helpers.

### ConsoleDelivery

The owner's publisher (`sup`) and the worker (`wpc`) share the four files as variables. A byte is whitespace, a
character, or half of a two-byte character; stdout and stderr obey the same rules, and one stream stands for both; a
journal row is two bytes. One batch of the worker is: look for final offsets, look for a barrier, read each log up to
its limit, publish text and rows, flush, write the receipt. `Crash` and the two deadlines may happen at any moment; a
dead worker loses its memory, its successor starts from what the code says it starts from.

Abstractions: `capture.offsets()` is one step; redaction of references is a nondeterministic cut of the held-back
token. Human-readable labels, ANSI stripping and the redirection of descriptors are not modelled. `DeliveredOnce` is
the conjunction of the types, `ReceiptHonest`, `NothingTwice` and `WholeCharacters`.

### BatchSearch

`Observe` is `BatchSearch.observe` with `_advance`, `_candidate`, `_growth` and the confirmation as operators;
`_measure` is the loop around it, saving a case after every trial. A trial's outcome is *any* outcome with *any* peak
of `Peaks`: the properties may not rely on memory growing with the batch. A result that repeats a process group is
refused by the code (`MeasureFails`). A search runs on exactly one GPU
(`application/use_cases/batch_estimate.py:104`), so global and per-rank batch coincide, and the outer alignment of
`_candidate` is redundant. Statuses that the search treats alike are one value, `"error"`. `ResultEarned` is the
conjunction of the types, `Bracketed`, `BoundsMeasured`, `WinnerConfirmed` and `CaseHonest`.

### BatchCases

`Commands` run at the same time or one after another on one catalogue. `pc[c]` is the place of a scheduler, `hand[c]` the
key it is working on; `case[c][k]`, `tree[c][k]`, `receipt[c][k]` are the case process, its process tree, and what it wrote.
Saving is in two steps, `Lock` (read under the lock: the writer's `draft` is a copy of the whole catalogue with one
entry changed) and `Replace`, and a writer may be killed between them, which releases the lock. A command is interrupted
(it unwinds the pool) or killed (its cases become orphans that still run and save).

Abstractions: keys are visited in any order and those that must wait stay pending; whether a GPU is idle is
nondeterministic; one poll with its cleanups is one step; a failed launch leaves nothing behind, an uncertain one
does. Corrupt catalogues, `--list`, and the trials a failed case keeps are not modelled. Two commands may share a GPU,
as in the code; the telemetry that invalidates a contaminated trial is part of the trial's arbitrary outcome.
`CatalogueHonest` is the conjunction of the types, `Published`, `NoLostUpdate` and `OldSuccessGone`.

### ResultBundle and Pipeline

`ResultBundle` is `_ResultBundle` with its refusals: a context (role and split) is registered raw once and enriched
once, ground truth is published once, the last contributor assembles and uploads the aggregate. Every call is a pair
of what it requires and what it changes, so that a stage that calls out of order fails as in the code. `Pipeline` runs
a command's stages over it: `Calls` is the sequence of calls of the stage under way, each of which may raise
(`MaxFaults`); a raise in a stage of `cy-pipeline` goes through `Contain` (`_PipelineStages.run`), in the other
commands it ends the command. Files of the run directory are `"none"`, `"old"` (an earlier attempt) or `"new"`;
`reads` remembers what a stage read and when. Abstracted: contents of files, workbooks and plots. A pipeline that
skips prediction and metrics but compares ends with the warning about incomplete result producers; that is what the
code does, and `TrainingKept` admits it.

### PredictionCache

Two runs share a cache file, its metadata and its provenance, written one after the other; the checkpoint is replaced
and a run is killed at any step. `Attributed` says what is scored was made by the checkpoint the run selected. Bytes
of a checkpoint that are gone do not come back in the model (`Replace`). The property depends on that: between hashing
the checkpoint and hashing the CSV another run may write rows of newer weights under the old name, and the sidecar
then binds them to the old checkpoint; a run that finds the old bytes restored would reuse them.

### Evaluation, Comparison, NativeEvaluation

`Evaluation` follows a row through its numberings: the position in the file, the index after preparation, the index
inside the split. A matching is *any* matching the external library may return; the policy after it (thresholds, one
truth per prediction, false positives that carry a foreign box) is the code's. `OneStory` relates counts, payload and
exported rows. `Comparison` takes arbitrary p-values (`Outcomes`) and follows them through exclusion, the family of
both metrics and the verdicts; `VerdictsEarned` states the step-up rule independently of the loop that computes it.
`NativeEvaluation` imports any judgement of a scorer, and narrows and restores it (`MaxUses`) as the panel does; an
empty subset, views of single labels and views of whole images differ as in the code.

### ModelPublication, DisplayNames, TaskCache

`ModelPublication` has both producers (the native integration and the detectors), calibration, the last barrier, and a
recovery that selects, downloads and uses a model, while others edit the record (`MaxEdits`). A verification
(`_verify_model`) is what it is in the code, one remote read after another (`ReadOutputs`, `ReadBytes`,
`ReadMetadata`), and an edit may fall between any two. What a run verified therefore holds as of the last change before
its first read; `Attested` counts the changes since: none, and a published model is its identity file; one, and no
recovery is misled, because it compares two accounts of one file; two that agree can mislead it. The validation
thresholds are uploaded before the calibration is checked, and stay when it fails. Name and tags are read back in the
code too, and left out. Bytes and their hashes are the same small numbers. `DisplayNames` is `_resolve` for two
invocations: query, write, query again. `TaskCache` is `normalize_task_hash` over representations that differ in
everything the projection looks at; `Execution` says independently what a task with that representation executes, and
`Alike` compares.

### RunTables, RunConfiguration, ConfigurationFiles

`RunTables` is the registry of `publish_table`. Not modelled: a file that changes between its digest and its upload;
names of other artifacts are disjoint from tables' (`core/artifact_names.py`). `RunConfiguration` follows the settings
of the native group from the command that launched a run, through what the task records, the edits of its user, and the
agent that replays it, to the command a clone executes. It covers the native training commands; edits of scientific
keys in the object `run` are overridden by the parameters `General`, as in the code, and are not offered.
`ConfigurationFiles` resolves references between a file and the command, and keeps a copy without credentials. A field
is a text of marks: a word, a reference or an escaped reference, with text around it. The copy holds the resolved
values, so an escaped reference stands in it without its escape (`config_resolution.py:98` and `116` let it pass, and
`tests/test_clearml_session.py:1139` asserts the literal `${kept}`); a clone parses the copy again (`session.py:1575`),
follows it, and fails or reads another key. That is what the code does, TLC finds it when `Portable` is asked without
its last disjunct, and `Portable` promises nothing of these values; it does promise that nobody else's value is
affected. Credentials from the environment, comments and resolvers registered at run time are left out.

### DatasetRecords, DatasetCache, Deduplication

`DatasetRecords` accepts or refuses a CSV row by row, groups it into images, and exports it in three layouts.
`DatasetCache` prepares it in a staging directory step by step; two processes, kills, edits of the CSV, retargeted
links and damaged entries interleave. A link that is retargeted between computing the identity and reading the image
is not modelled: the images themselves are not part of the identity. `Deduplication` is checked against owners that
write between any two of its steps: the look at both files, the clone, the verification, the check of the source, the
check of the destination and the rename are steps of their own. The window between the last check of a destination
and the rename over it is the code's own: `late` holds a destination that was written in it, until it is written again,
and excuses no other file. Hard links and files on other devices are never replaced (`clones`).

### AssetStore, CataloguePreparation

A process wants a flat file or a Hub snapshot, as an execution (any source) or as the preparation (the pinned release
only). Files may be good, bad or missing at first; a kill leaves what was there. `routes` are the attempts left. The
look at the Hub cache is one file at a time (`Look`; `eye` is the next file), without the lock in an execution: other
processes move between its reads. A download that is refused stays in the cache, where the Hub client put it before it
was validated (`hub.py:559`). A corrupt preferred file may thus appear beside a good one that somebody is about to
return (`hidden` remembers for whom): `Usable` excepts exactly the assets found by an unlocked look under which that
happened, and nothing that was returned under the lock. One file's validation and digest are one predicate.
`CataloguePreparation` is a pass with its lock and receipt, the extracted source, and the conversion of a backbone
whose receipt is written after it.

### TrainingRanks, TrainingRelay

`TrainingRanks` spawns, polls, relays, stops and reaps; every rank may leave a child behind, exit in any way, and
write half a line. The trees keep `ProcessTree`'s promise or raise; they are stopped one after the other, and one that
fails must not keep the next alive. `TrainingRelay` has a journal written in halves, a
thread that reads it through the steps of `_consume` (each look at the stop event is a step), and the owner's replay.

### ViewerDataset, ViewerWorker, DocumentationServer

`ViewerDataset` is one publication after another, each killed anywhere (`MaxKills`), over a description that is saved
whole. Not modelled: a kill between the creation of the dataset and its first description, after which the code
refuses the dataset for ever (nothing is shown, so nothing wrong either). `ViewerWorker` has one deadline and one
interruption; a helper forked between the last look at the process table and the kill, and an interruption between
`Popen` and the `try`, which leaves a worker at its gate, are not modelled. The Windows job object is not modelled.
`DocumentationServer` has three requests over two workers' permits; a second interruption while the server closes, and
a wait inside `close()` that times out, are not modelled.

## 3. Runs

Every configuration sets `CHECK_DEADLOCK FALSE`: an invocation, a scope, a publisher, a search and a command really end,
and nothing happens afterwards.

| Run | Bounds | Asks |
| --- | --- | --- |
| `MCTaskSession` | 2 artifacts, 2 invocations in one process, 3 failing calls | honesty of the return, owners apart, inputs, settlement, checkpoint before close, refinement of `TaskVerdict` |
| `MCTaskSessionMonitor` | 1 invocation, no artifacts, 3 failing calls | *violated*: a status is set under a running status monitor (finding 1) |
| `MCProcessTree` | 3 pids, 4 births, reuse at any moment | nothing outlives a returned terminate; only work is signalled |
| `MCProcessTreeHelpers` | 1 helper and 2 more pids, 2 births, every fork trace | attribution beside a helper of the caller |
| `MCConsoleDelivery` | 3 bytes, 1 row, batches of 3, 2 publishers, 1 barrier, other writers | receipts and answers mean delivery, nothing twice, whole characters |
| `MCConsoleDeliveryOvershoot` | 2 bytes, batches of 2, another writer | *violated*: a final drain is acknowledged (finding 2) |
| `MCBatchSearch` | grid of 12 batches (2..24), 4 peaks around the budget | what a search earns; termination |
| `MCBatchCases` | 1 command with 2 cases or 2 commands with 1 each, 2 GPUs | GPUs, publication, lost updates, old successes |
| `MCBatchCasesLaunch` | 1 command with 2 cases | *violated*: an uncertain launch quarantines its GPU (finding 3) |
| `MCProgress` | trees: 2 pids, 4 births; console: 3 bytes, no rows, batches of 2, 2 barriers, other writers, healthy worker; cases: 1 command, 2 cases, one of which fits one GPU | termination settles; every barrier is answered unless a writer never completes a character, every finish unless the worker overshot it (finding 2); every key gets a result |
| `MCResults` | 2 faults in a pipeline; 2 runs, 3 checkpoints; 2 rows per file; 3 classes; 2 narrowings; 3 tables under 2 names; 2 edits, 2 clones (1 for files); 1 earlier task; 2 invocations, 2 suffixes | what a run computes and publishes |
| `MCHost` | 3 CSV rows; 2 processes; 3 files, 2 writes; 1 kill; 4 passes; 5 publications of 2 runs; 1 helper; 3 previews on 2 permits; 2 ranks; 5 callbacks | what the processes of a host share |

*Joint runs.* The components of `MCProgress`, `MCResults` and `MCHost` share no state, so their product would only
multiply states. The variable `focus` selects, in the initial state, the component a behaviour is about; the variables
of all others are `"off"` and stay so. Every component is thus explored completely, by its own `Init` and its own
actions, and a property `P` of it is `focus = "x" => X!P`. The MC module's `Next` names each component's actions, so
that an action that never fires is seen.

Why these bounds are enough to be interesting:

* *TaskSession.* Two invocations are needed for the guard and the SDK's leftovers; three faults are the longest chain
  that matters: the failure that starts the settlement, one inside it, and one in the console's shutdown. Two
  artifacts tell "some" from "all".
* *ProcessTree.* Three pids are a parent, its child and a pid that is reused; four births let a pid be reused beside
  two others. (`MaxBirths` is 5: the invocation itself is the first birth.) With a helper, two births are a workload
  process and a second one of either branch, with every way a fork shows or hides its launch.
* *ConsoleDelivery.* Three bytes hold a character cut by a batch, text on each side of a held-back token, or a barrier
  inside a character. Two publishers are needed for `publication_started`; `MaxToken = 1` for text that exceeds the
  longest token.
* *BatchSearch.* Twelve grid points make the growth phase, predictions that are clamped, several halvings and the step
  back all happen; the ceiling 25 is not on the grid; the peaks lie below, at and above the budget.
* *BatchCases.* Two writers are enough for a lost update and an orphan; two GPUs, one of which fits both keys, for a
  wait on the own command. `MaxSaves` bounds the progress a case saves; all saves of progress are alike.
* *MCResults.* Two faults are one in a stage and one in recording it. Two runs and three checkpoints let a cache be
  filled, replaced and replaced again under a run. Two rows per file make every renumbering differ from the identity.
  Three classes are a family in which one excluded class shifts the others. A clone of a clone shows what one hop
  hides. Two invocations that both start without a suffix collide at every query.
* *MCHost.* Three rows hold two paths of one name and a third whose name differs by case. Two processes are a holder
  and a waiter; four passes let an automatic one follow an interrupted manual one. The five publications repeat a run,
  complete one, and disagree about images. One kill is enough, as each start after it meets what it left; a second one
  leaves nothing new. `Permutations(Procs)` is sound: every component treats its processes alike.

### Fairness

Only the liveness properties use it (`MCProgress`, `Terminates` of `MCBatchSearch`), and each assumption is what the
code's own scheduling gives:

* `ProcessTree!Patience`: the scope keeps running (weak), its rounds come to send SIGKILL (`Kills`, strong:
  `terminate` sends it in every round after the grace period, but not in those before), and a process signalled in
  round after round dies of it (strong: it is pinned by a descriptor only for a moment of each round). Nothing else
  has to die, so the property depends on every survivor being found. Births are bounded, which stands for "churn
  stops"; when it never stops the code gives up at its deadline (`GiveUp`), and nothing is claimed.
* `ConsoleDelivery!Healthy`: the worker keeps running and the owner reads receipts that cover its request. It has no
  crash and no deadline; with them only safety is claimed. Other processes may write to the log at any moment, so
  the watermark of a request can cut a character or a held-back token; nothing is assumed of these writers. A barrier
  is therefore only promised while no character is left half-written at the end of the log (`Stranded`: the code
  releases nothing before its tail comes), and `finish` only while the worker has not published more than the final
  offsets (`Overshot`, which is finding 2).
* `BatchSearch!FairSpec`: the loop runs, preparation and trials return (trials have timeouts in the code).
* `BatchCases!FairSpec`: the scheduler keeps polling, and a case process ends or breaks.

## 4. Proofs

Every safety property of the passing runs has a theorem. The theorems hold for every value of the constants under the
module's named assumption (`BoundsAssumption`, `TreeAssumption`, `DeliveryAssumption`, `SearchAssumption`,
`CasesAssumption`, `HostAssumption`, `ResultsAssumption`), which TLC also evaluates; none says more than what kind of
value a bound or a name is: of the boxes of a panel that they are finitely many, of two kinds, and that "none" is not
one of them; of a configuration file that a field of it is a text, which refers to one key at most; of the rows of an
evaluation only how many there are. What the joint modules define rather than declare (which splits a pipeline scores,
what its stages write and read) is fixed, as it is in the code. None of the properties is inductive. The strengthening
of each is a conjunction of named parts, which TLC checks with the bounds of the runs as well.

Induction over data is out of the provers' reach, so a definition that a theorem is about says what the code's loop
computes rather than how. A sorted selection of rows (`InOrder`) is *the* list of the chosen ones in which positions
rise; it is chosen, and that there is one is a lemma. A reference in a configuration file is read along a chain of
keys (`Chains`) that ends in a literal, and a cycle, which has no such chain, is what the resolver refuses.

*TaskSession_proofs.* Spec implies type correctness, `HonestReturn`, `OneLiveOwner`, `ExitHookInert` (together
`OwnersApart`), `InputsRetained`, `CheckpointBeforeClose`, `SingleFaultReported`, and that the session implements
`TaskVerdict`. The properties speak of the end of an invocation, so the invariant carries, per place of the code, what
has been established on the way. It is the conjunction of `TypeOK`, `SdkInv` (which owner the SDK and the guard hold,
where), `HookInv` (where the exit callback may be attached), `ConsoleInv` (what the publisher acknowledged, where),
`OutcomeInv`, `ProgressInv` (which checks are behind), `StatusInv` (what the server may show), `FilesInv` and
`HonestReturn` itself. It is preserved by each group of actions, one step per action; the refinement then follows step
by step. `SingleFaultReported` counts faults, and needs one more part, `FaultInv`: as long as no second fault has
happened, the status, the error on its way and the place in the code still agree about the first (`Trouble`,
`Troubles`).

*ProcessTree_proofs.* For any pids, births and helpers: `NothingOutlives`, `OnlyWorkSignalled`, `Contained` and
`OnlyWorkReaped`. Pids may be reused at any moment when the caller has no helpers; beside helpers they may be reused,
but not within one scan (`Scoped`). The reason is in the code: a scan attributes a child by its parent's *pid*, which it
reads from `/proc` entry by entry, so a pid that changed hands between two of these reads attributes it to a stranger.
The hypothesis is needed: with `ReuseWithinScan = TRUE`, one helper and four births TLC finds `Contained` violated (a
helper dies after its child was listed, the workload gets its pid before it is listed again, and the child, taken for
the workload's, is signalled). The kernel hands out pids in rotation and a scan is short, so the run and the theorems
leave this case out.
The conclusion speaks of the kernel, the code only of what its scans saw, so the invariant relates the two. `KernelInv`
says that live processes have live parents of their own kind or belong to the root or to init; `Rooted` that every set
of live processes has a member whose parent is outside of it: live work always includes a child of the root. `TableInv`
and `SeenInv` say that what a scan or the first scan's snapshot calls dead is dead. `SecondInv` is the heart of
`NothingOutlives`: once the second scan has read the root's children while work lives, there is a `Witness`, a child
still to visit or an entry already in the table, that will make the scan fail or differ from the first; `CleanInv`
follows at its end. The properties about kinds need what the kernel forgets: a remembered process may be gone and its
pid reused. The invariant is therefore `\E K : IInv(K)`, where the history `K` gives every birth its kind. `Lineage`,
`ScanKinds` and `SenderKinds` say that whatever the scope has identified, excluded, put in a table, aimed at or opened
was born of the kind it is taken for, and `Stable` that within a scan without reuse a parent's pid is of its child's
kind. Each step extends the history or leaves it alone.

*ConsoleDelivery_proofs.* For logs of any length, any batch and token size, publishers, barriers, crashes, deadlines and
writers: `DeliveredOnce`, and the action property `AnswerMeansDelivered`. `OwnerInv` says which files exist where
owner and worker stand; `OffsetInv` that every offset lies between the initial one and what was written; `SinkInv`
that all bytes from the initial offset to the one the worker counts as acknowledged were reported, and nothing beyond
(`Reach`); `HalfInv` and `LogInv` that only the last batch of a stopping
worker may end between the two halves of a character. Steps are sorted by what they do to these books (`Quiet`,
`Batched`, `Lost`), which is shown once for all.

*BatchSearch_proofs.* For any grid, ceiling, budget and set of peaks: types, `BoundsMeasured`, `WinnerConfirmed`,
`Bracketed`, `CaseHonest` (together `ResultEarned`), and the action property `Narrows`. The invariant `SearchInv` is a
conjunction of `Grid` (batches are aligned), `Running` (a next batch exists exactly while searching), `Discovery` (the
next batch is strictly between the bounds and everything measured lies outside of them), `Confirmation` (what ended
the discovery: the ceiling, adjacent bounds, or a numerical failure above), `Clear` (no batch at or below the lower
bound exceeded the memory), `BoundsMeasured` and `WinnerConfirmed`; `Distinct` says that process groups differ, which
makes "confirmed" mean two groups. That a candidate stays strictly between the bounds is a lemma of integer arithmetic
about rounding to the grid.

*BatchCases_proofs.* For any commands, keys, GPUs and kills: `CatalogueHonest`, `NoSharedGpu`, and the action property
`Settled` (an earned case stays earned, a removed success never returns). `LockInv` says that at most one writer holds a
draft; `DraftInv` that a draft brings in nothing but what was earned, and no old success the catalogue has lost;
`InvalidInv` that a case is launched after its key was invalidated. `SchedulerInv` is about one
command: a key is pending, in hand or active, so it is started once, and `GpuInv` gives active cases a GPU each and
quarantines those whose cleanup failed.

*MCHost_proofs.* One invariant per component; a lemma says that the steps of one component
leave the others alone.

| Theorem | Property | The inductive argument |
| --- | --- | --- |
| `Members` | `Membership` | one split and one path for a name among accepted rows; a background row is alone, and no valid box is repeated; the counter gives every image a file of its own |
| `Datasets` | `ServedWhole` | what a process knows of source, identity and lock at each place; an entry in use is complete and of the bytes that were hashed |
| `Deduplicated` | `BytesKept` | what was compared holds of files whose stamp is the scanned one, at the look and again at the checks; a write to the destination after its last check is recorded until the next one |
| `Assets` | `Usable` | under the lock files only become good or appear with the holder's knowledge, and a ref stays, so what native loading would choose it still chooses; an unlocked look knows each file as of its own read, and `hidden` says over whose look one appeared |
| `Receipts` | `ReceiptEarned` | a receipt belongs to a pass that ended; who can change that holds the lock |
| `Published` | `RunWhole` | at each place, what a publication under the lock has written; what is rewritten was declared incomplete first |
| `Scratches` | `ScratchSafe` | the cleanup knows everything that lives, as the gate opens only over an accounted worker (the two excluded windows are named in section 2) |
| `Previews` | `Disposable` | a group whose number is taken is in the table that both threads take it from |
| `Grouped` | `GroupWhole` | relayed are the first complete lines; a rank seen to succeed exited with zero, rank zero with all lines written; a tree the cleanup has been at is gone or is counted as failed |
| `Replayed` | `ReplayedOnce` | what the thread took over are the first events, what it holds the halves after them, up to the journal's end |

*MCResults_proofs.* Likewise.

| Theorem | Property | The inductive argument |
| --- | --- | --- |
| `Results` | `ResultsHonest` | at each stage, which files are new or still to be written by the stage itself; what is read once training succeeded is new |
| `Attribution` | `Attributed` | versions only grow (replaced bytes never return): identity <= key <= maker <= weights, and at the end the outer two are found equal |
| `Verification` | `Attested` | at each place of a verification, what its reads so far and the changes since say of the record; the verified bytes are those of the identity file; calibration and recovery check against it |
| `Naming` | `Unique` | of two that wrote one name, the later to query again sees the other |
| `Uploads` | `TablesKept` | a remote is taken by the bytes it holds; some name is always free (a counting argument) |
| `Repetition` | `Repeats` | a task whose agent missed no edit means what is asked, through normalisation, replay and the recorded group |
| `Reuses` | `Alike` | requests of one identity execute the same: the projection, field by field, is idempotent and keeps what execution depends on |
| `Portability` | `Portable` | what is prepared is the file in use, resolved and sanitized; until a clone runs, the copy holds texts without an escape, each what its run kept or redacted, but for edited keys |

*Portable* compares what three executions read: the launch, what its task keeps, and the clone. `FileText` and
`FileWrap` say what marks may stand where in a text, `FileValue` that whatever is read is a text without an escape and
a text without a reference is read as it stands, `FileClean` that removing a secret leaves a text or the mark of a
redaction at its end, and `FileKept` joins them: field by field, what is kept is what was read, or is redacted; and it
is redacted whenever a credential is on the chain. `FileCopied` carries this from one hop of cloning to the next,
which one step never sees.

*MCScores_proofs.* Likewise, for what the scores say. All three have a count in them that no step computes in the form
the property states it; each is shown by a bijection or by an extremal element, not by unfolding `Cardinality`.

| Theorem | Property | The inductive argument |
| --- | --- | --- |
| `Accounts` | `OneStory` | every numbering lists rows of the file, none twice; every match is of rows of its own class, and no box or prediction is judged twice |
| `Display` | `PanelTrue` | the scorer judges every box once; then every box is in one native tuple; what is in use are those tuples, or the ones the view selects |
| `Judgement` | `VerdictsEarned` | the step-up array equals the rule by the greatest number of discoveries; hypotheses have places of their own |

*Accounts.* `EvalRows` says that the prepared, raw and scoped indices are lists of rows, and `EvalMatches` what
the matching owes its reader at each place: `EvalJudged` (no prediction in two matches, no box found twice, or found and
missed) and `EvalCovered` (no box of a scored class without a verdict). Thresholds disturb both: a true positive
under the threshold becomes a missed box, and `EvalThinned` shows that it is judged exactly once again. `EvalAccounts`
then relates the three accounts of a row, and `EvalTruthCount` and `EvalGuessCount` map the matches of a class one to
one to its exported rows, through all renumberings.

*Display.* The scorer's matches may name a found box in a false positive as well, so they are not yet tuples.
`PanelCanonical` is the heart: `canonical_matches` leaves every box in exactly one tuple (its true positive's, else
that of the first wrong prediction near it, else its own), for any matches of the form `PanelScored`. `PanelResults` says
that narrowing and restoring the view loses none of them and keeps overlaps beside their pairs, also after a narrowing
of a narrowed view. `PanelCounts` shows that the panel's counters, which it takes from its matches, equal the labels
it navigates to in a view of whole images.

Only model-checked: all liveness (`Converges`, `EveryRequestAnswered`, `Terminates`, `Ends`), which needs fairness and
ENABLED. Outside of the theorems are also the numbers a random or external procedure gives: p-values and matchings are
arbitrary inputs, in the runs and in the proofs.

## 5. Findings

1. `NoStatusUnderMonitor` (`adapters/clearml/session.py:882`): `_finish_console` marks a task completed with a
   warning without releasing the status monitor, which the comment at line 505 says would take that for an external abort.
2. `FinalAcknowledged` (`adapters/clearml/console_worker.py:230`): `finish()` reads the sizes of the logs before the file that
   announces them exists. A batch under way may pass those offsets when another process still writes; the worker compares for
   equality, never acknowledges, and a complete publication fails at the deadline.
3. `LaunchQuarantined` (`entrypoints/batch_estimate.py:274`): the handler of a failed launch quarantines the GPU because the
   cleanup may be unverifiable, but in exactly that case `start` raises an `ExceptionGroup`, which the handler does not catch.

## 6. What is left

* Components without a module are listed in section 1. Hazards without a property: the terminal mirror, and two
  commands that find one GPU idle at the same time (`adapters/runtime/gpu_inventory.py:123`).
* A pid that is reused within one scan beside helpers of the caller (section 4) is found by the model and excluded from
  its promises.
* What the model reaches and a property leaves out, always at a place of the code that allows it: values with escaped
  references in a cloned configuration file (`Portable`), a corrupt file that appears under an unlocked look (`Usable`),
  a destination written between its last check and the rename (`BytesKept`), the callback of a `Task.init` that raised
  (`ExitHookInert`). Section 2 says of each why.
* Proofs: the joint runs' components have theorems of their own, but no theorem composes two of them (a row from the
  CSV through its evaluation to the panel, say); sections 1 and 4 say which promise of one is used by another.
* Within modelled components: the replay of saved trials and the extrapolation to several GPUs in batch estimation,
  nested invocations of the task session, the Windows branch of the viewer's worker.
