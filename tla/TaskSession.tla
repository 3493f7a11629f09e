---------------------------- MODULE TaskSession ----------------------------
(***************************************************************************)
(* The life of a command's only ClearML task: invocation() and             *)
(* _task_owner() of adapters/clearml/session.py, with the SDK calls they   *)
(* make.  Every call may raise; a call that writes the server may have     *)
(* taken effect before it raised; SIGTERM arrives between any two calls    *)
(* while the owner's handler is installed.                                 *)
(*                                                                         *)
(* MaxFaults bounds the calls that raise in one process, MaxInvocations    *)
(* the commands one process runs (a sequential Hydra sweep runs several).  *)
(***************************************************************************)
EXTENDS Naturals, FiniteSets

CONSTANTS Artifacts, MaxFaults, MaxInvocations

ASSUME BoundsAssumption ==
  /\ MaxFaults \in Nat
  /\ MaxInvocations \in Nat

VARIABLES
  pc,        \* where the owner process stands
  kind,      \* "pipeline" or "standalone": state.stages[0]
  error,     \* primary_error of _task_owner
  cause,     \* the error that _finalize_preserving_training turned into a warning
  status,    \* the task's status on the server
  sdk,       \* the SDK's process-wide main task
  hook,      \* the SDK's atexit callback is registered
  monitor,   \* the SDK's status monitor (_dev_worker) is running
  guard,     \* _INCOMPLETE_OWNER: its pid, then its task, then close_attempted set
  console,   \* state.console_publisher and what it has acknowledged
  required,  \* artifacts declared with expect_artifacts
  uploaded,  \* artifacts the server confirmed
  outcome,   \* state.pipeline_outcome
  saved,     \* status in the local pipeline_outcome.json
  files,     \* the invocation's temporary configuration files
  disk,      \* the run directory accepts writes
  faults,    \* calls that may still raise
  runs       \* invocations begun

taskVars  == <<status, sdk, hook, monitor, guard>>
stageVars == <<kind, required, uploaded, disk, runs>>
vars == <<pc, error, cause, outcome, saved, console, files, faults, taskVars, stageVars>>

Exceptions == {"workload", "final", "console"}   \* subclasses of Exception
Errors     == Exceptions \union {"signal"}       \* _SignalExit, KeyboardInterrupt
Resting    == {"ready", "returned", "raised"}
Stages     == {"downstream", "publication", "console"}

Outcome == [made : BOOLEAN, training : BOOLEAN, fatal : BOOLEAN,
            failed : SUBSET Stages, warned : BOOLEAN]
NoOutcome == [made |-> FALSE, training |-> FALSE, fatal |-> FALSE,
              failed |-> {}, warned |-> FALSE]
Untrained == [NoOutcome EXCEPT !.made = TRUE]
Trained   == [Untrained EXCEPT !.training = TRUE]
Fatal(o) == [o EXCEPT !.fatal = TRUE]
WithIssues(o) == [o EXCEPT !.warned = TRUE]

FailStage(o, stage) == [o EXCEPT !.failed = @ \union {stage}]

(***************************************************************************)
(* PipelineOutcome.status                                                  *)
(***************************************************************************)
Status(o) ==
  CASE o.fatal                            -> "failed"
    [] o.failed # {} /\ ~o.training       -> "failed"
    [] o.failed # {} \/ o.warned          -> "warned"
    [] OTHER                              -> "succeeded"

\* _persist_pipeline_outcome: only after preserve_training_success set the path.
Persisted(o) == IF disk = "writable" /\ o.training THEN Status(o) ELSE saved
Missing == required \ uploaded
Failing == error # "none"
Owned == guard \in {"owned", "attempted"}

Init ==
  /\ pc = "ready" /\ kind = "standalone" /\ error = "none" /\ cause = "none"
  /\ status = "none" /\ sdk = "none" /\ hook = "detached" /\ monitor = "stopped"
  /\ guard = "free" /\ console = "off" /\ required = {} /\ uploaded = {}
  /\ outcome = NoOutcome /\ saved = "absent" /\ files = "kept"
  /\ disk \in {"writable", "full"} /\ faults = MaxFaults /\ runs = 0

Fault == faults > 0 /\ faults' = faults - 1

-----------------------------------------------------------------------------
(* invocation(): the guard, Task.init and the start of the publisher *)

Enter(k) ==
  /\ pc \in Resting /\ runs < MaxInvocations
  /\ guard = "free"
  /\ runs' = runs + 1 /\ kind' = k
  /\ error' = "none" /\ cause' = "none" /\ console' = "off"
  /\ required' = {} /\ uploaded' = {} /\ outcome' = NoOutcome
  /\ saved' = "absent" /\ files' = "kept" /\ UNCHANGED disk

Begin(k) ==
  /\ Enter(k)
  /\ pc' = "start"
  /\ status' = "in_progress" /\ sdk' = "open" /\ hook' = "attached" /\ monitor' = "running"
  /\ guard' = "owned"
  /\ UNCHANGED faults

(***************************************************************************)
(* Task.init raised.  The owner is not known, so nothing is detached or    *)
(* closed, and the guard stays set for good; how far the SDK had come with *)
(* its main task, its exit callback and its monitor is anybody's guess.    *)
(***************************************************************************)
BeginFails(k) ==
  /\ Enter(k) /\ Fault
  /\ pc' = "raised"
  /\ guard' = "partial"
  /\ \/ status' = "none" /\ UNCHANGED <<sdk, hook, monitor>>
     \/ /\ status' = "in_progress" /\ sdk' = "retained"
        /\ hook' \in {"attached", "detached"} /\ monitor' \in {"running", "stopped"}

\* "Previous ClearML owner did not confirm closure": RuntimeError, nothing created.
Refuse ==
  /\ pc \in Resting /\ runs < MaxInvocations
  /\ guard # "free"
  /\ pc' = "refused"
  /\ UNCHANGED <<error, cause, outcome, saved, console, files, faults, taskVars, stageVars>>

(***************************************************************************)
(* The except branch of _task_owner: the outcome turns fatal, the failure  *)
(* is logged (so the console has output again), a deadline failure         *)
(* detaches the SDK's exit callback.  c and h are the console and the hook *)
(* as the call that raised left them, o the outcome.                       *)
(***************************************************************************)
Abort(e, c, h, o) ==
  LET fatal == IF o.made THEN Fatal(o) ELSE o IN
  /\ pc' = "release"
  /\ error' = e
  /\ outcome' = fatal
  /\ saved' = Persisted(fatal)
  /\ console' = IF c = "acked" THEN "live" ELSE c
  /\ hook' = IF e = "final" THEN "detached" ELSE h
  /\ UNCHANGED cause

\* publisher.start() and publish_script(): the latter raises with a live publisher.
Start ==
  /\ pc = "start"
  /\ pc' = "body" /\ console' = "live"
  /\ UNCHANGED <<error, cause, outcome, saved, files, faults, taskVars, stageVars>>

StartFails ==
  /\ pc = "start" /\ Fault
  /\ \/ \E e \in Errors : Abort(e, "off", hook, outcome)
     \/ \E e \in {"workload", "signal"} : Abort(e, "live", hook, outcome)
  /\ UNCHANGED <<files, status, sdk, monitor, guard, stageVars>>

-----------------------------------------------------------------------------
(* What the stages do to the invocation's state while they run *)

Stage(o) ==
  /\ pc = "body"
  /\ outcome' = o
  /\ UNCHANGED <<pc, error, cause, console, files, faults, taskVars, stageVars>>

\* preserve_training_success, for a nonempty checkpoint
PreserveTraining ==
  /\ kind = "pipeline" /\ ~outcome.made
  /\ Stage(Trained)
  /\ saved' = Persisted(Trained)

\* stages.skip("training", ...): strict, so an unwritable run directory raises.
SkipTraining ==
  /\ kind = "pipeline" /\ ~outcome.made /\ disk = "writable"
  /\ Stage(Untrained)
  /\ saved' = Status(Untrained)

\* A stage fails after training (downstream), or only its publication does.
StageFails ==
  /\ outcome.training
  /\ \E stage \in {"downstream", "publication"} : Stage(FailStage(outcome, stage))
  /\ saved' = Persisted(outcome')

\* The report stage completes with training-count issues.
StageWarns ==
  /\ outcome.made
  /\ Stage(WithIssues(outcome))
  /\ saved' = IF disk = "writable" THEN Status(outcome') ELSE saved

ExpectArtifact(a) ==
  /\ pc = "body"
  /\ a \notin required
  /\ required' = required \union {a}
  /\ UNCHANGED <<pc, error, cause, outcome, saved, console, files, faults, taskVars,
                 kind, uploaded, disk, runs>>

UploadArtifact(a) ==
  /\ pc = "body"
  /\ a \notin uploaded
  /\ required' = required \union {a}
  /\ uploaded' = uploaded \union {a}
  /\ UNCHANGED <<pc, error, cause, outcome, saved, console, files, faults, taskVars,
                 kind, disk, runs>>

\* Without verified training a failed stage re-raises; an interruption always does.
BodyRaises(e) ==
  LET o == IF outcome.made THEN FailStage(outcome, "downstream") ELSE outcome IN
  /\ pc = "body" /\ Fault
  /\ Abort(e, console, hook, o)
  /\ UNCHANGED <<files, status, sdk, monitor, guard, stageVars>>

BodyReturns ==
  /\ pc = "body"
  /\ kind = "pipeline" => outcome.made
  /\ pc' = "uploads"
  /\ UNCHANGED <<error, cause, outcome, saved, console, files, faults, taskVars, stageVars>>

-----------------------------------------------------------------------------
(* _finalize, inside _finalize_preserving_training *)

(***************************************************************************)
(* An Exception out of _finalize becomes a publication warning when the    *)
(* pipeline's training is verified; anything else leaves the invocation.   *)
(***************************************************************************)
Raise(e, c, h) ==
  IF e \in Exceptions /\ outcome.training
  THEN LET warned == FailStage(outcome, "publication") IN
       /\ pc' = "warning" /\ cause' = e
       /\ outcome' = warned /\ saved' = Persisted(warned)
       /\ console' = c /\ hook' = h /\ UNCHANGED error
  ELSE Abort(e, c, h, outcome)

\* Faulty variant: finalizes without looking for missing artifacts.
CheckNothing ==
  /\ pc = "uploads" /\ pc' = "flush"
  /\ UNCHANGED <<error, cause, outcome, saved, console, hook, files, faults, status, sdk,
                 monitor, guard, stageVars>>

\* Finalizers and the check for missing artifacts.
CheckArtifacts ==
  /\ pc = "uploads"
  /\ IF Missing = {}
     THEN pc' = "flush" /\ UNCHANGED <<error, cause, outcome, saved, console, hook>>
     ELSE Raise("workload", console, hook)
  /\ UNCHANGED <<files, faults, status, sdk, monitor, guard, stageVars>>

\* Model uploads, flush, reload and the model barriers.
Flush ==
  /\ pc = "flush"
  /\ pc' = "outcome"
  /\ UNCHANGED <<error, cause, outcome, saved, console, files, faults, taskVars, stageVars>>

PublishOutcome ==
  /\ pc = "outcome"
  /\ pc' = "barrier"
  /\ saved' = IF outcome.made THEN Persisted(outcome) ELSE saved
  /\ UNCHANGED <<error, cause, outcome, console, files, faults, taskVars, stageVars>>

FinalizeFails ==
  /\ pc \in {"uploads", "flush", "outcome"} /\ Fault
  /\ \E e \in {"workload", "final", "signal"} : Raise(e, console, hook)
  /\ UNCHANGED <<files, status, sdk, monitor, guard, stageVars>>

\* console_publisher.barrier(): a failed barrier stops the publisher for good.
Barrier ==
  /\ pc = "barrier"
  /\ pc' = "close" /\ console' = "acked"
  /\ UNCHANGED <<error, cause, outcome, saved, files, faults, taskVars, stageVars>>

BarrierFails ==
  /\ pc = "barrier" /\ Fault
  /\ \E e \in {"console", "final", "signal"} : Raise(e, "broken", hook)
  /\ UNCHANGED <<files, status, sdk, monitor, guard, stageVars>>

(***************************************************************************)
(* _close_task: confirmed when the SDK released its main task; otherwise   *)
(* the guard remembers the attempt and the exit callback is detached.      *)
(***************************************************************************)
Closed ==
  /\ sdk' = "closed" /\ monitor' = "stopped"
  /\ guard' = IF Owned THEN "free" ELSE guard

\* Faulty variant: the owner is forgotten whether or not it closed.
NotClosedForgotten ==
  /\ sdk' = IF sdk = "closed" THEN "closed" ELSE "retained"
  /\ monitor' \in {monitor, "stopped"}
  /\ guard' = "free"

NotClosed ==
  /\ sdk' = IF sdk = "closed" THEN "closed" ELSE "retained"
  /\ monitor' \in {monitor, "stopped"}
  /\ guard' = IF Owned THEN "attempted" ELSE guard

Close ==
  /\ pc = "close"
  /\ Closed
  /\ pc' = "complete" /\ hook' = "detached"
  /\ UNCHANGED <<error, cause, outcome, saved, console, files, faults, status, stageVars>>

\* close() or is_main_task() failed, or the readback after a confirmed close did.
CloseFails ==
  /\ pc = "close" /\ Fault
  /\ Closed \/ NotClosed
  /\ \E e \in {"workload", "final", "signal"} : Raise(e, console, "detached")
  /\ UNCHANGED <<files, status, stageVars>>

Verdict == IF outcome.made /\ Status(outcome) # "succeeded" THEN "warned" ELSE "completed"

Complete ==
  /\ pc = "complete"
  /\ status' = Verdict
  /\ pc' = "cleanup"
  /\ UNCHANGED <<error, cause, outcome, saved, console, files, faults, sdk, hook, monitor,
                 guard, stageVars>>

\* mark_completed raised, before or after the server accepted it.
CompleteFails ==
  /\ pc = "complete" /\ Fault
  /\ status' \in {status, Verdict}
  /\ \E e \in {"workload", "final", "signal"} : Raise(e, console, hook)
  /\ UNCHANGED <<files, sdk, monitor, guard, stageVars>>

-----------------------------------------------------------------------------
(* Settling a task that did not finalize: with a warning, or as failed *)

\* Faulty variant: contains the failure but keeps the exit callback.
ContainAttached(e, c, h) ==
  IF ~Failing /\ e = "signal"
  THEN Abort(e, c, h, outcome)
  ELSE /\ pc' = "cleanup" /\ console' = c /\ hook' = h
       /\ saved' = IF Failing THEN saved ELSE Persisted(outcome)
       /\ UNCHANGED <<error, cause, outcome>>

(***************************************************************************)
(* In the warning branch an Exception is recorded locally and contained, a *)
(* signal leaves for _task_owner; in the failure branch _task_owner itself *)
(* contains whatever is raised.  Both detach the exit callback.            *)
(***************************************************************************)
Contain(e, c, h) ==
  IF ~Failing /\ e = "signal"
  THEN Abort(e, c, h, outcome)
  ELSE /\ pc' = "cleanup" /\ console' = c /\ hook' = "detached"
       /\ saved' = IF Failing THEN saved ELSE Persisted(outcome)
       /\ UNCHANGED <<error, cause, outcome>>

\* The upload of the outcome may fail without ending the warning branch.
WarnUpload ==
  /\ pc = "warning"
  /\ pc' = "release"
  /\ \/ UNCHANGED <<faults, saved>>
     \/ Fault /\ saved' = Persisted(outcome)
  /\ UNCHANGED <<error, cause, outcome, console, files, taskVars, stageVars>>

WarnInterrupted ==
  /\ pc = "warning" /\ Fault
  /\ Abort("signal", console, hook, outcome)
  /\ UNCHANGED <<files, status, sdk, monitor, guard, stageVars>>

\* _release_failure_monitor
Release ==
  /\ pc = "release"
  /\ monitor' = "stopped"
  /\ pc' = "settle"
  /\ UNCHANGED <<error, cause, outcome, saved, console, files, faults, status, sdk, hook,
                 guard, stageVars>>

ReleaseFails ==
  /\ pc = "release" /\ Fault
  /\ \E e \in {"final", "signal"} : Contain(e, console, hook)
  /\ UNCHANGED <<files, status, sdk, monitor, guard, stageVars>>

(***************************************************************************)
(* _close_for_failure returns the task unclosed when a close was already   *)
(* attempted, when the error being settled is the console's own, or when   *)
(* the barrier fails now; only otherwise does it close.                    *)
(***************************************************************************)
Quarantined ==
  \/ guard = "attempted"
  \/ (IF Failing THEN error ELSE cause) = "console"

LeaveOpen ==
  /\ pc = "settle"
  /\ Quarantined
  /\ pc' = "mark" /\ hook' = "detached"
  /\ UNCHANGED <<error, cause, outcome, saved, console, files, faults, status, sdk, monitor,
                 guard, stageVars>>

\* Faulty variant: trusts that the publisher is up to date.
SettleNoBarrier ==
  /\ pc = "settle"
  /\ ~Quarantined
  /\ console # "broken"
  /\ pc' = "settleClose"
  /\ UNCHANGED <<error, cause, outcome, saved, console, files, faults, taskVars, stageVars>>

SettleBarrier ==
  /\ pc = "settle"
  /\ ~Quarantined
  /\ console # "broken"
  /\ pc' = "settleClose"
  /\ console' = IF console = "off" THEN "off" ELSE "acked"
  /\ UNCHANGED <<error, cause, outcome, saved, files, faults, taskVars, stageVars>>

SettleBarrierFails ==
  /\ pc = "settle"
  /\ ~Quarantined /\ console # "off"
  /\ IF console = "broken" THEN UNCHANGED faults ELSE Fault
  /\ pc' = "mark" /\ console' = "broken" /\ hook' = "detached"
  /\ UNCHANGED <<error, cause, outcome, saved, files, status, sdk, monitor, guard, stageVars>>

SettleBarrierInterrupted ==
  /\ pc = "settle" /\ Fault
  /\ ~Quarantined /\ console # "off"
  /\ \E e \in {"final", "signal"} : Contain(e, "broken", hook)
  /\ UNCHANGED <<files, status, sdk, monitor, guard, stageVars>>

SettleClose ==
  /\ pc = "settleClose"
  /\ Closed
  /\ pc' = "mark" /\ hook' = "detached"
  /\ UNCHANGED <<error, cause, outcome, saved, console, files, faults, status, stageVars>>

SettleCloseFails ==
  /\ pc = "settleClose" /\ Fault
  /\ Closed \/ NotClosed
  /\ \E e \in {"workload", "final", "signal"} : Contain(e, console, "detached")
  /\ UNCHANGED <<files, status, stageVars>>

\* Faulty variant: verified training excuses an interruption too.
SettledByTraining == IF outcome.training THEN "warned" ELSE "failed"

\* _mark_failed, or mark_completed with the warning message
Settled == IF Failing THEN "failed" ELSE "warned"

Mark ==
  /\ pc = "mark"
  /\ status' = Settled
  /\ pc' = "cleanup"
  /\ UNCHANGED <<error, cause, outcome, saved, console, files, faults, sdk, hook, monitor,
                 guard, stageVars>>

MarkFails ==
  /\ pc = "mark" /\ Fault
  /\ status' \in {status, Settled}
  /\ \E e \in {"workload", "final", "signal"} : Contain(e, console, hook)
  /\ UNCHANGED <<files, sdk, monitor, guard, stageVars>>

-----------------------------------------------------------------------------
(* The finally branch of _task_owner *)

\* Faulty variant: only an exception keeps the files.
CleanUpWarned ==
  /\ pc = "cleanup"
  /\ pc' = "handler"
  /\ files' = IF Failing THEN files ELSE "removed"
  /\ UNCHANGED <<error, faults, cause, outcome, saved, console, taskVars, stageVars>>

\* _cleanup_invocation keeps the files of anything but a clean success.
CleanUp ==
  /\ pc = "cleanup"
  /\ pc' = "handler"
  /\ IF Failing \/ (outcome.made /\ Status(outcome) # "succeeded")
     THEN UNCHANGED <<files, error, faults>>
     ELSE /\ files' = "removed"
          /\ \/ UNCHANGED <<error, faults>>
             \/ Fault /\ error' = "cleanup"
  /\ UNCHANGED <<cause, outcome, saved, console, taskVars, stageVars>>

\* _finish_incomplete_owner_handler, with or without a cached logging handler
FinishHandler ==
  /\ pc = "handler"
  /\ pc' = "finish"
  /\ IF Owned THEN hook' \in {hook, "detached"} ELSE UNCHANGED hook
  /\ UNCHANGED <<error, cause, outcome, saved, console, files, faults, status, sdk, monitor,
                 guard, stageVars>>

Exit == IF Failing THEN "raised" ELSE "returned"

\* _finish_console when the publisher acknowledges the final offsets
FinishConsole ==
  /\ pc = "finish"
  /\ console # "broken"
  /\ pc' = Exit
  /\ console' = IF console = "off" THEN "off" ELSE "final"
  /\ UNCHANGED <<error, cause, outcome, saved, files, faults, taskVars, stageVars>>

(***************************************************************************)
(* Final delivery failed.  Over a trained pipeline it is one more warning, *)
(* otherwise the owner corrects the status; a primary error stays primary. *)
(***************************************************************************)
FinishConsoleFails(e) ==
  LET warned == FailStage(outcome, "publication")
      fatal  == Fatal(FailStage(outcome, "console"))
      result == IF e \in Exceptions /\ ~Failing /\ outcome.training THEN warned
                ELSE IF outcome.made THEN fatal ELSE outcome IN
  /\ pc = "finish"
  /\ IF console = "broken" THEN e = "console" /\ UNCHANGED faults
                           ELSE console # "off" /\ Fault
  /\ console' = "broken"
  /\ hook' = IF e = "final" THEN "detached" ELSE hook
  /\ outcome' = result /\ saved' = Persisted(result)
  /\ pc' = IF Failing THEN "raised"
           ELSE IF result = warned /\ e \in Exceptions /\ outcome.training THEN "finishWarn"
           ELSE "finishFail"
  /\ cause' = e
  /\ UNCHANGED <<error, files, status, sdk, monitor, guard, stageVars>>

\* _sync_upload and mark_completed on the owner's own task object
FinishWarn ==
  /\ pc = "finishWarn"
  /\ \/ status' = "warned" /\ UNCHANGED <<faults, error>> /\ pc' = "returned"
     \/ /\ Fault /\ status' \in {status, "warned"}
        /\ \/ UNCHANGED error /\ pc' = "returned"
           \/ error' = "signal" /\ pc' = "raised"
  /\ saved' = Persisted(outcome)
  /\ UNCHANGED <<cause, outcome, console, files, sdk, hook, monitor, guard, stageVars>>

FinishFail ==
  /\ pc = "finishFail"
  /\ pc' = "raised" /\ error' = cause
  /\ \/ status' = "failed" /\ UNCHANGED <<faults, hook>>
     \/ Fault /\ status' \in {status, "failed"} /\ hook' \in {hook, "detached"}
  /\ UNCHANGED <<cause, outcome, saved, console, files, sdk, monitor, guard, stageVars>>

(***************************************************************************)
(* The interpreter exits.  A registered SDK callback over a task that was  *)
(* never closed shuts it down and, as the SDK saw the process end, marks   *)
(* it completed or failed.                                                 *)
(***************************************************************************)
ProcessExit ==
  /\ pc \in Resting \union {"refused"}
  /\ pc' = "exited"
  /\ IF hook = "attached" /\ sdk # "closed" /\ status = "in_progress"
     THEN status' \in {"completed", "failed"}
     ELSE UNCHANGED status
  /\ UNCHANGED <<error, cause, outcome, saved, console, files, faults, sdk, hook, monitor,
                 guard, stageVars>>

-----------------------------------------------------------------------------
Entry ==
  \/ \E k \in {"pipeline", "standalone"} : Begin(k) \/ BeginFails(k)
  \/ Refuse \/ Start \/ StartFails

Workload ==
  \/ PreserveTraining \/ SkipTraining \/ StageFails \/ StageWarns
  \/ \E a \in Artifacts : ExpectArtifact(a) \/ UploadArtifact(a)
  \/ \E e \in {"workload", "signal"} : BodyRaises(e)
  \/ BodyReturns

Finalize ==
  \/ CheckArtifacts \/ Flush \/ PublishOutcome \/ FinalizeFails
  \/ Barrier \/ BarrierFails \/ Close \/ CloseFails \/ Complete \/ CompleteFails

Settle ==
  \/ WarnUpload \/ WarnInterrupted \/ Release \/ ReleaseFails
  \/ LeaveOpen \/ SettleBarrier \/ SettleBarrierFails \/ SettleBarrierInterrupted
  \/ SettleClose \/ SettleCloseFails \/ Mark \/ MarkFails

Leave ==
  \/ CleanUp \/ FinishHandler \/ FinishConsole
  \/ \E e \in Errors : FinishConsoleFails(e)
  \/ FinishWarn \/ FinishFail \/ ProcessExit

Next == Entry \/ Workload \/ Finalize \/ Settle \/ Leave
Spec == Init /\ [][Next]_vars

-----------------------------------------------------------------------------
(* Properties *)

Points == {"ready", "returned", "raised", "refused", "exited", "start", "body",
           "uploads", "flush", "outcome", "barrier", "close", "complete", "warning",
           "release", "settle", "settleClose", "mark", "cleanup", "handler",
           "finish", "finishWarn", "finishFail"}

\* Every variable keeps its kind of value.
TypeOK ==
  /\ pc \in Points
  /\ kind \in {"pipeline", "standalone"}
  /\ error \in Errors \union {"none", "cleanup"}
  /\ cause \in Errors \union {"none"}
  /\ status \in {"none", "in_progress", "completed", "warned", "failed"}
  /\ sdk \in {"none", "open", "retained", "closed"}
  /\ hook \in {"attached", "detached"} /\ monitor \in {"running", "stopped"}
  /\ guard \in {"free", "partial", "owned", "attempted"}
  /\ console \in {"off", "live", "acked", "broken", "final"}
  /\ required \subseteq Artifacts /\ uploaded \subseteq Artifacts
  /\ outcome \in Outcome
  /\ saved \in {"absent", "succeeded", "warned", "failed"}
  /\ files \in {"kept", "removed"}
  /\ disk \in {"writable", "full"}
  /\ faults \in 0..MaxFaults /\ runs \in 0..MaxInvocations

(***************************************************************************)
(* A command that returns normally has either delivered everything it      *)
(* declared, to a closed task marked completed, or it owns a trained       *)
(* checkpoint and says so: its outcome is a warning, and the local record, *)
(* where the disk takes one, shows that same warning.  No third way out.   *)
(***************************************************************************)
HonestReturn ==
  pc = "returned" =>
    \/ /\ Missing = {} /\ console = "final" /\ sdk = "closed"
       /\ status = IF outcome.made /\ Status(outcome) = "warned" THEN "warned" ELSE "completed"
    \/ /\ outcome.training /\ Status(outcome) = "warned"
       /\ disk = "writable" => saved = "warned"

(***************************************************************************)
(* The SDK has one main task per process: while an earlier owner is not    *)
(* known to be closed the guard is set, so no invocation can begin over it *)
(* (test_owner_isolation_blocks_after_unconfirmed_close).                  *)
(***************************************************************************)
OneLiveOwner == sdk \in {"open", "retained"} => guard # "free"

(***************************************************************************)
(* Between invocations and at exit the SDK's callback is gone from every   *)
(* task an invocation ever owned: it would mark the task completed         *)
(* whatever the verdict was.  The one callback that may be left belongs to *)
(* a task whose Task.init raised: no owner was known, nothing detached it, *)
(* and its process accepts no further invocation.                          *)
(***************************************************************************)
ExitHookInert ==
  pc \in Resting \union {"refused"} => hook = "detached" \/ guard = "partial"

(***************************************************************************)
(* The temporary configuration files go only when nothing can still read   *)
(* them: the task is closed and every required artifact was uploaded.      *)
(***************************************************************************)
InputsRetained == files = "removed" => sdk = "closed" /\ Missing = {}

(***************************************************************************)
(* One failing call (or an artifact that never came) is not enough to hide *)
(* a failure: a command that raises leaves its task failed, unless it was  *)
(* Task.init that raised, so that it never had a task, or all that failed  *)
(* was removing its temporary files.                                       *)
(***************************************************************************)
SingleFaultReported ==
  pc = "raised" /\ MaxFaults - faults <= (IF Missing = {} THEN 1 ELSE 0) =>
    \/ status = "failed"
    \/ guard = "partial"
    \/ error = "cleanup"

(***************************************************************************)
(* Owners stay apart: no second SDK task beside a live owner, and no exit  *)
(* hook of a finished invocation still attached to an unsettled task.      *)
(***************************************************************************)
OwnersApart == TypeOK /\ OneLiveOwner /\ ExitHookInert

(***************************************************************************)
(* An acknowledged workload checkpoint precedes SDK close: the main task   *)
(* leaves the open state only over a console that has nothing outstanding. *)
(***************************************************************************)
CheckpointBeforeClose ==
  [][sdk = "open" /\ sdk' # "open" => console \in {"off", "acked"}]_vars

(***************************************************************************)
(* The remote status implements TaskVerdict: it only gets worse, completed *)
(* needs every delivery, warned needs training or every delivery.  A task  *)
(* that Task.init created and did not hand over is nobody's promise.       *)
(***************************************************************************)
OwnedStatus == IF guard = "partial" THEN "none" ELSE status
Delivered == Missing = {} /\ console \in {"acked", "final"}
Promise == INSTANCE TaskVerdict
             WITH task <- runs, verdict <- OwnedStatus, delivered <- Delivered,
                  trained <- outcome.training
VerdictOnlyWorsens == Promise!Spec

(***************************************************************************)
(* session.py:507: close() shuts down the status monitor first, because    *)
(* marking the task completed under a live monitor is taken for an         *)
(* external abort.  What the SDK itself does at exit is not meant.         *)
(***************************************************************************)
NoStatusUnderMonitor ==
  [][status' # status /\ status' \in {"completed", "warned"} /\ pc' # "exited"
       => monitor = "stopped"]_vars
=============================================================================
