------------------------ MODULE TaskSession_proofs ------------------------
(***************************************************************************)
(* Proofs about TaskSession, for any artifacts and any number of faults    *)
(* and invocations.                                                        *)
(***************************************************************************)
EXTENDS TaskSession, TLAPS

Confirming == {"flush", "outcome", "barrier", "close", "complete"}
Normal     == {"start", "body", "uploads"} \union Confirming
Settling   == {"release", "settle", "settleClose", "mark"}
Leaving    == {"cleanup", "handler", "finish"}
Active     == Normal \union {"warning"} \union Settling \union Leaving
                     \union {"finishWarn", "finishFail"}

\* The two ways a command may still return normally.
Clean ==
  /\ Missing = {} /\ sdk = "closed" /\ console = "acked"
  /\ status = Verdict

WarningKept ==
  /\ outcome.made /\ outcome.training /\ ~outcome.fatal
  /\ "publication" \in outcome.failed
  /\ disk = "writable" => saved = "warned"

\* An owner that is not known to be closed is guarded; a running one exists.
SdkInv ==
  /\ OneLiveOwner
  /\ pc \in Active => sdk # "none"
  /\ pc = "complete" => sdk = "closed"
  /\ guard = "partial" => pc \in {"raised", "refused", "exited"}

\* The exit callback is attached only where a close may still come, or nothing was owned.
HookInv ==
  guard # "partial" /\ pc \notin (Normal \ {"complete"}) \union {"warning", "release", "settle", "settleClose", "exited"}
    => hook = "detached"

ConsoleInv ==
  /\ pc \in {"close", "complete"} => console = "acked"
  /\ pc = "settleClose" => console \in {"off", "acked"}

OutcomeInv ==
  /\ outcome.training => outcome.made
  /\ outcome.failed # {} => outcome.made
  /\ outcome.warned => outcome.made
  /\ pc \in Active \ {"finishFail"} /\ ~Failing =>
       ~outcome.fatal /\ (outcome.failed # {} => outcome.training)

ProgressInv ==
  /\ pc \in Normal => ~Failing /\ status = "in_progress"
  /\ pc \in Confirming => Missing = {}
  /\ pc = "warning" => ~Failing /\ WarningKept
  /\ pc \in Settling /\ ~Failing => WarningKept
  /\ pc \in Leaving /\ ~Failing => Clean \/ WarningKept
  /\ pc = "finishWarn" => ~Failing /\ WarningKept
  /\ pc = "finishFail" => ~Failing /\ cause # "none"
  /\ pc = "raised" => Failing \/ guard = "partial"

StatusInv ==
  /\ pc \in Active => status # "none"
  /\ pc \in Active /\ ~Failing => status # "failed"

FilesInv ==
  /\ pc \in Active \ {"handler", "finish", "finishWarn", "finishFail"} => files = "kept"
  /\ InputsRetained

IInv ==
  /\ TypeOK /\ SdkInv /\ HookInv /\ ConsoleInv /\ OutcomeInv
  /\ ProgressInv /\ StatusInv /\ FilesInv /\ HonestReturn

\* Something of the invocation went wrong: a call raised, or an artifact never came.
Trouble == Missing # {} \/ faults < MaxFaults
Troubles ==
  \/ Missing # {} /\ faults < MaxFaults
  \/ faults + 1 < MaxFaults

\* Whatever leaves the normal path costs a fault, so a second one is beyond the budget.
FaultInv ==
  /\ pc \in Settling \union {"warning", "finishWarn", "finishFail"} => Trouble
  /\ console = "broken" => pc \notin Normal /\ Trouble
  /\ pc \in Leaving /\ Failing => Troubles \/ status = "failed" \/ error = "cleanup"
  /\ SingleFaultReported

-----------------------------------------------------------------------------
(* Facts about outcomes; the steps below cite them and leave the *)
(* records themselves alone.                                                *)

\* A fatal error is recorded and nothing else of the outcome changes.
LEMMA FatalFacts ==
  ASSUME NEW o \in Outcome
  PROVE  LET f == Fatal(o) IN
         /\ f \in Outcome /\ f.fatal /\ f.made = o.made
         /\ f.training = o.training /\ f.failed = o.failed /\ f.warned = o.warned
  BY DEF Fatal, Outcome

\* Warned stages are recorded and nothing else of the outcome changes.
LEMMA IssueFacts ==
  ASSUME NEW o \in Outcome
  PROVE  LET w == WithIssues(o) IN
         /\ w \in Outcome /\ w.warned /\ w.made = o.made
         /\ w.training = o.training /\ w.failed = o.failed /\ w.fatal = o.fatal
  BY DEF WithIssues, Outcome

\* A failed stage is recorded and nothing else of the outcome changes.
LEMMA FailStageFacts ==
  ASSUME NEW o \in Outcome, NEW stage \in Stages
  PROVE  LET f == FailStage(o, stage) IN
         /\ f \in Outcome /\ f.failed = o.failed \union {stage} /\ f.made = o.made
         /\ f.training = o.training /\ f.warned = o.warned /\ f.fatal = o.fatal
  BY DEF FailStage, Outcome

\* What each status of an outcome says about its stages and errors.
LEMMA StatusFacts ==
  ASSUME NEW o \in Outcome
  PROVE  /\ Status(o) \in {"succeeded", "warned", "failed"}
         /\ ~o.fatal /\ o.training /\ o.failed # {} => Status(o) = "warned"
         /\ ~o.fatal /\ (o.failed # {} => o.training) => Status(o) # "failed"
         /\ Status(o) = "succeeded" => ~o.fatal /\ o.failed = {}
  BY DEF Status, Outcome

\* The outcomes the actions build are outcomes again.
LEMMA OutcomeFacts ==
  /\ \A o \in {NoOutcome, Untrained, Trained} :
       o \in Outcome /\ ~o.fatal /\ o.failed = {} /\ ~o.warned
  /\ ~NoOutcome.made /\ ~NoOutcome.training
  /\ Untrained.made /\ ~Untrained.training
  /\ Trained.made /\ Trained.training
  /\ \A o \in Outcome :
       /\ Fatal(o) \in Outcome /\ Fatal(o).fatal
       /\ Fatal(o).made = o.made /\ Fatal(o).training = o.training
       /\ Fatal(o).failed = o.failed /\ Fatal(o).warned = o.warned
       /\ WithIssues(o) \in Outcome /\ WithIssues(o).warned
       /\ WithIssues(o).made = o.made /\ WithIssues(o).training = o.training
       /\ WithIssues(o).failed = o.failed /\ WithIssues(o).fatal = o.fatal
  /\ \A o \in Outcome, stage \in Stages :
       /\ FailStage(o, stage) \in Outcome
       /\ FailStage(o, stage).failed = o.failed \union {stage}
       /\ FailStage(o, stage).made = o.made /\ FailStage(o, stage).training = o.training
       /\ FailStage(o, stage).warned = o.warned /\ FailStage(o, stage).fatal = o.fatal
<1>1. /\ NoOutcome \in Outcome /\ ~NoOutcome.made /\ ~NoOutcome.training
      /\ ~NoOutcome.fatal /\ NoOutcome.failed = {} /\ ~NoOutcome.warned
  BY DEF NoOutcome, Outcome
<1>2. /\ Untrained \in Outcome /\ Untrained.made /\ ~Untrained.training
      /\ ~Untrained.fatal /\ Untrained.failed = {} /\ ~Untrained.warned
  BY <1>1 DEF Untrained, Outcome
<1>3. /\ Trained \in Outcome /\ Trained.made /\ Trained.training
      /\ ~Trained.fatal /\ Trained.failed = {} /\ ~Trained.warned
  BY <1>2 DEF Trained, Outcome
<1> QED
  BY <1>1, <1>2, <1>3, FatalFacts, IssueFacts, FailStageFacts

\* PipelineOutcome.status has three values.
LEMMA StatusTypes == \A o \in Outcome : Status(o) \in {"succeeded", "warned", "failed"}
  BY StatusFacts

\* Every action of the session keeps the types.
LEMMA TypeStep == TypeOK /\ [Next]_vars => TypeOK'
<1> USE OutcomeFacts, StatusTypes, BoundsAssumption
    DEF TypeOK, Points, Errors, Exceptions, Stages, Persisted, taskVars, stageVars
<1> SUFFICES ASSUME TypeOK, [Next]_vars PROVE TypeOK'
  OBVIOUS
<1>1. ASSUME NEW k \in {"pipeline", "standalone"}, Begin(k) PROVE TypeOK'
  BY <1>1 DEF Begin, Enter
<1>2. ASSUME NEW k \in {"pipeline", "standalone"}, BeginFails(k) PROVE TypeOK'
  BY <1>2 DEF BeginFails, Enter, Fault
<1>3. CASE Refuse
  BY <1>3 DEF Refuse
<1>4. CASE Start
  BY <1>4 DEF Start
<1>5. CASE StartFails
  BY <1>5 DEF StartFails, Abort, Fault
<1>6. CASE PreserveTraining
  BY <1>6 DEF PreserveTraining, Stage
<1>7. CASE SkipTraining
  BY <1>7 DEF SkipTraining, Stage
<1>8. CASE StageFails
  BY <1>8 DEF StageFails, Stage
<1>9. CASE StageWarns
  BY <1>9 DEF StageWarns, Stage
<1>10. ASSUME NEW a \in Artifacts, ExpectArtifact(a) PROVE TypeOK'
  BY <1>10 DEF ExpectArtifact
<1>11. ASSUME NEW a \in Artifacts, UploadArtifact(a) PROVE TypeOK'
  BY <1>11 DEF UploadArtifact
<1>12. ASSUME NEW e \in Errors, BodyRaises(e) PROVE TypeOK'
  BY <1>12 DEF BodyRaises, Abort, Fault
<1>13. CASE BodyReturns
  BY <1>13 DEF BodyReturns
<1>14. CASE CheckArtifacts
  BY <1>14 DEF CheckArtifacts, Raise, Abort
<1>15. CASE Flush
  BY <1>15 DEF Flush
<1>16. CASE PublishOutcome
  BY <1>16 DEF PublishOutcome
<1>17. CASE FinalizeFails
  BY <1>17 DEF FinalizeFails, Fault, Raise, Abort
<1>18. CASE Barrier
  BY <1>18 DEF Barrier
<1>19. CASE BarrierFails
  BY <1>19 DEF BarrierFails, Fault, Raise, Abort
<1>20. CASE Close
  BY <1>20 DEF Close, Closed
<1>21. CASE CloseFails
  BY <1>21 DEF CloseFails, Closed, NotClosed, Fault, Raise, Abort
<1>22. CASE Complete
  BY <1>22 DEF Complete, Verdict
<1>23. CASE CompleteFails
  BY <1>23 DEF CompleteFails, Verdict, Fault, Raise, Abort
<1>24. CASE WarnUpload
  BY <1>24 DEF WarnUpload, Fault
<1>25. CASE WarnInterrupted
  BY <1>25 DEF WarnInterrupted, Fault, Abort
<1>26. CASE Release
  BY <1>26 DEF Release
<1>27. CASE ReleaseFails
  BY <1>27 DEF ReleaseFails, Fault, Contain, Abort
<1>28. CASE LeaveOpen
  BY <1>28 DEF LeaveOpen
<1>29. CASE SettleBarrier
  BY <1>29 DEF SettleBarrier
<1>30. CASE SettleBarrierFails
  BY <1>30 DEF SettleBarrierFails, Fault
<1>31. CASE SettleBarrierInterrupted
  BY <1>31 DEF SettleBarrierInterrupted, Fault, Contain, Abort
<1>32. CASE SettleClose
  BY <1>32 DEF SettleClose, Closed
<1>33. CASE SettleCloseFails
  BY <1>33 DEF SettleCloseFails, Closed, NotClosed, Fault, Contain, Abort
<1>34. CASE Mark
  BY <1>34 DEF Mark, Settled
<1>35. CASE MarkFails
  BY <1>35 DEF MarkFails, Settled, Fault, Contain, Abort
<1>36. CASE CleanUp
  BY <1>36 DEF CleanUp, Fault
<1>37. CASE FinishHandler
  BY <1>37 DEF FinishHandler
<1>38. CASE FinishConsole
  BY <1>38 DEF FinishConsole, Exit
<1>39. ASSUME NEW e \in Errors, FinishConsoleFails(e) PROVE TypeOK'
  BY <1>39 DEF FinishConsoleFails, Fault
<1>40. CASE FinishWarn
  BY <1>40 DEF FinishWarn, Fault
<1>41. CASE FinishFail
  BY <1>41 DEF FinishFail, Fault
<1>42. CASE ProcessExit
  BY <1>42 DEF ProcessExit, Resting
<1>43. CASE UNCHANGED vars
  BY <1>43 DEF vars
<1> QED
  BY <1>1, <1>2, <1>3, <1>4, <1>5, <1>6, <1>7, <1>8, <1>9, <1>10, <1>11, <1>12, <1>13, <1>14, <1>15, <1>16, <1>17, <1>18, <1>19, <1>20, <1>21, <1>22, <1>23, <1>24, <1>25, <1>26, <1>27, <1>28, <1>29, <1>30, <1>31, <1>32, <1>33, <1>34, <1>35, <1>36, <1>37, <1>38, <1>39, <1>40, <1>41, <1>42, <1>43
     DEF Next, Entry, Workload, Finalize, Settle, Leave

\* Every action of the session keeps the strengthening: one step per action.
LEMMA InvStep == IInv /\ [Next]_vars => IInv'
<1> USE OutcomeFacts, StatusFacts
    DEF IInv, TypeOK, SdkInv, HookInv, ConsoleInv, OutcomeInv, ProgressInv, StatusInv, FilesInv,
        HonestReturn, InputsRetained, OneLiveOwner, Clean, WarningKept, Verdict,
        Active, Normal, Confirming, Settling, Leaving, Missing, Failing, Owned, Resting,
        Errors, Exceptions, Stages, Persisted, taskVars, stageVars
<1> SUFFICES ASSUME IInv, [Next]_vars PROVE IInv'
  OBVIOUS
<1>0. TypeOK'
  BY TypeStep
<1>1. ASSUME NEW k \in {"pipeline", "standalone"}, Begin(k) PROVE IInv'
  BY <1>0, <1>1 DEF Begin, Enter
<1>2. ASSUME NEW k \in {"pipeline", "standalone"}, BeginFails(k) PROVE IInv'
  BY <1>0, <1>2 DEF BeginFails, Enter, Fault
<1>3. CASE Refuse
  BY <1>0, <1>3 DEF Refuse
<1>4. CASE Start
  BY <1>0, <1>4 DEF Start
<1>5. CASE StartFails
  BY <1>0, <1>5 DEF StartFails, Abort, Fault
<1>6. CASE PreserveTraining
  BY <1>0, <1>6 DEF PreserveTraining, Stage
<1>7. CASE SkipTraining
  BY <1>0, <1>7 DEF SkipTraining, Stage
<1>8. CASE StageFails
  BY <1>0, <1>8 DEF StageFails, Stage
<1>9. CASE StageWarns
  BY <1>0, <1>9 DEF StageWarns, Stage
<1>10. ASSUME NEW a \in Artifacts, ExpectArtifact(a) PROVE IInv'
  BY <1>0, <1>10 DEF ExpectArtifact
<1>11. ASSUME NEW a \in Artifacts, UploadArtifact(a) PROVE IInv'
  BY <1>0, <1>11 DEF UploadArtifact
<1>12. ASSUME NEW e \in Errors, BodyRaises(e) PROVE IInv'
  BY <1>0, <1>12 DEF BodyRaises, Abort, Fault
<1>13. CASE BodyReturns
  BY <1>0, <1>13 DEF BodyReturns
<1>14. CASE CheckArtifacts
  <2>1. CASE Missing = {}
    BY <1>0, <1>14, <2>1 DEF CheckArtifacts
  <2>2. CASE Missing # {}
    BY <1>0, <1>14, <2>2 DEF CheckArtifacts, Raise, Abort
  <2> QED
    BY <2>1, <2>2
<1>15. CASE Flush
  BY <1>0, <1>15 DEF Flush
<1>16. CASE PublishOutcome
  BY <1>0, <1>16 DEF PublishOutcome
<1>17. CASE FinalizeFails
  BY <1>0, <1>17 DEF FinalizeFails, Fault, Raise, Abort
<1>18. CASE Barrier
  BY <1>0, <1>18 DEF Barrier
<1>19. CASE BarrierFails
  <2>1. PICK e \in {"console", "final", "signal"} : Raise(e, "broken", hook)
    BY <1>19 DEF BarrierFails
  <2>2. CASE e \in Exceptions /\ outcome.training
    BY <1>0, <1>19, <2>1, <2>2 DEF BarrierFails, Fault, Raise
  <2>3. CASE ~(e \in Exceptions /\ outcome.training)
    BY <1>0, <1>19, <2>1, <2>3 DEF BarrierFails, Fault, Raise, Abort
  <2> QED
    BY <2>2, <2>3
<1>20. CASE Close
  BY <1>0, <1>20 DEF Close, Closed
<1>21. CASE CloseFails
  BY <1>0, <1>21 DEF CloseFails, Closed, NotClosed, Fault, Raise, Abort
<1>22. CASE Complete
  BY <1>0, <1>22 DEF Complete
<1>23. CASE CompleteFails
  BY <1>0, <1>23 DEF CompleteFails, Fault, Raise, Abort
<1>24. CASE WarnUpload
  BY <1>0, <1>24 DEF WarnUpload, Fault
<1>25. CASE WarnInterrupted
  BY <1>0, <1>25 DEF WarnInterrupted, Fault, Abort
<1>26. CASE Release
  BY <1>0, <1>26 DEF Release
<1>27. CASE ReleaseFails
  BY <1>0, <1>27 DEF ReleaseFails, Fault, Contain, Abort
<1>28. CASE LeaveOpen
  BY <1>0, <1>28 DEF LeaveOpen
<1>29. CASE SettleBarrier
  BY <1>0, <1>29 DEF SettleBarrier
<1>30. CASE SettleBarrierFails
  BY <1>0, <1>30 DEF SettleBarrierFails, Fault
<1>31. CASE SettleBarrierInterrupted
  BY <1>0, <1>31 DEF SettleBarrierInterrupted, Fault, Contain, Abort
<1>32. CASE SettleClose
  BY <1>0, <1>32 DEF SettleClose, Closed
<1>33. CASE SettleCloseFails
  BY <1>0, <1>33 DEF SettleCloseFails, Closed, NotClosed, Fault, Contain, Abort
<1>34. CASE Mark
  BY <1>0, <1>34 DEF Mark, Settled
<1>35. CASE MarkFails
  BY <1>0, <1>35 DEF MarkFails, Settled, Fault, Contain, Abort
<1>36. CASE CleanUp
  BY <1>0, <1>36 DEF CleanUp, Fault
<1>37. CASE FinishHandler
  BY <1>0, <1>37 DEF FinishHandler
<1>38. CASE FinishConsole
  BY <1>0, <1>38 DEF FinishConsole, Exit
<1>39. ASSUME NEW e \in Errors, FinishConsoleFails(e) PROVE IInv'
  BY <1>0, <1>39 DEF FinishConsoleFails, Fault
<1>40. CASE FinishWarn
  BY <1>0, <1>40 DEF FinishWarn, Fault
<1>41. CASE FinishFail
  BY <1>0, <1>41 DEF FinishFail, Fault
<1>42. CASE ProcessExit
  BY <1>0, <1>42 DEF ProcessExit
<1>43. CASE UNCHANGED vars
  BY <1>43 DEF vars
<1> QED
  BY <1>1, <1>2, <1>3, <1>4, <1>5, <1>6, <1>7, <1>8, <1>9, <1>10, <1>11, <1>12, <1>13, <1>14, <1>15, <1>16, <1>17, <1>18, <1>19, <1>20, <1>21, <1>22, <1>23, <1>24, <1>25, <1>26, <1>27, <1>28, <1>29, <1>30, <1>31, <1>32, <1>33, <1>34, <1>35, <1>36, <1>37, <1>38, <1>39, <1>40, <1>41, <1>42, <1>43
     DEF Next, Entry, Workload, Finalize, Settle, Leave

\* Two troubles are more than the single one that must be reported.
LEMMA Beyond ==
  ASSUME NEW max \in Nat, NEW f \in 0..max, NEW absent,
         \/ absent # {} /\ f < max
         \/ f + 1 < max
  PROVE  ~(max - f <= (IF absent = {} THEN 1 ELSE 0))
<1>1. CASE absent = {}
  BY <1>1
<1>2. CASE absent # {}
  BY <1>2
<1> QED
  BY <1>1, <1>2

\* A failing call costs a fault: one step per action.
LEMMA FaultStep == IInv /\ FaultInv /\ [Next]_vars => FaultInv'
<1> USE OutcomeFacts, StatusFacts, BoundsAssumption
    DEF FaultInv, Trouble, Troubles, SingleFaultReported, IInv, TypeOK, ProgressInv, OutcomeInv,
        WarningKept, Clean, Active, Normal, Confirming, Settling, Leaving, Missing, Failing, Resting,
        Errors, Exceptions, Stages, Persisted, taskVars, stageVars
<1> SUFFICES ASSUME IInv, FaultInv, [Next]_vars PROVE FaultInv'
  OBVIOUS
<1>0. TypeOK'
  BY TypeStep
<1>a. faults' \in 0..MaxFaults
  BY <1>0
<1>b. Troubles' => ~(MaxFaults - faults' <= (IF Missing' = {} THEN 1 ELSE 0))
  BY Beyond, BoundsAssumption, <1>a
<1>1. ASSUME NEW k \in {"pipeline", "standalone"}, Begin(k) PROVE FaultInv'
  BY <1>0, <1>1 DEF Begin, Enter
<1>2. ASSUME NEW k \in {"pipeline", "standalone"}, BeginFails(k) PROVE FaultInv'
  BY <1>0, <1>2 DEF BeginFails, Enter, Fault
<1>3. CASE Refuse
  BY <1>0, <1>3 DEF Refuse
<1>4. CASE Start
  BY <1>0, <1>4 DEF Start
<1>5. CASE StartFails
  BY <1>0, <1>5 DEF StartFails, Abort, Fault
<1>6. CASE PreserveTraining
  BY <1>0, <1>6 DEF PreserveTraining, Stage
<1>7. CASE SkipTraining
  BY <1>0, <1>7 DEF SkipTraining, Stage
<1>8. CASE StageFails
  BY <1>0, <1>8 DEF StageFails, Stage
<1>9. CASE StageWarns
  BY <1>0, <1>9 DEF StageWarns, Stage
<1>10. ASSUME NEW a \in Artifacts, ExpectArtifact(a) PROVE FaultInv'
  BY <1>0, <1>10 DEF ExpectArtifact
<1>11. ASSUME NEW a \in Artifacts, UploadArtifact(a) PROVE FaultInv'
  BY <1>0, <1>11 DEF UploadArtifact
<1>12. ASSUME NEW e \in Errors, BodyRaises(e) PROVE FaultInv'
  BY <1>0, <1>12 DEF BodyRaises, Abort, Fault
<1>13. CASE BodyReturns
  BY <1>0, <1>13 DEF BodyReturns
<1>14. CASE CheckArtifacts
  <2>1. CASE Missing = {}
    BY <1>0, <1>14, <2>1 DEF CheckArtifacts
  <2>2. CASE Missing # {}
    BY <1>0, <1>14, <2>2 DEF CheckArtifacts, Raise, Abort
  <2> QED
    BY <2>1, <2>2
<1>15. CASE Flush
  BY <1>0, <1>15 DEF Flush
<1>16. CASE PublishOutcome
  BY <1>0, <1>16 DEF PublishOutcome
<1>17. CASE FinalizeFails
  BY <1>0, <1>17 DEF FinalizeFails, Fault, Raise, Abort
<1>18. CASE Barrier
  BY <1>0, <1>18 DEF Barrier
<1>19. CASE BarrierFails
  <2>1. PICK e \in {"console", "final", "signal"} : Raise(e, "broken", hook)
    BY <1>19 DEF BarrierFails
  <2>2. CASE e \in Exceptions /\ outcome.training
    BY <1>0, <1>19, <2>1, <2>2 DEF BarrierFails, Fault, Raise
  <2>3. CASE ~(e \in Exceptions /\ outcome.training)
    BY <1>0, <1>19, <2>1, <2>3 DEF BarrierFails, Fault, Raise, Abort
  <2> QED
    BY <2>2, <2>3
<1>20. CASE Close
  BY <1>0, <1>20 DEF Close, Closed
<1>21. CASE CloseFails
  BY <1>0, <1>21 DEF CloseFails, Closed, NotClosed, Fault, Raise, Abort
<1>22. CASE Complete
  BY <1>0, <1>22 DEF Complete
<1>23. CASE CompleteFails
  BY <1>0, <1>23 DEF CompleteFails, Fault, Raise, Abort
<1>24. CASE WarnUpload
  BY <1>0, <1>24 DEF WarnUpload, Fault
<1>25. CASE WarnInterrupted
  BY <1>0, <1>25 DEF WarnInterrupted, Fault, Abort
<1>26. CASE Release
  BY <1>0, <1>26 DEF Release
<1>27. CASE ReleaseFails
  BY <1>0, <1>27 DEF ReleaseFails, Fault, Contain, Abort
<1>28. CASE LeaveOpen
  BY <1>0, <1>28 DEF LeaveOpen
<1>29. CASE SettleBarrier
  BY <1>0, <1>29 DEF SettleBarrier
<1>30. CASE SettleBarrierFails
  BY <1>0, <1>30 DEF SettleBarrierFails, Fault
<1>31. CASE SettleBarrierInterrupted
  BY <1>0, <1>31 DEF SettleBarrierInterrupted, Fault, Contain, Abort
<1>32. CASE SettleClose
  BY <1>0, <1>32 DEF SettleClose, Closed
<1>33. CASE SettleCloseFails
  BY <1>0, <1>33 DEF SettleCloseFails, Closed, NotClosed, Fault, Contain, Abort
<1>34. CASE Mark
  BY <1>0, <1>34 DEF Mark, Settled
<1>35. CASE MarkFails
  BY <1>0, <1>35 DEF MarkFails, Settled, Fault, Contain, Abort
<1>36. CASE CleanUp
  BY <1>0, <1>36 DEF CleanUp, Fault
<1>37. CASE FinishHandler
  BY <1>0, <1>37 DEF FinishHandler
<1>38. CASE FinishConsole
  BY <1>0, <1>38 DEF FinishConsole, Exit
<1>39. ASSUME NEW e \in Errors, FinishConsoleFails(e) PROVE FaultInv'
  <2> HIDE OutcomeFacts, StatusFacts
  <2>1. /\ pc = "finish" /\ console' = "broken" /\ UNCHANGED <<status, error, required, uploaded, guard>>
        /\ \/ pc' = "raised" /\ Failing
           \/ pc' \in {"finishWarn", "finishFail"}
        /\ \/ console = "broken" /\ faults' = faults
           \/ Fault
    BY <1>39 DEF FinishConsoleFails
  <2>2. Missing' = Missing
    BY <2>1
  <2>3. Trouble'
    BY <2>1, <2>2 DEF Fault
  <2>4. Troubles => Troubles'
    BY <2>1, <2>2 DEF Fault
  <2>5. CASE pc' = "raised" /\ Failing
    BY <1>b, <2>1, <2>2, <2>3, <2>4, <2>5
  <2>6. CASE pc' \in {"finishWarn", "finishFail"}
    BY <2>1, <2>3, <2>6
  <2> QED
    BY <2>1, <2>5, <2>6
<1>40. CASE FinishWarn
  <2> HIDE OutcomeFacts, StatusFacts
  <2>1. /\ pc = "finishWarn" /\ UNCHANGED <<console, required, uploaded, guard>>
        /\ \/ pc' = "returned" /\ (UNCHANGED faults \/ Fault)
           \/ pc' = "raised" /\ Fault
    BY <1>40 DEF FinishWarn
  <2>2. Trouble /\ Missing' = Missing
    BY <2>1
  <2>3. Trouble' /\ (pc' = "raised" => Troubles')
    BY <2>1, <2>2 DEF Fault
  <2> QED
    BY <1>b, <2>1, <2>2, <2>3
<1>41. CASE FinishFail
  <2> HIDE OutcomeFacts, StatusFacts
  <2>1. /\ pc = "finishFail" /\ pc' = "raised" /\ UNCHANGED <<console, required, uploaded, guard>>
        /\ (status' = "failed" /\ UNCHANGED faults) \/ Fault
    BY <1>41 DEF FinishFail
  <2>2. Trouble /\ Missing' = Missing
    BY <2>1
  <2>3. Trouble' /\ (status' = "failed" \/ Troubles')
    BY <2>1, <2>2 DEF Fault
  <2> QED
    BY <1>b, <2>1, <2>2, <2>3
<1>42. CASE ProcessExit
  BY <1>0, <1>42 DEF ProcessExit
<1>43. CASE UNCHANGED vars
  BY <1>43 DEF vars
<1> QED
  BY <1>1, <1>2, <1>3, <1>4, <1>5, <1>6, <1>7, <1>8, <1>9, <1>10, <1>11, <1>12, <1>13, <1>14, <1>15, <1>16, <1>17, <1>18, <1>19, <1>20, <1>21, <1>22, <1>23, <1>24, <1>25, <1>26, <1>27, <1>28, <1>29, <1>30, <1>31, <1>32, <1>33, <1>34, <1>35, <1>36, <1>37, <1>38, <1>39, <1>40, <1>41, <1>42, <1>43
     DEF Next, Entry, Workload, Finalize, Settle, Leave

\* The strengthening holds before the first invocation.
LEMMA InitInv == Init => IInv
  BY OutcomeFacts, BoundsAssumption
     DEF Init, IInv, TypeOK, SdkInv, HookInv, ConsoleInv, OutcomeInv, ProgressInv, StatusInv,
         FilesInv, HonestReturn, InputsRetained, OneLiveOwner, Points, Errors, Exceptions,
         Active, Normal, Confirming, Settling, Leaving

-----------------------------------------------------------------------------
(* The theorems *)

\* The strengthening holds in every state of the session.
THEOREM Invariance == Spec => []IInv
<1>1. Init => IInv
  BY InitInv
<1>2. IInv /\ [Next]_vars => IInv'
  BY InvStep
<1> QED
  BY <1>1, <1>2, PTL DEF Spec

\* Type correctness, for any artifacts, faults and invocations.
THEOREM Types == Spec => []TypeOK
<1>1. IInv => TypeOK
  BY DEF IInv
<1> QED
  BY <1>1, Invariance, PTL

\* A command returns normally only over a full delivery or an admitted warning.
THEOREM Honesty == Spec => []HonestReturn
<1>1. IInv => HonestReturn
  BY DEF IInv
<1> QED
  BY <1>1, Invariance, PTL

\* No second SDK main task while an earlier owner may still be alive.
THEOREM SingleOwner == Spec => []OneLiveOwner
<1>1. IInv => OneLiveOwner
  BY DEF IInv, SdkInv
<1> QED
  BY <1>1, Invariance, PTL

(***************************************************************************)
(* No SDK exit callback survives the invocation that owned its task; only  *)
(* a task whose Task.init raised may keep one.  (_close_task,              *)
(* detach_sdk_exit_callback)                                               *)
(***************************************************************************)
THEOREM ExitInert == Spec => []ExitHookInert
<1>1. IInv => ExitHookInert
  BY DEF IInv, HookInv, ExitHookInert, Resting, Normal, Confirming
<1> QED
  BY <1>1, Invariance, PTL

\* Owners stay apart, for any artifacts, faults and invocations, but for a failed Task.init's hook.
THEOREM Apart == Spec => []OwnersApart
<1>1. TypeOK /\ OneLiveOwner /\ ExitHookInert => OwnersApart
  BY DEF OwnersApart
<1> QED
  BY <1>1, Types, SingleOwner, ExitInert, PTL

\* The configuration files outlive every possible reader.
THEOREM InputsOutlive == Spec => []InputsRetained
<1>1. IInv => InputsRetained
  BY DEF IInv, FilesInv
<1> QED
  BY <1>1, Invariance, PTL

(***************************************************************************)
(* A command that raises after a single failing call, or over an artifact  *)
(* that never came, leaves its task failed, unless Task.init raised or     *)
(* only the removal of its files failed: for any artifacts, invocations    *)
(* and number of faults.  (_task_owner, _close_for_failure, _mark_failed)  *)
(***************************************************************************)
THEOREM SingleFault == Spec => []SingleFaultReported
<1>1. Init => FaultInv
  BY BoundsAssumption
     DEF Init, FaultInv, Settling, Leaving, SingleFaultReported
<1>2. IInv /\ FaultInv /\ [Next]_vars => FaultInv'
  BY FaultStep
<1>3. FaultInv => SingleFaultReported
  BY DEF FaultInv
<1> QED
  BY <1>1, <1>2, <1>3, Invariance, PTL DEF Spec

-----------------------------------------------------------------------------
(* Steps: the checkpoint before a close, and the refinement of TaskVerdict *)

\* The SDK's main task leaves the open state only over an acknowledged console.
THEOREM Checkpoint == Spec => CheckpointBeforeClose
<1> DEFINE Kept == sdk = "open" /\ sdk' # "open" => console \in {"off", "acked"}
<1>1. IInv /\ [Next]_vars => [Kept]_vars
  <2> SUFFICES ASSUME IInv, [Next]_vars PROVE Kept
    OBVIOUS
  <2> USE DEF IInv, SdkInv, OneLiveOwner, ConsoleInv, taskVars
  <2>1. CASE Entry
    BY <2>1 DEF Entry, Begin, BeginFails, Enter, Refuse, Start, StartFails
  <2>2. CASE Workload
    BY <2>2 DEF Workload, PreserveTraining, SkipTraining, StageFails, StageWarns, Stage,
                ExpectArtifact, UploadArtifact, BodyRaises, BodyReturns
  <2>3. CASE Finalize
    BY <2>3 DEF Finalize, CheckArtifacts, Flush, PublishOutcome, FinalizeFails, Barrier,
                BarrierFails, Close, CloseFails, Complete, CompleteFails
  <2>4. CASE Settle
    BY <2>4 DEF Settle, WarnUpload, WarnInterrupted, Release, ReleaseFails, LeaveOpen,
                SettleBarrier, SettleBarrierFails, SettleBarrierInterrupted, SettleClose,
                SettleCloseFails, Mark, MarkFails
  <2>5. CASE Leave
    BY <2>5 DEF Leave, CleanUp, FinishHandler, FinishConsole, FinishConsoleFails, FinishWarn,
                FinishFail, ProcessExit
  <2>6. CASE UNCHANGED vars
    BY <2>6 DEF vars
  <2> QED
    BY <2>1, <2>2, <2>3, <2>4, <2>5, <2>6 DEF Next
<1> QED
  BY <1>1, Invariance, PTL DEF Spec, CheckpointBeforeClose

\* The initial states are initial states of TaskVerdict.
LEMMA PromiseInit == Init => Promise!Init
  BY OutcomeFacts DEF Init, Promise!Init, Delivered, OwnedStatus

(***************************************************************************)
(* Every step that touches neither the status nor the task count is Work;  *)
(* the others are named one by one.                                        *)
(***************************************************************************)
LEMMA PromiseStep == IInv /\ [Next]_vars => [Promise!Next]_(Promise!vars)
<1> USE DEF OwnedStatus
<1> SUFFICES ASSUME IInv, [Next]_vars PROVE Promise!Next
  BY DEF Promise!Next
<1>0. Delivered' \in BOOLEAN /\ outcome'.training \in BOOLEAN
  BY InvStep DEF IInv, TypeOK, Outcome, Delivered
<1> DEFINE Quiet == UNCHANGED <<runs, OwnedStatus>>
<1>a. pc \in Active => guard # "partial"
  BY DEF IInv, SdkInv, Active, Normal, Confirming, Settling, Leaving
<1>1. Quiet => Promise!Next
  BY <1>0 DEF Promise!Next, Promise!Work, Promise!Evidence
<1>2. ASSUME NEW k \in {"pipeline", "standalone"}, Begin(k) \/ BeginFails(k)
      PROVE Promise!Next
  BY <1>0, <1>2 DEF Begin, BeginFails, Enter, Promise!Next, Promise!Create, Promise!Evidence
<1>3. CASE Complete \/ CompleteFails
  <2>1. /\ status = "in_progress" /\ Delivered /\ UNCHANGED <<runs, guard>>
        /\ status' \in {status, "completed", "warned"} /\ guard # "partial"
    BY <1>a, <1>3 DEF Active, IInv, ProgressInv, ConsoleInv, Normal, Confirming, Delivered, Complete,
                CompleteFails, Verdict, stageVars
  <2> QED
    BY <1>0, <1>1, <2>1
       DEF Promise!Next, Promise!Complete, Promise!Warn, Promise!Evidence
<1>4. CASE Mark \/ MarkFails
  <2>1. CASE Failing
    BY <1>0, <1>a, <1>1, <1>4, <2>1
       DEF IInv, StatusInv, Active, Settling, Mark, MarkFails, Settled, stageVars,
           Promise!Next, Promise!Fail, Promise!Evidence
  <2>2. CASE ~Failing
    <3>1. /\ status \in {"in_progress", "completed", "warned"} /\ outcome.training
          /\ status' \in {status, "warned"} /\ UNCHANGED <<runs, guard>>
          /\ guard # "partial"
      BY <1>a, <1>4, <2>2
         DEF IInv, TypeOK, StatusInv, ProgressInv, WarningKept, Active, Settling, Mark, MarkFails,
             Settled, stageVars
    <3> QED
      BY <1>0, <1>1, <3>1 DEF Promise!Next, Promise!Warn, Promise!Evidence
  <2> QED
    BY <2>1, <2>2
<1>5. CASE FinishWarn
  <2>1. /\ status \in {"in_progress", "completed", "warned"} /\ outcome.training
        /\ status' \in {status, "warned"} /\ UNCHANGED <<runs, guard>>
        /\ guard # "partial"
    BY <1>a, <1>5 DEF IInv, TypeOK, StatusInv, ProgressInv, WarningKept, Active, FinishWarn, stageVars
  <2> QED
    BY <1>0, <1>1, <2>1 DEF Promise!Next, Promise!Warn, Promise!Evidence
<1>6. CASE FinishFail
  <2>1. /\ status # "none" /\ status' \in {status, "failed"}
        /\ UNCHANGED <<runs, guard>> /\ guard # "partial"
    BY <1>a, <1>6 DEF IInv, StatusInv, Active, FinishFail, stageVars
  <2> QED
    BY <1>0, <1>1, <2>1 DEF Promise!Next, Promise!Fail, Promise!Evidence
<1>7. CASE ProcessExit
  <2>1. hook = "detached" \/ guard = "partial"
    BY <1>7 DEF IInv, HookInv, ProcessExit, Resting, Normal, Confirming
  <2>2. Quiet
    BY <1>7, <2>1 DEF ProcessExit, stageVars
  <2> QED
    BY <1>1, <2>2
<1> USE DEF taskVars, stageVars
<1>8. CASE Refuse \/ Start \/ StartFails
  BY <1>1, <1>8 DEF Refuse, Start, StartFails
<1>9. CASE Workload
  BY <1>1, <1>9
     DEF Workload, PreserveTraining, SkipTraining, StageFails, StageWarns, Stage, ExpectArtifact,
         UploadArtifact, BodyRaises, BodyReturns
<1>10. CASE Finalize /\ ~(Complete \/ CompleteFails)
  BY <1>1, <1>10
     DEF Finalize, CheckArtifacts, Flush, PublishOutcome, FinalizeFails, Barrier, BarrierFails,
         Close, CloseFails, Closed, NotClosed, Owned
<1>11. CASE Settle /\ ~(Mark \/ MarkFails)
  BY <1>1, <1>11
     DEF Settle, WarnUpload, WarnInterrupted, Release, ReleaseFails, LeaveOpen, SettleBarrier,
         SettleBarrierFails, SettleBarrierInterrupted, SettleClose, SettleCloseFails,
         Closed, NotClosed, Owned
<1>12. CASE CleanUp \/ FinishHandler \/ FinishConsole \/ \E e \in Errors : FinishConsoleFails(e)
  BY <1>1, <1>12 DEF CleanUp, FinishHandler, FinishConsole, FinishConsoleFails
<1>13. CASE UNCHANGED vars
  BY <1>1, <1>13 DEF vars
<1> QED
  BY <1>2, <1>3, <1>4, <1>5, <1>6, <1>7, <1>8, <1>9, <1>10, <1>11, <1>12, <1>13
     DEF Next, Entry, Leave

\* The task's status implements the abstract verdict: it only ever gets worse.
THEOREM Refinement == Spec => VerdictOnlyWorsens
<1>1. Init => Promise!Init
  BY PromiseInit
<1>2. IInv /\ [Next]_vars => [Promise!Next]_(Promise!vars)
  BY PromiseStep
<1> QED
  BY <1>1, <1>2, Invariance, PTL DEF Spec, VerdictOnlyWorsens, Promise!Spec
=============================================================================
