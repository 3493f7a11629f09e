--------------------------- MODULE MCResults_proofs ---------------------------
(***************************************************************************)
(* Proofs about what a run computes, publishes and leaves for a later run: *)
(* for a component of MCResults an invariant of its own, which its steps   *)
(* keep and the steps of the other components leave alone.                 *)
(***************************************************************************)
EXTENDS MCResults, FiniteSetTheorems, FunctionTheorems, SequenceTheorems, WellFoundedInduction,
        TLAPS

\* The component in focus steps; every other one stays as it is.
LEMMA InFocus ==
  ASSUME [Next]_vars
  PROVE  /\ focus' = focus
         /\ focus = "pipeline" => [Pipe!Next]_(Pipe!vars)
         /\ focus = "predictions" => [Cache!Next]_(Cache!vars)
         /\ focus = "tables" => [Tables!Next]_(Tables!vars)
         /\ focus = "models" => [Model!Next]_(Model!vars)
         /\ focus = "configuration" => [Config!Next]_(Config!vars)
         /\ focus = "files" => [ConfigFile!Next]_(ConfigFile!vars)
         /\ focus = "task cache" => [Task!Next]_(Task!vars)
         /\ focus = "names" => [Name!Next]_(Name!vars)
<1>1. CASE Next BY <1>1 DEF Next, Alone
<1>2. CASE UNCHANGED vars BY <1>2 DEF vars
<1> QED BY <1>1, <1>2

-----------------------------------------------------------------------------
(* The best checkpoint of a training as a model (ModelPublication) *)

ModelFields == {"bytes", "role", "hash", "thresholds"}
ModelTypes ==
  /\ DOMAIN server = Models /\ \A m \in Models : DOMAIN server[m] = ModelFields
  /\ DOMAIN links = {"model", "hash"} /\ modelEdits \in Nat /\ since \in Nat
  /\ reader \in {"idle", "selected", "refused", "used", "val", "dashboard"}
\* From its verification on the model is the one of the identity file, and
\* thresholds it carries were calibrated with its bytes.
ModelOwned ==
  /\ modelPc \in {"owned", "calibrating", "attached", "recorded", "calibrated", "barrier",
                  "published"} => sidecar = hash
  /\ modelPc \notin {"train", "failed"} => Own \in outputs
  /\ modelPc \notin {"train", "uploaded", "failed"} => hash # 0
  /\ modelPc \in {"calibrating", "attached", "recorded"} => predicted = hash
  /\ modelExpected =>
       /\ predicted = hash
       /\ modelPc \in {"recorded", "calibrated", "barrier", "published", "failed"}
\* One change since the verification began leaves two of its three parts right.
ModelSound ==
  /\ since = 0 => Model!Alone /\ Model!SameBytes /\ Model!Described
  /\ since = 1 =>
       \/ Model!Alone /\ Model!SameBytes
       \/ Model!Alone /\ Model!Described
       \/ Model!SameBytes /\ Model!Described
\* The barrier's verification, read by read.
ModelRead ==
  /\ modelPc = "barrier" =>
       /\ check = "listed" /\ since = 0 => Model!Alone
       /\ check = "fetched" /\ since = 0 => Model!Alone /\ Model!SameBytes
       /\ check = "fetched" /\ since = 1 => Model!Alone \/ Model!SameBytes
       /\ check = "passed" => ModelSound
  /\ modelPc = "published" => ModelSound /\ check = "passed"
\* A later recovery selects this model with its hash, or its metadata is gone.
ModelRecovered ==
  fresh =>
    /\ modelPc = "published"
    /\ since <= 1 /\ reader = "selected" =>
         links.model = Own /\ (links.hash = hash \/ ~Model!Described)
    /\ since <= 1 /\ reader \in {"used", "val", "dashboard"} => modelUsed = hash
ModelInv ==
  /\ ModelTypes /\ ModelOwned /\ ModelRead /\ ModelRecovered

\* What one change by another writer may disturb.
LEMMA ModelEdited ==
  ASSUME ModelInv, Model!Edit
  PROVE  ModelInv'
<1>1. Own \in Models
  BY ResultsAssumption
<1> USE <1>1 DEF ModelInv, ModelTypes, ModelFields
<1>2. /\ UNCHANGED <<sidecar, hash, predicted, modelExpected, modelPc, check, reader, links,
                     modelUsed, fresh>>
      /\ modelEdits' \in Nat /\ since' = since + 1
      /\ outputs \subseteq outputs'
  <2>1. UNCHANGED <<sidecar, hash, predicted, modelExpected, modelPc, check, reader, links,
                    modelUsed, fresh>>
    BY DEF Model!Edit, Model!facts, Model!recovery, Model!local
  <2>2. modelEdits' = modelEdits + 1 /\ since' = since + 1
    BY DEF Model!Edit
  <2>3. outputs \subseteq outputs'
    BY DEF Model!Edit, Model!local, Model!cloud
  <2> QED BY <2>1, <2>2, <2>3
<1>3. ModelTypes'
  <2>1. \/ server' = server
        \/ \E m \in Models : \E value :
             DOMAIN value = ModelFields /\ server' = [server EXCEPT ![m] = value]
    BY DEF Model!Edit, Model!Blank, Model!cloud
  <2>2. DOMAIN server' = Models /\ \A m \in Models : DOMAIN server'[m] = ModelFields
    BY <2>1
  <2> QED BY <1>2, <2>2
<1>4. ModelOwned'
  BY <1>2 DEF ModelOwned
<1>5. \/ (Model!Alone => Model!Alone') /\ (Model!SameBytes => Model!SameBytes')
      \/ (Model!Alone => Model!Alone') /\ (Model!Described => Model!Described')
      \/ (Model!SameBytes => Model!SameBytes') /\ (Model!Described => Model!Described')
  BY <1>2
     DEF Model!Edit, Model!Blank, Model!cloud, Model!Alone, Model!SameBytes, Model!Described
<1>6. since' # 0 /\ (since' = 1 => since = 0) /\ (since' <= 1 => since' = 1)
  BY <1>2
<1>7. ModelSound => ModelSound'
  <2>1. SUFFICES ASSUME since = 0, Model!Alone, Model!SameBytes, Model!Described
                 PROVE  \/ Model!Alone' /\ Model!SameBytes'
                        \/ Model!Alone' /\ Model!Described'
                        \/ Model!SameBytes' /\ Model!Described'
    BY <1>2, <1>6 DEF ModelSound
  <2> QED BY <1>5, <2>1
<1>8. ModelRead'
  BY <1>2, <1>5, <1>6, <1>7 DEF ModelRead
\* If the metadata were right before, the recovery had selected their hash.
<1>9. ModelRecovered'
  <2>1. since' <= 1 /\ fresh => Model!Described
    BY <1>6 DEF ModelRead, ModelRecovered, ModelSound
  <2>2. since' <= 1 => since <= 1
    BY <1>6
  <2> QED
    BY <1>2, <2>1, <2>2 DEF ModelRecovered
<1> QED BY <1>3, <1>4, <1>8, <1>9

LEMMA ModelStep ==
  ASSUME ModelInv, [Model!Next]_(Model!vars)
  PROVE  ModelInv'
<1>0. Own \in Models
  BY ResultsAssumption
<1> USE <1>0 DEF ModelInv, ModelTypes, ModelFields, Model!Step, Model!Passed, Model!Verifies,
                 Model!Reads, Model!local, Model!cloud, Model!facts, Model!recovery, Model!others
<1>1. CASE Model!Upload \/ Model!Associate \/ Model!Enrich \/ Model!OwnModel \/ Model!Fail
  <2>1. CASE Model!Upload
    BY <2>1 DEF Model!Upload, ModelOwned, ModelRead, ModelRecovered
  <2>2. CASE Model!Associate
    BY <2>2 DEF Model!Associate, Model!Matches, ModelOwned, ModelRead, ModelRecovered
  <2>3. CASE Model!Enrich
    BY <2>3 DEF Model!Enrich, ModelOwned, ModelRead, ModelRecovered
  <2>4. CASE Model!OwnModel \/ Model!Fail
    BY <2>4 DEF Model!OwnModel, Model!Fail, ModelOwned, ModelRead, ModelRecovered
  <2> QED BY <1>1, <2>1, <2>2, <2>3, <2>4
<1>2. CASE Model!Predict \/ Model!UploadThresholds \/ Model!Calibrate \/ Model!Attach
           \/ Model!Expect \/ Model!Calibrated
  BY <1>2
     DEF Model!Predict, Model!UploadThresholds, Model!Calibrate, Model!SameCheckpoint,
         Model!Attach, Model!Expect, Model!Calibrated, ModelOwned, ModelRead, ModelRecovered
\* Each read adds what it found to what may have changed since the earlier ones.
<1>3. CASE Model!ReadOutputs \/ Model!ReadBytes \/ Model!ReadMetadata
  <2>1. /\ Model!Alone' <=> Model!Alone
        /\ Model!SameBytes' <=> Model!SameBytes
        /\ Model!Described' <=> Model!Described
    BY <1>3
       DEF Model!ReadOutputs, Model!ReadBytes, Model!ReadMetadata, Model!Alone, Model!SameBytes,
           Model!Described
  <2>2. ModelTypes' /\ ModelOwned'
    BY <1>3 DEF Model!ReadOutputs, Model!ReadBytes, Model!ReadMetadata, ModelOwned
  <2>3. since' = 0 \/ since' = since
    BY <1>3 DEF Model!ReadOutputs, Model!ReadBytes, Model!ReadMetadata
  <2>4. ModelRecovered'
    BY <1>3, <2>1
       DEF Model!ReadOutputs, Model!ReadBytes, Model!ReadMetadata, ModelRead, ModelRecovered
  <2>5. ASSUME modelPc = "barrier"
        PROVE  ModelRead'
    <3>1. CASE Model!ReadOutputs
      <4>1. check' = "listed" /\ modelPc' = "barrier" /\ Model!Alone'
        BY <2>1, <2>5, <3>1 DEF Model!ReadOutputs
      <4> QED BY <4>1 DEF ModelRead
    <3>2. CASE Model!ReadBytes
      <4>1. check' = "fetched" /\ modelPc' = "barrier" /\ Model!SameBytes' /\ since' = since
        BY <2>1, <2>5, <3>2 DEF Model!ReadBytes
      <4>2. since = 0 => Model!Alone
        BY <2>5, <3>2 DEF Model!ReadBytes, ModelRead
      <4> QED BY <2>1, <4>1, <4>2 DEF ModelRead
    <3>3. CASE Model!ReadMetadata
      <4>1. check' = "passed" /\ modelPc' = "barrier" /\ Model!Described' /\ since' = since
        BY <2>1, <2>5, <3>3 DEF Model!ReadMetadata
      <4>2. /\ since = 0 => Model!Alone /\ Model!SameBytes
            /\ since = 1 => Model!Alone \/ Model!SameBytes
        BY <2>5, <3>3 DEF Model!ReadMetadata, ModelRead
      <4>3. ModelSound'
        BY <2>1, <4>1, <4>2 DEF ModelSound
      <4> QED BY <4>1, <4>3 DEF ModelRead
    <3> QED BY <1>3, <3>1, <3>2, <3>3
  <2>6. ASSUME modelPc # "barrier"
        PROVE  ModelRead'
    <3>1. check # "passed" /\ modelPc' = modelPc
      BY <1>3 DEF Model!ReadOutputs, Model!ReadBytes, Model!ReadMetadata
    <3> QED BY <2>6, <3>1 DEF ModelRead
  <2> QED BY <2>2, <2>4, <2>5, <2>6
<1>4. CASE Model!Barrier \/ Model!Publish
  <2>1. UNCHANGED <<Model!Alone, Model!SameBytes, Model!Described, since>>
    BY <1>4 DEF Model!Barrier, Model!Publish, Model!Alone, Model!SameBytes, Model!Described
  <2>2. ModelTypes' /\ ModelOwned' /\ ModelRecovered'
    BY <1>4 DEF Model!Barrier, Model!Publish, ModelOwned, ModelRecovered
  <2>3. ModelRead'
    BY <1>4, <2>1 DEF Model!Barrier, Model!Publish, ModelRead, ModelSound
  <2> QED BY <2>2, <2>3
<1>5. CASE Model!Select
  <2>1. /\ UNCHANGED <<Model!Alone, Model!SameBytes, Model!Described, since>>
        /\ UNCHANGED <<sidecar, outputs, server, hash, predicted, modelExpected, modelPc, check>>
    BY <1>5 DEF Model!Select, Model!Alone, Model!SameBytes, Model!Described
  <2>2. ModelTypes' /\ ModelOwned' /\ ModelRead'
    BY <1>5, <2>1 DEF Model!Select, ModelOwned, ModelRead, ModelSound
  <2>3. ASSUME modelPc = "published", since <= 1
        PROVE  links'.model = Own /\ (links'.hash = hash \/ ~Model!Described)
    <3>1. since = 0 \/ since = 1
      BY <2>3
    <3>2. Model!Alone \/ Model!Described
      BY <2>3, <3>1 DEF ModelRead, ModelSound
    <3>3. PICK m \in Model!Candidates :
             /\ server[m].role => Model!Candidates = {m}
             /\ links' = [model |-> m, hash |-> server[m].hash]
      BY <1>5 DEF Model!Select
    <3>4. m = Own
      BY <2>3, <3>2, <3>3 DEF Model!Candidates, Model!Alone, Model!Described, ModelOwned
    <3> QED BY <3>3, <3>4 DEF Model!Described
  <2>4. ModelRecovered'
    BY <1>5, <2>1, <2>3 DEF Model!Select, ModelRecovered
  <2> QED BY <2>2, <2>4
<1>6. CASE Model!Download
  <2>1. /\ UNCHANGED <<Model!Alone, Model!SameBytes, Model!Described, since>>
        /\ UNCHANGED <<sidecar, outputs, server, hash, predicted, modelExpected, modelPc, check>>
    BY <1>6 DEF Model!Download, Model!Alone, Model!SameBytes, Model!Described
  <2>2. ModelTypes' /\ ModelOwned' /\ ModelRead'
    BY <1>6, <2>1 DEF Model!Download, ModelOwned, ModelRead, ModelSound
  <2>3. ASSUME fresh, since <= 1, reader' = "used"
        PROVE  modelUsed' = hash
    <3>1. since = 0 \/ since = 1
      BY <2>3
    <3>2. reader = "selected" /\ Model!Accepted /\ modelUsed' = server[links.model].bytes
      BY <1>6, <2>3 DEF Model!Download
    <3>3. server[Own].bytes # 0 /\ links.model = Own
      BY <1>6, <2>3, <3>2 DEF Model!Download, ModelRecovered
    <3>4. CASE links.hash = hash /\ links.hash # 0
      BY <3>2, <3>3, <3>4 DEF Model!Accepted
    <3>5. CASE Model!SameBytes
      BY <3>2, <3>3, <3>5 DEF Model!SameBytes
    <3>6. ~Model!Described => Model!SameBytes
      BY <2>3, <3>1 DEF ModelRecovered, ModelRead, ModelSound
    <3>7. hash # 0
      BY <2>3 DEF ModelRecovered, ModelOwned
    <3> QED BY <2>3, <3>2, <3>4, <3>5, <3>6, <3>7 DEF ModelRecovered
  <2>4. ModelRecovered'
    BY <1>6, <2>1, <2>3 DEF Model!Download, ModelRecovered
  <2> QED BY <2>2, <2>4
<1>7. CASE Model!UseLocal \/ Model!FetchThresholds
  <2>1. /\ UNCHANGED <<Model!Alone, Model!SameBytes, Model!Described, since>>
        /\ UNCHANGED <<sidecar, outputs, server, hash, predicted, modelExpected, modelPc, check>>
    BY <1>7 DEF Model!UseLocal, Model!FetchThresholds, Model!Alone, Model!SameBytes, Model!Described
  <2>2. ModelTypes' /\ ModelOwned' /\ ModelRead'
    BY <1>7, <2>1 DEF Model!UseLocal, Model!FetchThresholds, ModelOwned, ModelRead, ModelSound
  <2>3. ModelRecovered'
    BY <1>7, <2>1 DEF Model!UseLocal, Model!FetchThresholds, ModelRecovered, ModelOwned
  <2> QED BY <2>2, <2>3
<1>8. CASE Model!Edit
  BY <1>8, ModelEdited
<1>9. CASE UNCHANGED Model!vars
  <2>1. UNCHANGED <<Model!Alone, Model!SameBytes, Model!Described, since>>
    BY <1>9 DEF Model!vars, Model!Alone, Model!SameBytes, Model!Described
  <2>2. ModelTypes' /\ ModelOwned' /\ ModelRead' /\ ModelRecovered'
    BY <1>9, <2>1 DEF Model!vars, ModelOwned, ModelRead, ModelSound, ModelRecovered
  <2> QED BY <2>2
<1> QED BY <1>1, <1>2, <1>3, <1>4, <1>5, <1>6, <1>7, <1>8, <1>9 DEF Model!Next

(***************************************************************************)
(* Whatever other writers change and wherever a change falls between the   *)
(* reads, a published model is what its identity file says as long as      *)
(* nobody wrote since its last verification began, and one later change    *)
(* misleads no recovery.  (_verify_model, write_checkpoint_identity,       *)
(* associate_calibration_thresholds, models.py)                            *)
(***************************************************************************)
THEOREM Verification == Spec => []Attested
<1>1. Init => (focus = "models" => ModelInv)
  BY DEF Init, Model!Init, Model!NoLinks, Model!Blank, ModelInv, ModelTypes, ModelFields,
         ModelOwned, ModelRead, ModelRecovered
<1>2. (focus = "models" => ModelInv) /\ [Next]_vars => (focus = "models" => ModelInv)'
  BY InFocus, ModelStep
<1>3. (focus = "models" => ModelInv) => Attested
  BY DEF ModelInv, ModelOwned, ModelRead, ModelSound, ModelRecovered, Attested, Model!Attested,
         Model!Alone, Model!SameBytes, Model!Described
<1> QED BY <1>1, <1>2, <1>3, PTL DEF Spec

-----------------------------------------------------------------------------
(* Cached predictions of cy-compare (PredictionCache) *)

CacheVersion == Nat \ {0}
CacheTypes ==
  /\ weights \in 1..MaxWeights
  /\ DOMAIN cachePc = Runs /\ DOMAIN identity = Runs /\ DOMAIN key = Runs /\ DOMAIN cacheUsed = Runs
  /\ DOMAIN csv = Cache!Versions
\* The checkpoint is selected, then hashed again for the name of the cache file.
CacheLocated(r) ==
  /\ cachePc[r] # "start" => identity[r] \in 1..weights
  /\ cachePc[r] \notin {"start", "resolved"} => key[r] \in identity[r]..weights
\* Versions only grow: what a cache file holds is no older than its name.
CacheRows ==
  \A v \in Cache!Versions : csv[v] # Cache!NoRows => csv[v].by \in v..weights
CacheScoring(r) ==
  /\ cachePc[r] \in {"rows", "metadata", "describe"} => cacheUsed[r].by \in key[r]..weights
  /\ cachePc[r] \in {"rows", "metadata"} => cacheUsed[r] # Cache!NoRows
  /\ cachePc[r] \in {"digest", "sidecar", "scored"} => cacheUsed[r].by = identity[r]
CacheInv ==
  /\ CacheTypes /\ CacheRows
  /\ \A r \in Runs : CacheLocated(r) /\ CacheScoring(r)

LEMMA CacheStep ==
  ASSUME CacheInv, [Cache!Next]_(Cache!vars)
  PROVE  CacheInv'
<1>0. /\ CacheTypes /\ CacheRows /\ MaxWeights \in Nat \ {0}
      /\ \A r \in Runs : CacheLocated(r) /\ CacheScoring(r)
  BY ResultsAssumption DEF CacheInv
<1> USE DEF Cache!At, Cache!Goto, Cache!cacheVars, Cache!runVars
\* The checkpoint that replaces another is newer than all there is.
<1>1. CASE Cache!Replace
  BY <1>0, <1>1
     DEF Cache!Replace, CacheInv, CacheTypes, CacheRows, CacheLocated, CacheScoring, Cache!Versions
<1>2. ASSUME NEW r \in Runs,
             Cache!Resolve(r) \/ Cache!Locate(r) \/ Cache!Validate(r) \/ Cache!Overlook(r)
      PROVE  CacheInv'
  BY <1>0, <1>2
     DEF Cache!Resolve, Cache!Locate, Cache!Validate, Cache!Overlook,
         CacheInv, CacheTypes, CacheRows, CacheLocated, CacheScoring
\* What is read under the key was made by it or by a newer checkpoint.
<1>3. ASSUME NEW r \in Runs, Cache!Lookup(r) PROVE CacheInv'
  BY <1>0, <1>3
     DEF Cache!Lookup, CacheInv, CacheTypes, CacheRows, CacheLocated, CacheScoring, Cache!Versions
<1>4. ASSUME NEW r \in Runs, Cache!Infer(r) PROVE CacheInv'
  BY <1>0, <1>4
     DEF Cache!Infer, Cache!NoRows, CacheInv, CacheTypes, CacheRows, CacheLocated, CacheScoring
<1>5. ASSUME NEW r \in Runs, Cache!WriteRows(r) PROVE CacheInv'
  BY <1>0, <1>5
     DEF Cache!WriteRows, CacheInv, CacheTypes, CacheRows, CacheLocated, CacheScoring, Cache!Versions
\* identity <= key <= by <= weights, and the ends are found equal.
<1>6. ASSUME NEW r \in Runs, Cache!WriteMetadata(r) \/ Cache!Describe(r) PROVE CacheInv'
  BY <1>0, <1>6
     DEF Cache!WriteMetadata, Cache!Describe, Cache!StillThat,
         CacheInv, CacheTypes, CacheRows, CacheLocated, CacheScoring
<1>7. ASSUME NEW r \in Runs, Cache!Digest(r) \/ Cache!WriteSidecar(r) \/ Cache!Kill(r)
      PROVE  CacheInv'
  BY <1>0, <1>7
     DEF Cache!Digest, Cache!WriteSidecar, Cache!Kill,
         CacheInv, CacheTypes, CacheRows, CacheLocated, CacheScoring
<1>8. CASE UNCHANGED Cache!vars
  BY <1>8
     DEF Cache!vars, CacheInv, CacheTypes, CacheRows, CacheLocated, CacheScoring
<1> QED BY <1>1, <1>2, <1>3, <1>4, <1>5, <1>6, <1>7, <1>8 DEF Cache!Next

(***************************************************************************)
(* For any runs, kills and replaced checkpoints, predictions are scored    *)
(* under the checkpoint that made them, as long as replaced bytes never    *)
(* return: versions only grow, so a checkpoint that is the selected one at *)
(* the end was it all along.  (_scored, reinfer.py,                        *)
(* write_prediction_provenance)                                            *)
(***************************************************************************)
THEOREM Attribution == Spec => []Attributed
<1>1. Init => (focus = "predictions" => CacheInv)
  BY ResultsAssumption
     DEF Init, Cache!Init, Cache!Versions, CacheInv, CacheTypes, CacheRows, CacheLocated, CacheScoring
<1>2. (focus = "predictions" => CacheInv) /\ [Next]_vars => (focus = "predictions" => CacheInv)'
  BY InFocus, CacheStep
<1>3. (focus = "predictions" => CacheInv) => Attributed
  BY DEF CacheInv, CacheScoring, Attributed, Cache!Attributed, Cache!At
<1> QED BY <1>1, <1>2, <1>3, PTL DEF Spec

-----------------------------------------------------------------------------
(* The display names of a project (DisplayNames) *)

NameTypes ==
  /\ DOMAIN taskName = Invocations /\ DOMAIN modelName = Invocations
  /\ DOMAIN suffix = Invocations /\ DOMAIN effective = Invocations
  /\ DOMAIN candidate = Invocations /\ DOMAIN attempt = Invocations /\ DOMAIN busy = Invocations
  /\ DOMAIN phase = Invocations /\ DOMAIN namePc = Invocations
\* What was written is the candidate that is queried once more.
NameWritten(i) ==
  /\ namePc[i] \in {"write model", "recheck", "recheck model", "resolved"} =>
       taskName[i] = Name!TaskCandidate(i)
  /\ namePc[i] = "write model" => phase[i] = "model"
  /\ namePc[i] \in {"recheck", "recheck model", "resolved"} /\ phase[i] = "model" =>
       modelName[i] = Name!ModelCandidate(i)
NameKept(i) ==
  namePc[i] = "resolved" =>
    /\ effective[i].task = taskName[i] /\ suffix[i] = candidate[i]
    /\ phase[i] = "model" => effective[i].model = modelName[i] /\ modelName[i] \notin Taken
\* The second query of the task's name found nobody else.
NameCleared(i) == namePc[i] = "resolved" \/ (namePc[i] = "recheck model" /\ ~busy[i])
NameApart(i, j) ==
  /\ NameCleared(i) /\ NameCleared(j) => taskName[i] # taskName[j]
  /\ namePc[i] = "resolved" /\ namePc[j] = "resolved" /\ phase[i] = "model" /\ phase[j] = "model" =>
       modelName[i] # modelName[j]
NameInv ==
  /\ NameTypes
  /\ \A i \in Invocations : NameWritten(i) /\ NameKept(i)
  /\ \A i, j \in Invocations : i # j => NameApart(i, j)

\* A step of one invocation leaves what the others wrote and keep.
NameOthers(i) ==
  /\ NameTypes'
  /\ \A j \in Invocations \ {i} :
       /\ taskName'[j] = taskName[j] /\ modelName'[j] = modelName[j] /\ suffix'[j] = suffix[j]
       /\ effective'[j] = effective[j] /\ candidate'[j] = candidate[j] /\ busy'[j] = busy[j]
       /\ phase'[j] = phase[j] /\ namePc'[j] = namePc[j]

LEMMA NameOwn ==
  ASSUME NameInv, NEW i \in Invocations, NameOthers(i), NameWritten(i)', NameKept(i)',
         \A j \in Invocations \ {i} : NameApart(i, j)'
  PROVE  NameInv'
<1>1. ASSUME NEW j \in Invocations \ {i} PROVE NameWritten(j)' /\ NameKept(j)'
  <2>1. /\ taskName'[j] = taskName[j] /\ modelName'[j] = modelName[j] /\ suffix'[j] = suffix[j]
        /\ effective'[j] = effective[j] /\ candidate'[j] = candidate[j]
        /\ phase'[j] = phase[j] /\ namePc'[j] = namePc[j]
    BY <1>1 DEF NameOthers
  <2>2. NameWritten(j) /\ NameKept(j)
    BY <1>1 DEF NameInv
  <2>3. NameWritten(j)'
    BY <2>1, <2>2 DEF NameWritten, Name!TaskCandidate, Name!ModelCandidate
  <2>4. NameKept(j)'
    BY <2>1, <2>2 DEF NameKept
  <2> QED
    BY <2>3, <2>4
<1>2. ASSUME NEW j \in Invocations, NEW k \in Invocations, j # k PROVE NameApart(j, k)'
  <2>1. CASE i \notin {j, k}
    <3>1. \A l \in {j, k} : (NameCleared(l)' => NameCleared(l)) /\ UNCHANGED <<taskName[l], modelName[l]>>
                             /\ UNCHANGED <<namePc[l], phase[l]>>
      BY <2>1 DEF NameOthers, NameCleared
    <3>2. NameApart(j, k) BY <1>2 DEF NameInv
    <3> QED BY <3>1, <3>2 DEF NameApart
  <2>2. CASE i = j BY <1>2, <2>2
  <2>3. CASE i = k
    <3>1. NameApart(k, j)' BY <1>2, <2>3
    <3> QED BY <3>1 DEF NameApart
  <2> QED BY <2>1, <2>2, <2>3
<1> QED BY <1>1, <1>2 DEF NameInv, NameOthers

LEMMA NameStep ==
  ASSUME NameInv, [Name!Next]_(Name!vars)
  PROVE  NameInv'
<1>0. /\ NameTypes
      /\ \A i \in Invocations : NameWritten(i) /\ NameKept(i)
      /\ \A i, j \in Invocations : i # j => NameApart(i, j)
  BY DEF NameInv
<1> USE DEF Name!At, Name!Goto, Name!state, Name!local
<1>1. ASSUME NEW i \in Invocations, Name!Resolve(i) \/ Name!Register(i) PROVE NameInv'
  <2>1. NameOthers(i) /\ namePc'[i] \in {"check", "registered"}
    BY <1>0, <1>1 DEF Name!Resolve, Name!Register, NameOthers, NameTypes
  <2>2. NameWritten(i)' /\ NameKept(i)' BY <2>1 DEF NameWritten, NameKept
  <2>3. \A j \in Invocations \ {i} : NameApart(i, j)' BY <2>1 DEF NameApart, NameCleared
  <2> QED BY <2>1, <2>2, <2>3, NameOwn
\* The query sees every name that was written before it.
<1>2. ASSUME NEW i \in Invocations, Name!QueryTask(i) PROVE NameInv'
  <2>1. /\ NameOthers(i) /\ busy'[i] = Name!TaskCollision(i)
        /\ \/ namePc[i] = "check" /\ namePc'[i] = "check model"
           \/ namePc[i] = "recheck" /\ namePc'[i] = "recheck model"
        /\ UNCHANGED <<taskName, modelName, candidate, phase>>
    BY <1>0, <1>2 DEF Name!QueryTask, NameOthers, NameTypes
  <2>2. NameWritten(i)' /\ NameKept(i)'
    BY <1>0, <2>1 DEF NameWritten, NameKept, Name!TaskCandidate, Name!ModelCandidate
  <2>3. \A j \in Invocations \ {i} : NameApart(i, j)'
    <3> SUFFICES ASSUME NEW j \in Invocations \ {i}, NameCleared(i)' PROVE taskName'[i] # taskName'[j]
      BY <2>1 DEF NameApart, NameCleared
    <3>1. namePc[i] = "recheck" /\ ~Name!TaskCollision(i) BY <2>1 DEF NameCleared
    <3>2. taskName[i] = Name!TaskCandidate(i) BY <1>0, <3>1 DEF NameWritten
    <3> QED BY <2>1, <3>1, <3>2 DEF Name!TaskCollision
  <2> QED BY <2>1, <2>2, <2>3, NameOwn
<1>3. ASSUME NEW i \in Invocations, Name!QueryModel(i) PROVE NameInv'
  <2>1. NameOthers(i) /\ namePc'[i] \in {"write", "check", "failed"}
    BY <1>0, <1>3 DEF Name!QueryModel, Name!Continue, NameOthers, NameTypes
  <2>2. NameWritten(i)' /\ NameKept(i)' BY <2>1 DEF NameWritten, NameKept
  <2>3. \A j \in Invocations \ {i} : NameApart(i, j)' BY <2>1 DEF NameApart, NameCleared
  <2> QED BY <2>1, <2>2, <2>3, NameOwn
<1>4. ASSUME NEW i \in Invocations, Name!WriteTask(i) PROVE NameInv'
  <2>1. /\ NameOthers(i)
        /\ \/ namePc'[i] = "failed"
           \/ /\ taskName'[i] = Name!TaskCandidate(i)
              /\ namePc'[i] = IF phase[i] = "model" THEN "write model" ELSE "recheck"
        /\ UNCHANGED <<candidate, phase>>
    BY <1>0, <1>4 DEF Name!WriteTask, NameOthers, NameTypes
  <2>2. NameWritten(i)' /\ NameKept(i)'
    BY <2>1 DEF NameWritten, NameKept, Name!TaskCandidate, Name!ModelCandidate
  <2>3. \A j \in Invocations \ {i} : NameApart(i, j)' BY <2>1 DEF NameApart, NameCleared
  <2> QED BY <2>1, <2>2, <2>3, NameOwn
<1>5. ASSUME NEW i \in Invocations, Name!WriteModel(i) PROVE NameInv'
  <2>1. /\ NameOthers(i) /\ namePc[i] = "write model" /\ namePc'[i] = "recheck"
        /\ modelName'[i] = Name!ModelCandidate(i)
        /\ UNCHANGED <<taskName, candidate, phase>>
    BY <1>0, <1>5 DEF Name!WriteModel, NameOthers, NameTypes
  <2>2. NameWritten(i)' /\ NameKept(i)'
    BY <1>0, <2>1 DEF NameWritten, NameKept, Name!TaskCandidate, Name!ModelCandidate
  <2>3. \A j \in Invocations \ {i} : NameApart(i, j)' BY <2>1 DEF NameApart, NameCleared
  <2> QED BY <2>1, <2>2, <2>3, NameOwn
<1>6. ASSUME NEW i \in Invocations, Name!Settle(i) PROVE NameInv'
  <2>1. /\ NameOthers(i) /\ namePc[i] = "recheck model"
        /\ UNCHANGED <<taskName, modelName, busy, phase>>
    BY <1>0, <1>6 DEF Name!Settle, Name!Continue, NameOthers, NameTypes
  <2>2. CASE namePc'[i] # "resolved"
    <3>1. namePc'[i] \in {"check", "failed"}
      BY <1>0, <1>6, <2>2 DEF Name!Settle, Name!Continue, NameTypes
    <3>2. NameWritten(i)' /\ NameKept(i)' BY <3>1 DEF NameWritten, NameKept
    <3>3. \A j \in Invocations \ {i} : NameApart(i, j)' BY <3>1 DEF NameApart, NameCleared
    <3> QED BY <2>1, <3>2, <3>3, NameOwn
  <2>3. CASE namePc'[i] = "resolved"
    <3>1. /\ ~busy[i] /\ ~Name!ModelCollision(i) /\ candidate' = candidate
          /\ suffix' = [suffix EXCEPT ![i] = candidate[i]]
          /\ effective' = [effective EXCEPT ![i] =
               [task |-> Name!TaskCandidate(i),
                model |-> IF phase[i] = "model" THEN Name!ModelCandidate(i) ELSE Name!None]]
      <4>1. CASE Name!Settled(i) BY <1>6, <4>1 DEF Name!Settle, Name!Settled
      <4>2. CASE ~Name!Settled(i)
        <5>1. namePc' \in {[namePc EXCEPT ![i] = "failed"], [namePc EXCEPT ![i] = "check"]}
          BY <1>6, <4>2 DEF Name!Settle, Name!Continue
        <5> QED BY <1>0, <2>3, <5>1 DEF NameTypes
      <4> QED BY <4>1, <4>2
    <3>2. /\ taskName[i] = Name!TaskCandidate(i)
          /\ phase[i] = "model" =>
               /\ modelName[i] = Name!ModelCandidate(i) /\ modelName[i] \notin Taken
               /\ \A j \in Invocations \ {i} : modelName[i] # modelName[j]
      BY <1>0, <2>1, <3>1 DEF NameWritten, Name!ModelCollision
    <3>3. NameWritten(i)' /\ NameKept(i)'
      <4>1. /\ suffix'[i] = candidate'[i] /\ effective'[i].task = Name!TaskCandidate(i)
            /\ phase[i] = "model" => effective'[i].model = Name!ModelCandidate(i)
        BY <1>0, <3>1 DEF NameTypes
      <4>2. Name!TaskCandidate(i)' = Name!TaskCandidate(i) /\ Name!ModelCandidate(i)' = Name!ModelCandidate(i)
        BY <3>1 DEF Name!TaskCandidate, Name!ModelCandidate
      <4> QED BY <2>1, <2>3, <3>2, <4>1, <4>2 DEF NameWritten, NameKept
    <3>4. ASSUME NEW j \in Invocations \ {i} PROVE NameApart(i, j)'
      <4>1. NameCleared(i) /\ NameApart(i, j) BY <1>0, <2>1, <3>1 DEF NameCleared
      <4>2. NameCleared(j)' => NameCleared(j) BY <2>1 DEF NameOthers, NameCleared
      <4> QED BY <2>1, <3>2, <4>1, <4>2 DEF NameApart, NameOthers
    <3> QED BY <2>1, <3>3, <3>4, NameOwn
  <2> QED BY <2>2, <2>3
<1>7. CASE UNCHANGED Name!vars
  <2>1. UNCHANGED <<taskName, modelName, suffix, effective, candidate, attempt, busy, phase, namePc>>
    BY <1>7 DEF Name!vars, Name!state, Name!local
  <2>2. ASSUME NEW i \in Invocations PROVE NameWritten(i)' /\ NameKept(i)'
    <3>1. NameWritten(i) /\ NameKept(i) BY DEF NameInv
    <3>2. UNCHANGED <<Name!TaskCandidate(i), Name!ModelCandidate(i)>>
      BY <2>1 DEF Name!TaskCandidate, Name!ModelCandidate
    <3>3. NameWritten(i)' BY <2>1, <3>1, <3>2 DEF NameWritten
    <3>4. NameKept(i)' BY <2>1, <3>1 DEF NameKept
    <3> QED BY <3>3, <3>4
  <2>3. ASSUME NEW i \in Invocations, NEW j \in Invocations, i # j PROVE NameApart(i, j)'
    <3>1. NameApart(i, j) BY <2>3 DEF NameInv
    <3> QED BY <2>1, <3>1 DEF NameApart, NameCleared
  <2>4. NameTypes' BY <2>1 DEF NameInv, NameTypes
  <2> QED BY <2>2, <2>3, <2>4 DEF NameInv
<1> QED BY <1>1, <1>2, <1>3, <1>4, <1>5, <1>6, <1>7 DEF Name!Next

(***************************************************************************)
(* However the queries and writes of any invocations interleave, names     *)
(* that were resolved are shown and are no other's: of two that wrote the  *)
(* same one, the later to query again sees it.  (_resolve, _occupied)      *)
(***************************************************************************)
THEOREM Naming == Spec => []Unique
<1>1. Init => (focus = "names" => NameInv)
  BY DEF Init, Name!Init, NameInv, NameTypes, NameWritten, NameKept, NameCleared, NameApart
<1>2. (focus = "names" => NameInv) /\ [Next]_vars => (focus = "names" => NameInv)'
  BY InFocus, NameStep
<1>3. (focus = "names" => NameInv) => Unique
  <2> SUFFICES ASSUME NameInv, NEW i \in Invocations, namePc[i] = "resolved"
               PROVE  /\ effective[i].task = taskName[i]
                      /\ phase[i] = "model" => effective[i].model = modelName[i] /\ modelName[i] \notin Taken
                      /\ suffix[i] = taskName[i][2]
                      /\ \A j \in Invocations \ {i} : namePc[j] = "resolved" =>
                           /\ taskName[i] # taskName[j]
                           /\ phase[i] = "model" /\ phase[j] = "model" => modelName[i] # modelName[j]
    BY DEF Unique, Name!Unique, Name!At
  <2>1. NameKept(i) /\ taskName[i] = Name!TaskCandidate(i) BY DEF NameInv, NameWritten
  <2>2. \A j \in Invocations \ {i} : NameApart(i, j) BY DEF NameInv
  <2>3. suffix[i] = taskName[i][2] BY <2>1 DEF NameKept, Name!TaskCandidate
  <2> QED BY <2>1, <2>2, <2>3 DEF NameKept, NameApart, NameCleared
<1> QED BY <1>1, <1>2, <1>3, PTL DEF Spec

-----------------------------------------------------------------------------
(* The tables of a run (RunTables) *)

TablesTypes ==
  /\ DOMAIN record = Names /\ DOMAIN byDigest = Contents
  /\ DOMAIN byKey = Names \X Contents /\ DOMAIN remote = Tables!Remotes
  /\ promised \in SUBSET (Names \X Contents) /\ taken \in SUBSET Tables!Remotes
\* Bytes that were uploaded are under the remote of their digest, which no
\* table takes again; a remote is taken by the bytes it holds.
TablesHeld ==
  \A c \in Contents : byDigest[c] # Absent =>
    byDigest[c] \in Tables!Remotes /\ byDigest[c] \in taken /\ remote[byDigest[c]] = c
TablesTaken == \A r \in taken : \E c \in Contents : byDigest[c] = r
TablesPromised ==
  \A pair \in promised : byDigest[pair[2]] # Absent /\ byKey[pair] = byDigest[pair[2]]
TablesUploaded == \A n \in Names : record[n] = "uploaded" => \E c \in Contents : <<n, c>> \in promised
TablesInv == TablesTypes /\ TablesHeld /\ TablesTaken /\ TablesPromised /\ TablesUploaded

\* A set of numbers that is not empty has a least one.
LEMMA Least ==
  ASSUME NEW S \in SUBSET Nat, S # {}
  PROVE  Tables!Min(S) \in S /\ \A y \in S : Tables!Min(S) <= y
<1>1. \E x \in S : \A y \in S : ~(<<y, x>> \in OpToRel(<, Nat))
  BY NatLessThanWellFounded, WFMin
<1>2. PICK x \in S : \A y \in S : ~(<<y, x>> \in OpToRel(<, Nat)) BY <1>1
<1>3. \A y \in S : x =< y
  <2> SUFFICES ASSUME NEW y \in S, y < x PROVE FALSE OBVIOUS
  <2>1. <<y, x>> \in OpToRel(<, Nat) BY DEF OpToRel
  <2> QED BY <1>2, <2>1
<1> QED BY <1>3 DEF Tables!Min

\* There are as many names to try as there are tables, and every name that is
\* taken holds another table: one is free.
LEMMA Free ==
  ASSUME TablesInv, NEW n \in Names, NEW c \in Contents, byDigest[c] = Absent
  PROVE  Tables!RemoteName(n) \in Tables!Remotes /\ Tables!RemoteName(n) \notin taken
<1> DEFINE N == Cardinality(Contents)
           free == {k \in 1..N : <<n, k>> \notin taken}
<1>1. N \in Nat /\ IsFiniteSet(Contents) BY ResultsAssumption, FS_CardinalityType
<1>2. Tables!Cardinality(Contents) = N BY DEF Tables!Cardinality, Cardinality
<1>3. free # {}
  <2> SUFFICES ASSUME free = {} PROVE FALSE OBVIOUS
  <2> DEFINE holder == [k \in 1..N |-> CHOOSE d \in Contents : byDigest[d] = <<n, k>>]
  <2>1. \A k \in 1..N : holder[k] \in Contents /\ byDigest[holder[k]] = <<n, k>>
    BY DEF TablesInv, TablesTaken
  <2> HIDE DEF holder
  <2>2. \A k \in 1..N : holder[k] # c
    <3> SUFFICES ASSUME NEW k \in 1..N, holder[k] = c PROVE FALSE OBVIOUS
    <3>1. <<n, k>> = Absent BY <2>1
    <3>2. <<n, k>> \in Tables!Remotes BY <1>2 DEF Tables!Remotes
    <3> QED BY <3>1, <3>2, ResultsAssumption
  <2>3. holder \in Injection(1..N, Contents \ {c})
    <3>1. holder \in [1..N -> Contents \ {c}] BY <2>1, <2>2 DEF holder
    <3>2. \A j, k \in 1..N : holder[j] = holder[k] => j = k BY <2>1
    <3> QED BY <3>1, <3>2 DEF Injection, IsInjective
  <2>4. IsFiniteSet(Contents \ {c}) /\ Cardinality(Contents \ {c}) = N - 1
    BY <1>1, FS_RemoveElement
  <2>5. Cardinality(1..N) = N
    <3>1. Cardinality(1..N) = IF 1 > N THEN 0 ELSE N - 1 + 1 BY <1>1, FS_Interval
    <3> QED BY <1>1, <3>1
  <2>6. Cardinality(1..N) <= Cardinality(Contents \ {c}) BY <2>3, <2>4, FS_Injection
  <2> QED BY <1>1, <2>4, <2>5, <2>6
<1>4. Tables!Min(free) \in free
  <2>1. free \in SUBSET Nat BY <1>1
  <2> HIDE DEF free
  <2> QED BY <1>3, <2>1, Least
<1> QED BY <1>2, <1>4 DEF Tables!RemoteName, Tables!FreeName, Tables!Remotes

LEMMA TablesStep ==
  ASSUME TablesInv, [Tables!Next]_(Tables!vars)
  PROVE  TablesInv'
<1>0. TablesTypes /\ TablesHeld /\ TablesTaken /\ TablesPromised /\ TablesUploaded BY DEF TablesInv
<1> USE DEF TablesTypes, TablesHeld, TablesTaken, TablesPromised, TablesUploaded
<1>1. ASSUME NEW n \in Names, Tables!ExpectArtifact(n) PROVE TablesInv'
  BY <1>0, <1>1 DEF Tables!ExpectArtifact, TablesInv
<1>2. ASSUME NEW n \in Names, NEW c \in Contents, Tables!Alias(n, c) PROVE TablesInv'
  <2>1. /\ byDigest[c] # Absent
        /\ record' = [record EXCEPT ![n] = "uploaded"]
        /\ byKey' = [byKey EXCEPT ![<<n, c>>] = byDigest[c]]
        /\ promised' = promised \union {<<n, c>>}
        /\ byDigest' = byDigest /\ taken' = taken /\ remote' = remote
    BY <1>2 DEF Tables!Alias, Tables!SameBytes, Tables!Known
  <2>2. TablesTypes' /\ TablesHeld' /\ TablesTaken' BY <1>0, <2>1
  <2>3. TablesPromised' BY <1>0, <2>1
  <2>4. TablesUploaded' BY <1>0, <2>1
  <2> QED BY <2>2, <2>3, <2>4 DEF TablesInv
\* The bytes go where no other table is.
<1>3. ASSUME NEW n \in Names, NEW c \in Contents, Tables!Upload(n, c) PROVE TablesInv'
  <2> DEFINE r == Tables!RemoteName(n)
  <2>1. /\ byDigest[c] = Absent
        /\ remote' = [remote EXCEPT ![r] = c]
        /\ byDigest' = [byDigest EXCEPT ![c] = r]
        /\ byKey' = [byKey EXCEPT ![<<n, c>>] = r]
        /\ taken' = taken \union {r}
        /\ record' = [record EXCEPT ![n] = "uploaded"]
        /\ promised' = promised \union {<<n, c>>}
    BY <1>3 DEF Tables!Upload, Tables!SameBytes, Tables!Known
  <2>2. r \in Tables!Remotes /\ r \notin taken /\ r # Absent BY <2>1, Free, ResultsAssumption
  <2> HIDE DEF r
  <2>3. TablesTypes' /\ TablesTaken'
    <3>1. Absent \notin taken BY <1>0, ResultsAssumption
    <3>2. TablesTypes' BY <1>0, <2>1, <2>2
    <3>3. TablesTaken' BY <1>0, <2>1, <3>1
    <3> QED BY <3>2, <3>3
  <2>4. TablesHeld' BY <1>0, <2>1, <2>2
  <2>5. TablesPromised' BY <1>0, <2>1, <2>2
  <2>6. TablesUploaded' BY <1>0, <2>1
  <2> QED BY <2>3, <2>4, <2>5, <2>6 DEF TablesInv
\* Bytes of a failed upload may arrive, but where nothing is held.
<1>4. ASSUME NEW n \in Names, NEW c \in Contents, Tables!UploadFails(n, c) PROVE TablesInv'
  <2> DEFINE r == Tables!RemoteName(n)
  <2>1. /\ byDigest[c] = Absent
        /\ remote' \in {remote, [remote EXCEPT ![r] = c]}
        /\ record' = [record EXCEPT ![n] = IF @ = "none" THEN "expected" ELSE @]
        /\ byDigest' = byDigest /\ byKey' = byKey /\ taken' = taken /\ promised' = promised
    BY <1>4 DEF Tables!UploadFails, Tables!SameBytes, Tables!Known
  <2>2. r \notin taken BY <2>1, Free
  <2> HIDE DEF r
  <2>3. TablesTypes' /\ TablesTaken' /\ TablesPromised' /\ TablesUploaded' BY <1>0, <2>1
  <2>4. TablesHeld' BY <1>0, <2>1, <2>2
  <2> QED BY <2>3, <2>4 DEF TablesInv
<1>5. CASE UNCHANGED Tables!vars BY <1>0, <1>5 DEF Tables!vars, TablesInv
<1> QED BY <1>1, <1>2, <1>3, <1>4, <1>5 DEF Tables!Next, Tables!PublishTable

(***************************************************************************)
(* For any names and tables, whatever fails and is tried again, a call     *)
(* that returned leads to a remote that holds its bytes for the rest of    *)
(* the run, and equal bytes are one remote.  (publish_table)               *)
(***************************************************************************)
THEOREM Uploads == Spec => []TablesKept
<1>1. Init => (focus = "tables" => TablesInv)
  BY DEF Init, Tables!Init, TablesInv, TablesTypes, TablesHeld, TablesTaken, TablesPromised,
         TablesUploaded
<1>2. (focus = "tables" => TablesInv) /\ [Next]_vars => (focus = "tables" => TablesInv)'
  BY InFocus, TablesStep
<1>3. (focus = "tables" => TablesInv) => TablesKept
  <2> SUFFICES ASSUME TablesInv PROVE Tables!TablesKept BY DEF TablesKept
  <2>1. \A pair \in promised :
          /\ pair[2] \in Contents /\ byKey[pair] = byDigest[pair[2]]
          /\ byKey[pair] # Absent /\ remote[byKey[pair]] = pair[2]
    BY DEF TablesInv, TablesTypes, TablesHeld, TablesPromised
  <2>2. \A pair, other \in promised : (pair[2] = other[2]) = (byKey[pair] = byKey[other]) BY <2>1
  <2> QED BY <2>1, <2>2 DEF Tables!TablesKept, TablesInv, TablesUploaded
<1> QED BY <1>1, <1>2, <1>3, PTL DEF Spec

-----------------------------------------------------------------------------
(* What a run executes and leaves for its clones (RunConfiguration) *)

\* The group a task is replayed from; one that earlier releases left out is
\* the plain command's.
ConfigGroup(t) ==
  IF t.run = "full" THEN t.native
  ELSE [Config!Defaults EXCEPT
          !.device = IF t.general.device # Config!Unset THEN t.general.device ELSE @]
ConfigSize(t) == IF t.general.size # Config!Unset THEN t.general.size ELSE ConfigGroup(t).size
ConfigBatch(t) ==
  IF ConfigGroup(t).batch = "auto" \/ t.general.batch = Config!Unset
  THEN ConfigGroup(t).batch ELSE t.general.batch
\* A clone of t will execute what is asked for.
ConfigMeans(t, a) ==
  /\ Config!Normal(ConfigSize(t)) = Config!Normal(a.size)
  /\ ConfigBatch(t) = a.batch
  /\ ConfigGroup(t).device = a.device /\ ConfigGroup(t).token = a.token

ConfigTyped(t) ==
  /\ DOMAIN t = {"run", "native", "general", "result"}
  /\ DOMAIN t.native = Config!Keys /\ DOMAIN t.general = Config!Keys
  /\ t.general.token \in {Config!Unset, Config!Redacted}
  /\ t.run = "full" => t.native.size # Config!Unset /\ t.native.token # Config!Unset
ConfigTypes ==
  /\ ConfigTyped(task) /\ ConfigTyped(snapshot)
  /\ DOMAIN asked = Config!Keys /\ DOMAIN requested = Config!Keys /\ DOMAIN executes = Config!Keys
  /\ late \in BOOLEAN
  /\ configPc \in {"stopped", "starting", "cloned", "fetched", "resolved", "published", "training"}
\* Nothing is asked before there is a task; a command brings its own settings.
ConfigLaunched ==
  /\ task = Config!NoRun \/ configPc = "starting" => asked = Config!Nothing
  /\ configPc = "starting" => requested.size # Config!Unset /\ requested.token # Config!Unset
  /\ configPc \in {"cloned", "fetched"} =>
       \A k \in Config!Keys \ {"project"} : requested[k] = Config!Defaults[k]
\* As long as an agent has missed no edit, the task means what is asked.
ConfigAsked ==
  /\ ~late /\ asked # Config!Nothing => ConfigMeans(task, asked)
  /\ configPc = "cloned" => ~late
  /\ configPc = "fetched" => (asked # Config!Nothing => ConfigMeans(snapshot, asked))
  /\ configPc = "fetched" => (late \/ snapshot = task)
\* A replay took over General as it was read.
ConfigReplayed ==
  configPc = "resolved" /\ asked # Config!Nothing =>
    /\ executes.project = requested.project
    /\ Config!Normal(executes.size) = Config!Normal(asked.size)
    /\ executes.batch = asked.batch /\ executes.device = asked.device /\ executes.token = asked.token
    /\ ~late => /\ task.general.size \in {Config!Unset, executes.size}
                /\ executes.batch = "auto" \/ task.general.batch \in {Config!Unset, executes.batch}
ConfigExecutes ==
  /\ configPc \in {"resolved", "published", "training"} =>
       executes.size # Config!Unset /\ executes.token # Config!Unset
  /\ configPc \in {"resolved", "published"} => training = Config!Nothing
  /\ configPc \in {"published", "training"} =>
       task.run = "full" /\ task.native = Config!Sanitized(executes)
\* What training observes is what it executes, normalised.
ConfigTraining ==
  configPc = "training" =>
    /\ training = Config!Sanitized(executes) /\ asked = Config!Sanitized(executes) /\ ~late
    /\ task.general.size # Config!Unset
    /\ Config!Normal(task.general.size) = Config!Normal(executes.size)
    /\ executes.batch = "auto" \/ task.general.batch = executes.batch
ConfigInv ==
  /\ ConfigTypes /\ ConfigLaunched /\ ConfigAsked /\ ConfigReplayed /\ ConfigExecutes
  /\ ConfigTraining

\* What a replay executes, setting by setting.
LEMMA Replaying ==
  ASSUME NEW t, ConfigTyped(t), DOMAIN requested = Config!Keys,
         \A k \in Config!Keys \ {"project"} : requested[k] = Config!Defaults[k]
  PROVE  LET r == Config!Replayed(t) IN
         /\ DOMAIN r = Config!Keys /\ r.project = requested.project
         /\ r.size = ConfigSize(t) /\ r.batch = ConfigBatch(t)
         /\ r.device = ConfigGroup(t).device /\ r.token = ConfigGroup(t).token
         /\ r.size # Config!Unset /\ r.token # Config!Unset
<1> DEFINE group == Config!Canonical(t)
<1> USE DEF Config!Unset, Config!Redacted
<1>1. /\ DOMAIN group = Config!Keys
      /\ \A k \in {"size", "batch", "device", "token"} : group[k] = ConfigGroup(t)[k]
      /\ group.size # Config!Unset /\ group.token # Config!Unset
  <2>1. CASE t.run = "full"
    BY <2>1 DEF Config!Canonical, ConfigGroup, ConfigTyped, Config!Keys
  <2>2. CASE t.run # "full"
    BY <2>2 DEF Config!Canonical, ConfigGroup, Config!Keys, Config!Defaults
  <2> QED BY <2>1, <2>2
<1> HIDE DEF group
<1>2. /\ Config!Sanitized(group).size = group.size /\ Config!Sanitized(group).batch = group.batch
      /\ Config!Sanitized(group).token = Config!Redacted
  BY <1>1 DEF Config!Sanitized, Config!Keys
<1> DEFINE over == Config!Override(group, t)
           merged == [k \in Config!Keys |-> IF k \in over THEN t.general[k] ELSE group[k]]
<1>3. /\ "size" \in over <=> t.general.size # Config!Unset /\ t.general.size # group.size
      /\ "batch" \in over <=>
           t.general.batch # Config!Unset /\ group.batch # "auto" /\ t.general.batch # group.batch
      /\ "device" \notin over /\ "token" \notin over
  BY <1>2 DEF Config!Override, Config!Scientific, ConfigTyped
<1> HIDE DEF over
<1>4. /\ merged.size = ConfigSize(t) /\ merged.batch = ConfigBatch(t)
      /\ merged.device = group.device /\ merged.token = group.token
      /\ merged.size # Config!Unset
  BY <1>1, <1>3 DEF ConfigSize, ConfigBatch, Config!Keys
<1>5. Config!Replayed(t) = [merged EXCEPT !.project = requested.project]
  BY DEF Config!Replayed, Config!Routed, merged, over, group
<1>6. DOMAIN merged = Config!Keys OBVIOUS
<1> HIDE DEF merged
<1> QED BY <1>1, <1>4, <1>5, <1>6 DEF Config!Keys

LEMMA ConfigStep ==
  ASSUME ConfigInv, [Config!Next]_(Config!vars)
  PROVE  ConfigInv'
<1>0. /\ ConfigTypes /\ ConfigLaunched /\ ConfigAsked /\ ConfigReplayed /\ ConfigExecutes
      /\ ConfigTraining
  BY DEF ConfigInv
<1> USE DEF Config!Invocation, Config!User
\* The command line, or the clone of a task, brings settings of its own.
<1>1. CASE Config!Launch
  <2>1. /\ configPc = "stopped" /\ task = Config!NoRun /\ configPc' = "starting"
        /\ UNCHANGED <<task, snapshot, executes, training, asked, late>>
        /\ DOMAIN requested' = Config!Keys
        /\ requested'.size # Config!Unset /\ requested'.token # Config!Unset
    BY <1>1 DEF Config!Launch, Config!Defaults, Config!Keys, Config!Unset
  <2>2. ConfigTypes' BY <1>0, <2>1 DEF ConfigTypes
  <2> QED
    BY <1>0, <2>1, <2>2
       DEF ConfigInv, ConfigLaunched, ConfigAsked, ConfigReplayed, ConfigExecutes, ConfigTraining
<1>2. CASE Config!Clone
  <2>1. /\ configPc = "stopped" /\ task # Config!NoRun /\ configPc' = "cloned"
        /\ asked' = IF late THEN Config!Nothing ELSE asked
        /\ late' = FALSE
        /\ UNCHANGED <<task, snapshot, executes, training>>
        /\ DOMAIN requested' = Config!Keys
        /\ \A k \in Config!Keys \ {"project"} : requested'[k] = Config!Defaults[k]
    BY <1>2 DEF Config!Clone, Config!Defaults, Config!Keys
  <2>2. ConfigTypes' BY <1>0, <2>1 DEF ConfigTypes, Config!Nothing
  <2> QED
    BY <1>0, <2>1, <2>2
       DEF ConfigInv, ConfigLaunched, ConfigAsked, ConfigReplayed, ConfigExecutes, ConfigTraining
<1>3. CASE Config!FetchRemoteReplay
  <2>1. /\ configPc = "cloned" /\ configPc' = "fetched" /\ snapshot' = task
        /\ UNCHANGED <<task, requested, executes, training, asked, late>>
    BY <1>3 DEF Config!FetchRemoteReplay
  <2>2. ConfigTypes' BY <1>0, <2>1 DEF ConfigTypes
  <2> QED
    BY <1>0, <2>1, <2>2
       DEF ConfigInv, ConfigLaunched, ConfigAsked, ConfigReplayed, ConfigExecutes, ConfigTraining
<1>4. CASE Config!Start
  <2>1. /\ configPc = "starting" /\ configPc' = "resolved"
        /\ executes' = requested /\ training' = Config!Nothing
        /\ UNCHANGED <<task, snapshot, requested, asked, late>>
    BY <1>4 DEF Config!Start
  <2>2. ConfigTypes' BY <1>0, <2>1 DEF ConfigTypes
  <2> QED
    BY <1>0, <2>1, <2>2
       DEF ConfigInv, ConfigLaunched, ConfigAsked, ConfigReplayed, ConfigExecutes, ConfigTraining
\* The agent executes what the task meant when it was read.
<1>5. CASE Config!Replay
  <2>1. /\ configPc = "fetched" /\ configPc' = "resolved"
        /\ executes' = Config!Replayed(snapshot) /\ training' = Config!Nothing
        /\ UNCHANGED <<task, snapshot, requested, asked, late>>
    BY <1>5 DEF Config!Replay, Config!Inherited
  <2>2. /\ DOMAIN executes' = Config!Keys /\ executes'.project = requested.project
        /\ executes'.size = ConfigSize(snapshot) /\ executes'.batch = ConfigBatch(snapshot)
        /\ executes'.device = ConfigGroup(snapshot).device
        /\ executes'.token = ConfigGroup(snapshot).token
        /\ executes'.size # Config!Unset /\ executes'.token # Config!Unset
    BY <1>0, <2>1, Replaying DEF ConfigTypes, ConfigLaunched
  <2>3. ConfigTypes' BY <1>0, <2>1, <2>2 DEF ConfigTypes
  <2>4. ConfigReplayed'
    <3> SUFFICES ASSUME asked # Config!Nothing PROVE ConfigReplayed'
      BY <2>1 DEF ConfigReplayed
    <3>1. ConfigMeans(snapshot, asked) /\ (late \/ snapshot = task) BY <1>0, <2>1 DEF ConfigAsked
    <3> QED BY <2>1, <2>2, <3>1 DEF ConfigReplayed, ConfigMeans, ConfigSize, ConfigBatch
  <2> QED
    BY <1>0, <2>1, <2>2, <2>3, <2>4
       DEF ConfigInv, ConfigLaunched, ConfigAsked, ConfigExecutes, ConfigTraining
<1>6. CASE Config!Stop
  <2>1. /\ configPc \in {"fetched", "resolved", "published", "training"} /\ configPc' = "stopped"
        /\ UNCHANGED <<task, snapshot, requested, executes, training, asked, late>>
    BY <1>6 DEF Config!Stop
  <2>2. ConfigTypes' BY <1>0, <2>1 DEF ConfigTypes
  <2> QED
    BY <1>0, <2>1, <2>2
       DEF ConfigInv, ConfigLaunched, ConfigAsked, ConfigReplayed, ConfigExecutes, ConfigTraining
<1>7. CASE UNCHANGED Config!vars
  BY <1>0, <1>7
     DEF Config!vars, ConfigInv, ConfigTypes, ConfigLaunched, ConfigAsked, ConfigReplayed,
         ConfigExecutes, ConfigTraining
\* An edit before the agent reads is asked for; a later one is only noted.
<1>8. ASSUME NEW k, NEW v, NEW place,
             <<k, v, place>> \in {<<"size", "s900", "general">>, <<"batch", "b2", "general">>,
                                  <<"device", "d2", "native">>, <<"token", "t1", "native">>,
                                  <<"batch", "auto", "native">>},
             place = "native" => task.run = "full",
             place = "general" /\ k = "batch" => asked.batch # "auto",
             Config!Edited(k, v, place)
      PROVE  ConfigInv'
  <2>1. /\ configPc \in {"cloned", "fetched"} /\ configPc' = configPc
        /\ task' = [task EXCEPT ![place][k] = v]
        /\ configPc = "fetched" => late' = TRUE /\ asked' = asked
        /\ configPc = "cloned" =>
             late' = late /\ asked' = IF asked = Config!Nothing THEN asked ELSE [asked EXCEPT ![k] = v]
        /\ UNCHANGED <<snapshot, requested, executes, training>>
    BY <1>8 DEF Config!Edited
  <2>2. /\ DOMAIN task' = DOMAIN task /\ task'.run = task.run
        /\ DOMAIN task'.general = Config!Keys /\ DOMAIN task'.native = Config!Keys
        /\ task'[place][k] = v
        /\ \A p \in {"general", "native"}, l \in Config!Keys :
             p # place \/ l # k => task'[p][l] = task[p][l]
    BY <1>0, <1>8, <2>1 DEF ConfigTypes, ConfigTyped, Config!Keys
  <2>3. ConfigTyped(task)'
    BY <1>0, <1>8, <2>2 DEF ConfigTypes, ConfigTyped, Config!Keys, Config!Unset
  <2>4. ConfigTypes' BY <1>0, <2>1, <2>3 DEF ConfigTypes
  <2>5. task' # Config!NoRun
    <3>1. task'[place][k] # Config!Unset BY <1>8, <2>2 DEF Config!Unset
    <3>2. Config!NoRun[place][k] = Config!Unset
      BY <1>8 DEF Config!NoRun, Config!Nothing, Config!Keys
    <3> QED BY <3>1, <3>2
  <2>6. CASE configPc = "fetched"
    BY <1>0, <2>1, <2>4, <2>5, <2>6
       DEF ConfigInv, ConfigLaunched, ConfigAsked, ConfigReplayed, ConfigExecutes, ConfigTraining
  <2>7. CASE configPc = "cloned"
    <3>1. ConfigMeans(task', asked') \/ asked' = Config!Nothing
      <4> SUFFICES ASSUME asked # Config!Nothing PROVE ConfigMeans(task', asked')
        BY <2>1, <2>7
      <4>1. ConfigMeans(task, asked) BY <1>0, <2>7 DEF ConfigAsked
      <4>2. /\ asked'[k] = v
            /\ \A l \in Config!Keys \ {k} : asked'[l] = asked[l]
        BY <1>0, <1>8, <2>1, <2>7 DEF ConfigTypes, Config!Keys
      <4>3. \A l \in {"size", "batch", "device", "token"} :
              ConfigGroup(task')[l] = IF place = "native" /\ l = k THEN v ELSE ConfigGroup(task)[l]
        BY <1>0, <1>8, <2>2 DEF ConfigGroup, Config!Keys, Config!Defaults, ConfigTypes, ConfigTyped
      <4> QED
        BY <1>8, <2>2, <4>1, <4>2, <4>3
           DEF ConfigMeans, ConfigSize, ConfigBatch, Config!Keys, Config!Unset
    <3> QED
      BY <1>0, <2>1, <2>4, <2>5, <2>7, <3>1
         DEF ConfigInv, ConfigLaunched, ConfigAsked, ConfigReplayed, ConfigExecutes, ConfigTraining
  <2> QED BY <2>1, <2>6, <2>7
<1>9. CASE Config!EditGeneral BY <1>8, <1>9 DEF Config!EditGeneral
<1>10. CASE Config!EditRun BY <1>8, <1>10 DEF Config!EditRun
\* The group is what the run executes; General is still the one it replayed.
<1>11. CASE Config!Publish
  <2> DEFINE stored == Config!Sanitized(executes)
  <2>1. /\ configPc = "resolved" /\ configPc' = "published"
        /\ task' = [task EXCEPT !.run = "full", !.native = stored, !.result = Config!Unset]
        /\ asked' = Config!Sanitized(asked)
        /\ UNCHANGED <<snapshot, requested, executes, training, late>>
    BY <1>11 DEF Config!Publish
  <2>2. /\ DOMAIN stored = Config!Keys /\ stored.token = Config!Redacted
        /\ \A k \in Config!Keys \ {"token"} : stored[k] = executes[k]
    BY <1>0, <2>1 DEF ConfigTypes, ConfigExecutes, Config!Sanitized, Config!Keys
  <2>3. /\ DOMAIN asked' = Config!Keys
        /\ \A k \in Config!Keys \ {"token"} : asked'[k] = asked[k]
        /\ asked'.token = IF asked.token = Config!Unset THEN Config!Unset ELSE Config!Redacted
    BY <1>0, <2>1 DEF ConfigTypes, Config!Sanitized, Config!Keys
  <2> HIDE DEF stored
  <2>4. /\ DOMAIN task' = {"run", "native", "general", "result"}
        /\ task'.run = "full" /\ task'.native = stored /\ task'.general = task.general
    BY <1>0, <2>1 DEF ConfigTypes, ConfigTyped
  <2>5. ConfigTypes'
    <3>1. stored.size # Config!Unset /\ stored.token # Config!Unset
      BY <1>0, <2>1, <2>2 DEF ConfigExecutes, Config!Keys, Config!Unset, Config!Redacted
    <3>2. ConfigTyped(task)' BY <1>0, <2>2, <2>4, <3>1 DEF ConfigTypes, ConfigTyped
    <3> QED BY <1>0, <2>1, <2>3, <3>2 DEF ConfigTypes
  <2>6. asked = Config!Nothing => asked' = Config!Nothing
    BY <2>1 DEF Config!Sanitized, Config!Nothing, Config!Keys
  <2>7. task' # Config!NoRun BY <2>4 DEF Config!NoRun
  <2>8. ASSUME ~late, asked # Config!Nothing PROVE ConfigMeans(task', asked')
    <3>1. /\ Config!Normal(executes.size) = Config!Normal(asked.size)
          /\ executes.batch = asked.batch /\ executes.device = asked.device
          /\ executes.token = asked.token
          /\ task.general.size \in {Config!Unset, executes.size}
          /\ executes.batch = "auto" \/ task.general.batch \in {Config!Unset, executes.batch}
      BY <1>0, <2>1, <2>8 DEF ConfigReplayed
    <3>2. executes.token # Config!Unset BY <1>0, <2>1 DEF ConfigExecutes
    <3> QED
      BY <2>2, <2>3, <2>4, <3>1, <3>2
         DEF ConfigMeans, ConfigSize, ConfigBatch, ConfigGroup, Config!Keys
  <2>9. ConfigExecutes' BY <1>0, <2>1, <2>4 DEF ConfigExecutes, stored
  <2> QED
    BY <1>0, <2>1, <2>5, <2>6, <2>7, <2>8, <2>9
       DEF ConfigInv, ConfigLaunched, ConfigAsked, ConfigReplayed, ConfigTraining
<1>12. ASSUME ConfigTypes', ConfigExecutes', ConfigTraining', configPc' = "training"
       PROVE  ConfigInv'
  <2>1. task'.run = "full" /\ task'.native = Config!Sanitized(executes')
    BY <1>12 DEF ConfigExecutes
  <2>2. task' # Config!NoRun BY <2>1 DEF Config!NoRun
  <2>3. ConfigMeans(task', asked')
    <3>1. ConfigGroup(task') = asked' BY <1>12, <2>1 DEF ConfigGroup, ConfigTraining
    <3>2. /\ asked'.size = executes'.size /\ asked'.batch = executes'.batch
      BY <1>12 DEF ConfigTraining, ConfigTypes, Config!Sanitized, Config!Keys
    <3> QED BY <1>12, <3>1, <3>2 DEF ConfigMeans, ConfigSize, ConfigBatch, ConfigTraining
  <2> QED
    BY <1>12, <2>2, <2>3 DEF ConfigInv, ConfigLaunched, ConfigAsked, ConfigReplayed
\* General and the group are both what the run executes.
<1>13. ASSUME NEW group, DOMAIN group = Config!Keys,
              configPc \in {"published", "training"}, configPc' = "training",
              task' = [task EXCEPT !.general = Config!Connected(group)],
              group.size # Config!Unset, group.token = executes.token,
              Config!Normal(group.size) = Config!Normal(executes.size),
              executes.batch = "auto" \/ group.batch = executes.batch,
              training' = Config!Sanitized(executes), asked' = Config!Sanitized(executes), ~late',
              late' \in BOOLEAN, UNCHANGED <<snapshot, requested, executes>>
       PROVE  ConfigInv'
  <2> DEFINE general == Config!Connected(group)
  <2>1. /\ DOMAIN general = Config!Keys
        /\ general.size = group.size /\ general.batch = group.batch
        /\ general.token \in {Config!Unset, Config!Redacted}
    BY <1>13 DEF Config!Connected, Config!Sanitized, Config!Scientific, Config!Keys
  <2> HIDE DEF general
  <2>2. /\ DOMAIN task' = DOMAIN task /\ task'.general = general
        /\ task'.run = task.run /\ task'.native = task.native
    BY <1>0, <1>13 DEF ConfigTypes, ConfigTyped, general
  <2>3. ConfigTypes'
    <3>1. ConfigTyped(task)' BY <1>0, <2>1, <2>2 DEF ConfigTypes, ConfigTyped
    <3>2. DOMAIN asked' = Config!Keys BY <1>0, <1>13 DEF ConfigTypes, Config!Sanitized
    <3> QED BY <1>0, <1>13, <3>1, <3>2 DEF ConfigTypes
  <2>4. ConfigExecutes' BY <1>0, <1>13, <2>2 DEF ConfigExecutes
  <2>5. ConfigTraining' BY <1>13, <2>1, <2>2 DEF ConfigTraining
  <2> QED BY <1>12, <1>13, <2>3, <2>4, <2>5
<1>14. CASE Config!PublishParameters
  <2>1. CASE training = Config!Sanitized(executes)
    <3>1. /\ configPc \in {"published", "training"} /\ configPc' = "training"
          /\ UNCHANGED <<task, snapshot, requested, executes, training, asked, late>>
      BY <1>14, <2>1 DEF Config!PublishParameters
    <3>2. configPc = "training"
      <4>1. Config!Sanitized(executes) # Config!Nothing
        <5>1. Config!Sanitized(executes).size = executes.size
          BY <1>0 DEF ConfigTypes, Config!Sanitized, Config!Keys
        <5>2. Config!Nothing.size = Config!Unset BY DEF Config!Nothing, Config!Keys
        <5> QED BY <1>0, <3>1, <5>1, <5>2 DEF ConfigExecutes
      <4> QED BY <1>0, <2>1, <3>1, <4>1 DEF ConfigExecutes
    <3>3. ConfigTypes' /\ ConfigExecutes' /\ ConfigTraining'
      BY <1>0, <3>1, <3>2 DEF ConfigTypes, ConfigExecutes, ConfigTraining
    <3> QED BY <1>12, <3>1, <3>3
  <2>2. CASE training # Config!Sanitized(executes)
    <3>1. /\ configPc \in {"published", "training"} /\ configPc' = "training"
          /\ task' = [task EXCEPT !.general = Config!Connected(executes)]
          /\ training' = Config!Sanitized(executes) /\ asked' = Config!Sanitized(executes)
          /\ late' = FALSE
          /\ UNCHANGED <<snapshot, requested, executes>>
      BY <1>14, <2>2 DEF Config!PublishParameters
    <3>2. DOMAIN executes = Config!Keys /\ executes.size # Config!Unset
      BY <1>0, <3>1 DEF ConfigTypes, ConfigExecutes
    <3> QED BY <1>13, <3>1, <3>2
  <2> QED BY <2>1, <2>2
<1>15. CASE Config!Observe
  <2> DEFINE observed == [executes EXCEPT
               !.size = Config!Normal(@), !.batch = IF @ = "auto" THEN "b9" ELSE @]
  <2>1. /\ configPc = "training" /\ configPc' = "training"
        /\ task' = [task EXCEPT !.general = Config!Connected(observed)]
        /\ UNCHANGED <<snapshot, requested, executes, training, asked, late>>
    BY <1>15 DEF Config!Observe
  <2>2. executes.size # Config!Unset BY <1>0, <2>1 DEF ConfigExecutes
  <2>3. /\ DOMAIN observed = Config!Keys
        /\ observed.size = Config!Normal(executes.size) /\ observed.token = executes.token
        /\ executes.batch = "auto" \/ observed.batch = executes.batch
    BY <1>0 DEF ConfigTypes, Config!Keys
  <2>4. /\ Config!Normal(executes.size) # Config!Unset
        /\ Config!Normal(Config!Normal(executes.size)) = Config!Normal(executes.size)
    BY <2>2 DEF Config!Normal, Config!Unset
  <2>5. /\ training = Config!Sanitized(executes) /\ asked = Config!Sanitized(executes) /\ ~late
        /\ late \in BOOLEAN
    BY <1>0, <2>1 DEF ConfigTraining, ConfigTypes
  <2> HIDE DEF observed
  <2> QED BY <1>13, <2>1, <2>3, <2>4, <2>5
<1>16. CASE Config!Record
  <2>1. /\ configPc = "training" /\ configPc' = "training"
        /\ task' = [task EXCEPT !.native = Config!Sanitized(executes), !.result = "recorded"]
        /\ UNCHANGED <<snapshot, requested, executes, training, asked, late>>
    BY <1>16 DEF Config!Record
  <2>2. /\ DOMAIN task' = DOMAIN task /\ task'.run = task.run /\ task'.general = task.general
        /\ task'.native = Config!Sanitized(executes)
    BY <1>0, <2>1 DEF ConfigTypes, ConfigTyped
  <2>3. ConfigTypes' /\ ConfigExecutes' /\ ConfigTraining'
    BY <1>0, <2>1, <2>2 DEF ConfigTypes, ConfigTyped, ConfigExecutes, ConfigTraining
  <2> QED BY <1>12, <2>1, <2>3
<1> QED
  BY <1>1, <1>2, <1>3, <1>4, <1>5, <1>6, <1>7, <1>9, <1>10, <1>11, <1>14, <1>15, <1>16
     DEF Config!Next

(***************************************************************************)
(* For any number of edits and clones of clones, an agent executes the run *)
(* it was cloned from with the changes made before it was read.            *)
(* (replay_configuration, replay_training_parameters,                      *)
(* publish_training_parameters)                                            *)
(***************************************************************************)
THEOREM Repetition == Spec => []Repeats
<1>1. Init => (focus = "configuration" => ConfigInv)
  <2> SUFFICES ASSUME Init, focus = "configuration" PROVE ConfigInv OBVIOUS
  <2>1. Config!Init BY DEF Init
  <2>2. /\ configPc = "stopped" /\ late = FALSE /\ snapshot = Config!NoRun
        /\ requested = Config!Nothing /\ executes = Config!Nothing
        /\ \/ task = Config!NoRun /\ asked = Config!Nothing
           \/ \E run \in {"absent", "other"} :
                /\ task = Config!Historical(run)
                /\ asked = [Config!Defaults EXCEPT !.size = "s672", !.device = "d1"]
    BY <2>1 DEF Config!Init
  <2>3. ConfigTyped(Config!NoRun)
    BY DEF ConfigTyped, Config!NoRun, Config!Nothing, Config!Keys
  <2>4. CASE task = Config!NoRun /\ asked = Config!Nothing
    <3>1. ConfigTypes BY <2>2, <2>3, <2>4 DEF ConfigTypes, Config!Nothing
    <3> QED
      BY <2>2, <2>4, <3>1
         DEF ConfigInv, ConfigLaunched, ConfigAsked, ConfigReplayed, ConfigExecutes, ConfigTraining
  <2>5. ASSUME NEW run \in {"absent", "other"}, task = Config!Historical(run),
               asked = [Config!Defaults EXCEPT !.size = "s672", !.device = "d1"]
        PROVE  ConfigInv
    <3>1. /\ DOMAIN task = {"run", "native", "general", "result"} /\ task.run = run
          /\ DOMAIN task.native = Config!Keys
          /\ task.general = [size |-> "s672", batch |-> "b9", device |-> "d1", project |-> "old",
                             token |-> Config!Redacted]
      BY <2>5 DEF Config!Historical, Config!NoRun, Config!Nothing
    <3>2. DOMAIN task.general = Config!Keys BY <3>1 DEF Config!Keys
    <3>3. ConfigTypes
      <4>1. ConfigTyped(task) BY <3>1, <3>2 DEF ConfigTyped
      <4>2. DOMAIN asked = Config!Keys BY <2>5 DEF Config!Defaults, Config!Keys
      <4>3. DOMAIN Config!Nothing = Config!Keys BY DEF Config!Nothing
      <4> QED BY <2>2, <2>3, <4>1, <4>2, <4>3 DEF ConfigTypes
    <3>4. task # Config!NoRun
      BY <3>1 DEF Config!NoRun, Config!Nothing, Config!Keys, Config!Unset
    <3>5. ConfigMeans(task, asked)
      BY <2>5, <3>1
         DEF ConfigMeans, ConfigSize, ConfigBatch, ConfigGroup, Config!Defaults, Config!Unset
    <3> QED
      BY <2>2, <3>3, <3>4, <3>5
         DEF ConfigInv, ConfigLaunched, ConfigAsked, ConfigReplayed, ConfigExecutes, ConfigTraining
  <2> QED BY <2>2, <2>4, <2>5
<1>2. (focus = "configuration" => ConfigInv) /\ [Next]_vars => (focus = "configuration" => ConfigInv)'
  BY InFocus, ConfigStep
<1>3. (focus = "configuration" => ConfigInv) => Repeats
  BY DEF ConfigInv, ConfigReplayed, Repeats, Config!Repeats
<1> QED BY <1>1, <1>2, <1>3, PTL DEF Spec

-----------------------------------------------------------------------------
(* The identity of a task in the controller's cache (TaskCache) *)

TaskFields == DOMAIN Plain
\* Inputs on which the projection depends and which it keeps.
TaskKept == {"command", "doc", "backend", "where", "content", "skip", "reference"}

\* The projection, field by field, of a request it recognises and may change.
TaskProjected(t, n) ==
  /\ n.policy = 1
  /\ n.output = IF Task!Parsed(t) /\ ~Task!KeepsOutput(t) THEN "gone" ELSE t.output
  /\ n.project = IF Task!Parsed(t) /\ ~Task!ProjectIsInput(t) THEN "gone" ELSE t.project
  /\ n.root = IF Task!Bound(t) THEN "gone" ELSE t.root
  /\ n.device = IF Task!Visited(t) THEN Task!Device(t) ELSE t.device
  /\ n.data = IF Task!Visited(t) THEN Task!Data(t) ELSE t.data

LEMMA Normalized ==
  ASSUME NEW t \in Tasks
  PROVE  LET n == Task!Normalize(t) IN
         /\ \A f \in TaskKept : n[f] = t[f]
         /\ ~Task!Recognized(t) => n = t
         /\ Task!Recognized(t) =>
              /\ DOMAIN n = TaskFields /\ n.overrides = "gone"
              /\ Task!Unsafe(t) => n = [t EXCEPT !.overrides = "gone"]
              /\ ~Task!Unsafe(t) => TaskProjected(t, n)
<1> DEFINE plain == [t EXCEPT !.overrides = "gone"]
<1>1. DOMAIN t = TaskFields /\ t.policy = 0
  BY ResultsAssumption DEF Request, TaskFields
<1>2. TaskFields = {"command", "doc", "backend", "where", "device", "data", "root", "content",
                    "skip", "output", "project", "reference", "overrides", "policy"}
  BY DEF TaskFields, Plain
<1>3. /\ DOMAIN plain = TaskFields /\ plain.overrides = "gone"
      /\ \A f \in TaskFields \ {"overrides"} : plain[f] = t[f]
  BY <1>1, <1>2
<1>4. CASE ~Task!Recognized(t) BY <1>4 DEF Task!Normalize
<1>5. CASE Task!Recognized(t) /\ Task!Unsafe(t)
  <2>1. Task!Normalize(t) = plain BY <1>5 DEF Task!Normalize
  <2> QED BY <1>2, <1>3, <1>5, <2>1 DEF TaskKept
<1>6. CASE Task!Recognized(t) /\ ~Task!Unsafe(t)
  <2> HIDE DEF plain
  <2> DEFINE projected == Task!Projected(plain)
             routed == IF ~Task!Parsed(plain) THEN plain
                       ELSE [plain EXCEPT
                               !.output = IF Task!KeepsOutput(plain) THEN @ ELSE "gone",
                               !.project = IF Task!ProjectIsInput(plain) THEN @ ELSE "gone",
                               !.root = IF Task!Bound(plain) THEN "gone" ELSE @]
  <2>1. Task!Normalize(t) = [projected EXCEPT !.policy = 1]
    BY <1>1, <1>6 DEF Task!Normalize, plain
  <2>2. /\ Task!Parsed(plain) = Task!Parsed(t) /\ Task!KeepsOutput(plain) = Task!KeepsOutput(t)
        /\ Task!ProjectIsInput(plain) = Task!ProjectIsInput(t) /\ Task!Bound(plain) = Task!Bound(t)
        /\ Task!Visited(plain) = Task!Visited(t)
    BY <1>2, <1>3
       DEF Task!Parsed, Task!KeepsOutput, Task!ProjectIsInput, Task!Bound, Task!Visited, Task!Read
  <2>3. /\ Task!Device(plain) = Task!Device(t) /\ Task!Data(plain) = Task!Data(t)
    <3>1. Task!Native(plain) = Task!Native(t) BY <1>2, <1>3, <2>2 DEF Task!Native
    <3>2. plain.device = t.device BY <1>2, <1>3
    <3>3. Task!Ordinals(plain) = Task!Ordinals(t) BY <3>1, <3>2 DEF Task!Ordinals
    <3> QED BY <1>2, <1>3, <2>2, <3>3 DEF Task!Device, Task!Data
  <2>4. /\ DOMAIN routed = TaskFields
        /\ routed.output = IF Task!Parsed(t) /\ ~Task!KeepsOutput(t) THEN "gone" ELSE t.output
        /\ routed.project = IF Task!Parsed(t) /\ ~Task!ProjectIsInput(t) THEN "gone" ELSE t.project
        /\ routed.root = IF Task!Parsed(t) /\ Task!Bound(t) THEN "gone" ELSE t.root
        /\ routed.overrides = "gone"
        /\ \A f \in TaskKept \union {"device", "data"} : routed[f] = t[f]
    BY <1>2, <1>3, <2>2 DEF TaskKept
  <2>5. projected = IF Task!Visited(plain)
                    THEN [routed EXCEPT !.device = Task!Device(plain), !.data = Task!Data(plain)]
                    ELSE routed
    BY DEF Task!Projected
  <2> HIDE DEF routed, projected
  <2>6. /\ DOMAIN projected = TaskFields /\ projected.overrides = "gone"
        /\ \A f \in TaskKept \union {"output", "project", "root"} : projected[f] = routed[f]
        /\ projected.device = IF Task!Visited(t) THEN Task!Device(t) ELSE t.device
        /\ projected.data = IF Task!Visited(t) THEN Task!Data(t) ELSE t.data
    BY <1>2, <2>2, <2>3, <2>4, <2>5 DEF TaskKept
  <2>7. Task!Bound(t) => Task!Parsed(t) BY DEF Task!Bound
  <2> QED BY <1>2, <1>6, <2>1, <2>4, <2>6, <2>7 DEF TaskKept, TaskProjected
<1> QED BY <1>4, <1>5, <1>6

\* Composed with itself, the callback says the same.
LEMMA Composed ==
  ASSUME NEW t \in Tasks
  PROVE  Task!Normalize(Task!Normalize(t)) = Task!Normalize(t)
<1> DEFINE n == Task!Normalize(t)
<1>1. n.command = t.command BY Normalized DEF TaskKept
<1>2. CASE ~Task!Recognized(t) BY <1>2, Normalized
<1>3. CASE Task!Recognized(t)
  <2>1. Task!Recognized(n) BY <1>1, <1>3 DEF Task!Recognized
  <2>2. DOMAIN n = TaskFields /\ n.overrides = "gone" BY <1>3, Normalized
  <2>3. n.policy = 1 \/ Task!Unsafe(n)
    <3>1. CASE Task!Unsafe(t)
      <4>1. n = [t EXCEPT !.overrides = "gone"] BY <1>3, <3>1, Normalized
      <4>2. DOMAIN t = TaskFields BY ResultsAssumption DEF Request, TaskFields
      <4>3. n.doc = t.doc /\ n.where = t.where /\ n.device = t.device /\ n.data = t.data
        BY <4>1, <4>2 DEF TaskFields, Plain
      <4> QED BY <3>1, <4>3 DEF Task!Unsafe, Task!Visited, Task!Read, Task!Parsed
    <3>2. CASE ~Task!Unsafe(t) BY <1>3, <3>2, Normalized DEF TaskProjected
    <3> QED BY <3>1, <3>2
  <2>4. Task!Normalize(n) = [n EXCEPT !.overrides = "gone"]
    BY <2>1, <2>3 DEF Task!Normalize
  <2>5. n = [f \in TaskFields |-> n[f]]
    <3>1. CASE Task!Unsafe(t)
      <4>1. n = [t EXCEPT !.overrides = "gone"] BY <1>3, <3>1, Normalized
      <4> QED BY <2>2, <4>1
    <3>2. CASE ~Task!Unsafe(t)
      <4>1. \E m : n = [m EXCEPT !.policy = 1]
        <5>1. t.policy = 0 BY ResultsAssumption DEF Request
        <5> QED BY <1>3, <3>2, <5>1 DEF Task!Normalize
      <4> QED BY <2>2, <4>1
    <3> QED BY <3>1, <3>2
  <2> HIDE DEF n
  <2>6. [n EXCEPT !.overrides = "gone"] = n BY <2>2, <2>5
  <2> QED BY <2>4, <2>6 DEF n
<1> QED BY <1>2, <1>3

\* As many different ordinals as there are: none comes twice.
LEMMA Different ==
  ASSUME NEW ids \in Seq(Nat), Task!Cardinality({ids[i] : i \in DOMAIN ids}) = Len(ids)
  PROVE  \A i, j \in DOMAIN ids : i # j => ids[i] # ids[j]
<1> DEFINE values == {ids[i] : i \in DOMAIN ids}
<1>1. ids \in Surjection(1..Len(ids), values) BY DEF Surjection
<1>2. IsFiniteSet(1..Len(ids)) /\ Cardinality(1..Len(ids)) = Len(ids)
  <2> DEFINE n == Len(ids)
  <2>1. n \in Nat OBVIOUS
  <2> HIDE DEF n
  <2>2. Cardinality(1..n) = IF 1 > n THEN 0 ELSE n - 1 + 1 BY <2>1, FS_Interval
  <2>3. IsFiniteSet(1..n) BY <2>1, FS_Interval
  <2>4. Cardinality(1..n) = n BY <2>1, <2>2
  <2> QED BY <2>3, <2>4 DEF n
<1>3. Cardinality(values) = Len(ids) BY DEF Task!Cardinality, Cardinality
<1> HIDE DEF values
<1>4. ids \in Injection(1..Len(ids), values) BY <1>1, <1>2, <1>3, FS_Surjection
<1> QED BY <1>4 DEF Injection, IsInjective

\* Requests with one identity execute the same.
LEMMA SameWork ==
  ASSUME NEW t \in Tasks, NEW u \in Tasks, Task!Normalize(t) = Task!Normalize(u)
  PROVE  Task!Execution(t) = Task!Execution(u)
<1> DEFINE n == Task!Normalize(t)
<1>1. /\ \A f \in TaskKept : t[f] = u[f]
      /\ \A r \in {t, u} : r.where \in {"run", "hyper"} /\ r.policy = 0 /\ DOMAIN r = TaskFields
      /\ \A r \in {t, u} : r.device[1] \in {"ids", "zeros"} => r.device[2] \in Seq(Nat)
  BY Normalized, ResultsAssumption DEF Request, TaskFields
<1>2. /\ Task!Recognized(t) = Task!Recognized(u) /\ Task!Parsed(t) = Task!Parsed(u)
      /\ Task!Visited(t) = Task!Visited(u) /\ Task!Bound(t) = Task!Bound(u)
      /\ Task!Native(t) = Task!Native(u) /\ Task!ProjectIsInput(t) = Task!ProjectIsInput(u)
      /\ Task!KeepsOutput(t) = Task!KeepsOutput(u)
  BY <1>1
     DEF TaskKept, Task!Recognized, Task!Parsed, Task!Visited, Task!Read, Task!Bound, Task!Native,
         Task!ProjectIsInput, Task!KeepsOutput
<1>kept. /\ t.command = u.command /\ t.doc = u.doc /\ t.backend = u.backend
         /\ t.content = u.content /\ t.skip = u.skip /\ t.reference = u.reference
  BY <1>1 DEF TaskKept
<1>3. CASE ~Task!Recognized(t)
  <2>1. t = u BY <1>2, <1>3, Normalized
  <2> QED BY <2>1
<1>4. CASE Task!Recognized(t) /\ (Task!Unsafe(t) \/ Task!Unsafe(u))
  <2>1. Task!Unsafe(t) /\ Task!Unsafe(u)
    <3>1. \A r \in {t, u} : Task!Unsafe(r) => Task!Normalize(r).policy = 0
      BY <1>1, <1>2, <1>4, Normalized DEF TaskFields, Plain
    <3>2. \A r \in {t, u} : ~Task!Unsafe(r) => Task!Normalize(r).policy = 1
      BY <1>2, <1>4, Normalized DEF TaskProjected
    <3> QED BY <1>4, <3>1, <3>2
  <2>2. [t EXCEPT !.overrides = "gone"] = [u EXCEPT !.overrides = "gone"]
    BY <1>2, <1>4, <2>1, Normalized
  <2>3. \A f \in TaskFields \ {"overrides"} : t[f] = u[f] BY <1>1, <2>2
  <2>4. \A f \in TaskKept \union {"device", "data", "root", "output", "project"} : t[f] = u[f]
    BY <2>3 DEF TaskFields, Plain, TaskKept
  <2> QED
    <3>1. /\ t.device = u.device /\ t.data = u.data /\ t.root = u.root
          /\ t.output = u.output /\ t.project = u.project
      BY <2>4
    <3>2. Task!Opens(t) = Task!Opens(u) BY <1>kept, <3>1 DEF Task!Opens
    <3>3. Task!Bytes(t) = Task!Bytes(u) BY <1>kept, <3>1 DEF Task!Bytes
    <3> QED BY <1>2, <1>kept, <3>1, <3>2, <3>3 DEF Task!Execution
<1>5. CASE Task!Recognized(t) /\ ~Task!Unsafe(t) /\ ~Task!Unsafe(u)
  <2>1. TaskProjected(t, n) /\ TaskProjected(u, n) BY <1>2, <1>5, Normalized
  <2> HIDE DEF n
  \* A device is its number of ordinals exactly where a backend opens as many.
  <2>2. Task!Opens(t) = Task!Opens(u)
    <3>1. CASE ~Task!Visited(t)
      <4>1. t.device = u.device BY <1>2, <2>1, <3>1 DEF TaskProjected
      <4> QED BY <1>kept, <4>1 DEF Task!Opens
    <3>2. CASE Task!Visited(t)
      <4>1. /\ Task!Device(t) = Task!Device(u)
            /\ t.device[1] # "dict" /\ u.device[1] # "dict"
        BY <1>2, <1>5, <2>1, <3>2 DEF TaskProjected, Task!Unsafe
      <4>2. \A r \in {t, u} : r.device[1] \in {"ids", "zeros"} /\ Task!Ordinals(r) =>
              Task!Opens(r) = <<"GPUs", Len(r.device[2])>>
        <5> SUFFICES ASSUME NEW r \in {t, u}, r.device[1] \in {"ids", "zeros"}, Task!Ordinals(r)
                     PROVE  Task!Opens(r) = <<"GPUs", Len(r.device[2])>>
          OBVIOUS
        <5>1. \A i, j \in DOMAIN r.device[2] : i # j => r.device[2][i] # r.device[2][j]
          BY <1>1, Different DEF Task!Ordinals
        <5> QED BY <5>1 DEF Task!Ordinals, Task!Opens, Task!Native
      <4>3. CASE t.device[1] \in {"ids", "zeros"} /\ Task!Ordinals(t)
        <5>1. Task!Device(t) = <<"dict", Len(t.device[2])>> BY <4>3 DEF Task!Device
        <5>2. u.device[1] \in {"ids", "zeros"} /\ Task!Ordinals(u)
          BY <4>1, <5>1 DEF Task!Device
        <5>3. Task!Device(u) = <<"dict", Len(u.device[2])>> BY <5>2 DEF Task!Device
        <5>4. <<"dict", Len(t.device[2])>>[2] = <<"dict", Len(u.device[2])>>[2]
          BY <4>1, <5>1, <5>3
        <5>5. Len(t.device[2]) = Len(u.device[2]) BY <5>4
        <5>6. Task!Opens(t) = <<"GPUs", Len(t.device[2])>> BY <4>2, <4>3
        <5>7. Task!Opens(u) = <<"GPUs", Len(u.device[2])>> BY <4>2, <5>2
        <5> QED BY <5>5, <5>6, <5>7
      <4>4. CASE ~(t.device[1] \in {"ids", "zeros"} /\ Task!Ordinals(t))
        <5>1. Task!Device(t) = t.device BY <4>4 DEF Task!Device
        <5>2. u.device = t.device
          <6>1. CASE u.device[1] \in {"ids", "zeros"} /\ Task!Ordinals(u)
            <7>1. Task!Device(u) = <<"dict", Len(u.device[2])>> BY <6>1 DEF Task!Device
            <7>2. t.device = <<"dict", Len(u.device[2])>> BY <4>1, <5>1, <7>1
            <7>3. t.device[1] = "dict" BY <7>2
            <7> QED BY <4>1, <7>3
          <6>2. CASE ~(u.device[1] \in {"ids", "zeros"} /\ Task!Ordinals(u))
            BY <4>1, <5>1, <6>2 DEF Task!Device
          <6> QED BY <6>1, <6>2
        <5> QED BY <1>kept, <5>2 DEF Task!Opens
      <4> QED BY <4>3, <4>4
    <3> QED BY <3>1, <3>2
  \* A path is the content it leads to where it lies below the prepared root.
  <2>3. Task!Bytes(t) = Task!Bytes(u)
    <3>1. CASE ~Task!Bound(t)
      <4>1. t.data = u.data /\ t.root = u.root /\ t.content = u.content
        BY <1>1, <1>2, <2>1, <3>1 DEF TaskProjected, TaskKept, Task!Data
      <4> QED BY <4>1 DEF Task!Bytes
    <3>2. CASE Task!Bound(t)
      <4>1. /\ t.content = u.content /\ t.content # "none" /\ Task!Visited(t)
        BY <1>1, <3>2 DEF TaskKept, Task!Bound, Task!Visited, Task!Read
      <4>2. /\ Task!Data(t) = Task!Data(u) /\ t.data[1] # "marker" /\ u.data[1] # "marker"
        BY <1>2, <1>5, <2>1, <4>1 DEF TaskProjected, Task!Unsafe
      <4> DEFINE Below(r) == r.data[1] = "path" /\ r.data[2] = r.root
                 Marker(r) == <<"marker", r.content, r.data[3]>>
      <4>3. \A r \in {t, u} : Task!Data(r) = IF Below(r) THEN Marker(r) ELSE r.data
        BY <1>2, <3>2 DEF Task!Data
      <4>4. \A r \in {t, u} : Marker(r)[1] = "marker" /\ Marker(r)[3] = r.data[3] OBVIOUS
      <4>5. \A r \in {t, u} : Below(r) <=> Task!Data(r)[1] = "marker" BY <4>2, <4>3, <4>4
      <4>6. CASE Below(t)
        <5>1. Below(u) BY <4>2, <4>5, <4>6
        <5>2. Marker(t) = Marker(u) BY <4>2, <4>3, <4>6, <5>1
        <5>3. t.data[3] = u.data[3] BY <4>4, <5>2
        <5> QED BY <4>1, <4>6, <5>1, <5>3 DEF Task!Bytes
      <4>7. CASE ~Below(t)
        <5>1. ~Below(u) /\ t.data = u.data BY <4>2, <4>3, <4>5, <4>7
        <5> QED BY <4>7, <5>1 DEF Task!Bytes
      <4> QED BY <4>6, <4>7
    <3> QED BY <3>1, <3>2
  <2>4. t.command = "pipeline" /\ t.skip # "nothing" => t.output = u.output
    BY <1>2, <2>1 DEF TaskProjected, Task!KeepsOutput
  <2>5. Task!ProjectIsInput(t) => t.project = u.project
    BY <1>2, <2>1 DEF TaskProjected
  <2> QED BY <1>1, <1>2, <2>2, <2>3, <2>4, <2>5 DEF Task!Execution, TaskKept
<1> QED BY <1>3, <1>4, <1>5

\* Every run is recorded under its identity, and an answer shares it.
TaskInv ==
  /\ \A r \in runs : r.task \in Tasks /\ r.identity = Task!Normalize(r.task)
  /\ reused # <<>> =>
       \E t, u \in Tasks : reused = <<t, u>> /\ Task!Normalize(t) = Task!Normalize(u)

LEMMA TaskStep ==
  ASSUME TaskInv, [Task!Next]_(Task!vars)
  PROVE  TaskInv'
<1>1. \A t \in Tasks : Task!Identities(t) = {Task!Normalize(t)}
  BY Composed DEF Task!Identities
<1>2. ASSUME NEW t \in Tasks, Task!Reuse(t) PROVE TaskInv'
  BY <1>1, <1>2 DEF Task!Reuse, TaskInv
<1>3. ASSUME NEW t \in Tasks, Task!Run(t) PROVE TaskInv'
  BY <1>1, <1>3 DEF Task!Run, TaskInv
<1>4. CASE UNCHANGED Task!vars BY <1>4 DEF Task!vars, TaskInv
<1> QED BY <1>2, <1>3, <1>4 DEF Task!Next

(***************************************************************************)
(* For any requests, devices and datasets, a task that is answered with an *)
(* earlier run would have executed the same: the projection forgets only   *)
(* what no execution depends on.  (normalize_task_hash)                    *)
(***************************************************************************)
THEOREM Reuses == Spec => []Alike
<1>1. Init => (focus = "task cache" => TaskInv)
  BY DEF Init, Task!Init, TaskInv
<1>2. (focus = "task cache" => TaskInv) /\ [Next]_vars => (focus = "task cache" => TaskInv)'
  BY InFocus, TaskStep
<1>3. (focus = "task cache" => TaskInv) => Alike
  <2> SUFFICES ASSUME TaskInv PROVE Task!Alike BY DEF Alike
  <2>1. CASE reused # <<>>
    <3>1. PICK t \in Tasks, u \in Tasks :
            reused = <<t, u>> /\ Task!Normalize(t) = Task!Normalize(u)
      BY <2>1 DEF TaskInv
    <3>2. Task!Execution(t) = Task!Execution(u) BY <3>1, SameWork
    <3> QED BY <3>1, <3>2 DEF Task!Alike
  <2>2. CASE reused = <<>> BY <2>2 DEF Task!Alike
  <2> QED BY <2>1, <2>2
<1> QED BY <1>1, <1>2, <1>3, PTL DEF Spec

-----------------------------------------------------------------------------
(* The stages of a command over one bundle of results (Pipeline, ResultBundle) *)

\* The calls a stage is made of.
PipeCalls ==
  CASE at = 1 -> {<<"truth">>, <<"fit">>, <<"checkpoint">>}
    [] at \in {2, 3} -> {<<"record">>}
    [] at = 4 -> {<<"declare", "predict">>, <<"truth">>, <<"write", "predictions">>, <<"register">>,
                  <<"complete", "predict">>, <<"record">>}
    [] at = 5 -> {<<"read", "predictions">>, <<"declare", "metrics">>, <<"register">>,
                  <<"score", "val">>, <<"score", "test">>, <<"complete", "metrics">>}
    [] at = 6 -> IF "metrics" \in skip THEN {<<"read", "thresholds">>} ELSE {<<"record">>}
    [] at = 7 -> {<<"write", "thresholds">>}
    [] at = 8 -> {<<"declare", "compare">>, <<"truth">>, <<"baseline">>, <<"publish", "baseline">>,
                  <<"publish", "candidate">>, <<"complete", "compare">>, <<"workbook">>,
                  <<"write", "manifest">>, <<"record">>}
    [] at = 9 -> {<<"read", "manifest">>, <<"render">>}
    [] OTHER -> {<<"show">>}

PipeTypes ==
  /\ Pipe!TypeOK
  /\ trained \in BOOLEAN /\ fatal \in BOOLEAN /\ comparable \in BOOLEAN
  /\ pipePc # "idle" => command \in Pipe!Commands
  /\ pipePc = "call" => todo \in Seq(PipeCalls)
PipeIdle ==
  pipePc = "idle" =>
    /\ at = 1 /\ reads = {} /\ ~trained /\ ~comparable
    /\ status = [s \in Pipe!Stages \union {"outcome"} |-> "none"]
    /\ completed = {} /\ uploaded = {}

\* The file is there, or its stage has yet to write it.
Written(f) == files[f] = "new" \/ \E k \in 1..Len(todo) : todo[k] = <<"write", f>>

\* What a stage under way was entered for.
PipeEntered ==
  pipePc = "call" =>
    /\ ~Pipe!Piped => at # 1
    /\ at = 4 => Written("predictions")
    /\ Pipe!Piped =>
         /\ Pipe!Stage \notin skip
         /\ at \in {5, 10} => Pipe!PredictionsReady
         /\ at = 6 /\ "metrics" \in skip => "training" \in skip
         /\ at = 7 => "metrics" \notin skip
         /\ at = 8 /\ comparable => Written("manifest")
         /\ at = 9 => comparable
\* What is so of the pipeline at every moment.
PipeSkipped ==
  Pipe!Piped =>
    /\ \A s \in Pipe!Stages : s \in skip => status[s] \in {"none", "skipped"}
    /\ "metrics" \in skip => status["threshold_publication"] = "none"
PipeTrained == trained => Pipe!Piped /\ at > 1 /\ "training" \notin skip
\* What a file was made by.
PipeMade ==
  Pipe!Piped =>
    /\ status["prediction"] = "succeeded" => files["predictions"] = "new"
    /\ at < 8 \/ (at = 8 /\ pipePc = "plan") => ~comparable
    /\ comparable /\ pipePc # "raised" /\ ~(at = 8 /\ pipePc = "call") =>
         \/ "training" \in skip /\ "comparison" \in skip
         \/ files["manifest"] = "new" /\ status["comparison"] = "succeeded"
\* What was read, and when.
PipeRead ==
  \A r \in reads :
    /\ r[1] \in Pipe!Files /\ (trained => r[2] = "new")
    /\ Pipe!Piped =>
         /\ r[1] = "predictions" => at >= 5 /\ status["prediction"] # "failed"
         /\ r[1] = "thresholds" => at >= 6 /\ "metrics" \in skip
         /\ r[1] = "manifest" => at >= 9 /\ status["comparison"] # "failed"
\* The bundle: predicts_csv is assembled when nobody has anything to add.
BundleInv ==
  /\ producers = Pipe!Undeclared \/ producers \subseteq Pipe!Producers
  /\ completed \subseteq Pipe!Producers /\ Pipe!AggregateWhole
PipeInv ==
  /\ PipeTypes /\ PipeIdle /\ PipeEntered /\ PipeSkipped /\ PipeTrained /\ PipeMade /\ PipeRead
  /\ BundleInv /\ Pipe!TrainingKept

\* The stages and their places.
LEMMA PipeOrder ==
  /\ DOMAIN Pipe!Order = 1..10 /\ Len(Pipe!Order) = 10
  /\ Pipe!Order[1] = "training" /\ Pipe!Order[2] = "training_resources"
  /\ Pipe!Order[3] = "training_metadata" /\ Pipe!Order[4] = "prediction"
  /\ Pipe!Order[5] = "metrics" /\ Pipe!Order[6] = "thresholds"
  /\ Pipe!Order[7] = "threshold_publication" /\ Pipe!Order[8] = "comparison"
  /\ Pipe!Order[9] = "report" /\ Pipe!Order[10] = "visualization"
  /\ Pipe!Stages = {"training", "training_resources", "training_metadata", "prediction", "metrics",
                    "thresholds", "threshold_publication", "comparison", "report", "visualization"}
<1>1. /\ DOMAIN Pipe!Order = 1..10 /\ Len(Pipe!Order) = 10
      /\ Pipe!Order[1] = "training" /\ Pipe!Order[2] = "training_resources"
      /\ Pipe!Order[3] = "training_metadata" /\ Pipe!Order[4] = "prediction"
      /\ Pipe!Order[5] = "metrics" /\ Pipe!Order[6] = "thresholds"
      /\ Pipe!Order[7] = "threshold_publication" /\ Pipe!Order[8] = "comparison"
      /\ Pipe!Order[9] = "report" /\ Pipe!Order[10] = "visualization"
  BY DEF Pipe!Order
<1>2. \A i \in 1..10 : i \in {1, 2, 3, 4, 5, 6, 7, 8, 9, 10} OBVIOUS
<1> QED BY <1>1, <1>2 DEF Pipe!Stages

\* What a stage is called with is what it is made of.
LEMMA PipePlans ==
  ASSUME at \in 1..10
  PROVE  /\ Pipe!Calls[Pipe!Stage] \in Seq(PipeCalls)
         /\ at = 4 => \E k \in 1..Len(Pipe!Calls[Pipe!Stage]) :
                        Pipe!Calls[Pipe!Stage][k] = <<"write", "predictions">>
         /\ at = 8 =>
              /\ Pipe!WithBaseline \in Seq(PipeCalls) /\ Pipe!Unpaired \in Seq(PipeCalls)
              /\ \E k \in 1..Len(Pipe!WithBaseline) : Pipe!WithBaseline[k] = <<"write", "manifest">>
<1>1. at = 8 =>
        /\ Pipe!WithBaseline \in Seq(PipeCalls) /\ Pipe!Unpaired \in Seq(PipeCalls)
        /\ \E k \in 1..Len(Pipe!WithBaseline) : Pipe!WithBaseline[k] = <<"write", "manifest">>
  <2> SUFFICES ASSUME at = 8
               PROVE  /\ Pipe!WithBaseline \in Seq(PipeCalls) /\ Pipe!Unpaired \in Seq(PipeCalls)
                      /\ \E k \in 1..Len(Pipe!WithBaseline) :
                           Pipe!WithBaseline[k] = <<"write", "manifest">>
    OBVIOUS
  <2>1. Pipe!WithBaseline \in Seq(PipeCalls) /\ Pipe!Unpaired \in Seq(PipeCalls)
    BY DEF PipeCalls, Pipe!WithBaseline, Pipe!Unpaired
  <2>2. Len(Pipe!WithBaseline) = 6 /\ Pipe!WithBaseline[5] = <<"write", "manifest">>
    BY DEF Pipe!WithBaseline
  <2> QED BY <2>1, <2>2
<1>2. CASE at = 1
  <2>1. Pipe!Calls[Pipe!Stage] = Pipe!TrainCalls BY <1>2, PipeOrder DEF Pipe!Stage, Pipe!Calls
  <2>2. Pipe!TrainCalls \in Seq(PipeCalls) BY <1>2 DEF Pipe!TrainCalls, PipeCalls
  <2> QED BY <1>1, <1>2, <2>1, <2>2
<1>3. CASE at \in {2, 3}
  <2>1. Pipe!Calls[Pipe!Stage] = <<<<"record">>>> BY <1>3, PipeOrder DEF Pipe!Stage, Pipe!Calls
  <2>2. PipeCalls = {<<"record">>} BY <1>3 DEF PipeCalls
  <2>3. <<<<"record">>>> \in Seq(PipeCalls) BY <2>2
  <2> QED BY <1>1, <1>3, <2>1, <2>3
<1>4. CASE at = 4
  <2>1. Pipe!Calls[Pipe!Stage] = Pipe!PredictCalls BY <1>4, PipeOrder DEF Pipe!Stage, Pipe!Calls
  <2>2. Pipe!PredictCalls \in Seq(PipeCalls) BY <1>4 DEF Pipe!PredictCalls, PipeCalls
  <2>3. Len(Pipe!PredictCalls) = 6 /\ Pipe!PredictCalls[3] = <<"write", "predictions">>
    BY DEF Pipe!PredictCalls
  <2> QED BY <1>1, <1>4, <2>1, <2>2, <2>3
<1>5. CASE at = 5
  <2>1. Pipe!Calls[Pipe!Stage] = Pipe!MetricsCalls BY <1>5, PipeOrder DEF Pipe!Stage, Pipe!Calls
  <2>2. /\ <<<<"read", "predictions">>, <<"declare", "metrics">>, <<"register">>>> \in Seq(PipeCalls)
        /\ <<<<"complete", "metrics">>>> \in Seq(PipeCalls)
    BY <1>5 DEF PipeCalls
  <2>3. Pipe!Scores \in Seq(PipeCalls)
    <3>1. /\ <<"score", "val">> \in PipeCalls /\ <<"score", "test">> \in PipeCalls
      BY <1>5 DEF PipeCalls
    <3>2. Pipe!Scores = [i \in 1..2 |-> <<"score", <<"val", "test">>[i]>>] BY DEF Pipe!Scores
    <3>3. \A i \in 1..2 : <<"score", <<"val", "test">>[i]>> \in PipeCalls
      <4>1. \A i \in 1..2 : i = 1 \/ i = 2 OBVIOUS
      <4> QED BY <3>1, <4>1
    <3> HIDE DEF PipeCalls
    <3> QED BY <3>2, <3>3
  <2> HIDE DEF PipeCalls
  <2>4. Pipe!MetricsCalls \in Seq(PipeCalls) BY <2>2, <2>3, ConcatProperties DEF Pipe!MetricsCalls
  <2> QED BY <1>1, <1>5, <2>1, <2>4
<1>6. CASE at = 6
  <2>1. Pipe!Calls[Pipe!Stage] = Pipe!ThresholdCalls BY <1>6, PipeOrder DEF Pipe!Stage, Pipe!Calls
  <2>2. Pipe!ThresholdCalls \in Seq(PipeCalls)
    BY <1>6 DEF Pipe!ThresholdCalls, PipeCalls, Pipe!Skipped
  <2> QED BY <1>1, <1>6, <2>1, <2>2
<1>7. CASE at = 7
  <2>1. Pipe!Calls[Pipe!Stage] = <<<<"write", "thresholds">>>>
    BY <1>7, PipeOrder DEF Pipe!Stage, Pipe!Calls
  <2>2. <<<<"write", "thresholds">>>> \in Seq(PipeCalls) BY <1>7 DEF PipeCalls
  <2> QED BY <1>1, <1>7, <2>1, <2>2
<1>8. CASE at = 8
  <2>1. Pipe!Calls[Pipe!Stage] = Pipe!CompareCalls BY <1>8, PipeOrder DEF Pipe!Stage, Pipe!Calls
  <2>2. Pipe!CompareCalls \in Seq(PipeCalls) BY <1>8 DEF Pipe!CompareCalls, PipeCalls
  <2> QED BY <1>1, <1>8, <2>1, <2>2
<1>9. CASE at = 9
  <2>1. Pipe!Calls[Pipe!Stage] = Pipe!ReportCalls BY <1>9, PipeOrder DEF Pipe!Stage, Pipe!Calls
  <2>2. Pipe!ReportCalls \in Seq(PipeCalls) BY <1>9 DEF Pipe!ReportCalls, PipeCalls
  <2> QED BY <1>1, <1>9, <2>1, <2>2
<1>10. CASE at = 10
  <2>1. Pipe!Calls[Pipe!Stage] = <<<<"show">>>> BY <1>10, PipeOrder DEF Pipe!Stage, Pipe!Calls
  <2>2. <<<<"show">>>> \in Seq(PipeCalls) BY <1>10 DEF PipeCalls
  <2> QED BY <1>1, <1>10, <2>1, <2>2
<1> QED BY <1>2, <1>3, <1>4, <1>5, <1>6, <1>7, <1>8, <1>9, <1>10

\* The call under way, and what is left after it.
LEMMA PipeHead ==
  ASSUME todo \in Seq(PipeCalls), todo # <<>>
  PROVE  /\ Pipe!Call = Head(todo) /\ Pipe!Call \in PipeCalls /\ Tail(todo) \in Seq(PipeCalls)
         /\ \A c : (\E k \in 1..Len(todo) : todo[k] = c) /\ c # Pipe!Call
                  => \E k \in 1..Len(Tail(todo)) : Tail(todo)[k] = c
<1>1. Pipe!Call = Head(todo) BY DEF Pipe!Call
<1>2. /\ Head(todo) \in PipeCalls /\ Tail(todo) \in Seq(PipeCalls) /\ Head(todo) = todo[1]
      /\ Len(Tail(todo)) = Len(todo) - 1 /\ Len(todo) \in Nat
      /\ \A k \in 1..Len(todo) - 1 : Tail(todo)[k] = todo[k + 1]
  OBVIOUS
<1>3. ASSUME NEW c, NEW k \in 1..Len(todo), todo[k] = c, c # Pipe!Call
      PROVE  \E j \in 1..Len(Tail(todo)) : Tail(todo)[j] = c
  <2>1. k # 1 BY <1>1, <1>2, <1>3
  <2>2. k - 1 \in 1..Len(Tail(todo)) BY <1>2, <2>1
  <2>3. Tail(todo)[k - 1] = c BY <1>2, <1>3, <2>2
  <2> QED BY <2>2, <2>3
<1> QED BY <1>1, <1>2, <1>3

\* Which stage makes which calls.
LEMMA PipeOf ==
  ASSUME at \in 1..10, NEW c \in PipeCalls
  PROVE  /\ c[1] = "read" => \/ at = 5 /\ c[2] = "predictions"
                             \/ at = 6 /\ c[2] = "thresholds" /\ "metrics" \in skip
                             \/ at = 9 /\ c[2] = "manifest"
         /\ c[1] = "write" => \/ at = 4 /\ c = <<"write", "predictions">>
                              \/ at = 7 /\ c = <<"write", "thresholds">>
                              \/ at = 8 /\ c = <<"write", "manifest">>
         /\ c[1] = "show" => at = 10
         /\ c[1] = "baseline" => at = 8
         /\ c[1] \in {"declare", "complete"} => c[2] \in Pipe!Producers
<1>1. CASE at = 1 BY <1>1 DEF PipeCalls
<1>2. CASE at = 2 \/ at = 3 BY <1>2 DEF PipeCalls
<1>3. CASE at = 4 BY <1>3 DEF PipeCalls, Pipe!Producers
<1>4. CASE at = 5 BY <1>4 DEF PipeCalls, Pipe!Producers
<1>5. CASE at = 6 BY <1>5 DEF PipeCalls
<1>6. CASE at = 7 BY <1>6 DEF PipeCalls
<1>7. CASE at = 8 BY <1>7 DEF PipeCalls, Pipe!Producers
<1>8. CASE at = 9 BY <1>8 DEF PipeCalls
<1>9. CASE at = 10 BY <1>9 DEF PipeCalls
<1> QED BY <1>1, <1>2, <1>3, <1>4, <1>5, <1>6, <1>7, <1>8, <1>9

\* What a call does to the bundle.
BundleCall ==
  \/ UNCHANGED Pipe!bundleVars
  \/ \E P \in SUBSET Pipe!Producers : Pipe!Declare(P)
  \/ \E t : Pipe!SetTruth(t)
  \/ \E t, C : Pipe!MayRegister(t) /\ Pipe!Register(t, C)
  \/ \E t, c, up : /\ Pipe!MayPublish(t, c) /\ Pipe!PublishEvaluation(t, c, up)
                   /\ up \in {Pipe!Dashboards(c), {}}
  \/ \E p \in Pipe!Producers, up \in BOOLEAN : Pipe!MayComplete(p) /\ Pipe!Complete(p, up)
  \/ /\ uploaded' = uploaded \union Pipe!Workbooks
     /\ UNCHANGED <<producers, completed, pipeTruth, contexts, aggregate>>

LEMMA BundleStep ==
  ASSUME BundleInv, BundleCall
  PROVE  BundleInv'
<1>0. /\ producers = {"undeclared"} \/ producers \subseteq {"predict", "metrics", "compare"}
      /\ completed \subseteq {"predict", "metrics", "compare"}
      /\ <<"predicts">> \in uploaded => aggregate = contexts /\ completed = producers
  BY DEF BundleInv, Pipe!AggregateWhole, Pipe!Undeclared, Pipe!Producers
<1> SUFFICES /\ producers' = {"undeclared"} \/ producers' \subseteq {"predict", "metrics", "compare"}
             /\ completed' \subseteq {"predict", "metrics", "compare"}
             /\ <<"predicts">> \in uploaded' => aggregate' = contexts' /\ completed' = producers'
  BY DEF BundleInv, Pipe!AggregateWhole, Pipe!Undeclared, Pipe!Producers
<1>1. CASE UNCHANGED Pipe!bundleVars BY <1>0, <1>1 DEF Pipe!bundleVars
<1>2. CASE \E P \in SUBSET Pipe!Producers : Pipe!Declare(P)
  BY <1>0, <1>2 DEF Pipe!Declare, Pipe!Undeclared, Pipe!Producers
<1>3. CASE \E t : Pipe!SetTruth(t)
  <2>1. <<"gt">> # <<"predicts">> OBVIOUS
  <2> QED BY <1>0, <1>3, <2>1 DEF Pipe!SetTruth
<1>4. CASE \E t, C : Pipe!MayRegister(t) /\ Pipe!Register(t, C)
  <2>1. <<"gt">> # <<"predicts">> OBVIOUS
  <2> QED BY <1>0, <1>4, <2>1 DEF Pipe!MayRegister, Pipe!Writable, Pipe!Register
<1>5. CASE \E t, c, up : /\ Pipe!MayPublish(t, c) /\ Pipe!PublishEvaluation(t, c, up)
                        /\ up \in {Pipe!Dashboards(c), {}}
  <2>1. <<"gt">> # <<"predicts">> OBVIOUS
  <2>2. \A c : <<"predicts">> \notin Pipe!Dashboards(c) BY DEF Pipe!Dashboards
  <2> QED BY <1>0, <1>5, <2>1, <2>2 DEF Pipe!MayPublish, Pipe!Writable, Pipe!PublishEvaluation
<1>6. CASE \E p \in Pipe!Producers, up \in BOOLEAN : Pipe!MayComplete(p) /\ Pipe!Complete(p, up)
  BY <1>0, <1>6 DEF Pipe!MayComplete, Pipe!Complete, Pipe!Producers
<1>7. CASE /\ uploaded' = uploaded \union Pipe!Workbooks
           /\ UNCHANGED <<producers, completed, pipeTruth, contexts, aggregate>>
  <2>1. <<"predicts">> \notin Pipe!Workbooks BY DEF Pipe!Workbooks
  <2> QED BY <1>0, <1>7, <2>1
<1> QED BY <1>1, <1>2, <1>3, <1>4, <1>5, <1>6, <1>7 DEF BundleCall

\* A call of a stage: what it consumes, reads and writes.
PipeAdvance ==
  /\ pipePc = "call" /\ todo # <<>>
  /\ UNCHANGED <<pipePc, at, status, fatal, told, faults, command, skip, trained>>
  /\ \/ todo' = Tail(todo) /\ comparable' = comparable
     \/ /\ Pipe!Call[1] = "baseline" /\ todo' \in {Pipe!WithBaseline, Pipe!Unpaired}
        /\ comparable' = (todo' = Pipe!WithBaseline) /\ reads' = reads
  /\ \/ files' = files /\ Pipe!Call[1] # "write"
     \/ Pipe!Call[1] = "write" /\ files' = [files EXCEPT ![Pipe!Call[2]] = "new"]
  /\ \/ reads' = reads
     \/ /\ Pipe!Call[1] = "read" /\ files[Pipe!Call[2]] # "none"
        /\ reads' = reads \union {<<Pipe!Call[2], files[Pipe!Call[2]]>>}
     \/ /\ Pipe!Call[1] = "show"
        /\ reads' = reads \union {<<"predictions", files["predictions"]>>}

LEMMA PipeAdvanceStep ==
  ASSUME PipeInv, PipeAdvance, BundleInv'
  PROVE  PipeInv'
<1>0. /\ at \in 1..10 /\ todo \in Seq(PipeCalls)
      /\ files \in [{"predictions", "thresholds", "manifest"} -> {"none", "old", "new"}]
      /\ \A s \in Pipe!Stages : status[s] \in {"none", "succeeded", "skipped", "warned", "failed"}
      /\ pipePc = "call" /\ comparable \in BOOLEAN
  BY PipeOrder DEF PipeInv, PipeTypes, PipeAdvance, Pipe!TypeOK, Pipe!Files
<1> DEFINE c == Pipe!Call
<1>1. /\ c \in PipeCalls /\ Tail(todo) \in Seq(PipeCalls)
      /\ \A x : (\E k \in 1..Len(todo) : todo[k] = x) /\ x # c
               => \E k \in 1..Len(Tail(todo)) : Tail(todo)[k] = x
  BY <1>0, PipeHead DEF PipeAdvance
<1>2. /\ c[1] = "read" => \/ at = 5 /\ c[2] = "predictions"
                          \/ at = 6 /\ c[2] = "thresholds" /\ "metrics" \in skip
                          \/ at = 9 /\ c[2] = "manifest"
      /\ c[1] = "write" => \/ at = 4 /\ c = <<"write", "predictions">>
                           \/ at = 7 /\ c = <<"write", "thresholds">>
                           \/ at = 8 /\ c = <<"write", "manifest">>
      /\ c[1] = "show" => at = 10
      /\ c[1] = "baseline" => at = 8
  BY <1>0, <1>1, PipeOf
<1>3. /\ files' \in [{"predictions", "thresholds", "manifest"} -> {"none", "old", "new"}]
      /\ \A f \in {"predictions", "thresholds", "manifest"} :
           (files[f] = "new" \/ c = <<"write", f>>) => files'[f] = "new"
  <2>1. CASE files' = files /\ c[1] # "write" BY <1>0, <2>1
  <2>2. CASE c[1] = "write" /\ files' = [files EXCEPT ![c[2]] = "new"] BY <1>0, <1>2, <2>2
  <2> QED BY <2>1, <2>2 DEF PipeAdvance
<1>4. UNCHANGED <<pipePc, at, status, fatal, told, faults, command, skip, trained>>
  BY DEF PipeAdvance
<1>5. PipeCalls' = PipeCalls /\ (Pipe!Stage)' = Pipe!Stage /\ (Pipe!Piped)' = Pipe!Piped
  BY <1>4 DEF PipeCalls, Pipe!Stage, Pipe!Piped
<1>6. \/ todo' = Tail(todo) /\ comparable' = comparable
      \/ /\ at = 8 /\ todo' \in {Pipe!WithBaseline, Pipe!Unpaired}
         /\ comparable' = (todo' = Pipe!WithBaseline)
  BY <1>2 DEF PipeAdvance
<1>7. PipeTypes'
  <2>1. todo' \in Seq(PipeCalls) BY <1>0, <1>1, <1>6, PipePlans
  <2>2. comparable' \in BOOLEAN BY <1>0, <1>6
  <2> QED BY <1>3, <1>4, <1>5, <2>1, <2>2
       DEF PipeInv, PipeTypes, Pipe!TypeOK, BundleInv, Pipe!Files
<1>8. PipeIdle' BY <1>0, <1>4 DEF PipeIdle
<1>9. PipeEntered'
  <2>1. at = 4 => Written("predictions")'
    <3>1. CASE c = <<"write", "predictions">> BY <1>3, <3>1 DEF Written
    <3>2. CASE at = 4 /\ c # <<"write", "predictions">>
      <4>1. Written("predictions") BY <1>0, <3>2 DEF PipeInv, PipeEntered
      <4>2. todo' = Tail(todo) BY <1>6, <3>2
      <4> QED BY <1>1, <1>3, <3>2, <4>1, <4>2 DEF Written
    <3> QED BY <3>1, <3>2
  <2>2. Pipe!Piped /\ at = 8 /\ comparable' => Written("manifest")'
    <3>1. CASE c = <<"write", "manifest">> BY <1>3, <3>1 DEF Written
    <3>2. CASE c # <<"write", "manifest">> /\ todo' = Tail(todo) /\ comparable' = comparable
      BY <1>0, <1>1, <1>3, <3>2 DEF Written, PipeInv, PipeEntered
    <3>3. CASE comparable' = (todo' = Pipe!WithBaseline) /\ at = 8
      BY <1>0, <3>3, PipePlans DEF Written
    <3> QED BY <1>6, <3>1, <3>2, <3>3
  <2>3. (Pipe!PredictionsReady)' = Pipe!PredictionsReady
    BY <1>4 DEF Pipe!PredictionsReady, Pipe!Skipped
  <2>4. at = 9 => comparable' = comparable BY <1>6
  <2> QED BY <1>0, <1>4, <1>5, <2>1, <2>2, <2>3, <2>4 DEF PipeInv, PipeEntered
<1>10. PipeSkipped' /\ PipeTrained'
  BY <1>4, <1>5 DEF PipeInv, PipeSkipped, PipeTrained, Pipe!Stages
<1>11. PipeMade'
  BY <1>0, <1>3, <1>4, <1>5, <1>6 DEF PipeInv, PipeMade
<1>12. PipeRead'
  <2>1. SUFFICES ASSUME NEW r \in reads', r \notin reads
                 PROVE  /\ r[1] \in Pipe!Files /\ (trained => r[2] = "new")
                        /\ Pipe!Piped =>
                             /\ r[1] = "predictions" => at >= 5 /\ status["prediction"] # "failed"
                             /\ r[1] = "thresholds" => at >= 6 /\ "metrics" \in skip
                             /\ r[1] = "manifest" => at >= 9 /\ status["comparison"] # "failed"
    BY <1>4, <1>5 DEF PipeInv, PipeRead, Pipe!Files
  <2>2. trained => Pipe!Piped BY DEF PipeInv, PipeTrained
  <2>3. Pipe!Piped => /\ "prediction" \in skip => status["prediction"] \in {"none", "skipped"}
                      /\ "comparison" \in skip => status["comparison"] \in {"none", "skipped"}
    BY PipeOrder DEF PipeInv, PipeSkipped
  <2>4. CASE r[1] = "predictions" /\ r[2] = files["predictions"] /\ at \in {5, 10}
    <3>1. Pipe!Piped => Pipe!PredictionsReady BY <1>0, <2>4 DEF PipeInv, PipeEntered
    <3>2. Pipe!Piped => /\ status["prediction"] # "failed"
                        /\ trained => files["predictions"] = "new"
      BY <2>3, <3>1 DEF PipeInv, PipeMade, Pipe!PredictionsReady, Pipe!Skipped
    <3> QED BY <2>2, <2>4, <3>2 DEF Pipe!Files
  <2>5. CASE r[1] = "thresholds" /\ at = 6 /\ "metrics" \in skip
    <3>1. Pipe!Piped => "training" \in skip BY <1>0, <2>5 DEF PipeInv, PipeEntered
    <3>2. ~trained BY <2>2, <3>1 DEF PipeInv, PipeTrained
    <3> QED BY <2>5, <3>2 DEF Pipe!Files
  <2>6. CASE r[1] = "manifest" /\ r[2] = files["manifest"] /\ at = 9
    <3>1. Pipe!Piped => comparable BY <1>0, <2>6 DEF PipeInv, PipeEntered
    <3>2. Pipe!Piped =>
            \/ "training" \in skip /\ "comparison" \in skip
            \/ files["manifest"] = "new" /\ status["comparison"] = "succeeded"
      BY <1>0, <2>6, <3>1 DEF PipeInv, PipeMade
    <3>3. trained => "training" \notin skip BY DEF PipeInv, PipeTrained
    <3> QED BY <2>2, <2>3, <2>6, <3>2, <3>3 DEF Pipe!Files
  <2>7. \/ c[1] = "read" /\ r = <<c[2], files[c[2]]>>
        \/ c[1] = "show" /\ r = <<"predictions", files["predictions"]>>
    BY <2>1 DEF PipeAdvance
  <2> QED BY <1>2, <2>4, <2>5, <2>6, <2>7
<1>13. (Pipe!TrainingKept)' BY <1>0, <1>4 DEF Pipe!TrainingKept
<1> QED BY <1>7, <1>8, <1>9, <1>10, <1>11, <1>12, <1>13 DEF PipeInv

\* A stage is over: done, skipped, failed or interrupted.
PipeEnds ==
  /\ pipePc \in {"plan", "call"} /\ UNCHANGED <<command, skip, reads>>
  /\ faults' \in 0..MaxFaults /\ fatal' \in BOOLEAN /\ comparable' \in BOOLEAN
  /\ \/ pipePc' = "plan" /\ at' = at + 1 /\ at # 10
     \/ pipePc' \in {"finalize", "raised"} /\ at' = at
  /\ pipePc' = "raised" /\ trained' => fatal'
  /\ \/ trained' = trained
     \/ trained' /\ Pipe!Piped /\ at = 1 /\ at' = 2 /\ "training" \notin skip
  /\ files' \in [Pipe!Files -> {"none", "old", "new"}]
  /\ \A f \in Pipe!Files : files[f] = "new" => files'[f] = "new"
  /\ status' \in [Pipe!Stages \union {"outcome"} ->
                   {"none", "succeeded", "skipped", "warned", "failed"}]
  /\ \A s \in Pipe!Stages : s # Pipe!Stage => status'[s] = status[s]
  /\ comparable' =>
       \/ comparable
       \/ at = 8 /\ pipePc = "plan" /\ "training" \in skip /\ "comparison" \in skip
  /\ Pipe!Piped =>
       /\ Pipe!Stage \in skip => status'[Pipe!Stage] \in {"none", "skipped"}
       /\ at = 7 /\ "metrics" \in skip => status'[Pipe!Stage] = status[Pipe!Stage]
       /\ at = 4 /\ status'[Pipe!Stage] = "succeeded" =>
            status' = status \/ files'["predictions"] = "new"
       /\ at = 8 /\ comparable' /\ pipePc' # "raised" =>
            \/ "training" \in skip /\ "comparison" \in skip
            \/ files'["manifest"] = "new" /\ status'[Pipe!Stage] = "succeeded"

LEMMA PipeEndsStep ==
  ASSUME PipeInv, PipeEnds, BundleInv'
  PROVE  PipeInv'
<1>0. /\ at \in 1..10 /\ Pipe!Stage \in Pipe!Stages
      /\ \A s \in Pipe!Stages : status[s] \in {"none", "succeeded", "skipped", "warned", "failed"}
      /\ comparable \in BOOLEAN /\ trained \in BOOLEAN /\ pipePc \in {"plan", "call"}
      /\ "prediction" \in Pipe!Stages /\ "comparison" \in Pipe!Stages
      /\ "threshold_publication" \in Pipe!Stages
      /\ Pipe!Files = {"predictions", "thresholds", "manifest"}
  BY PipeOrder
     DEF PipeInv, PipeTypes, PipeEnds, Pipe!TypeOK, Pipe!Stages, Pipe!Stage, Pipe!Files
<1>1. /\ Pipe!Stage = "prediction" <=> at = 4
      /\ Pipe!Stage = "threshold_publication" <=> at = 7
      /\ Pipe!Stage = "comparison" <=> at = 8
  BY <1>0, PipeOrder DEF Pipe!Stage
<1>2. (Pipe!Piped)' = Pipe!Piped /\ command' = command /\ skip' = skip /\ reads' = reads
  BY DEF PipeEnds, Pipe!Piped
<1>3. /\ pipePc' \in {"plan", "finalize", "raised"} /\ at' \in 1..10 /\ at' >= at
      /\ pipePc' = "plan" => at' = at + 1
      /\ pipePc' # "plan" => at' = at
  BY <1>0 DEF PipeEnds
<1>4. PipeTypes'
  <2>1. command' \in Pipe!Commands BY <1>0, <1>2 DEF PipeInv, PipeTypes
  <2>2. trained' \in BOOLEAN BY <1>0 DEF PipeEnds
  <2>3. at' \in DOMAIN Pipe!Order BY <1>3, PipeOrder
  <2> QED BY <1>3, <2>1, <2>2, <2>3 DEF PipeTypes, PipeEnds, Pipe!TypeOK, BundleInv
<1>5. PipeIdle' /\ PipeEntered' BY <1>3 DEF PipeIdle, PipeEntered
<1>6. PipeSkipped'
  <2> SUFFICES ASSUME Pipe!Piped
               PROVE  /\ \A s \in Pipe!Stages : s \in skip => status'[s] \in {"none", "skipped"}
                      /\ "metrics" \in skip => status'["threshold_publication"] = "none"
    BY <1>2 DEF PipeSkipped, Pipe!Stages
  <2>1. ASSUME NEW s \in Pipe!Stages, s \in skip PROVE status'[s] \in {"none", "skipped"}
    BY <2>1 DEF PipeInv, PipeSkipped, PipeEnds
  <2>2. "metrics" \in skip => status'["threshold_publication"] = "none"
    BY <1>0, <1>1 DEF PipeInv, PipeSkipped, PipeEnds
  <2> QED BY <2>1, <2>2
<1>7. PipeTrained'
  <2>1. CASE trained' = trained BY <1>0, <1>2, <1>3, <2>1 DEF PipeInv, PipeTrained
  <2>2. CASE Pipe!Piped /\ at' = 2 /\ "training" \notin skip BY <1>2, <2>2 DEF PipeTrained
  <2> QED BY <2>1, <2>2 DEF PipeEnds
<1>8. PipeMade'
  <2> SUFFICES ASSUME Pipe!Piped
               PROVE  /\ status'["prediction"] = "succeeded" => files'["predictions"] = "new"
                      /\ at' < 8 \/ (at' = 8 /\ pipePc' = "plan") => ~comparable'
                      /\ comparable' /\ pipePc' # "raised" =>
                           \/ "training" \in skip /\ "comparison" \in skip
                           \/ files'["manifest"] = "new" /\ status'["comparison"] = "succeeded"
    BY <1>2, <1>3 DEF PipeMade
  <2>1. status'["prediction"] = "succeeded" => files'["predictions"] = "new"
    BY <1>0, <1>1 DEF PipeInv, PipeMade, PipeEnds
  <2>2. at' < 8 \/ (at' = 8 /\ pipePc' = "plan") => ~comparable'
    BY <1>0, <1>3 DEF PipeInv, PipeMade, PipeEnds
  <2>3. ASSUME comparable', pipePc' # "raised", at # 8
        PROVE  \/ "training" \in skip /\ "comparison" \in skip
               \/ files'["manifest"] = "new" /\ status'["comparison"] = "succeeded"
    <3>1. comparable /\ pipePc # "raised" BY <1>0, <2>3 DEF PipeEnds
    <3>2. files["manifest"] = "new" => files'["manifest"] = "new" BY <1>0 DEF PipeEnds
    <3>3. status'["comparison"] = status["comparison"] BY <1>0, <1>1, <2>3 DEF PipeEnds
    <3> QED BY <2>3, <3>1, <3>2, <3>3 DEF PipeInv, PipeMade
  <2>4. ASSUME comparable', pipePc' # "raised", at = 8
        PROVE  \/ "training" \in skip /\ "comparison" \in skip
               \/ files'["manifest"] = "new" /\ status'["comparison"] = "succeeded"
    BY <1>1, <2>4 DEF PipeEnds
  <2> QED BY <2>1, <2>2, <2>3, <2>4
<1>9. PipeRead'
  <2>1. SUFFICES ASSUME NEW r \in reads
                 PROVE  /\ trained' => r[2] = "new"
                        /\ Pipe!Piped =>
                             /\ r[1] = "predictions" => at' >= 5 /\ status'["prediction"] # "failed"
                             /\ r[1] = "thresholds" => at' >= 6 /\ "metrics" \in skip
                             /\ r[1] = "manifest" => at' >= 9 /\ status'["comparison"] # "failed"
    BY <1>2 DEF PipeInv, PipeRead, Pipe!Files
  <2>2. /\ r[1] \in Pipe!Files /\ (trained => r[2] = "new")
        /\ Pipe!Piped =>
             /\ r[1] = "predictions" => at >= 5 /\ status["prediction"] # "failed"
             /\ r[1] = "thresholds" => at >= 6 /\ "metrics" \in skip
             /\ r[1] = "manifest" => at >= 9 /\ status["comparison"] # "failed"
    BY DEF PipeInv, PipeRead
  <2>3. trained' => trained \/ (Pipe!Piped /\ at = 1) BY DEF PipeEnds
  <2>4. /\ at # 4 => status'["prediction"] = status["prediction"]
        /\ at # 8 => status'["comparison"] = status["comparison"]
    BY <1>0, <1>1 DEF PipeEnds
  <2> QED BY <1>0, <1>3, <2>2, <2>3, <2>4
<1>10. (Pipe!TrainingKept)' BY <1>3 DEF PipeEnds, Pipe!TrainingKept
<1> QED BY <1>4, <1>5, <1>6, <1>7, <1>8, <1>9, <1>10 DEF PipeInv

\* The outcome of a stage, with or without a failure to save it.
LEMMA PipeSet ==
  ASSUME PipeInv, NEW v \in {"none", "succeeded", "skipped", "warned", "failed"},
         NEW st, \/ st = [status EXCEPT ![Pipe!Stage] = v]
                 \/ st = [[status EXCEPT ![Pipe!Stage] = v] EXCEPT !["outcome"] = "failed"]
  PROVE  /\ st \in [Pipe!Stages \union {"outcome"} ->
                     {"none", "succeeded", "skipped", "warned", "failed"}]
         /\ st[Pipe!Stage] = v /\ \A s \in Pipe!Stages : s # Pipe!Stage => st[s] = status[s]
<1>1. /\ status \in [Pipe!Stages \union {"outcome"} ->
                      {"none", "succeeded", "skipped", "warned", "failed"}]
      /\ Pipe!Stage \in Pipe!Stages
  BY DEF PipeInv, PipeTypes, Pipe!TypeOK, Pipe!Stage, Pipe!Stages
<1>2. "outcome" \notin Pipe!Stages BY PipeOrder
<1> QED BY <1>1, <1>2

LEMMA PipePersisted ==
  ASSUME PipeInv, NEW v \in {"none", "succeeded", "skipped", "warned", "failed"},
         trained' \in BOOLEAN, Pipe!Persisted([status EXCEPT ![Pipe!Stage] = v])
  PROVE  /\ status' \in [Pipe!Stages \union {"outcome"} ->
                          {"none", "succeeded", "skipped", "warned", "failed"}]
         /\ status'[Pipe!Stage] = v
         /\ \A s \in Pipe!Stages : s # Pipe!Stage => status'[s] = status[s]
         /\ faults' \in 0..MaxFaults
         /\ \/ pipePc' = "plan" /\ at' = at + 1 /\ at # 10
            \/ pipePc' = "finalize" /\ at' = at /\ at = 10
            \/ pipePc' = "raised" /\ at' = at /\ ~trained'
<1> DEFINE st == [status EXCEPT ![Pipe!Stage] = v]
<1>1. faults \in 0..MaxFaults /\ MaxFaults \in Nat
  BY ResultsAssumption DEF PipeInv, PipeTypes, Pipe!TypeOK
<1>2. Pipe!Persisted(st) OBVIOUS
<1>3. status' = st \/ status' = [st EXCEPT !["outcome"] = "failed"]
  BY <1>2 DEF Pipe!Persisted, Pipe!Saved, Pipe!SaveFails
<1>4. faults' \in 0..MaxFaults
  BY <1>1, <1>2 DEF Pipe!Persisted, Pipe!Saved, Pipe!SaveFails
<1>5. \/ pipePc' = "plan" /\ at' = at + 1 /\ at # 10
      \/ pipePc' = "finalize" /\ at' = at /\ at = 10
      \/ pipePc' = "raised" /\ at' = at /\ ~trained'
  BY <1>2, PipeOrder DEF Pipe!Persisted, Pipe!Saved, Pipe!SaveFails, Pipe!Proceed
<1> HIDE DEF st
<1>6. /\ status' \in [Pipe!Stages \union {"outcome"} ->
                       {"none", "succeeded", "skipped", "warned", "failed"}]
      /\ status'[Pipe!Stage] = v
      /\ \A s \in Pipe!Stages : s # Pipe!Stage => status'[s] = status[s]
  BY <1>3, PipeSet DEF st
<1> QED BY <1>4, <1>5, <1>6

\* What the proofs about single actions start from.
LEMMA PipeFacts ==
  ASSUME PipeInv
  PROVE  /\ at \in 1..10 /\ faults \in 0..MaxFaults /\ MaxFaults \in Nat
         /\ files \in [Pipe!Files -> {"none", "old", "new"}]
         /\ status \in [Pipe!Stages \union {"outcome"} ->
                         {"none", "succeeded", "skipped", "warned", "failed"}]
         /\ trained \in BOOLEAN /\ fatal \in BOOLEAN /\ comparable \in BOOLEAN
         /\ Pipe!Stage \in Pipe!Stages
         /\ Pipe!Stage = "training" <=> at = 1
         /\ Pipe!Stage = "prediction" <=> at = 4
         /\ Pipe!Stage = "metrics" <=> at = 5
         /\ Pipe!Stage = "thresholds" <=> at = 6
         /\ Pipe!Stage = "threshold_publication" <=> at = 7
         /\ Pipe!Stage = "comparison" <=> at = 8
         /\ Pipe!Stage = "report" <=> at = 9
         /\ Pipe!Stage = "visualization" <=> at = 10
<1>1. /\ at \in 1..10 /\ faults \in 0..MaxFaults /\ MaxFaults \in Nat
      /\ files \in [Pipe!Files -> {"none", "old", "new"}]
      /\ status \in [Pipe!Stages \union {"outcome"} ->
                      {"none", "succeeded", "skipped", "warned", "failed"}]
      /\ trained \in BOOLEAN /\ fatal \in BOOLEAN /\ comparable \in BOOLEAN
  BY PipeOrder, ResultsAssumption DEF PipeInv, PipeTypes, Pipe!TypeOK
<1>2. Pipe!Stage \in Pipe!Stages BY <1>1, PipeOrder DEF Pipe!Stage, Pipe!Stages
<1> QED BY <1>1, <1>2, PipeOrder DEF Pipe!Stage

LEMMA PipeSkip ==
  ASSUME PipeInv, Pipe!Skip
  PROVE  PipeEnds
<1>1. /\ pipePc = "plan" /\ Pipe!Piped /\ Pipe!Applies
      /\ comparable' = IF Pipe!Stage = "comparison" THEN "training" \in skip /\ Pipe!Stage \in skip
                       ELSE comparable
      /\ UNCHANGED <<fatal, command, skip, files, reads, trained>>
      /\ Pipe!Persisted([status EXCEPT ![Pipe!Stage] = "skipped"])
  BY DEF Pipe!Skip, Pipe!Skipped
<1>2. /\ status' \in [Pipe!Stages \union {"outcome"} ->
                       {"none", "succeeded", "skipped", "warned", "failed"}]
      /\ status'[Pipe!Stage] = "skipped"
      /\ \A s \in Pipe!Stages : s # Pipe!Stage => status'[s] = status[s]
      /\ faults' \in 0..MaxFaults
      /\ \/ pipePc' = "plan" /\ at' = at + 1 /\ at # 10
         \/ pipePc' = "finalize" /\ at' = at /\ at = 10
         \/ pipePc' = "raised" /\ at' = at /\ ~trained'
  BY <1>1, PipeFacts, PipePersisted
<1>3. at = 7 => "metrics" \notin skip
  <2>1. at = 7 => status["metrics"] = "succeeded" BY <1>1, PipeFacts DEF Pipe!Applies
  <2>2. "metrics" \in skip => status["metrics"] # "succeeded"
    BY <1>1, PipeOrder DEF PipeInv, PipeSkipped
  <2> QED BY <2>1, <2>2
<1>4. comparable' \in BOOLEAN /\ (at = 8 /\ comparable' => "training" \in skip /\ "comparison" \in skip)
  BY <1>1, PipeFacts
<1>5. comparable' => \/ comparable
                     \/ at = 8 /\ pipePc = "plan" /\ "training" \in skip /\ "comparison" \in skip
  BY <1>1, PipeFacts
<1> QED BY <1>1, <1>2, <1>3, <1>4, <1>5, PipeFacts DEF PipeEnds

LEMMA PipeFinish ==
  ASSUME PipeInv, Pipe!Finish
  PROVE  PipeEnds
<1>1. /\ pipePc = "call" /\ todo = <<>>
      /\ trained' = (trained \/ Pipe!Stage = "training")
      /\ comparable' = (comparable /\ Pipe!Stage # "report")
      /\ UNCHANGED <<fatal, command, skip, files, reads>>
  BY DEF Pipe!Finish
<1>3. \A f : Written(f) => files[f] = "new" BY <1>1 DEF Written
<1>4. at = 4 => files["predictions"] = "new" BY <1>1, <1>3 DEF PipeInv, PipeEntered
<1>5. CASE Pipe!Piped
  <2>1. Pipe!Persisted([status EXCEPT ![Pipe!Stage] = Pipe!Result]) BY <1>5 DEF Pipe!Finish
  <2>2. Pipe!Result = IF at = 8 /\ ~comparable THEN "skipped" ELSE "succeeded"
    BY PipeFacts DEF Pipe!Result
  <2>3. trained' \in BOOLEAN BY <1>1
  <2>4. /\ status' \in [Pipe!Stages \union {"outcome"} ->
                         {"none", "succeeded", "skipped", "warned", "failed"}]
        /\ status'[Pipe!Stage] = Pipe!Result
        /\ \A s \in Pipe!Stages : s # Pipe!Stage => status'[s] = status[s]
        /\ faults' \in 0..MaxFaults
        /\ \/ pipePc' = "plan" /\ at' = at + 1 /\ at # 10
           \/ pipePc' = "finalize" /\ at' = at /\ at = 10
           \/ pipePc' = "raised" /\ at' = at /\ ~trained'
    BY <2>1, <2>2, <2>3, PipePersisted
  <2>5. /\ Pipe!Stage \notin skip /\ (at = 7 => "metrics" \notin skip)
        /\ at = 8 /\ comparable => files["manifest"] = "new"
    BY <1>1, <1>3, <1>5 DEF PipeInv, PipeEntered
  <2>6. trained' # trained => trained' /\ at = 1 /\ at' = 2 /\ "training" \notin skip
    <3>1. trained' # trained => trained' /\ at = 1 /\ Pipe!Stage = "training" BY <1>1, PipeFacts
    <3> QED BY <2>4, <2>5, <3>1
  <2> QED BY <1>1, <1>4, <1>5, <2>2, <2>4, <2>5, <2>6, PipeFacts DEF PipeEnds
<1>6. CASE ~Pipe!Piped
  <2>1. Pipe!Proceed /\ UNCHANGED <<status, faults>> BY <1>6 DEF Pipe!Finish
  <2>2. at # 1 BY <1>1, <1>6 DEF PipeInv, PipeEntered
  <2>3. trained' = trained BY <1>1, <2>2, PipeFacts
  <2>4. \/ pipePc' = "plan" /\ at' = at + 1 /\ at # 10
        \/ pipePc' = "finalize" /\ at' = at
    BY <2>1, PipeOrder DEF Pipe!Proceed
  <2> QED BY <1>1, <1>6, <2>1, <2>3, <2>4, PipeFacts DEF PipeEnds
<1> QED BY <1>5, <1>6

LEMMA PipeFails ==
  ASSUME PipeInv, Pipe!Raise \/ Pipe!Interrupt
  PROVE  PipeEnds
<1>1. /\ pipePc = "call" /\ todo # <<>> /\ UNCHANGED <<command, skip, trained, reads>>
      /\ faults' \in 0..MaxFaults
      /\ comparable' = comparable \/ (comparable' = FALSE /\ Pipe!Stage = "comparison")
  <2>1. CASE Pipe!Raise
    <3>1. faults' = faults \/ (faults < MaxFaults /\ faults' = faults + 1)
      BY <2>1 DEF Pipe!Raise
    <3>2. faults' \in 0..MaxFaults BY <3>1, PipeFacts
    <3> QED BY <2>1, <3>2, PipeFacts DEF Pipe!Raise
  <2>2. CASE Pipe!Interrupt
    <3>1. faults' \in 0..MaxFaults BY <2>2, PipeFacts DEF Pipe!Interrupt
    <3> QED BY <2>2, <3>1 DEF Pipe!Interrupt, Pipe!stageVars
  <2> QED BY <2>1, <2>2
<1>2. /\ Pipe!Piped => /\ Pipe!Stage \notin skip /\ (at = 7 => "metrics" \notin skip)
      /\ trained => Pipe!Wrapped
  BY <1>1, PipeFacts DEF PipeInv, PipeEntered, PipeTrained, Pipe!Wrapped
<1>3. /\ status' \in [Pipe!Stages \union {"outcome"} ->
                       {"none", "succeeded", "skipped", "warned", "failed"}]
      /\ \A s \in Pipe!Stages : s # Pipe!Stage => status'[s] = status[s]
      /\ status' = status \/ status'[Pipe!Stage] = "failed"
  <2>1. CASE status' = status BY <2>1, PipeFacts
  <2>2. CASE status' # status
    <3>1. \/ status' = [status EXCEPT ![Pipe!Stage] = "failed"]
          \/ status' = [[status EXCEPT ![Pipe!Stage] = "failed"] EXCEPT !["outcome"] = "failed"]
      BY <2>2 DEF Pipe!Raise, Pipe!Interrupt, Pipe!Failed
    <3> QED BY <3>1, PipeSet
  <2> QED BY <2>1, <2>2
<1>4. at = 4 /\ Pipe!Piped /\ status'[Pipe!Stage] = "succeeded" => status' = status BY <1>3
<1>5. /\ files' \in [Pipe!Files -> {"none", "old", "new"}]
      /\ \A f \in Pipe!Files : files[f] = "new" => files'[f] = "new"
  <2>1. files' = files \/ files' = [files EXCEPT ![Pipe!Call[2]] = "new"]
    BY DEF Pipe!Raise, Pipe!Interrupt, Pipe!Partly, Pipe!stageVars
  <2> QED BY <2>1, PipeFacts
<1>6. CASE Pipe!Raise
  <2>1. /\ fatal' = fatal /\ comparable' = (comparable /\ Pipe!Stage # "comparison")
        /\ IF Pipe!Wrapped /\ trained THEN Pipe!Proceed ELSE pipePc' = "raised" /\ UNCHANGED at
    BY <1>6 DEF Pipe!Raise, Pipe!Contain
  <2>2. \/ pipePc' = "plan" /\ at' = at + 1 /\ at # 10
        \/ pipePc' \in {"finalize", "raised"} /\ at' = at
    BY <2>1, PipeOrder DEF Pipe!Proceed
  <2>3. pipePc' = "raised" => ~trained
    BY <1>2, <2>1, PipeOrder DEF Pipe!Proceed
  <2> QED BY <1>1, <1>2, <1>3, <1>4, <1>5, <2>1, <2>2, <2>3, PipeFacts DEF PipeEnds
<1>7. CASE Pipe!Interrupt
  <2>1. /\ fatal' = (fatal \/ Pipe!Wrapped) /\ pipePc' = "raised" /\ UNCHANGED <<at, comparable>>
    BY <1>7 DEF Pipe!Interrupt, Pipe!stageVars
  <2> QED BY <1>1, <1>2, <1>3, <1>4, <1>5, <2>1, PipeFacts DEF PipeEnds
<1> QED BY <1>6, <1>7

LEMMA PipePasses ==
  ASSUME PipeInv, \/ Pipe!Pass \/ Pipe!FinishIssues
                  \/ Pipe!EnterBare /\ Pipe!Stage \notin Pipe!Bare[command]
  PROVE  PipeEnds
<1>1. /\ pipePc \in {"plan", "call"} /\ Pipe!Proceed
      /\ UNCHANGED <<command, skip, trained, reads, comparable, files, fatal, faults>>
      /\ pipePc = "call" => Pipe!Piped /\ Pipe!Stage = "report"
      /\ \/ status' = status /\ pipePc = "plan"
         \/ status' = [status EXCEPT !["report"] = "warned"] /\ pipePc = "call"
  BY DEF Pipe!Pass, Pipe!FinishIssues, Pipe!EnterBare, Pipe!stageVars
<1>2. /\ status' \in [Pipe!Stages \union {"outcome"} ->
                       {"none", "succeeded", "skipped", "warned", "failed"}]
      /\ \A s \in Pipe!Stages : s # Pipe!Stage => status'[s] = status[s]
  BY <1>1, PipeFacts, PipeSet
<1>3. /\ pipePc = "call" => Pipe!Stage \notin skip
      /\ pipePc = "plan" /\ Pipe!Piped /\ Pipe!Stage \in skip =>
           status[Pipe!Stage] \in {"none", "skipped"}
      /\ pipePc = "plan" /\ Pipe!Piped /\ at = 8 => ~comparable
  BY <1>1, PipeFacts DEF PipeInv, PipeEntered, PipeSkipped, PipeMade
<1>4. \/ pipePc' = "plan" /\ at' = at + 1 /\ at # 10
      \/ pipePc' = "finalize" /\ at' = at
  BY <1>1, PipeOrder DEF Pipe!Proceed
<1> QED BY <1>1, <1>2, <1>3, <1>4, PipeFacts DEF PipeEnds

\* Entering a stage.
LEMMA PipeEnter ==
  ASSUME PipeInv, BundleInv',
         Pipe!Enter \/ (Pipe!EnterBare /\ Pipe!Stage \in Pipe!Bare[command])
  PROVE  PipeInv'
<1>1. /\ pipePc = "plan" /\ pipePc' = "call" /\ todo' = Pipe!Calls[Pipe!Stage]
      /\ UNCHANGED <<at, status, fatal, faults, command, skip, trained, comparable, files, reads>>
  BY DEF Pipe!Enter, Pipe!EnterBare, Pipe!stageVars
<1>2. /\ (Pipe!Piped)' = Pipe!Piped /\ (Pipe!Stage)' = Pipe!Stage /\ PipeCalls' = PipeCalls
      /\ (Pipe!PredictionsReady)' = Pipe!PredictionsReady
  BY <1>1 DEF Pipe!Piped, Pipe!Stage, PipeCalls, Pipe!PredictionsReady, Pipe!Skipped
<1>3. /\ Pipe!Calls[Pipe!Stage] \in Seq(PipeCalls)
      /\ at = 4 => Written("predictions")'
  BY <1>1, PipeFacts, PipePlans DEF Written
<1>4. PipeTypes' BY <1>1, <1>2, <1>3 DEF PipeInv, PipeTypes, Pipe!TypeOK, BundleInv
<1>5. PipeEntered'
  <2>1. CASE Pipe!Enter
    <3>1. Pipe!Piped /\ Pipe!Applies /\ ~Pipe!Skips BY <2>1 DEF Pipe!Enter
    <3>2. /\ Pipe!Stage \notin skip /\ (at \in {5, 10} => Pipe!PredictionsReady)
          /\ at = 9 => comparable
      BY <3>1, PipeFacts DEF Pipe!Skips, Pipe!Skipped
    <3>3. at = 6 /\ "metrics" \in skip => "training" \in skip
      BY <3>1, PipeFacts DEF Pipe!Applies, Pipe!Skipped
    <3>4. at = 7 => status["metrics"] = "succeeded" BY <3>1, PipeFacts DEF Pipe!Applies
    <3>5. at = 7 => "metrics" \notin skip
      BY <3>1, <3>4, PipeOrder DEF PipeInv, PipeSkipped
    <3>6. at = 8 => ~comparable BY <1>1, <3>1 DEF PipeInv, PipeMade
    <3> QED BY <1>1, <1>2, <1>3, <3>1, <3>2, <3>3, <3>5, <3>6 DEF PipeEntered
  <2>2. CASE Pipe!EnterBare /\ Pipe!Stage \in Pipe!Bare[command]
    <3>1. ~Pipe!Piped BY <2>2 DEF Pipe!EnterBare
    <3>2. command \in Pipe!Commands BY <1>1 DEF PipeInv, PipeTypes
    <3>3. Pipe!Stage # "training" BY <2>2, <3>2 DEF Pipe!Bare, Pipe!Commands
    <3> QED BY <1>1, <1>2, <1>3, <3>1, <3>3, PipeFacts DEF PipeEntered
  <2> QED BY <2>1, <2>2
<1>6. PipeSkipped' /\ PipeTrained' /\ PipeRead'
  BY <1>1, <1>2 DEF PipeInv, PipeSkipped, PipeTrained, PipeRead, Pipe!Stages, Pipe!Files
<1>7. PipeMade' BY <1>1, <1>2, PipeFacts DEF PipeInv, PipeMade
<1>8. PipeIdle' /\ (Pipe!TrainingKept)' BY <1>1 DEF PipeIdle, Pipe!TrainingKept
<1> QED BY <1>4, <1>5, <1>6, <1>7, <1>8 DEF PipeInv

LEMMA PipeStart ==
  ASSUME PipeInv, Pipe!Start
  PROVE  PipeInv'
<1>1. /\ pipePc = "idle" /\ pipePc' = "plan" /\ command' \in Pipe!Commands
      /\ files' \in {[f \in Pipe!Files |-> "none"], [f \in Pipe!Files |-> "old"]}
      /\ producers' = (Pipe!Declared)'
      /\ UNCHANGED <<at, status, fatal, faults, trained, comparable, reads, completed, uploaded>>
  BY DEF Pipe!Start
<1>2. /\ at = 1 /\ reads = {} /\ ~trained /\ ~comparable /\ completed = {} /\ uploaded = {}
      /\ status = [s \in Pipe!Stages \union {"outcome"} |-> "none"]
  BY <1>1 DEF PipeInv, PipeIdle
<1>3. producers' = Pipe!Undeclared \/ producers' \subseteq Pipe!Producers
  BY <1>1 DEF Pipe!Declared, Pipe!Producers
<1>4. BundleInv' BY <1>1, <1>2, <1>3 DEF BundleInv, Pipe!AggregateWhole
<1>5. PipeTypes'
  BY <1>1, <1>2, <1>3, PipeFacts, PipeOrder DEF PipeInv, PipeTypes, Pipe!TypeOK
<1>6. \A s \in Pipe!Stages : status'[s] = "none" BY <1>1, <1>2
<1>7. PipeSkipped' /\ PipeMade'
  <2>1. {"prediction", "threshold_publication"} \subseteq Pipe!Stages BY PipeOrder
  <2> QED BY <1>1, <1>2, <1>6, <2>1 DEF PipeSkipped, PipeMade, Pipe!Stages
<1>8. PipeEntered' /\ PipeTrained' /\ PipeRead' /\ PipeIdle' /\ (Pipe!TrainingKept)'
  BY <1>1, <1>2
     DEF PipeEntered, PipeTrained, PipeRead, PipeIdle, Pipe!TrainingKept
<1> QED BY <1>4, <1>5, <1>7, <1>8 DEF PipeInv

LEMMA PipeFinalize ==
  ASSUME PipeInv, Pipe!Finalize
  PROVE  PipeInv'
<1>1. /\ pipePc = "finalize" /\ pipePc' \in {"returned", "raised"}
      /\ UNCHANGED <<at, fatal, command, skip, trained, comparable, files, reads>>
      /\ UNCHANGED Pipe!bundleVars
      /\ faults' \in 0..MaxFaults
      /\ status' = status \/ status' = [status EXCEPT !["outcome"] = "failed"]
  BY PipeFacts DEF Pipe!Finalize, Pipe!stageVars, Pipe!SaveFails
<1>2. BundleInv' BY <1>1, BundleStep DEF BundleCall, PipeInv
<1>3. /\ status' \in [Pipe!Stages \union {"outcome"} ->
                       {"none", "succeeded", "skipped", "warned", "failed"}]
      /\ \A s \in Pipe!Stages : status'[s] = status[s]
  BY <1>1, PipeFacts, PipeOrder
<1>4. (Pipe!Piped)' = Pipe!Piped BY <1>1 DEF Pipe!Piped
<1>5. PipeTypes' BY <1>1, <1>2, <1>3 DEF PipeInv, PipeTypes, Pipe!TypeOK, BundleInv
<1>6. PipeIdle' /\ PipeEntered' BY <1>1 DEF PipeIdle, PipeEntered
<1>7. PipeSkipped' /\ PipeTrained' /\ PipeMade' /\ PipeRead'
  <2>1. {"prediction", "comparison", "threshold_publication"} \subseteq Pipe!Stages BY PipeOrder
  <2>2. PipeSkipped' BY <1>1, <1>3, <1>4, <2>1 DEF PipeInv, PipeSkipped, Pipe!Stages
  <2>3. PipeTrained' BY <1>1, <1>4 DEF PipeInv, PipeTrained
  <2>4. PipeMade' BY <1>1, <1>3, <1>4, <2>1 DEF PipeInv, PipeMade
  <2>5. PipeRead' BY <1>1, <1>3, <1>4, <2>1 DEF PipeInv, PipeRead, Pipe!Files
  <2> QED BY <2>2, <2>3, <2>4, <2>5
<1>8. (Pipe!TrainingKept)'
  <2>1. (Pipe!Final)' = Pipe!Final BY <1>1 DEF Pipe!Final, Pipe!bundleVars
  <2>2. pipePc' = "raised" => ~trained BY DEF Pipe!Finalize
  <2>3. pipePc' = "returned" =>
          \/ Pipe!Final /\ (told' = Pipe!Piped)
          \/ status' = [status EXCEPT !["outcome"] = "failed"]
    BY <1>1 DEF Pipe!Finalize, Pipe!SaveFails
  <2>4. status' = [status EXCEPT !["outcome"] = "failed"] =>
          status'["outcome"] = "failed" /\ "outcome" \in DOMAIN status'
    BY PipeFacts
  <2> QED BY <1>1, <1>4, <2>1, <2>2, <2>3, <2>4 DEF Pipe!TrainingKept
<1> QED BY <1>2, <1>5, <1>6, <1>7, <1>8 DEF PipeInv

\* A call that does what it should.
LEMMA PipeCalling ==
  ASSUME PipeInv,
         \/ Pipe!CallDeclare \/ Pipe!CallTruth \/ Pipe!CallRead \/ Pipe!CallWrite
         \/ Pipe!CallRegister \/ Pipe!CallPublish \/ Pipe!CallComplete \/ Pipe!CallBaseline
         \/ Pipe!CallUpload \/ Pipe!CallShow \/ Pipe!CallOther
  PROVE  PipeInv'
<1>1. pipePc = "call" /\ todo # <<>>
  <2>1. pipePc = "call" /\ Pipe!Call[1] # "none"
    BY DEF Pipe!CallDeclare, Pipe!CallTruth, Pipe!CallRead, Pipe!CallWrite, Pipe!CallRegister,
           Pipe!CallPublish, Pipe!CallComplete, Pipe!CallBaseline, Pipe!CallUpload, Pipe!CallShow,
           Pipe!CallOther, Pipe!Calling
  <2> QED BY <2>1 DEF Pipe!Call
<1>2. Pipe!Call \in PipeCalls BY <1>1, PipeHead DEF PipeInv, PipeTypes
<1>3. Pipe!Call[1] \in {"declare", "complete"} => Pipe!Call[2] \in Pipe!Producers
  BY <1>2, PipeFacts, PipeOf
<1>4. CASE Pipe!CallDeclare
  <2>1. /\ {Pipe!Call[2]} \in SUBSET Pipe!Producers /\ Pipe!Declare({Pipe!Call[2]})
        /\ UNCHANGED <<comparable, files, reads, trained>> /\ Pipe!Advance /\ Pipe!Call[1] = "declare"
    BY <1>3, <1>4 DEF Pipe!CallDeclare, Pipe!Calling
  <2>2. BundleInv' BY <2>1, BundleStep DEF BundleCall, PipeInv
  <2>3. PipeAdvance BY <1>1, <2>1 DEF PipeAdvance, Pipe!Advance
  <2> QED BY <2>2, <2>3, PipeAdvanceStep
<1>5. CASE Pipe!CallTruth
  <2>1. /\ \E t : Pipe!SetTruth(t)
        /\ UNCHANGED <<comparable, files, reads, trained>> /\ Pipe!Advance /\ Pipe!Call[1] = "truth"
    BY <1>5 DEF Pipe!CallTruth, Pipe!Calling
  <2>2. BundleInv' BY <2>1, BundleStep DEF BundleCall, PipeInv
  <2>3. PipeAdvance BY <1>1, <2>1 DEF PipeAdvance, Pipe!Advance
  <2> QED BY <2>2, <2>3, PipeAdvanceStep
<1>6. CASE Pipe!CallRead \/ Pipe!CallWrite \/ Pipe!CallShow \/ Pipe!CallOther
  <2>1. UNCHANGED Pipe!bundleVars
    BY <1>6 DEF Pipe!CallRead, Pipe!CallWrite, Pipe!CallShow, Pipe!CallOther
  <2>2. BundleInv' BY <2>1, BundleStep DEF BundleCall, PipeInv
  <2>3. PipeAdvance
    <3>1. CASE Pipe!CallRead
      BY <1>1, <3>1 DEF PipeAdvance, Pipe!Advance, Pipe!CallRead, Pipe!Calling
    <3>2. CASE Pipe!CallWrite
      BY <1>1, <3>2 DEF PipeAdvance, Pipe!Advance, Pipe!CallWrite, Pipe!Calling
    <3>3. CASE Pipe!CallShow
      BY <1>1, <3>3 DEF PipeAdvance, Pipe!Advance, Pipe!CallShow, Pipe!Calling
    <3>4. CASE Pipe!CallOther
      BY <1>1, <3>4 DEF PipeAdvance, Pipe!Advance, Pipe!CallOther
    <3> QED BY <1>6, <3>1, <3>2, <3>3, <3>4
  <2> QED BY <2>2, <2>3, PipeAdvanceStep
<1>7. CASE Pipe!CallRegister
  <2>1. /\ \E t, C : Pipe!MayRegister(t) /\ Pipe!Register(t, C)
        /\ UNCHANGED <<comparable, files, reads, trained>> /\ Pipe!Advance /\ Pipe!Call[1] = "register"
    BY <1>7 DEF Pipe!CallRegister, Pipe!Calling
  <2>2. BundleInv' BY <2>1, BundleStep DEF BundleCall, PipeInv
  <2>3. PipeAdvance BY <1>1, <2>1 DEF PipeAdvance, Pipe!Advance
  <2> QED BY <2>2, <2>3, PipeAdvanceStep
<1>8. CASE Pipe!CallPublish
  <2>1. /\ Pipe!MayPublish(Pipe!Effective, Pipe!Context)
        /\ Pipe!PublishEvaluation(Pipe!Effective, Pipe!Context, Pipe!Dashboards(Pipe!Context))
        /\ UNCHANGED <<comparable, files, reads, trained>> /\ Pipe!Advance
        /\ Pipe!Call[1] \in {"score", "publish"}
    BY <1>8 DEF Pipe!CallPublish
  <2>2. BundleInv' BY <2>1, BundleStep DEF BundleCall, PipeInv
  <2>3. PipeAdvance BY <1>1, <2>1 DEF PipeAdvance, Pipe!Advance
  <2> QED BY <2>2, <2>3, PipeAdvanceStep
<1>9. CASE Pipe!CallComplete
  <2>1. /\ Pipe!MayComplete(Pipe!Call[2]) /\ Pipe!Complete(Pipe!Call[2], TRUE)
        /\ UNCHANGED <<comparable, files, reads, trained>> /\ Pipe!Advance
        /\ Pipe!Call[1] = "complete" /\ Pipe!Call[2] \in Pipe!Producers
    BY <1>3, <1>9 DEF Pipe!CallComplete, Pipe!Calling
  <2>2. BundleInv' BY <2>1, BundleStep DEF BundleCall, PipeInv
  <2>3. PipeAdvance BY <1>1, <2>1 DEF PipeAdvance, Pipe!Advance
  <2> QED BY <2>2, <2>3, PipeAdvanceStep
<1>10. CASE Pipe!CallBaseline
  <2>1. UNCHANGED Pipe!bundleVars BY <1>10 DEF Pipe!CallBaseline
  <2>2. BundleInv' BY <2>1, BundleStep DEF BundleCall, PipeInv
  <2>3. PipeAdvance BY <1>1, <1>10 DEF PipeAdvance, Pipe!CallBaseline, Pipe!Calling
  <2> QED BY <2>2, <2>3, PipeAdvanceStep
<1>11. CASE Pipe!CallUpload
  <2>1. /\ uploaded' = uploaded \union Pipe!Workbooks
        /\ UNCHANGED <<producers, completed, pipeTruth, contexts, aggregate>>
        /\ UNCHANGED <<comparable, files, reads, trained>> /\ Pipe!Advance
        /\ Pipe!Call[1] \in {"workbook", "render"}
    BY <1>11 DEF Pipe!CallUpload
  <2>2. BundleInv' BY <2>1, BundleStep DEF BundleCall, PipeInv
  <2>3. PipeAdvance BY <1>1, <2>1 DEF PipeAdvance, Pipe!Advance
  <2> QED BY <2>2, <2>3, PipeAdvanceStep
<1> QED BY <1>4, <1>5, <1>6, <1>7, <1>8, <1>9, <1>10, <1>11

LEMMA PipeStep ==
  ASSUME PipeInv, [Pipe!Next]_(Pipe!vars)
  PROVE  PipeInv'
<1>1. CASE Pipe!Start BY <1>1, PipeStart
<1>2. CASE \/ Pipe!CallDeclare \/ Pipe!CallTruth \/ Pipe!CallRead \/ Pipe!CallWrite
           \/ Pipe!CallRegister \/ Pipe!CallPublish \/ Pipe!CallComplete \/ Pipe!CallBaseline
           \/ Pipe!CallUpload \/ Pipe!CallShow \/ Pipe!CallOther
  BY <1>2, PipeCalling
<1>3. CASE \/ Pipe!Enter \/ Pipe!Skip \/ Pipe!Pass \/ Pipe!EnterBare \/ Pipe!Finish
           \/ Pipe!FinishIssues \/ Pipe!Interrupt
  <2>1. UNCHANGED Pipe!bundleVars
    BY <1>3
       DEF Pipe!Enter, Pipe!Skip, Pipe!Pass, Pipe!EnterBare, Pipe!Finish, Pipe!FinishIssues,
           Pipe!Interrupt
  <2>2. BundleInv' BY <2>1, BundleStep DEF BundleCall, PipeInv
  <2>3. CASE Pipe!Enter \/ (Pipe!EnterBare /\ Pipe!Stage \in Pipe!Bare[command])
    BY <2>2, <2>3, PipeEnter
  <2>4. CASE ~(Pipe!Enter \/ (Pipe!EnterBare /\ Pipe!Stage \in Pipe!Bare[command]))
    <3>1. PipeEnds BY <1>3, <2>4, PipeSkip, PipePasses, PipeFinish, PipeFails
    <3> QED BY <2>2, <3>1, PipeEndsStep
  <2> QED BY <2>3, <2>4
<1>4. CASE Pipe!Raise
  <2>1. pipePc = "call" /\ todo # <<>> BY <1>4 DEF Pipe!Raise
  <2>2. Pipe!Call \in PipeCalls BY <2>1, PipeHead DEF PipeInv, PipeTypes
  <2>3. Pipe!Call[1] = "complete" => Pipe!Call[2] \in Pipe!Producers BY <2>2, PipeFacts, PipeOf
  <2>4. \/ UNCHANGED Pipe!bundleVars
        \/ /\ Pipe!Call[1] = "complete" /\ Pipe!MayComplete(Pipe!Call[2])
           /\ Pipe!Complete(Pipe!Call[2], FALSE)
        \/ /\ Pipe!MayPublish(Pipe!Effective, Pipe!Context)
           /\ Pipe!PublishEvaluation(Pipe!Effective, Pipe!Context, {})
    BY <1>4 DEF Pipe!Raise, Pipe!Partly
  <2>5. BundleCall BY <2>3, <2>4 DEF BundleCall
  <2>6. BundleInv' BY <2>5, BundleStep DEF PipeInv
  <2> QED BY <1>4, <2>6, PipeFails, PipeEndsStep
<1>5. CASE Pipe!Finalize BY <1>5, PipeFinalize
<1>6. CASE UNCHANGED Pipe!vars
  <2>1. /\ UNCHANGED <<pipePc, at, todo, status, fatal, told, faults>>
        /\ UNCHANGED <<command, skip, trained, ready, comparable, files, reads>>
        /\ UNCHANGED <<producers, completed, contexts, aggregate, pipeExpected, uploaded>>
    BY <1>6 DEF Pipe!vars, Pipe!stageVars, Pipe!bundleVars
  <2>2. PipeCalls' = PipeCalls BY <2>1 DEF PipeCalls
  <2>3. PipeTypes' /\ PipeIdle' /\ BundleInv'
    BY <2>1, <2>2
       DEF PipeInv, PipeTypes, PipeIdle, BundleInv, Pipe!TypeOK, Pipe!AggregateWhole
  <2>4. PipeEntered'
    BY <2>1
       DEF PipeInv, PipeEntered, Written, Pipe!Piped, Pipe!Stage, Pipe!PredictionsReady, Pipe!Skipped
  <2>5. PipeSkipped' /\ PipeTrained' /\ PipeMade' /\ PipeRead'
    BY <2>1
       DEF PipeInv, PipeSkipped, PipeTrained, PipeMade, PipeRead, Pipe!Piped, Pipe!Stages, Pipe!Files
  <2>6. (Pipe!TrainingKept)' BY <2>1 DEF PipeInv, Pipe!TrainingKept, Pipe!Final, Pipe!Piped
  <2> QED BY <2>3, <2>4, <2>5, <2>6 DEF PipeInv
<1> QED BY <1>1, <1>2, <1>3, <1>4, <1>5, <1>6 DEF Pipe!Next

LEMMA PipeInit ==
  ASSUME Pipe!Init
  PROVE  PipeInv
<1>1. /\ command = "none" /\ pipePc = "idle" /\ at = 1 /\ ~trained /\ fatal = FALSE /\ comparable = FALSE
      /\ status = [s \in Pipe!Stages \union {"outcome"} |-> "none"]
      /\ files = [f \in Pipe!Files |-> "none"] /\ reads = {} /\ faults = 0
      /\ producers = Pipe!Undeclared /\ completed = {} /\ uploaded = {} /\ trained = FALSE
  BY DEF Pipe!Init, Pipe!BundleInit
<1>2. PipeTypes
  <2>1. at \in DOMAIN Pipe!Order BY <1>1, PipeOrder
  <2>2. faults \in 0..MaxFaults BY <1>1, ResultsAssumption
  <2>3. /\ status \in [Pipe!Stages \union {"outcome"} ->
                        {"none", "succeeded", "skipped", "warned", "failed"}]
        /\ files \in [Pipe!Files -> {"none", "old", "new"}]
    BY <1>1
  <2>4. Pipe!TypeOK BY <1>1, <2>1, <2>2, <2>3 DEF Pipe!TypeOK
  <2> QED BY <1>1, <2>4 DEF PipeTypes
<1>3. ~Pipe!Piped BY <1>1 DEF Pipe!Piped
<1> QED BY <1>1, <1>2, <1>3
        DEF PipeInv, PipeIdle, PipeEntered, PipeSkipped, PipeTrained, PipeMade, PipeRead, BundleInv,
            Pipe!AggregateWhole, Pipe!TrainingKept

(***************************************************************************)
(* Whatever fails, in whatever stage and however often: no file of a       *)
(* failed stage or of an earlier attempt is read after training,           *)
(* predicts_csv is published whole, and a trained model survives all but   *)
(* an interruption.  (_PipelineStages, use_cases/pipeline.py;              *)
(* _ResultBundle, results.py)                                              *)
(***************************************************************************)
THEOREM Results == Spec => []ResultsHonest
<1> DEFINE Inv == focus = "pipeline" => PipeInv
<1>1. Init => Inv BY PipeInit DEF Init
<1>2. Inv /\ [Next]_vars => Inv' BY InFocus, PipeStep
<1>3. Inv => ResultsHonest
  <2>1. ASSUME PipeInv PROVE Pipe!FreshInputs
    <3>1. SUFFICES ASSUME NEW r \in reads, Pipe!Piped
                   PROVE  status[Pipe!Producer[r[1]]] \in {"none", "skipped", "succeeded", "warned"}
      BY <2>1 DEF PipeInv, PipeRead, Pipe!FreshInputs
    <3>2. /\ r[1] \in {"predictions", "thresholds", "manifest"}
          /\ r[1] = "predictions" => status["prediction"] # "failed"
          /\ r[1] = "thresholds" => status["threshold_publication"] = "none"
          /\ r[1] = "manifest" => status["comparison"] # "failed"
      BY <2>1, <3>1 DEF PipeInv, PipeRead, PipeSkipped, Pipe!Files
    <3>3. /\ status["prediction"] \in {"none", "succeeded", "skipped", "warned", "failed"}
          /\ status["comparison"] \in {"none", "succeeded", "skipped", "warned", "failed"}
      BY <2>1, PipeFacts, PipeOrder
    <3> QED BY <3>2, <3>3 DEF Pipe!Producer
  <2> QED BY <2>1 DEF ResultsHonest, Pipe!ResultsHonest, PipeInv, PipeTypes, BundleInv
<1> QED BY <1>1, <1>2, <1>3, PTL DEF Spec

-----------------------------------------------------------------------------
(* A configuration file and its copy (ConfigurationFiles) *)

FileDocument(fields) ==
  DOMAIN fields \subseteq Settings /\ \A k \in DOMAIN fields : fields[k] \in Text
FileEnds(value) == ConfigFile!IsSuffix(ConfigFile!Redacted, value)

LEMMA FileChain ==
  ASSUME NEW root, NEW field, NEW c \in ConfigFile!Chains(root, field)
  PROVE  /\ c \in Seq(Settings) /\ Len(c) \in Nat \ {0} /\ c[1] = field
         /\ \A i \in 1..(Len(c) - 1) : c[i + 1] \in ConfigFile!Target(root, c[i])
<1>1. PICK n \in 1..Cardinality(Settings) : c \in [1..n -> Settings]
  BY DEF ConfigFile!Chains, ConfigFile!Cardinality, Cardinality
<1>2. IsFiniteSet(Settings) BY ResultsAssumption
<1>3. n \in Nat \ {0} BY <1>2, FS_CardinalityType
<1>4. c \in Seq(Settings) BY <1>1, <1>3
<1>5. Len(c) = n BY <1>1, <1>3, <1>4
<1> QED BY <1>3, <1>4, <1>5 DEF ConfigFile!Chains

\* How a text is read: it is no escaped reference afterwards, and words, and
\* texts without one, are read as they stand.
LEMMA FileText ==
  ASSUME NEW t \in Text
  PROVE  /\ t \in Seq(Marks) /\ Len(t) \in Nat \ {0} /\ t[Len(t)] \in Marks
         /\ t[Len(t)] \notin Settings => ConfigFile!Sign(t) = "in"
         /\ ConfigFile!Reads(t) \in Text /\ ~ConfigFile!Escaped(ConfigFile!Reads(t))
         /\ ~ConfigFile!Escaped(t) => ConfigFile!Reads(t) = t
<1>1. t \in Seq(Marks) /\ Len(t) \in Nat \ {0} /\ t[Len(t)] \in Marks BY DEF Text
<1>2. t[Len(t)] \notin Settings => ConfigFile!Sign(t) = "in"
  BY <1>1 DEF Text, ConfigFile!Sign
<1>3. CASE ~ConfigFile!Escaped(t) BY <1>1, <1>2, <1>3 DEF ConfigFile!Reads
<1>4. CASE ConfigFile!Escaped(t)
  <2> DEFINE n == Len(t)
             u == [t EXCEPT ![n - 1] = "refers"]
             Mark(i) == IF i = n - 1 THEN "refers" ELSE t[i]
  <2>1. n > 1 /\ t[n - 1] = "escaped" BY <1>4 DEF ConfigFile!Escaped, ConfigFile!Sign
  <2>2. "refers" \in Marks /\ "refers" \in Signs BY DEF Marks, Signs
  <2>3. u \in Seq(Marks) /\ Len(u) = n /\ u[n - 1] = "refers"
        /\ \A i \in 1..n : i # n - 1 => u[i] = t[i]
    <3>1. DOMAIN t = 1..n /\ \A i \in 1..n : t[i] \in Marks BY <1>1
    <3>2. u = [i \in 1..n |-> Mark(i)] BY <3>1
    <3>3. \A i \in 1..n : Mark(i) \in Marks BY <2>2, <3>1
    <3>4. n \in Nat /\ n - 1 \in 1..n BY <1>1, <2>1
    <3>5. Mark(n - 1) = "refers" /\ \A i \in 1..n : i # n - 1 => Mark(i) = t[i] OBVIOUS
    <3> HIDE DEF u, Mark, n
    <3>6. u \in [1..n -> Marks] BY <3>2, <3>3
    <3>7. u \in Seq(Marks) /\ Len(u) = n BY <3>4, <3>6
    <3>8. \A i \in 1..n : u[i] = Mark(i) BY <3>2
    <3> QED BY <3>4, <3>5, <3>7, <3>8
  <2>4. t[n] \in Settings
    <3>1. n - 1 \in 1..(n - 1) BY <1>1, <2>1
    <3>2. t[n - 1] = "in" \/ t[n] \in Settings BY <3>1 DEF Text
    <3> QED BY <2>1, <3>2
  <2> HIDE DEF u
  <2>5. u \in Text BY <1>1, <2>1, <2>2, <2>3, <2>4 DEF Text
  <2>6. ~ConfigFile!Escaped(u) BY <2>1, <2>3 DEF ConfigFile!Escaped, ConfigFile!Sign
  <2>7. ConfigFile!Reads(t) = u BY <1>4 DEF ConfigFile!Reads, u
  <2> QED BY <1>1, <1>2, <1>4, <2>5, <2>6, <2>7
<1> QED BY <1>3, <1>4

\* Texts around a text leave it what it is.
LEMMA FileWrap ==
  ASSUME NEW n \in Nat, NEW t \in Text
  PROVE  LET w == [i \in 1..n |-> "in"] \o t
         IN  w \in Text /\ ConfigFile!Sign(w) = ConfigFile!Sign(t)
<1> DEFINE ins == [i \in 1..n |-> "in"]
           w == ins \o t
<1>1. t \in Seq(Marks) /\ Len(t) \in Nat \ {0} BY FileText
<1>2. ins \in Seq(Marks) /\ Len(ins) = n /\ \A i \in 1..n : ins[i] = "in" BY DEF Marks
<1> HIDE DEF ins
<1>3. /\ w \in Seq(Marks) /\ Len(w) = n + Len(t)
      /\ \A i \in 1..n : w[i] = "in"
      /\ \A i \in 1..Len(t) : w[n + i] = t[i]
  BY <1>1, <1>2
<1> HIDE DEF w
<1>4. w[Len(w)] = t[Len(t)] BY <1>1, <1>3
<1>5. \A i \in 1..(Len(w) - 1) : i > n => w[i] = t[i - n] /\ i - n \in 1..(Len(t) - 1)
  BY <1>1, <1>3
<1>6. \A i \in 1..(Len(w) - 1) : i <= n => w[i] = "in" BY <1>1, <1>3
<1>7. \A i \in 1..(Len(w) - 1) :
        w[i] = "in" \/ (i = Len(w) - 1 /\ w[i] \in Signs /\ w[Len(w)] \in Settings)
  <2> SUFFICES ASSUME NEW i \in 1..(Len(w) - 1), i > n
               PROVE  w[i] = "in" \/ (i = Len(w) - 1 /\ w[i] \in Signs /\ w[Len(w)] \in Settings)
    BY <1>1, <1>3, <1>6
  <2>1. t[i - n] = "in" \/ (i - n = Len(t) - 1 /\ t[i - n] \in Signs /\ t[Len(t)] \in Settings)
    BY <1>5 DEF Text
  <2> QED BY <1>1, <1>3, <1>4, <1>5, <2>1
<1>8. ConfigFile!Sign(w) = ConfigFile!Sign(t)
  <2>1. CASE Len(t) > 1
    <3>1. w[Len(w) - 1] = t[Len(t) - 1] /\ Len(w) > 1 BY <1>1, <1>3, <2>1
    <3> QED BY <2>1, <3>1 DEF ConfigFile!Sign
  <2>2. CASE Len(t) = 1
    <3>1. Len(w) > 1 => w[Len(w) - 1] = "in" BY <1>1, <1>3, <2>2
    <3> QED BY <2>2, <3>1 DEF ConfigFile!Sign
  <2> DEFINE n1 == Len(t)
  <2>3. n1 \in Nat \ {0} BY <1>1
  <2> HIDE DEF n1
  <2>4. n1 > 1 \/ n1 = 1 BY <2>3
  <2> QED BY <2>1, <2>2, <2>4 DEF n1
<1>9. t[Len(t)] \in Settings => Len(w) > 1 /\ w[Len(w) - 1] \in Signs
  <2> SUFFICES ASSUME t[Len(t)] \in Settings PROVE Len(w) > 1 /\ w[Len(w) - 1] \in Signs
    OBVIOUS
  <2>1. Len(t) > 1 /\ t[Len(t) - 1] \in Signs BY DEF Text
  <2> QED BY <1>1, <1>3, <2>1
<1>10. w \in Text
  <2>1. Len(w) > 0 /\ w # <<>> BY <1>1, <1>3
  <2>2. t[Len(t)] \notin Signs \union {"in"} BY DEF Text
  <2>3. w[Len(w)] \notin Signs \union {"in"} BY <1>4, <2>2
  <2>4. w[Len(w)] \in Settings => Len(w) > 1 /\ w[Len(w) - 1] \in Signs BY <1>4, <1>9
  <2> QED BY <1>3, <1>7, <2>1, <2>3, <2>4 DEF Text
<1> QED BY <1>8, <1>10 DEF w, ins

\* A field that is not refused has a text, and no escape; a text without a
\* reference or an escape is read as it stands.
LEMMA FileValue ==
  ASSUME NEW root, FileDocument(root), NEW field \in Settings
  PROVE  /\ ConfigFile!ValueOf(root, field) \in Text
         /\ ~ConfigFile!Escaped(ConfigFile!ValueOf(root, field))
         /\ ConfigFile!Literal(root, field) /\ ~ConfigFile!Escaped(root[field]) =>
              ConfigFile!ValueOf(root, field) = root[field]
<1> DEFINE ends == ConfigFile!Ends(root, field)
           chain == CHOOSE c \in ends : TRUE
           around == ConfigFile!Around(root, chain)
           count == ConfigFile!Cardinality(around)
           last == ConfigFile!Reads(root[ConfigFile!Last(chain)])
<1>1. ConfigFile!ValueOf(root, field) =
        IF ends = {} THEN <<"???">> ELSE [i \in 1..count |-> "in"] \o last
  BY DEF ConfigFile!ValueOf, ConfigFile!Unresolved
<1>2. count = Cardinality(around) BY DEF ConfigFile!Cardinality, Cardinality
<1>3. ASSUME ends # {}
      PROVE  /\ chain \in ConfigFile!Chains(root, field)
             /\ chain \in Seq(Settings) /\ Len(chain) \in Nat \ {0} /\ chain[1] = field
             /\ root[ConfigFile!Last(chain)] \in Text
             /\ count \in Nat
  <2>1. chain \in ends BY <1>3
  <2>2. chain \in ConfigFile!Chains(root, field) /\ ConfigFile!Literal(root, chain[Len(chain)])
    BY <2>1 DEF ConfigFile!Ends
  <2> HIDE DEF chain
  <2>3. chain \in Seq(Settings) /\ Len(chain) \in Nat \ {0} /\ chain[1] = field BY <2>2, FileChain
  <2>4. root[ConfigFile!Last(chain)] \in Text
    BY <2>2 DEF ConfigFile!Literal, ConfigFile!Last, FileDocument
  <2>5. IsFiniteSet(around)
    <3> DEFINE I == 1..(Len(chain) - 1)
               Part(i) == {i} \X (1..(Len(root[chain[i]]) - 2))
               parts == {Part(i) : i \in I}
               part == [i \in I |-> Part(i)]
    <3>1. IsFiniteSet(I) BY <2>3, FS_Interval
    <3>2. part \in Surjection(I, parts) BY DEF Surjection
    <3>3. IsFiniteSet(parts)
      <4> HIDE DEF part, parts, I
      <4> QED BY <3>1, <3>2, FS_Surjection
    <3>4. \A i \in I : IsFiniteSet(Part(i))
      <4> SUFFICES ASSUME NEW i \in I PROVE IsFiniteSet(Part(i)) OBVIOUS
      <4>1. chain[i + 1] \in ConfigFile!Target(root, chain[i])
        BY <2>2 DEF ConfigFile!Chains
      <4>2. root[chain[i]] \in Text BY <4>1 DEF ConfigFile!Target, FileDocument
      <4>3. Len(root[chain[i]]) \in Nat BY <4>2, FileText
      <4>4. IsFiniteSet(1..(Len(root[chain[i]]) - 2))
        <5>1. 1 \in Int /\ Len(root[chain[i]]) - 2 \in Int BY <4>3
        <5> QED BY <5>1, FS_Interval
      <4>5. IsFiniteSet({i}) BY FS_Singleton
      <4> QED BY <4>4, <4>5, FS_Product
    <3>5. \A T \in parts : IsFiniteSet(T)
      <4> HIDE DEF I
      <4> QED BY <3>4
    <3>6. around = UNION parts BY DEF ConfigFile!Around
    <3> HIDE DEF around, parts
    <3> QED BY <3>3, <3>5, <3>6, FS_UNION
  <2>6. count \in Nat
    <3> HIDE DEF around
    <3> QED BY <1>2, <2>5, FS_CardinalityType
  <2> QED BY <2>2, <2>3, <2>4, <2>6
<1>4. ConfigFile!ValueOf(root, field) \in Text /\ ~ConfigFile!Escaped(ConfigFile!ValueOf(root, field))
  <2>1. CASE ends = {}
    <3>1. <<"???">> \in Text /\ ~ConfigFile!Escaped(<<"???">>)
      BY ResultsAssumption DEF Text, Marks, Signs, ConfigFile!Escaped, ConfigFile!Sign
    <3> HIDE DEF ends, count, last
    <3> QED BY <1>1, <2>1, <3>1
  <2>2. CASE ends # {}
    <3>1. count \in Nat /\ root[ConfigFile!Last(chain)] \in Text BY <1>3, <2>2
    <3> HIDE DEF ends, count, chain
    <3>2. last \in Text /\ ~ConfigFile!Escaped(last) BY <3>1, FileText
    <3> HIDE DEF last
    <3>3. LET w == [i \in 1..count |-> "in"] \o last
          IN  w \in Text /\ ConfigFile!Sign(w) = ConfigFile!Sign(last)
      BY <3>1, <3>2, FileWrap
    <3> QED BY <1>1, <2>2, <3>2, <3>3 DEF ConfigFile!Escaped
  <2> QED BY <2>1, <2>2
<1>5. ASSUME ConfigFile!Literal(root, field), ~ConfigFile!Escaped(root[field])
      PROVE  ConfigFile!ValueOf(root, field) = root[field]
  <2>1. <<field>> \in ConfigFile!Chains(root, field)
    <3>1. Cardinality(Settings) \in Nat /\ Cardinality(Settings) # 0
      BY ResultsAssumption, FS_CardinalityType, FS_EmptySet
    <3>2. 1 \in 1..Cardinality(Settings) BY <3>1
    <3>3. <<field>> \in [1..1 -> Settings] /\ Len(<<field>>) = 1 /\ <<field>>[1] = field OBVIOUS
    <3>4. <<field>> \in UNION {[1..n -> Settings] : n \in 1..Cardinality(Settings)} BY <3>2, <3>3
    <3>5. \A i \in 1..(Len(<<field>>) - 1) :
            <<field>>[i + 1] \in ConfigFile!Target(root, <<field>>[i])
      BY <3>3
    <3> QED BY <3>3, <3>4, <3>5 DEF ConfigFile!Chains, ConfigFile!Cardinality, Cardinality
  <2>2. <<field>> \in ends BY <1>5, <2>1 DEF ConfigFile!Ends
  <2>3. ends # {} BY <2>2
  <2>4. Len(chain) = 1
    <3>1. \A i \in 1..(Len(chain) - 1) : chain[i + 1] \in ConfigFile!Target(root, chain[i])
      BY <1>3, <2>3 DEF ConfigFile!Chains
    <3>2. ConfigFile!Target(root, field) = {} BY <1>5 DEF ConfigFile!Target, ConfigFile!Literal
    <3>3. chain[1] = field /\ Len(chain) \in Nat \ {0} BY <1>3, <2>3
    <3> HIDE DEF chain
    <3>4. Len(chain) # 1 => chain[1 + 1] \in ConfigFile!Target(root, chain[1])
      <4>1. Len(chain) # 1 => 1 \in 1..(Len(chain) - 1) BY <3>3
      <4> QED BY <3>1, <4>1
    <3> QED BY <3>2, <3>3, <3>4
  <2>5. around = {}
    <3> HIDE DEF chain
    <3>1. 1..(Len(chain) - 1) = {} BY <2>4
    <3> QED BY <3>1 DEF ConfigFile!Around
  <2>6. count = 0 BY <1>2, <2>5, FS_EmptySet
  <2>7. ConfigFile!Last(chain) = field BY <1>3, <2>3, <2>4 DEF ConfigFile!Last
  <2>8. root[field] \in Text /\ last = root[field] BY <1>3, <1>5, <2>3, <2>7, FileText
  <2> HIDE DEF ends, chain, around, count, last
  <2> DEFINE none == [i \in 1..count |-> "in"]
             text == root[field]
             all == none \o text
  <2>9. none \in Seq(Marks) /\ Len(none) = 0 BY <2>6
  <2>10. text \in Seq(Marks) BY <2>8, FileText
  <2>11. ConfigFile!ValueOf(root, field) = all BY <1>1, <2>3, <2>8
  <2> HIDE DEF none, text
  <2>12. /\ all \in Seq(Marks) /\ Len(all) = Len(text)
         /\ \A i \in 1..Len(text) : all[i] = text[i]
    BY <2>9, <2>10
  <2> HIDE DEF all
  <2>13. all = text BY <2>10, <2>12, SeqEqual
  <2> QED BY <2>11, <2>13 DEF text
<1> QED BY <1>4, <1>5

\* What it is for a text to end in another.
LEMMA FileSuffix ==
  ASSUME NEW s \in Seq(Marks), NEW t \in Seq(Marks)
  PROVE  ConfigFile!IsSuffix(s, t) <=>
           /\ Len(s) <= Len(t)
           /\ \A i \in 1..Len(s) : s[Len(s) - i + 1] = t[Len(t) - i + 1]
<1> DEFINE S == ConfigFile!Reverse(s)
           R == ConfigFile!Reverse(t)
<1>1. /\ S \in Seq(Marks) /\ Len(S) = Len(s)
      /\ \A i \in 1..Len(s) : S[i] = s[Len(s) - i + 1]
  BY DEF ConfigFile!Reverse
<1>2. /\ R \in Seq(Marks) /\ Len(R) = Len(t)
      /\ \A i \in 1..Len(t) : R[i] = t[Len(t) - i + 1]
  BY DEF ConfigFile!Reverse
<1>3. ConfigFile!IsSuffix(s, t) <=>
        Len(S) <= Len(R) /\ SubSeq(S, 1, Len(S)) = SubSeq(R, 1, Len(S))
  BY DEF ConfigFile!IsSuffix, ConfigFile!IsPrefix
<1> HIDE DEF S, R
<1>4. ASSUME Len(S) <= Len(R)
      PROVE  SubSeq(S, 1, Len(S)) = SubSeq(R, 1, Len(S)) <=> \A i \in 1..Len(S) : S[i] = R[i]
  <2>1. /\ SubSeq(S, 1, Len(S)) \in Seq(Marks) /\ Len(SubSeq(S, 1, Len(S))) = Len(S)
        /\ \A i \in 1..Len(S) : SubSeq(S, 1, Len(S))[i] = S[i]
    BY <1>1
  <2>2. /\ SubSeq(R, 1, Len(S)) \in Seq(Marks) /\ Len(SubSeq(R, 1, Len(S))) = Len(S)
        /\ \A i \in 1..Len(S) : SubSeq(R, 1, Len(S))[i] = R[i]
    BY <1>1, <1>2, <1>4
  <2> HIDE DEF S, R
  <2> QED BY <2>1, <2>2, SeqEqual
<1>5. Len(S) <= Len(R) <=> Len(s) <= Len(t) BY <1>1, <1>2
<1>6. ASSUME Len(s) <= Len(t)
      PROVE  (\A i \in 1..Len(S) : S[i] = R[i]) <=>
               \A i \in 1..Len(s) : s[Len(s) - i + 1] = t[Len(t) - i + 1]
  <2>1. \A i \in 1..Len(s) : R[i] = t[Len(t) - i + 1] BY <1>2, <1>6
  <2> QED BY <1>1, <2>1
<1> QED BY <1>3, <1>4, <1>5, <1>6

\* A value without its secret is the value, or ends redacted; a value that is
\* a secret is redacted whole.
LEMMA FileClean ==
  ASSUME NEW value \in Text, ~ConfigFile!Escaped(value), NEW secrets \in SUBSET Text
  PROVE  LET clean == ConfigFile!Clean(value, secrets) IN
         /\ clean \in Text /\ ~ConfigFile!Escaped(clean)
         /\ clean = value \/ FileEnds(clean)
         /\ value \in secrets => clean = ConfigFile!Redacted
         /\ value = ConfigFile!Redacted => clean = ConfigFile!Redacted
<1> DEFINE clean == ConfigFile!Clean(value, secrets)
           inside == {s \in secrets : ConfigFile!IsSuffix(s, value)}
           longest == CHOOSE s \in inside : \A other \in inside : Len(other) <= Len(s)
           start == SubSeq(value, 1, Len(value) - Len(longest))
<1>1. clean = IF inside = {} THEN value ELSE start \o ConfigFile!Redacted
  BY DEF ConfigFile!Clean
<1>2. \A s \in Text : s \in Seq(Marks) /\ Len(s) \in Nat \ {0} BY FileText
<1>3. \A s \in inside : s \in Text /\ Len(s) <= Len(value)
  BY <1>2, FileSuffix
<1> DEFINE gaps == {Len(value) - Len(s) : s \in inside}
<1>4. ASSUME inside # {}
      PROVE  longest \in inside /\ \A other \in inside : Len(other) <= Len(longest)
  <2> HIDE DEF inside
  <2>1. gaps \in SUBSET Nat /\ gaps # {} BY <1>2, <1>3, <1>4
  <2>2. Tables!Min(gaps) \in gaps /\ \A y \in gaps : Tables!Min(gaps) <= y BY <2>1, Least
  <2>3. PICK s \in inside : Tables!Min(gaps) = Len(value) - Len(s) BY <2>2
  <2>4. \A other \in inside : Len(value) - Len(s) <= Len(value) - Len(other) BY <2>2, <2>3
  <2>5. \A other \in inside : Len(other) <= Len(s) BY <1>2, <1>3, <2>4
  <2> QED BY <2>5
<1>5. ASSUME inside # {}
      PROVE  /\ clean \in Seq(Marks) /\ Len(clean) = Len(value) - Len(longest) + 1
             /\ clean[Len(clean)] = "redacted"
  <2>1. longest \in Text /\ Len(longest) \in Nat /\ Len(longest) <= Len(value)
    BY <1>2, <1>3, <1>4, <1>5
  <2> HIDE DEF longest, inside
  <2>2. start \in Seq(Marks) /\ Len(start) = Len(value) - Len(longest) BY <1>2, <2>1
  <2>3. "redacted" \in Marks BY DEF Marks
  <2> HIDE DEF start
  <2> QED BY <1>1, <1>5, <2>2, <2>3 DEF ConfigFile!Redacted
<1>6. ConfigFile!Redacted \in Seq(Marks) /\ Len(ConfigFile!Redacted) = 1
      /\ ConfigFile!Redacted[1] = "redacted"
  BY DEF ConfigFile!Redacted, Marks
<1>7. ASSUME inside # {} PROVE clean \in Text /\ ~ConfigFile!Escaped(clean) /\ FileEnds(clean)
  <2>1. longest \in Text /\ Len(longest) \in Nat /\ Len(longest) <= Len(value)
    BY <1>2, <1>3, <1>4, <1>7
  <2> HIDE DEF clean, longest, inside
  <2>2. Len(clean) \in Nat \ {0} BY <1>2, <1>5, <1>7, <2>1
  <2>3. clean \in Text /\ ~ConfigFile!Escaped(clean)
    <3>1. /\ clean = start \o <<"redacted">> /\ start \in Seq(Marks)
          /\ Len(start) = Len(value) - Len(longest)
          /\ \A i \in 1..Len(start) : start[i] = value[i]
      BY <1>1, <1>2, <1>7, <2>1 DEF ConfigFile!Redacted
    <3>2. value \in Seq(Marks) /\ Len(value) \in Nat /\ Len(longest) > 0 BY <1>2, <2>1
    <3>3. ASSUME NEW i \in 1..Len(start) PROVE start[i] = "in"
      <4>1. i \in 1..(Len(value) - 1) /\ start[i] = value[i] BY <2>1, <3>1, <3>2
      <4>2. CASE value[i] = "in" BY <4>1, <4>2
      <4>3. CASE value[i] # "in"
        <5>1. i = Len(value) - 1 /\ value[Len(value)] \in Settings BY <4>1, <4>3 DEF Text
        <5>2. Len(longest) = 1
          <6>1. i <= Len(value) - Len(longest) /\ i = Len(value) - 1 BY <3>1, <5>1
          <6> DEFINE length == Len(longest)
                     whole == Len(value)
          <6>2. length \in Nat /\ whole \in Nat /\ length > 0 BY <2>1, <3>2
          <6>3. whole - 1 <= whole - length BY <6>1
          <6> HIDE DEF length, whole
          <6>4. length = 1 BY <6>2, <6>3
          <6> QED BY <6>4 DEF length
        <5>3. longest[Len(longest) - 1 + 1] = value[Len(value) - 1 + 1]
          BY <1>2, <1>4, <1>7, <2>1, <5>2, FileSuffix DEF inside
        <5>4. longest[Len(longest)] \in Settings BY <3>2, <5>1, <5>2, <5>3
        <5>5. Len(longest) > 1 BY <2>1, <5>4 DEF Text
        <5> QED BY <5>2, <5>5
      <4> QED BY <4>2, <4>3
    <3>4. \A i \in 1..(Len(clean) - 1) : clean[i] = "in" BY <2>1, <3>1, <3>2, <3>3
    <3>5. "redacted" \notin Settings \union Signs \union {"in"} BY ResultsAssumption DEF Signs
    <3>6. clean \in Text BY <1>5, <1>7, <2>2, <3>4, <3>5 DEF Text
    <3> QED BY <2>2, <3>4, <3>6 DEF ConfigFile!Escaped, ConfigFile!Sign
  <2>4. ConfigFile!IsSuffix(ConfigFile!Redacted, clean)
    <3> DEFINE redacted == ConfigFile!Redacted
    <3>1. redacted \in Seq(Marks) /\ Len(redacted) = 1 /\ redacted[1] = "redacted" BY <1>6
    <3>2. clean \in Seq(Marks) /\ clean[Len(clean)] = "redacted" BY <1>5, <1>7
    <3> HIDE DEF redacted
    <3>3. Len(redacted) <= Len(clean) BY <2>2, <3>1
    <3>4. \A i \in 1..Len(redacted) : redacted[Len(redacted) - i + 1] = clean[Len(clean) - i + 1]
      BY <2>2, <3>1, <3>2
    <3>5. ConfigFile!IsSuffix(redacted, clean) BY <3>1, <3>2, <3>3, <3>4, FileSuffix
    <3> QED BY <3>5 DEF redacted
  <2> QED BY <2>3, <2>4 DEF FileEnds
<1>8. ASSUME value \in secrets PROVE clean = ConfigFile!Redacted
  <2>1. value \in inside BY <1>2, <1>8, FileSuffix
  <2>2. Len(longest) = Len(value)
    <3>1. longest \in inside /\ Len(value) <= Len(longest) BY <1>4, <2>1
    <3>2. longest \in Text /\ Len(longest) <= Len(value) BY <1>3, <3>1
    <3> HIDE DEF longest
    <3> QED BY <1>2, <3>1, <3>2
  <2>3. Len(clean) = 1 /\ clean[1] = "redacted" /\ clean \in Seq(Marks)
    <3> HIDE DEF clean, longest, inside
    <3> QED BY <1>2, <1>5, <2>1, <2>2
  <2> HIDE DEF clean
  <2> QED BY <1>6, <2>3, SeqEqual
<1>9. ASSUME value = ConfigFile!Redacted PROVE clean = ConfigFile!Redacted
  <2>1. CASE inside = {} BY <1>1, <1>9, <2>1
  <2>2. CASE inside # {}
    <3>1. longest \in Text /\ Len(longest) <= Len(value) BY <1>3, <1>4, <2>2
    <3>2. Len(clean) = 1 /\ clean[1] = "redacted" /\ clean \in Seq(Marks)
      <4> HIDE DEF clean, longest, inside
      <4> QED BY <1>2, <1>5, <1>6, <1>9, <2>2, <3>1
    <3> HIDE DEF clean
    <3> QED BY <1>6, <3>2, SeqEqual
  <2> QED BY <2>1, <2>2
<1>10. inside = {} => clean = value BY <1>1
<1> HIDE DEF clean, inside
<1> QED BY <1>7, <1>8, <1>9, <1>10 DEF clean

\* A text that ends redacted refers to nothing.
LEMMA FileRedacted ==
  ASSUME NEW t \in Text, FileEnds(t)
  PROVE  ConfigFile!Sign(t) = "in"
<1>1. t \in Seq(Marks) /\ Len(t) \in Nat \ {0} BY FileText
<1> DEFINE redacted == ConfigFile!Redacted
<1>2. redacted \in Seq(Marks) /\ Len(redacted) = 1 /\ redacted[1] = "redacted"
  BY DEF ConfigFile!Redacted, Marks
<1>3. ConfigFile!IsSuffix(redacted, t) BY DEF FileEnds
<1> HIDE DEF redacted
<1>4. redacted[Len(redacted) - 1 + 1] = t[Len(t) - 1 + 1]
  <2>1. \A i \in 1..Len(redacted) : redacted[Len(redacted) - i + 1] = t[Len(t) - i + 1]
    BY <1>1, <1>2, <1>3, FileSuffix
  <2>2. 1 \in 1..Len(redacted) BY <1>2
  <2> QED BY <2>1, <2>2
<1>5. t[Len(t)] = "redacted" BY <1>1, <1>2, <1>4
<1> QED BY <1>5, FileText, ResultsAssumption

\* What is kept of a document: every field as a text without an escape, the
\* fields of credentials and those read through one redacted.
LEMMA FileKept ==
  ASSUME NEW f, FileDocument(f), FileDocument(context)
  PROVE  /\ DOMAIN ConfigFile!Resolved(f) = DOMAIN f
         /\ ConfigFile!Sanitized(f) \in [DOMAIN f -> Text]
         /\ \A k \in DOMAIN f :
              /\ ~ConfigFile!Escaped(ConfigFile!Sanitized(f)[k])
              /\ k \in Sensitive => ConfigFile!Sanitized(f)[k] = ConfigFile!Redacted
              /\ \/ ConfigFile!Sanitized(f)[k] = ConfigFile!Resolved(f)[k]
                 \/ FileEnds(ConfigFile!Sanitized(f)[k])
              /\ ConfigFile!Through(ConfigFile!Root(f), k) \intersect Sensitive # {} =>
                   ConfigFile!Sanitized(f)[k] = ConfigFile!Redacted
<1> DEFINE resolved == ConfigFile!Resolved(f)
           secrets == ConfigFile!Secrets(f)
           Cleaned(k) == ConfigFile!Clean(resolved[k], secrets)
           sanitizes == ConfigFile!Sanitized(f)
           through == {k \in DOMAIN f :
                         ConfigFile!Through(ConfigFile!Root(f), k) \intersect Sensitive # {}}
<1>1. FileDocument(ConfigFile!Root(f)) BY DEF FileDocument, ConfigFile!Root
<1>2. /\ DOMAIN resolved = DOMAIN f
      /\ \A k \in DOMAIN f : resolved[k] \in Text /\ ~ConfigFile!Escaped(resolved[k])
  <2>1. DOMAIN f \subseteq Settings BY DEF FileDocument
  <2> QED BY <1>1, <2>1, FileValue DEF ConfigFile!Resolved
<1>3. secrets = ({resolved[k] : k \in DOMAIN f \intersect Sensitive}
                   \union {resolved[k] : k \in through}
                   \union ConfigFile!SecretsOfCommand)
                  \ {ConfigFile!Redacted}
  BY DEF ConfigFile!Secrets, ConfigFile!SecretsOfFile
<1>4. secrets \in SUBSET Text
  <2>1. ConfigFile!SecretsOfCommand \subseteq Text
    BY DEF ConfigFile!SecretsOfCommand, ConfigFile!Ends, ConfigFile!Literal, ConfigFile!Last,
       FileDocument
  <2> HIDE DEF resolved, secrets, through
  <2>2. through \subseteq DOMAIN f BY DEF through
  <2> QED BY <1>2, <1>3, <2>1, <2>2
<1>5. DOMAIN sanitizes = DOMAIN f
      /\ \A k \in DOMAIN f :
           sanitizes[k] = IF k \in Sensitive THEN ConfigFile!Redacted ELSE Cleaned(k)
  BY DEF ConfigFile!Sanitized
<1>6. sanitizes = [k \in DOMAIN f |-> sanitizes[k]] BY DEF ConfigFile!Sanitized
<1>7. /\ ConfigFile!Redacted \in Text /\ FileEnds(ConfigFile!Redacted)
      /\ ~ConfigFile!Escaped(ConfigFile!Redacted)
  <2>1. ConfigFile!Redacted \in Text /\ ~ConfigFile!Escaped(ConfigFile!Redacted)
    BY ResultsAssumption DEF ConfigFile!Redacted, Text, Marks, Signs, ConfigFile!Escaped, ConfigFile!Sign
  <2>2. ConfigFile!Redacted \in Seq(Marks) BY <2>1, FileText
  <2> QED BY <2>1, <2>2, FileSuffix DEF FileEnds
<1> HIDE DEF sanitizes, resolved, secrets
<1>8. ASSUME NEW k \in DOMAIN f
      PROVE  /\ Cleaned(k) \in Text /\ ~ConfigFile!Escaped(Cleaned(k))
             /\ Cleaned(k) = resolved[k] \/ FileEnds(Cleaned(k))
             /\ k \in through => Cleaned(k) = ConfigFile!Redacted
  <2>1. resolved[k] \in Text /\ ~ConfigFile!Escaped(resolved[k]) BY <1>2
  <2>2. Cleaned(k) \in Text /\ ~ConfigFile!Escaped(Cleaned(k)) /\ (Cleaned(k) = resolved[k] \/ FileEnds(Cleaned(k)))
        /\ (resolved[k] \in secrets \/ resolved[k] = ConfigFile!Redacted => Cleaned(k) = ConfigFile!Redacted)
    BY <1>4, <2>1, FileClean
  <2>3. k \in through => resolved[k] \in secrets \/ resolved[k] = ConfigFile!Redacted
    <3> HIDE DEF through
    <3> QED BY <1>3
  <2> QED BY <2>2, <2>3
<1> HIDE DEF Cleaned
<1>9. ASSUME NEW k \in DOMAIN f
      PROVE  /\ sanitizes[k] \in Text /\ ~ConfigFile!Escaped(sanitizes[k])
             /\ k \in Sensitive => sanitizes[k] = ConfigFile!Redacted
             /\ sanitizes[k] = resolved[k] \/ FileEnds(sanitizes[k])
             /\ k \in through => sanitizes[k] = ConfigFile!Redacted
  <2> HIDE DEF through
  <2> QED BY <1>5, <1>7, <1>8
<1>10. sanitizes \in [DOMAIN f -> Text]
  <2> DEFINE cell(k) == sanitizes[k]
  <2>1. \A k \in DOMAIN f : cell(k) \in Text BY <1>9
  <2>2. sanitizes = [k \in DOMAIN f |-> cell(k)] BY <1>6
  <2> HIDE DEF cell
  <2> QED BY <2>1, <2>2
<1> QED BY <1>2, <1>9, <1>10 DEF resolved, sanitizes

FilePrepared(f) ==
  execution = ConfigFile!Resolved(f) /\ sanitized = ConfigFile!Sanitized(f)
FileTypes ==
  /\ context \in Contexts /\ docFile \in Documents \union {NoFile}
  /\ attached = NoFile \/ \E D \in SUBSET Settings : attached \in [D -> Text]
  /\ docPc \in {"start", "prepared", "connected", "running", "failed"}
\* What is prepared is the file in use: this machine's, or the attached copy.
FileReady ==
  /\ (docPc = "prepared" /\ docFile # NoFile) => FilePrepared(docFile)
  /\ docPc = "connected" =>
       IF ConfigFile!Replaced THEN FilePrepared(attached)
       ELSE docFile # NoFile /\ FilePrepared(docFile)
\* Until a clone runs, what is attached is what the run it was cloned from
\* kept, but for the keys users changed.
FileCopied ==
  (docPc # "running" /\ original # NoFile) =>
    /\ attached # NoFile
    /\ \A k \in DOMAIN attached \ edited :
         /\ ~ConfigFile!Escaped(attached[k])
         /\ attached[k] = original[k] \/ FileEnds(attached[k])
FileInv ==
  /\ FileTypes /\ FileReady /\ FileCopied
  /\ docPc = "running" =>
       attached # NoFile /\ \A k \in DOMAIN attached : ~ConfigFile!Escaped(attached[k])
  /\ ConfigFile!Portable

\* What a document says depends on it and on the command alone.
FileFrame(f) == <<ConfigFile!Resolved(f), ConfigFile!Sanitized(f)>>
LEMMA FileSame ==
  ASSUME UNCHANGED context
  PROVE  /\ UNCHANGED docFile => UNCHANGED FileFrame(docFile)
         /\ UNCHANGED attached => UNCHANGED FileFrame(attached)
<1>1. ASSUME UNCHANGED docFile PROVE UNCHANGED FileFrame(docFile)
  <2>1. UNCHANGED ConfigFile!Root(docFile) BY <1>1 DEF ConfigFile!Root
  <2>2. UNCHANGED ConfigFile!Resolved(docFile) BY <1>1, <2>1 DEF ConfigFile!Resolved
  <2>3. UNCHANGED ConfigFile!Secrets(docFile)
    BY <1>1, <2>1, <2>2 DEF ConfigFile!Secrets, ConfigFile!SecretsOfFile, ConfigFile!SecretsOfCommand
  <2>4. UNCHANGED ConfigFile!Sanitized(docFile)
    BY <1>1, <2>2, <2>3 DEF ConfigFile!Sanitized
  <2> QED BY <2>2, <2>4 DEF FileFrame
<1>2. ASSUME UNCHANGED attached PROVE UNCHANGED FileFrame(attached)
  <2>1. UNCHANGED ConfigFile!Root(attached) BY <1>2 DEF ConfigFile!Root
  <2>2. UNCHANGED ConfigFile!Resolved(attached) BY <1>2, <2>1 DEF ConfigFile!Resolved
  <2>3. UNCHANGED ConfigFile!Secrets(attached)
    BY <1>2, <2>1, <2>2 DEF ConfigFile!Secrets, ConfigFile!SecretsOfFile, ConfigFile!SecretsOfCommand
  <2>4. UNCHANGED ConfigFile!Sanitized(attached)
    BY <1>2, <2>2, <2>3 DEF ConfigFile!Sanitized
  <2> QED BY <2>2, <2>4 DEF FileFrame
<1> QED BY <1>1, <1>2

LEMMA FileStep ==
  ASSUME FileInv, [ConfigFile!Next]_(ConfigFile!vars)
  PROVE  FileInv'
<1>1. /\ FileTypes /\ FileReady /\ FileCopied
      /\ docPc = "running" =>
           attached # NoFile /\ \A k \in DOMAIN attached : ~ConfigFile!Escaped(attached[k])
      /\ ConfigFile!Portable
  BY DEF FileInv
<1>2. FileDocument(context) /\ (docFile # NoFile => FileDocument(docFile))
      /\ (attached # NoFile => FileDocument(attached))
  <2>1. FileDocument(context) /\ (docFile # NoFile => FileDocument(docFile))
    BY <1>1, ResultsAssumption DEF FileTypes, FileDocument
  <2>2. attached # NoFile => FileDocument(attached) BY <1>1 DEF FileTypes, FileDocument
  <2> QED BY <2>1, <2>2
<1>3. CASE ConfigFile!PrepareFile
  <2>1. /\ docPc = "start" /\ docPc' \in {"prepared", "failed"}
        /\ UNCHANGED <<override, context, docFile, attached, original, edited, docClones>>
        /\ (docPc' = "prepared" /\ docFile # NoFile) =>
             /\ execution' = ConfigFile!Resolved(docFile)
             /\ sanitized' = ConfigFile!Sanitized(docFile)
    BY <1>3 DEF ConfigFile!PrepareFile, ConfigFile!Prepare, ConfigFile!machine
  <2>2. FileTypes' BY <1>1, <2>1 DEF FileTypes
  <2>3. FileReady'
    <3>1. UNCHANGED FileFrame(docFile) BY <2>1, FileSame
    <3> QED BY <2>1, <3>1 DEF FileReady, FilePrepared, FileFrame
  <2>4. FileCopied' BY <1>1, <2>1 DEF FileCopied, FileEnds, ConfigFile!Redacted
  <2>5. ConfigFile!Portable' BY <2>1 DEF ConfigFile!Portable
  <2> QED BY <2>1, <2>2, <2>3, <2>4, <2>5 DEF FileInv
<1>4. CASE ConfigFile!ConnectConfigFile
  <2>1. /\ docPc = "prepared" /\ docPc' \in {"connected", "failed"}
        /\ UNCHANGED <<override, context, docFile, attached, original, edited, docClones>>
    BY <1>4 DEF ConfigFile!ConnectConfigFile, ConfigFile!machine
  <2>2. ConfigFile!Replaced' <=> ConfigFile!Replaced BY <2>1 DEF ConfigFile!Replaced
  <2>3. (docPc' = "connected" /\ ConfigFile!Replaced) => FilePrepared(attached)'
    <3>1. (docPc' = "connected" /\ ConfigFile!Replaced) =>
            execution' = ConfigFile!Resolved(attached) /\ sanitized' = ConfigFile!Sanitized(attached)
      BY <1>4 DEF ConfigFile!ConnectConfigFile, ConfigFile!Prepare, ConfigFile!Reread
    <3>2. UNCHANGED FileFrame(attached) BY <2>1, FileSame
    <3> QED BY <3>1, <3>2 DEF FilePrepared, FileFrame
  <2>4. (docPc' = "connected" /\ ~ConfigFile!Replaced) => (docFile' # NoFile /\ FilePrepared(docFile)')
    <3>1. (docPc' = "connected" /\ ~ConfigFile!Replaced) =>
            docFile # NoFile /\ UNCHANGED <<execution, sanitized>>
      BY <1>4 DEF ConfigFile!ConnectConfigFile, ConfigFile!Reread, ConfigFile!prepared
    <3>2. docFile # NoFile => FilePrepared(docFile) BY <1>1, <2>1 DEF FileReady
    <3>3. UNCHANGED FileFrame(docFile) BY <2>1, FileSame
    <3> QED BY <2>1, <3>1, <3>2, <3>3 DEF FilePrepared, FileFrame
  <2>5. FileReady' BY <2>1, <2>2, <2>3, <2>4 DEF FileReady
  <2>6. FileTypes' BY <1>1, <2>1 DEF FileTypes
  <2>7. FileCopied' BY <1>1, <2>1 DEF FileCopied, FileEnds, ConfigFile!Redacted
  <2>8. ConfigFile!Portable' BY <2>1 DEF ConfigFile!Portable
  <2> QED BY <2>1, <2>5, <2>6, <2>7, <2>8 DEF FileInv
<1>5. CASE ConfigFile!Attach
  <2> DEFINE f == IF ConfigFile!Replaced THEN attached ELSE docFile
  <2>1. /\ docPc = "connected" /\ docPc' = "running" /\ attached' = sanitized
        /\ UNCHANGED <<override, context, docFile, execution, sanitized, original, edited, docClones>>
    BY <1>5 DEF ConfigFile!Attach, ConfigFile!machine, ConfigFile!prepared
  <2>2. FilePrepared(f) /\ f # NoFile /\ FileDocument(f)
    BY <1>1, <1>2, <2>1 DEF FileReady, ConfigFile!Replaced
  <2> HIDE DEF f
  <2>3. /\ DOMAIN execution = DOMAIN f
        /\ attached' \in [DOMAIN f -> Text]
        /\ \A k \in DOMAIN f :
             /\ ~ConfigFile!Escaped(attached'[k])
             /\ k \in Sensitive => attached'[k] = ConfigFile!Redacted
             /\ attached'[k] = execution[k] \/ FileEnds(attached'[k])
             /\ ConfigFile!Through(ConfigFile!Root(f), k) \intersect Sensitive # {} =>
                  attached'[k] = ConfigFile!Redacted
    BY <1>2, <2>1, <2>2, FileKept DEF FilePrepared
  <2>4. DOMAIN f \in SUBSET Settings BY <2>2 DEF FileDocument
  <2>5. FileTypes' /\ attached' # NoFile
    <3>1. attached' # NoFile BY <2>3, <2>4, ResultsAssumption
    <3> QED BY <1>1, <2>1, <2>3, <2>4, <3>1 DEF FileTypes
  <2>6. FileReady' /\ FileCopied' BY <2>1 DEF FileReady, FileCopied
  <2>7. DOMAIN attached' = DOMAIN execution' BY <2>1, <2>3
  <2>8. \A k \in DOMAIN attached' :
          /\ ~ConfigFile!Escaped(attached'[k])
          /\ k \in Sensitive => attached'[k] = ConfigFile!Redacted
          /\ attached'[k] = execution'[k] \/ ConfigFile!IsSuffix(ConfigFile!Redacted, attached'[k])
    BY <2>1, <2>3 DEF FileEnds
  <2>9. (docClones' = 0 \/ ~override') =>
          \A k \in DOMAIN docFile' :
            ConfigFile!Through(ConfigFile!Root(docFile), k)' \intersect Sensitive # {} =>
              attached'[k] = ConfigFile!Redacted
    <3>1. SUFFICES ASSUME docClones = 0 \/ ~override
                   PROVE  \A k \in DOMAIN docFile :
                            ConfigFile!Through(ConfigFile!Root(docFile), k) \intersect Sensitive # {} =>
                              attached'[k] = ConfigFile!Redacted
      <4>1. \A k \in DOMAIN docFile :
              ConfigFile!Through(ConfigFile!Root(docFile), k)' = ConfigFile!Through(ConfigFile!Root(docFile), k)
        BY <2>1 DEF ConfigFile!Through, ConfigFile!Root, ConfigFile!Chains, ConfigFile!Target
      <4> QED BY <2>1, <4>1
    <3>2. f = docFile BY <3>1 DEF f, ConfigFile!Replaced
    <3> QED BY <2>3, <3>2
  <2>10. (docClones' > 0 /\ override' /\ original' # NoFile) =>
           \A k \in DOMAIN execution' \ edited' :
             \/ execution'[k] = original'[k] \/ ConfigFile!IsSuffix(ConfigFile!Redacted, execution'[k])
             \/ ConfigFile!Reference(original'[k])
    <3>1. SUFFICES ASSUME docClones > 0, override, original # NoFile,
                          NEW k \in DOMAIN execution \ edited, ~ConfigFile!Reference(original[k])
                   PROVE  execution[k] = original[k] \/ FileEnds(execution[k])
      BY <2>1 DEF FileEnds, ConfigFile!Reference
    <3>2. attached # NoFile
          /\ \A i \in DOMAIN attached \ edited :
               ~ConfigFile!Escaped(attached[i]) /\ (attached[i] = original[i] \/ FileEnds(attached[i]))
      BY <1>1, <2>1, <3>1 DEF FileCopied
    <3>3. f = attached BY <3>1, <3>2 DEF f, ConfigFile!Replaced
    <3>4. /\ k \in DOMAIN attached /\ k \in Settings /\ attached[k] \in Text
          /\ ~ConfigFile!Escaped(attached[k]) /\ (attached[k] = original[k] \/ FileEnds(attached[k]))
      BY <1>2, <2>3, <2>4, <3>1, <3>2, <3>3 DEF FileDocument
    <3>5. ~ConfigFile!Reference(attached[k])
      <4>1. CASE attached[k] = original[k] BY <3>1, <4>1
      <4>2. CASE FileEnds(attached[k])
        BY <3>4, <4>2, FileRedacted DEF ConfigFile!Reference
      <4> QED BY <3>4, <4>1, <4>2
    <3> DEFINE root == ConfigFile!Root(attached)
    <3>6. k \in DOMAIN root /\ root[k] = attached[k] BY <3>4 DEF ConfigFile!Root
    <3>7. FileDocument(root)
      BY <1>2, <3>2 DEF FileDocument, ConfigFile!Root
    <3>8. execution[k] = ConfigFile!ValueOf(root, k)
      BY <2>2, <3>3, <3>4 DEF FilePrepared, ConfigFile!Resolved
    <3> HIDE DEF root
    <3>9. ConfigFile!ValueOf(root, k) = attached[k]
      BY <3>4, <3>5, <3>6, <3>7, FileValue DEF ConfigFile!Literal
    <3> QED BY <3>4, <3>8, <3>9
  <2>11. ConfigFile!Portable'
    <3> HIDE DEF f
    <3> QED BY <2>7, <2>8, <2>9, <2>10 DEF ConfigFile!Portable
  <2>12. \A k \in DOMAIN attached' : ~ConfigFile!Escaped(attached[k])'
    BY <2>8 DEF ConfigFile!Escaped, ConfigFile!Sign
  <2> QED BY <2>5, <2>6, <2>11, <2>12 DEF FileInv
<1>6. CASE ConfigFile!Clone
  <2>1. /\ docPc \in {"running", "failed"} /\ docPc' = "start"
        /\ original' = IF docPc = "running" THEN execution ELSE original
        /\ edited' = IF docPc = "running" THEN {} ELSE edited
        /\ context' \in Contexts /\ docFile' \in Documents \union {NoFile} /\ attached' = attached
    BY <1>6 DEF ConfigFile!Clone
  <2>2. FileTypes' /\ FileReady' BY <1>1, <2>1 DEF FileTypes, FileReady
  <2>3. FileCopied'
    <3>1. CASE docPc = "running"
      <4>1. attached # NoFile
            /\ \A k \in DOMAIN attached :
                 ~ConfigFile!Escaped(attached[k]) /\ (attached[k] = execution[k] \/ FileEnds(attached[k]))
        BY <1>1, <3>1 DEF ConfigFile!Portable, FileEnds
      <4> QED BY <2>1, <3>1, <4>1 DEF FileCopied, FileEnds, ConfigFile!Redacted
    <3>2. CASE docPc = "failed"
      BY <1>1, <2>1, <3>2 DEF FileCopied, FileEnds, ConfigFile!Redacted
    <3> QED BY <2>1, <3>1, <3>2
  <2>4. ConfigFile!Portable' BY <2>1 DEF ConfigFile!Portable
  <2> QED BY <2>1, <2>2, <2>3, <2>4 DEF FileInv
<1>7. ASSUME NEW field \in Settings, NEW s \in Edits, ConfigFile!Edit(field, s)
      PROVE  FileInv'
  <2>1. /\ docPc = "start" /\ docPc' = "start" /\ attached # NoFile /\ field \in DOMAIN attached
        /\ attached' = [attached EXCEPT ![field] = s] /\ edited' = edited \union {field}
        /\ UNCHANGED <<context, docFile, original>>
    BY <1>7 DEF ConfigFile!Edit, ConfigFile!machine
  <2>2. PICK D \in SUBSET Settings : attached \in [D -> Text] BY <1>1, <2>1 DEF FileTypes
  <2>3. attached' \in [D -> Text] /\ DOMAIN attached' = D
        /\ \A k \in D : k # field => attached'[k] = attached[k]
    BY <2>1, <2>2, ResultsAssumption
  <2>4. attached' # NoFile BY <2>3, ResultsAssumption
  <2>5. FileTypes' /\ FileReady' BY <1>1, <2>1, <2>3 DEF FileTypes, FileReady
  <2>6. FileCopied'
    <3>1. original # NoFile =>
            \A k \in D \ edited :
              ~ConfigFile!Escaped(attached[k]) /\ (attached[k] = original[k] \/ FileEnds(attached[k]))
      BY <1>1, <2>1, <2>2 DEF FileCopied
    <3>2. \A k \in DOMAIN attached' \ edited' : k \in D \ edited /\ attached'[k] = attached[k]
      BY <2>1, <2>3
    <3> QED BY <2>1, <2>4, <3>1, <3>2 DEF FileCopied, FileEnds, ConfigFile!Redacted
  <2>7. ConfigFile!Portable' BY <2>1 DEF ConfigFile!Portable
  <2> QED BY <2>1, <2>5, <2>6, <2>7 DEF FileInv
<1>8. CASE UNCHANGED ConfigFile!vars
  <2>1. UNCHANGED <<override, context, docFile, attached, execution, sanitized, original, edited,
                    docClones, docPc>>
    BY <1>8 DEF ConfigFile!vars, ConfigFile!machine, ConfigFile!prepared
  <2>2. FileTypes' BY <1>1, <2>1 DEF FileTypes
  <2>3. FileReady'
    <3>1. UNCHANGED FileFrame(docFile) /\ UNCHANGED FileFrame(attached) BY <2>1, FileSame
    <3> QED BY <1>1, <2>1, <3>1 DEF FileReady, FilePrepared, FileFrame, ConfigFile!Replaced
  <2>4. FileCopied' BY <1>1, <2>1 DEF FileCopied
  <2>5. ConfigFile!Portable'
    <3>1. \A k \in DOMAIN docFile :
            ConfigFile!Through(ConfigFile!Root(docFile), k)' = ConfigFile!Through(ConfigFile!Root(docFile), k)
      BY <2>1 DEF ConfigFile!Through, ConfigFile!Root, ConfigFile!Chains, ConfigFile!Target
    <3> QED BY <1>1, <2>1, <3>1 DEF ConfigFile!Portable
  <2> QED BY <1>1, <2>1, <2>2, <2>3, <2>4, <2>5 DEF FileInv
<1> QED BY <1>3, <1>4, <1>5, <1>6, <1>7, <1>8 DEF ConfigFile!Next

(***************************************************************************)
(* For any document, context and edits, and however often the task is      *)
(* cloned: a field read through a credential is kept redacted, and a clone *)
(* reads what its run read, but for redacted secrets, the keys somebody    *)
(* changed, and values that hold an escaped reference: those the clone     *)
(* follows.  (connect_config_file, _prepared_config_file,                  *)
(* _sanitize_yaml_configuration)                                           *)
(***************************************************************************)
THEOREM Portability == Spec => []Portable
<1>1. Init => (focus = "files" => FileInv)
  <2> SUFFICES ASSUME Init, focus = "files" PROVE FileInv OBVIOUS
  <2>1. ConfigFile!Init BY DEF Init
  <2> QED
    BY <2>1
       DEF ConfigFile!Init, FileInv, FileTypes, FileReady, FileCopied, ConfigFile!Portable
<1>2. (focus = "files" => FileInv) /\ [Next]_vars => (focus = "files" => FileInv)'
  <2> SUFFICES ASSUME focus = "files" => FileInv, [Next]_vars, focus' = "files"
               PROVE  FileInv'
    OBVIOUS
  <2> QED BY InFocus, FileStep
<1>3. (focus = "files" => FileInv) => Portable BY DEF FileInv, Portable
<1> QED BY <1>1, <1>2, <1>3, PTL DEF Spec
=============================================================================
