-------------------------- MODULE ModelPublication --------------------------
(***************************************************************************)
(* The best checkpoint of a training as a model on the server: the native  *)
(* record of Ultralytics (clearml/native.py), the one a detector creates   *)
(* (clearml/detectors.py), its calibration and the barrier that verifies   *)
(* it again; and a later command that recovers checkpoint and thresholds   *)
(* of the task (clearml/models.py, storage/identity.py).                   *)
(*                                                                         *)
(* Bytes are numbers, and so are their hashes; 0 is "none" (an upload that *)
(* failed, a field that was not written).  Meanwhile other writers may     *)
(* change the file, the models or their metadata, MaxEdits times.          *)
(***************************************************************************)
EXTENDS Naturals, FiniteSets

CONSTANTS Models, Own, Versions, MaxEdits

VARIABLES
  file, sidecar,       \* the local checkpoint; the hash in its identity file
  outputs, server,     \* the task's output models; bytes and metadata by model
  artifacts,           \* thresholds of the task: "val" and "dashboard"
  hash, predicted,     \* _sha256(checkpoint); the checkpoint that predicted val
  expected,            \* thresholds are part of what is verified
  pc,
  check,               \* what _verify_model has read so far
  reader, links, used, \* a recovery: selected model and hash; the bytes it uses
  fresh,               \* the recovery began after the publication
  edits, since         \* changes by others: all, and since a verification began

local == <<file, sidecar>>
cloud == <<outputs, server, artifacts>>
facts == <<hash, predicted, expected>>
recovery == <<reader, links, used, fresh>>
others == <<edits, since>>
vars == <<local, cloud, facts, pc, check, recovery, others>>

Blank == [bytes |-> 0, role |-> FALSE, hash |-> 0, thresholds |-> 0]
NoLinks == [model |-> Own, hash |-> 0]

Init ==
  /\ file \in Versions /\ sidecar = 0
  /\ outputs = {} /\ server = [m \in Models |-> Blank] /\ artifacts = {}
  /\ hash = 0 /\ predicted = 0 /\ expected = FALSE
  /\ pc = "train" /\ check = "none"
  /\ reader = "idle" /\ links = NoLinks /\ used = 0 /\ fresh = FALSE
  /\ edits = 0 /\ since = 0

Step(from, to) == pc = from /\ pc' = to
\* A verification is called: nothing of it is read yet.
Verifies == check' = "start"

\* The callback of Ultralytics, or OutputModel and update_weights of a detector
\* (which has found no other output; the next step looks again).
Upload ==
  /\ Step("train", "uploaded")
  /\ outputs' = outputs \union {Own}
  /\ \E b \in {0, file} : server' = [server EXCEPT ![Own].bytes = b]
  /\ UNCHANGED <<local, artifacts, facts, check, recovery, others>>

\* _best_output, _validate_association, _download_hash.
Matches == server[Own].bytes = file
Associate ==
  /\ Step("uploaded", "associated")
  /\ outputs = {Own} /\ server[Own].bytes # 0 /\ Matches
  /\ hash' = file
  /\ UNCHANGED <<local, cloud, predicted, expected, check, recovery, others>>

\* Both names are resolved (DisplayNames), then the metadata is written.
Enrich ==
  /\ Step("associated", "enriched") /\ Verifies
  /\ server' = [server EXCEPT ![Own].role = TRUE, ![Own].hash = hash]
  /\ UNCHANGED <<local, outputs, artifacts, facts, recovery, others>>

---------------------------------------------------------------------------
(* _verify_model: three reads of the server, between which others write.   *)
(* The record's name, tags and fields (readback) are left out.             *)

Alone == outputs = {Own}
SameBytes == server[Own].bytes = hash
Described ==
  /\ server[Own].role /\ server[Own].hash = hash
  /\ expected => server[Own].thresholds = predicted

Reads(from, to) == check = from /\ check' = to /\ UNCHANGED <<local, cloud, facts, pc, recovery, edits>>

\* _output_models.
ReadOutputs == Reads("start", "listed") /\ Alone /\ since' = 0

\* _download_hash of what the URL holds.
ReadBytes == Reads("listed", "fetched") /\ SameBytes /\ UNCHANGED since

\* Faulty variant: the metadata that was just written is trusted.
TrustMetadata == Reads("fetched", "passed") /\ UNCHANGED since

\* _verify_custom_metadata: after the thresholds were written, of these only.
ReadMetadata ==
  /\ Reads("fetched", "passed") /\ UNCHANGED since
  /\ IF pc = "attached" THEN server[Own].thresholds = predicted ELSE Described

Passed(at, to) == check = "passed" /\ Step(at, to)

\* write_checkpoint_identity, and the model is owned from here.
Describe == file = hash
OwnModel ==
  /\ Passed("enriched", "owned") /\ Describe
  /\ sidecar' = hash
  /\ UNCHANGED <<file, cloud, facts, check, recovery, others>>

---------------------------------------------------------------------------
\* The validation split is predicted with the checkpoint as it is now.
Predict ==
  /\ pc = "owned" /\ predicted = 0 /\ predicted' = file
  /\ UNCHANGED <<local, cloud, hash, expected, pc, check, recovery, others>>

\* The metrics stage uploads its thresholds before it attaches them.
UploadThresholds ==
  /\ pc = "owned" /\ predicted # 0
  /\ artifacts' = artifacts \union {"val"}
  /\ UNCHANGED <<local, outputs, server, facts, pc, check, recovery, others>>

\* associate_calibration_thresholds: a verification, the thresholds, bytes and
\* thresholds read back, and a verification that expects the thresholds too.
SameCheckpoint == predicted = hash
Calibrate ==
  /\ Step("owned", "calibrating") /\ "val" \in artifacts
  /\ SameCheckpoint /\ Verifies
  /\ UNCHANGED <<local, cloud, facts, recovery, others>>

Attach ==
  /\ Passed("calibrating", "attached") /\ check' = "listed"
  /\ server' = [server EXCEPT ![Own].thresholds = predicted]
  /\ UNCHANGED <<local, outputs, artifacts, facts, recovery, others>>

Expect ==
  /\ Passed("attached", "recorded") /\ Verifies
  /\ expected' = TRUE
  /\ UNCHANGED <<local, cloud, hash, predicted, recovery, others>>

Calibrated ==
  /\ Passed("recorded", "calibrated")
  /\ UNCHANGED <<local, cloud, facts, check, recovery, others>>

\* The barrier of the session; a failed calibration is only a failed stage.
Barrier ==
  /\ pc \in {"owned", "calibrating", "attached", "recorded", "calibrated"}
  /\ pc' = "barrier" /\ Verifies
  /\ UNCHANGED <<local, cloud, facts, recovery, others>>

Publish ==
  /\ Passed("barrier", "published")
  /\ UNCHANGED <<local, cloud, facts, check, recovery, others>>

Fail ==
  /\ pc \notin {"failed", "published"} /\ pc' = "failed"
  /\ UNCHANGED <<local, cloud, facts, check, recovery, others>>

---------------------------------------------------------------------------
\* best_output_model, _select_checkpoint: by role, else the last registered.
Candidates == IF \E m \in outputs : server[m].role THEN {m \in outputs : server[m].role} ELSE outputs
Select ==
  /\ reader = "idle" /\ reader' = "selected"
  /\ \E m \in Candidates :
       /\ server[m].role => Candidates = {m}
       /\ links' = [model |-> m, hash |-> server[m].hash]
  /\ fresh' = (pc = "published")
  /\ UNCHANGED <<local, cloud, facts, pc, check, used, others>>

\* get_local_copy of the selection, a checkpoint, and its hash.
Accepted == links.hash \in {0, server[links.model].bytes}
Download ==
  /\ reader = "selected" /\ server[links.model].bytes # 0
  /\ IF Accepted THEN reader' = "used" /\ used' = server[links.model].bytes
     ELSE reader' = "refused" /\ used' = used
  /\ UNCHANGED <<local, cloud, facts, pc, check, links, fresh, others>>

\* read_checkpoint_identity of a checkpoint on disk.
UseLocal ==
  /\ reader = "idle" /\ sidecar # 0
  /\ reader' = IF sidecar = file THEN "used" ELSE "refused"
  /\ used' = IF sidecar = file THEN file ELSE used
  /\ links' = [links EXCEPT !.hash = sidecar]
  /\ fresh' = (pc = "published")
  /\ UNCHANGED <<local, cloud, facts, pc, check, others>>

\* fetch_best_confidences: the first artifact there is, or an error.
FetchThresholds ==
  /\ reader = "used"
  /\ reader' = IF artifacts = {} THEN "refused" ELSE IF "val" \in artifacts THEN "val" ELSE "dashboard"
  /\ UNCHANGED <<local, cloud, facts, pc, check, links, used, fresh, others>>

---------------------------------------------------------------------------
\* Other writers: the file, another model, the bytes, the metadata, a dashboard.
Edit ==
  /\ edits < MaxEdits /\ edits' = edits + 1 /\ since' = since + 1
  /\ \/ file' \in Versions /\ UNCHANGED <<sidecar, cloud>>
     \/ \E m \in Models \ {Own}, v \in Versions, role \in BOOLEAN :
          /\ outputs' = outputs \union {m}
          /\ server' = [server EXCEPT ![m] = [Blank EXCEPT !.bytes = v, !.role = role]]
          /\ UNCHANGED <<local, artifacts>>
     \/ \E v \in Versions : server' = [server EXCEPT ![Own].bytes = v] /\ UNCHANGED <<local, outputs, artifacts>>
     \/ server' = [server EXCEPT ![Own] = [Blank EXCEPT !.bytes = server[Own].bytes]] /\ UNCHANGED <<local, outputs, artifacts>>
     \/ artifacts' = artifacts \union {"dashboard"} /\ UNCHANGED <<local, outputs, server>>
  /\ UNCHANGED <<facts, pc, check, recovery>>

Next ==
  \/ Upload \/ Associate \/ Enrich \/ ReadOutputs \/ ReadBytes \/ ReadMetadata \/ OwnModel
  \/ Predict \/ UploadThresholds \/ Calibrate \/ Attach \/ Expect \/ Calibrated
  \/ Barrier \/ Publish \/ Fail
  \/ Select \/ Download \/ UseLocal \/ FetchThresholds \/ Edit

Spec == Init /\ [][Next]_vars

---------------------------------------------------------------------------
(***************************************************************************)
(* A published model attests itself.  If nobody else wrote since the last  *)
(* verification began, the task has this one model, with the bytes and the *)
(* metadata of the identity file; and one change is not enough to mislead  *)
(* anybody, wherever it falls between the reads of the verification or of  *)
(* the recovery: a recovery after the publication gets the bytes of the    *)
(* identity file or is refused, and thresholds the model carries were      *)
(* calibrated with these very bytes.  (models.py:225)                      *)
(***************************************************************************)
Attested ==
  /\ pc = "published" /\ since = 0 =>
       /\ outputs = {Own} /\ server[Own].bytes = sidecar /\ server[Own].hash = sidecar
       /\ expected => server[Own].thresholds = sidecar
  /\ fresh /\ since <= 1 /\ reader \in {"used", "val", "dashboard"} =>
       used = sidecar /\ (expected => predicted = used)
=============================================================================
