-------------------------- MODULE PredictionCache --------------------------
(***************************************************************************)
(* Cached predictions of cy-compare: use_cases/compare.py (_scored),       *)
(* adapters/yolo/reinfer.py and the provenance of                          *)
(* adapters/clearml/results.py.  Runs that share an output directory share *)
(* its cache files: a CSV, its metadata and its provenance, written one    *)
(* after the other.  The checkpoint may be replaced while a run uses it,   *)
(* and a run may be killed between any two steps.                          *)
(*                                                                         *)
(* A checkpoint is its version; a set of predictions is the version that   *)
(* made it and a stamp for its bytes (inference need not be bit exact).    *)
(* MaxWeights bounds the versions, MaxStamps the inferences.               *)
(***************************************************************************)
EXTENDS Naturals, FiniteSets

CONSTANTS Runs, MaxWeights, MaxStamps

VARIABLES
  weights,     \* the checkpoint file
  csv, meta,   \* the cache of every key: predictions, and whether metadata is there
  prov,        \* its provenance sidecar
  stamp,       \* inferences so far
  pc,          \* where each run stands
  identity,    \* ResolvedModel.identity: the checkpoint the run selected
  key,         \* the hash in the name of its cache file
  reuse,       \* inference.reuse_existing
  used,        \* the predictions the run scores
  digest       \* the hash of the CSV its sidecar will hold

cacheVars == <<csv, meta, prov>>
runVars == <<identity, key, reuse, used, digest>>
vars == <<weights, stamp, pc, cacheVars, runVars>>

Versions == 1 .. MaxWeights
NoRows == [by |-> 0, stamp |-> 0]
NoSidecar == [state |-> "none", stamp |-> 0, sha |-> 0]
Torn == [NoSidecar EXCEPT !.state = "torn"]
Whole(s, v) == [state |-> "whole", stamp |-> s, sha |-> v]

Init ==
  /\ weights = 1 /\ stamp = 0
  /\ csv = [v \in Versions |-> NoRows]
  /\ meta = [v \in Versions |-> FALSE]
  /\ prov = [v \in Versions |-> NoSidecar]
  /\ pc = [r \in Runs |-> "start"]
  /\ identity = [r \in Runs |-> 0] /\ key = [r \in Runs |-> 0]
  /\ reuse = [r \in Runs |-> TRUE] /\ used = [r \in Runs |-> NoRows]
  /\ digest = [r \in Runs |-> 0]

Goto(r, place) == pc' = [pc EXCEPT ![r] = place]
At(r, place) == pc[r] = place

\* _resolve_model: the identity is the hash of the file as it is now.
Resolve(r) ==
  /\ At(r, "start") /\ Goto(r, "resolved")
  /\ identity' = [identity EXCEPT ![r] = weights]
  /\ reuse' \in {[reuse EXCEPT ![r] = b] : b \in BOOLEAN}
  /\ UNCHANGED <<weights, stamp, cacheVars, key, used, digest>>

\* _prediction_cache: the content of the checkpoint names the file.
Locate(r) ==
  /\ At(r, "resolved") /\ Goto(r, "located")
  /\ key' = [key EXCEPT ![r] = weights]
  /\ UNCHANGED <<weights, stamp, cacheVars, identity, reuse, used, digest>>

\* prediction_checkpoint_hash: provenance that does not describe these bytes raises.
Describes(p, rows) == p.state = "whole" /\ p.stamp = rows.stamp

\* _validate_cached_identity
Acceptable(r) ==
  LET p == prov[key[r]]
  IN \/ p = NoSidecar
     \/ Describes(p, csv[key[r]]) /\ p.sha = weights /\ p.sha = identity[r]

Validate(r) ==
  /\ At(r, "located")
  /\ Goto(r, IF ~reuse[r] \/ csv[key[r]] = NoRows \/ Acceptable(r) THEN "lookup" ELSE "raised")
  /\ UNCHANGED <<weights, stamp, cacheVars, runVars>>

\* _read_cache: predictions without metadata are no cache.
Lookup(r) ==
  /\ At(r, "lookup")
  /\ IF reuse[r] /\ csv[key[r]] # NoRows /\ meta[key[r]]
     THEN Goto(r, "describe") /\ used' = [used EXCEPT ![r] = csv[key[r]]]
     ELSE Goto(r, "infer") /\ UNCHANGED used
  /\ UNCHANGED <<weights, stamp, cacheVars, identity, key, reuse, digest>>

\* Metadata that does not parse, or whose native output or source manifest is
\* gone, is ignored.
Overlook(r) ==
  /\ At(r, "lookup") /\ Goto(r, "infer")
  /\ UNCHANGED <<weights, stamp, cacheVars, runVars>>

Infer(r) ==
  /\ At(r, "infer") /\ stamp < MaxStamps /\ stamp' = stamp + 1
  /\ used' = [used EXCEPT ![r] = [by |-> weights, stamp |-> stamp']]
  /\ Goto(r, "rows")
  /\ UNCHANGED <<weights, cacheVars, identity, key, reuse, digest>>

\* _write_cache: two files, each replaced atomically.
WriteRows(r) ==
  /\ At(r, "rows") /\ Goto(r, "metadata")
  /\ csv' = [csv EXCEPT ![key[r]] = used[r]]
  /\ UNCHANGED <<weights, stamp, meta, prov, runVars>>

WriteMetadata(r) ==
  /\ At(r, "metadata") /\ Goto(r, "describe")
  /\ meta' = [meta EXCEPT ![key[r]] = TRUE]
  /\ UNCHANGED <<weights, stamp, csv, prov, runVars>>

(***************************************************************************)
(* write_prediction_provenance: the checkpoint is hashed again and must    *)
(* still be the selected one; then the CSV is hashed as it is now, and the *)
(* sidecar is written in place.                                            *)
(***************************************************************************)
StillThatBlindly(r) == identity[r] > 0
StillThat(r) == identity[r] = weights
Describe(r) ==
  /\ At(r, "describe") /\ Goto(r, IF StillThat(r) THEN "digest" ELSE "raised")
  /\ UNCHANGED <<weights, stamp, cacheVars, runVars>>

Digest(r) ==
  /\ At(r, "digest") /\ Goto(r, "sidecar")
  /\ digest' = [digest EXCEPT ![r] = csv[key[r]].stamp]
  /\ prov' = [prov EXCEPT ![key[r]] = Torn]
  /\ UNCHANGED <<weights, stamp, csv, meta, identity, key, reuse, used>>

WriteSidecar(r) ==
  /\ At(r, "sidecar") /\ Goto(r, "scored")
  /\ prov' = [prov EXCEPT ![key[r]] = Whole(digest[r], identity[r])]
  /\ UNCHANGED <<weights, stamp, csv, meta, runVars>>

\* The process is killed; another command starts over in the same directory.
Kill(r) ==
  /\ ~At(r, "start") /\ stamp < MaxStamps
  /\ Goto(r, "start")
  /\ identity' = [identity EXCEPT ![r] = 0] /\ key' = [key EXCEPT ![r] = 0]
  /\ used' = [used EXCEPT ![r] = NoRows] /\ digest' = [digest EXCEPT ![r] = 0]
  /\ UNCHANGED <<weights, stamp, cacheVars, reuse>>

\* Somebody replaces the checkpoint; bytes that are gone do not come back.
Replace ==
  /\ weights < MaxWeights /\ weights' = weights + 1
  /\ UNCHANGED <<stamp, pc, cacheVars, runVars>>

Next ==
  \/ Replace
  \/ \E r \in Runs :
       \/ Resolve(r) \/ Locate(r) \/ Validate(r) \/ Lookup(r) \/ Overlook(r) \/ Infer(r)
       \/ WriteRows(r) \/ WriteMetadata(r) \/ Describe(r) \/ Digest(r) \/ WriteSidecar(r)
       \/ Kill(r)

Spec == Init /\ [][Next]_vars

(***************************************************************************)
(* Two runs may write one file and the checkpoint may be replaced between  *)
(* any two steps of either, but predictions are never scored under a       *)
(* checkpoint that did not make them, as long as bytes that were replaced  *)
(* do not return (Replace).                                                *)
(***************************************************************************)
Attributed == \A r \in Runs : At(r, "scored") => used[r].by = identity[r]
=============================================================================
