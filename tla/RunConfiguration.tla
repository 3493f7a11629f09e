------------------------- MODULE RunConfiguration -------------------------
(***************************************************************************)
(* What a training run executes and what it leaves for its clones: the     *)
(* configuration object "run" and the parameters "General" of a task       *)
(* (clearml/session.py), replayed by an agent (hydra/common.py).           *)
(*                                                                         *)
(* The settings of the native group stand for their kinds: "size" is       *)
(* normalised by the runtime, "batch" is resolved for the hardware when it *)
(* is "auto", "device" and "project" are execution-only, and "token" is a  *)
(* credential, which is stored redacted.  MaxEdits bounds the changes a    *)
(* user makes to a task, and MaxClones the clones of clones.               *)
(***************************************************************************)
EXTENDS Naturals

CONSTANTS MaxEdits, MaxClones

VARIABLES
  task,       \* what the server holds: run, its native group, General
  snapshot,   \* RemoteReplay
  requested,  \* the native group of the launch command
  executes,   \* the native group the command runs with
  training,   \* training_parameters: General as this invocation published it
  asked,      \* what a clone of the task, as it is edited, should execute
  late,       \* the task was edited after its agent had read it
  edits, clones, pc

vars == <<task, snapshot, requested, executes, training, asked, late, edits, clones, pc>>

Keys == {"size", "batch", "device", "project", "token"}
Scientific == {"size", "batch", "token"}   \* project_native_parameters
Unset == "unset"
Redacted == "redacted"

Defaults == [size |-> "s641", batch |-> "auto", device |-> "d0", project |-> Unset,
             token |-> "t0"]
Nothing == [k \in Keys |-> Unset]
NoRun == [run |-> "absent", native |-> Nothing, general |-> Nothing, result |-> Unset]

\* Tasks of earlier releases: settings in General alone, with or without run.
Historical(run) ==
  [NoRun EXCEPT !.run = run,
     !.general = [size |-> "s672", batch |-> "b9", device |-> "d1", project |-> "old",
                  token |-> Redacted]]

Init ==
  /\ \/ task = NoRun /\ asked = Nothing
     \/ \E run \in {"absent", "other"} :
          /\ task = Historical(run)
          /\ asked = [Defaults EXCEPT !.size = "s672", !.device = "d1"]
  /\ snapshot = NoRun /\ requested = Nothing /\ executes = Nothing /\ training = Nothing
  /\ late = FALSE /\ edits = 0 /\ clones = 0 /\ pc = "stopped"

Invocation == <<executes, training>>
User == <<asked, late, edits>>

\* What sanitize_configuration keeps of a group.
Sanitized(group) ==
  [group EXCEPT !.token = IF group.token = Unset THEN Unset ELSE Redacted]

\* The runtime's normalisation of the settings it is given.
Normal(value) == IF value = "s641" THEN "s672" ELSE value

\* The command line of a first run.
Launch ==
  /\ pc = "stopped" /\ task = NoRun
  /\ \E size \in {"s641", "s672"}, batch \in {"auto", "b1"}, project \in {Unset, "p1"} :
       requested' = [Defaults EXCEPT !.size = size, !.batch = batch, !.project = project]
  /\ pc' = "starting"
  /\ UNCHANGED <<task, snapshot, Invocation, User, clones>>

\* A task is cloned and queued: an agent runs the bare recorded entrypoint, or
\* one with a route of its own.
Clone ==
  /\ pc = "stopped" /\ task # NoRun /\ clones < MaxClones
  /\ clones' = clones + 1
  /\ asked' = IF late THEN Nothing ELSE asked
  /\ late' = FALSE
  /\ \E project \in {Unset, "p2"} : requested' = [Defaults EXCEPT !.project = project]
  /\ pc' = "cloned"
  /\ UNCHANGED <<task, snapshot, Invocation, edits>>

\* fetch_remote_replay: one detached snapshot, before the runtime is chosen.
FetchRemoteReplay ==
  /\ pc = "cloned"
  /\ snapshot' = task /\ pc' = "fetched"
  /\ UNCHANGED <<task, requested, Invocation, User, clones>>

\* A user edits General, or the group of run, of a task that has not started.
Edited(key, value, place) ==
  /\ pc \in {"cloned", "fetched"} /\ edits < MaxEdits
  /\ edits' = edits + 1
  /\ task[place][key] # value
  /\ task' = [task EXCEPT ![place][key] = value]
  /\ IF pc = "fetched" THEN late' = TRUE /\ UNCHANGED asked
     ELSE /\ asked' = IF asked = Nothing THEN asked ELSE [asked EXCEPT ![key] = value]
          /\ UNCHANGED late
  /\ UNCHANGED <<snapshot, requested, Invocation, clones, pc>>

EditGeneral ==
  \/ Edited("size", "s900", "general")
  \/ asked.batch # "auto" /\ Edited("batch", "b2", "general")

EditRun ==
  /\ task.run = "full"
  /\ \/ Edited("device", "d2", "native")
     \/ Edited("token", "t1", "native")
     \/ Edited("batch", "auto", "native")

\* replay_configuration: the group of run; one that earlier releases left out
\* is the command's, with their execution settings from General.
Canonical(read) ==
  IF read.run = "full" THEN read.native
  ELSE [requested EXCEPT !.device = IF read.general.device # Unset THEN read.general.device ELSE @]

\* The inputs of an agent are its snapshot, whatever the task says by now.
InheritedNow == task
Inherited == snapshot

\* replay_training_parameters: the scientific overrides of General, where the
\* hardware is not to be asked again and nothing is redacted.
Override(group, read) ==
  {k \in Scientific : /\ read.general[k] # Unset
                      /\ ~(k = "batch" /\ group.batch = "auto")
                      /\ read.general[k] # Sanitized(group)[k]}

\* _replay_native_parameters: no route of an earlier owner is kept.
Routed(group) == [group EXCEPT !.project = requested.project]

Replayed(read) ==
  LET group == Canonical(read)
  IN  Routed([k \in Keys |-> IF k \in Override(group, read) THEN read.general[k] ELSE group[k]])

Start ==
  /\ pc = "starting"
  /\ executes' = requested /\ training' = Nothing /\ pc' = "resolved"
  /\ UNCHANGED <<task, snapshot, requested, User, clones>>

Replay ==
  /\ pc = "fetched"
  /\ executes' = Replayed(Inherited) /\ training' = Nothing /\ pc' = "resolved"
  /\ UNCHANGED <<task, snapshot, requested, User, clones>>

\* publish_run_configuration: the executable inputs, without old provenance.
Publish ==
  /\ pc = "resolved"
  /\ task' = [task EXCEPT !.run = "full", !.native = Sanitized(executes), !.result = Unset]
  /\ asked' = Sanitized(asked) /\ pc' = "published"
  /\ UNCHANGED <<snapshot, requested, Invocation, late, edits, clones>>

Connected(group) ==
  [k \in Keys |-> IF k \in Scientific THEN Sanitized(group)[k] ELSE task.general[k]]

\* publish_training_parameters: before the dataset is prepared, and again by
\* train, whose settings are the same.
PublishParameters ==
  /\ pc \in {"published", "training"}
  /\ IF training = Sanitized(executes) THEN UNCHANGED <<task, asked, late, training>>
     ELSE /\ task' = [task EXCEPT !.general = Connected(executes)]
          /\ training' = Sanitized(executes)
          /\ asked' = Sanitized(executes) /\ late' = FALSE
  /\ pc' = "training"
  /\ UNCHANGED <<snapshot, requested, executes, edits, clones>>

\* The owner's native callbacks refresh what training observes.
Observe ==
  /\ pc = "training"
  /\ task' = [task EXCEPT
       !.general = Connected([executes EXCEPT
          !.size = Normal(@), !.batch = IF @ = "auto" THEN "b9" ELSE @])]
  /\ UNCHANGED <<snapshot, requested, Invocation, User, clones, pc>>

\* record_run_configuration: results join the inputs of run.
Record ==
  /\ pc = "training"
  /\ task' = [task EXCEPT !.native = Sanitized(executes), !.result = "recorded"]
  /\ UNCHANGED <<snapshot, requested, Invocation, User, clones, pc>>

\* The command ends, or fails on its way.
Stop ==
  /\ pc \in {"fetched", "resolved", "published", "training"}
  /\ pc' = "stopped"
  /\ UNCHANGED <<task, snapshot, requested, Invocation, User, clones>>

Next ==
  \/ Launch \/ Clone \/ FetchRemoteReplay \/ EditGeneral \/ EditRun
  \/ Start \/ Replay \/ Publish \/ PublishParameters \/ Observe \/ Record \/ Stop

Spec == Init /\ [][Next]_vars

---------------------------------------------------------------------------
\* A clone repeats the run it was cloned from, with the changes its user made
\* before the agent read it: what training observed, what earlier releases
\* left and what is edited later do not find their way in.  Its route is its
\* own (replay_configuration, replay_training_parameters).
Repeats ==
  (pc = "resolved" /\ clones > 0 /\ asked # Nothing)
    => /\ executes.project = requested.project
       /\ Normal(executes.size) = Normal(asked.size)
       /\ \A k \in {"batch", "device"} : executes[k] = asked[k]
       /\ executes.token = asked.token
===========================================================================
