---------------------------- MODULE DisplayNames ----------------------------
(***************************************************************************)
(* The display names of a project's experiments and best models            *)
(* (clearml/naming.py).  Every invocation resolves its experiment name     *)
(* first and, once its model is registered, both names with one suffix:    *)
(* it queries, writes, and queries again, since another invocation may     *)
(* have chosen the same candidate in between.                              *)
(*                                                                         *)
(* MaxAttempts bounds the suffixes that are tried (20 in the code), and    *)
(* Suffixes is the set of readable ones.                                   *)
(***************************************************************************)
EXTENDS Naturals

CONSTANTS Invocations, TaskRequest, ModelRequest, Suffixes, MaxAttempts, Taken

VARIABLES
  taskName, modelName,  \* the names on the server, <<requested, suffix>>
  suffix, effective,    \* NamingState
  candidate, attempt,   \* _resolve's suffix and attempt
  busy,                 \* the task query found a collision
  phase, pc

state == <<suffix, effective>>
local == <<candidate, attempt, busy>>
vars == <<taskName, modelName, state, local, phase, pc>>

Plain == "plain"
None == <<"none", "none">>

Init ==
  /\ taskName = [i \in Invocations |-> <<TaskRequest[i], Plain>>]
  /\ modelName = [i \in Invocations |-> None]
  /\ suffix = [i \in Invocations |-> Plain]
  /\ effective = [i \in Invocations |-> [task |-> None, model |-> None]]
  /\ candidate = suffix /\ attempt = [i \in Invocations |-> 0]
  /\ busy = [i \in Invocations |-> FALSE]
  /\ phase = [i \in Invocations |-> "task"] /\ pc = [i \in Invocations |-> "start"]

At(i, place) == pc[i] = place
Goto(i, place) == pc' = [pc EXCEPT ![i] = place]

TaskCandidate(i) == <<TaskRequest[i], candidate[i]>>
ModelCandidate(i) == <<ModelRequest[i], candidate[i]>>
TaskCollision(i) == \E j \in Invocations \ {i} : taskName[j] = TaskCandidate(i)
ModelCollision(i) ==
  /\ phase[i] = "model"
  /\ ModelCandidate(i) \in Taken \union {modelName[j] : j \in Invocations \ {i}}

\* initialize_naming, resolve_model_name: the kept suffix is tried first.
Resolve(i) ==
  /\ pc[i] \in {"start", "registered"}
  /\ candidate' = [candidate EXCEPT ![i] = suffix[i]] /\ attempt' = [attempt EXCEPT ![i] = 0]
  /\ Goto(i, "check")
  /\ UNCHANGED <<taskName, modelName, state, busy, phase>>

\* _occupied: both queries are made, one after the other.
QueryTask(i) ==
  /\ pc[i] \in {"check", "recheck"}
  /\ busy' = [busy EXCEPT ![i] = TaskCollision(i)]
  /\ Goto(i, IF At(i, "check") THEN "check model" ELSE "recheck model")
  /\ UNCHANGED <<taskName, modelName, state, candidate, attempt, phase>>

\* The next attempt draws a readable suffix.
Continue(i) ==
  IF attempt[i] = MaxAttempts
  THEN Goto(i, "failed") /\ UNCHANGED <<candidate, attempt>>
  ELSE /\ attempt' = [attempt EXCEPT ![i] = @ + 1]
       /\ \E s \in Suffixes : candidate' = [candidate EXCEPT ![i] = s]
       /\ Goto(i, "check")

QueryModel(i) ==
  /\ At(i, "check model")
  /\ IF busy[i] \/ ModelCollision(i) THEN Continue(i)
     ELSE Goto(i, "write") /\ UNCHANGED <<candidate, attempt>>
  /\ UNCHANGED <<taskName, modelName, state, busy, phase>>

\* set_name: the server may refuse the name.
WriteTask(i) ==
  /\ At(i, "write")
  /\ \/ taskName' = [taskName EXCEPT ![i] = TaskCandidate(i)]
        /\ Goto(i, IF phase[i] = "model" THEN "write model" ELSE "recheck")
     \/ taskName[i] # TaskCandidate(i) /\ taskName' = taskName /\ Goto(i, "failed")
  /\ UNCHANGED <<modelName, state, local, phase>>

WriteModel(i) ==
  /\ At(i, "write model")
  /\ modelName' = [modelName EXCEPT ![i] = ModelCandidate(i)] /\ Goto(i, "recheck")
  /\ UNCHANGED <<taskName, state, local, phase>>

\* Queried again after the write; then the names are kept.
SettledBlindly(i) == TRUE
Settled(i) == ~busy[i] /\ ~ModelCollision(i)
Settle(i) ==
  /\ At(i, "recheck model")
  /\ IF Settled(i)
     THEN /\ suffix' = [suffix EXCEPT ![i] = candidate[i]]
          /\ effective' = [effective EXCEPT ![i] =
               [task |-> TaskCandidate(i), model |-> IF phase[i] = "model" THEN ModelCandidate(i) ELSE None]]
          /\ Goto(i, "resolved") /\ UNCHANGED <<candidate, attempt>>
     ELSE Continue(i) /\ UNCHANGED state
  /\ UNCHANGED <<taskName, modelName, busy, phase>>

\* The training callback, or the detector publication, registers a model
\* under the requested name.
Register(i) ==
  /\ At(i, "resolved") /\ phase[i] = "task"
  /\ modelName' = [modelName EXCEPT ![i] = <<ModelRequest[i], Plain>>]
  /\ phase' = [phase EXCEPT ![i] = "model"] /\ Goto(i, "registered")
  /\ UNCHANGED <<taskName, state, local>>

Next ==
  \E i \in Invocations :
    \/ Resolve(i) \/ QueryTask(i) \/ QueryModel(i) \/ WriteTask(i) \/ WriteModel(i)
    \/ Settle(i) \/ Register(i)

Spec == Init /\ [][Next]_vars

---------------------------------------------------------------------------
(***************************************************************************)
(* "A project-local unique display name": invocations that resolved their  *)
(* names show exactly these, no two of them the same experiment or model   *)
(* name, whatever the queries and writes of the others interleave with.    *)
(***************************************************************************)
Unique ==
  \A i \in Invocations : At(i, "resolved") =>
    /\ effective[i].task = taskName[i]
    /\ phase[i] = "model" => effective[i].model = modelName[i] /\ modelName[i] \notin Taken
    /\ suffix[i] = taskName[i][2]
    /\ \A j \in Invocations \ {i} : At(j, "resolved") =>
         /\ taskName[i] # taskName[j]
         /\ phase[i] = "model" /\ phase[j] = "model" => modelName[i] # modelName[j]
=============================================================================
