------------------------------ MODULE TaskCache ------------------------------
(***************************************************************************)
(* The identity under which ClearML's controller looks up an earlier task  *)
(* (clearml/cache.py).  normalize_task_hash drops routing, replaces device *)
(* ordinals by their number and paths of a prepared dataset by its content *)
(* identity, and gives the whole projection up where that could make two   *)
(* different executions look alike.                                        *)
(*                                                                         *)
(* A representation is a record of the inputs the projection tells apart.  *)
(* A path is <<"path", directory, name>>; a device <<"ids", ordinals>>,    *)
(* <<"zeros", ordinals>> (written with leading zeros), <<"cpu">> or        *)
(* <<"dict", n>>.  The last form and <<"marker", content, name>> are what  *)
(* the projection itself writes.  MaxRuns bounds the tasks that ran.       *)
(***************************************************************************)
EXTENDS Naturals, Sequences, FiniteSets, FiniteSetsExt

CONSTANTS Tasks, MaxRuns

VARIABLES
  runs,    \* the tasks that ran, each with the identity it was recorded under
  reused   \* <<task, the run it was answered with>>, or <<>>

vars == <<runs, reused>>

Init == runs = {} /\ reused = <<>>

Recognized(t) == t.command # "other"

\* _document: other documents keep their bytes.
Parsed(t) == t.doc \in {"json", "escapes"}
Read(t, where) == t.where = where /\ (where = "run" => Parsed(t))
Visited(t) == \E where \in {"run", "hyper"} : Read(t, where)

Native(t) == Parsed(t) /\ t.command # "compare" /\ t.backend = "ultralytics"

\* _device, and the ordinals that every backend of this consumer accepts.
Ordinals(t) ==
  LET ids == t.device[2] IN
  /\ t.device[1] \in IF Native(t) THEN {"ids", "zeros"} ELSE {"ids"}
  /\ Native(t) \/ Len(ids) = 1
  /\ Cardinality({ids[i] : i \in DOMAIN ids}) = Len(ids)
Device(t) ==
  IF t.device[1] \in {"ids", "zeros"} /\ Ordinals(t) THEN <<"dict", Len(t.device[2])>> ELSE t.device

\* _dataset_binding and _dataset_path: a path below the prepared root.
Bound(t) == Parsed(t) /\ t.content # "none"
Data(t) ==
  IF Bound(t) /\ t.data[1] = "path" /\ t.data[2] = t.root THEN <<"marker", t.content, t.data[3]>> ELSE t.data

\* _reference_uses_project, _project_is_input.
ProjectIsInput(t) ==
  /\ t.reference = "search"
  /\ t.command = "compare" \/ (t.command = "pipeline" /\ t.skip # "compare")

\* _remove_routing: a skipped producer makes the destination an input.
KeepsOutputNot(t) == FALSE
KeepsOutput(t) == t.command = "pipeline" /\ t.skip # "nothing"

\* Raw inputs in a form the projection writes, and escapes on which the SDK
\* and JSON disagree.
Unsafe(t) ==
  \/ t.doc = "escapes"
  \/ Visited(t) /\ (t.device[1] = "dict" \/ t.data[1] = "marker")

Projected(t) ==
  LET routed == IF ~Parsed(t) THEN t
                ELSE [t EXCEPT !.output = IF KeepsOutput(t) THEN @ ELSE "gone",
                               !.project = IF ProjectIsInput(t) THEN @ ELSE "gone",
                               !.root = IF Bound(t) THEN "gone" ELSE @]
  IN IF Visited(t) THEN [routed EXCEPT !.device = Device(t), !.data = Data(t)] ELSE routed

Normalize(t) ==
  LET plain == [t EXCEPT !.overrides = "gone"] IN
  CASE ~Recognized(t) -> t
    [] Recognized(t) /\ (t.policy = 1 \/ Unsafe(t)) -> plain
    [] OTHER -> [Projected(plain) EXCEPT !.policy = 1]

\* The callback may be composed with itself.
Identities(t) == {Normalize(t), Normalize(Normalize(t))}

Reuse(t) ==
  \E r \in runs : r.identity \in Identities(t) /\ reused' = <<t, r.task>> /\ UNCHANGED runs

Run(t) ==
  /\ Cardinality(runs) < MaxRuns
  /\ \E i \in Identities(t) :
       /\ \A r \in runs : r.identity # i
       /\ runs' = runs \union {[task |-> t, identity |-> i]}
  /\ reused' = <<>>

Next == \E t \in Tasks : Reuse(t) \/ Run(t)
Spec == Init /\ [][Next]_vars

---------------------------------------------------------------------------
(***************************************************************************)
(* What a task really executes: how many GPUs its backend opens (torch     *)
(* refuses leading zeros and lists), the bytes its paths lead to, the      *)
(* files it takes over from a destination, the project it searches.        *)
(***************************************************************************)
Opens(t) ==
  LET ids == t.device[2]
      native == t.backend = "ultralytics" /\ t.command # "compare"
  IN IF /\ t.device[1] = "ids" \/ (t.device[1] = "zeros" /\ native)
        /\ native \/ Len(ids) = 1
        /\ \A i, j \in DOMAIN ids : i # j => ids[i] # ids[j]
     THEN <<"GPUs", Len(ids)>> ELSE <<"as written", t.device>>

Bytes(t) ==
  IF t.data[1] = "path" /\ t.data[2] = t.root /\ t.content # "none"
  THEN <<"bytes", t.content, t.data[3]>> ELSE <<"as written", t.data>>

Execution(t) ==
  [command |-> t.command, document |-> t.doc, backend |-> t.backend,
   device |-> Opens(t), data |-> Bytes(t), skip |-> t.skip,
   takes |-> IF t.command = "pipeline" /\ t.skip # "nothing" THEN t.output ELSE "nothing",
   searches |-> IF ProjectIsInput(t) THEN t.project ELSE t.reference]

(***************************************************************************)
(* A task that is answered with an earlier run would have executed the     *)
(* same thing, however the callback was composed (cache.py:396).           *)
(***************************************************************************)
Alike == reused # <<>> => Execution(reused[1]) = Execution(reused[2])
=============================================================================
