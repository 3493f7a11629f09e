----------------------------- MODULE ViewerWorker -----------------------------
(***************************************************************************)
(* The process that runs one viewer operation and its supervisor           *)
(* (adapters/fiftyone/bounded.py, worker.py): a gate the worker waits at,  *)
(* a deadline, termination of everything the worker started, a receipt,    *)
(* and a scratch directory that must not vanish under a living process.    *)
(*                                                                         *)
(* A helper is a process of the worker's session; it stays when the worker *)
(* exits.  The supervisor signals what its last look at the process table  *)
(* identified.  Helpers start while the worker is waited for: one that is  *)
(* forked between the last look and the kill is not modelled.  An          *)
(* interruption (Ctrl-C, cancellation) may arrive anywhere between attach  *)
(* and the end of the cleanup, once.                                       *)
(***************************************************************************)
EXTENDS Naturals, FiniteSets

CONSTANTS Helpers, Worker, MaxLooks

VARIABLES
  pc, phase,         \* of the supervisor and of the worker
  attached, gate,
  late, interrupted, \* the deadline has passed; the one interruption came
  alive,             \* processes of the operation
  status,            \* the worker's exit status: "none", "zero", "error"
  stubborn,          \* processes that ignore SIGTERM, or even SIGKILL for now
  known,             \* identities of _OwnedProcesses
  result,            \* the receipt file: "none", "mine", "other", "broken"
  looks,             \* polls of the current cleanup loop
  error, scratch, outcome

process == <<alive, status>>
vars == <<pc, phase, attached, gate, late, interrupted, process, stubborn,
          known, result, looks, error, scratch, outcome>>

Init ==
  /\ pc = "mark" /\ phase = "none" /\ attached = FALSE /\ gate = FALSE
  /\ late = FALSE /\ interrupted = FALSE
  /\ alive = {} /\ status = "none"
  /\ stubborn \in [Helpers \union {Worker} -> {"obeys", "survives", "stuck"}]
  /\ known = {} /\ result = "none" /\ looks = 0
  /\ error = "none" /\ scratch = "made" /\ outcome = "none"

Go(from, to) == pc = from /\ pc' = to

---------------------------------------------------------------------------
\* _operation_scratch: no durable marker, no operation.
Mark ==
  /\ \/ Go("mark", "spawn") /\ UNCHANGED <<scratch, outcome>>
     \/ Go("mark", "end") /\ scratch' = "removed" /\ outcome' = "raised"
  /\ UNCHANGED <<phase, attached, gate, late, interrupted, process, stubborn, known, result, looks, error>>

Spawn ==
  /\ Go("spawn", "attach")
  /\ alive' = {Worker} /\ phase' = "gate"
  /\ UNCHANGED <<attached, gate, late, interrupted, status, stubborn, known, result, looks, error, scratch, outcome>>

\* attach, then the gate: an unsupported platform is an error.
Attach ==
  /\ \/ Go("attach", "wait") /\ attached' = TRUE /\ gate' = TRUE /\ UNCHANGED error
     \/ Go("attach", "terminate") /\ error' = "failed" /\ UNCHANGED <<attached, gate>>
  /\ UNCHANGED <<phase, late, interrupted, process, stubborn, known, result, looks, scratch, outcome>>

\* refresh: what descends from a known process or is of the worker's session.
SeenOnce == known \union (alive \intersect {Worker})
Seen == known \union alive
Refresh ==
  /\ pc = "wait" /\ known' = Seen /\ known # Seen
  /\ UNCHANGED <<pc, phase, attached, gate, late, interrupted, process, stubborn, result, looks, error, scratch, outcome>>

\* The loop ends with the deadline or with the exit of the worker.
Expire ==
  /\ late /\ Go("wait", "terminate") /\ error' = "failed"
  /\ UNCHANGED <<phase, attached, gate, late, interrupted, process, stubborn, known, result, looks, scratch, outcome>>

\* _validated_result: of this operation and task, complete.
Acceptable == status = "zero" /\ ~late /\ result = "mine"
Exited ==
  /\ Worker \notin alive /\ Go("wait", "terminate")
  /\ error' = IF Acceptable THEN error ELSE "failed"
  /\ UNCHANGED <<phase, attached, gate, late, interrupted, process, stubborn, known, result, looks, scratch, outcome>>

---------------------------------------------------------------------------
\* cleanup: everything identified is signalled, after another look.
Gone(kinds) == {q \in Seen : stubborn[q] \in kinds}
Signal(kinds) ==
  /\ known' = Seen
  /\ alive' = alive \ Gone(kinds)
  /\ status' = IF Worker \in alive \ alive' THEN "error" ELSE status
Terminate ==
  /\ Go("terminate", "settle") /\ Signal({"obeys"}) /\ looks' = 0
  /\ UNCHANGED <<phase, attached, gate, late, interrupted, stubborn, result, error, scratch, outcome>>

Living == (known \intersect alive) \union (alive \intersect {Worker})
LookAgain ==
  /\ pc = "settle" /\ Living # {} /\ looks < MaxLooks
  /\ looks' = looks + 1 /\ known' = Seen
  /\ UNCHANGED <<pc, phase, attached, gate, late, interrupted, process, stubborn, result, error, scratch, outcome>>
Destroy ==
  /\ Living # {} /\ looks = MaxLooks
  /\ Go("settle", "reap") /\ Signal({"obeys", "survives"})
  /\ UNCHANGED <<phase, attached, gate, late, interrupted, stubborn, result, looks, error, scratch, outcome>>

\* What is still alive leaves the ownership unproved: the scratch stays, and
\* the error of the cleanup replaces the operation's unless that is a
\* cancellation.
Unproved == Living # {}
Retained == scratch' = "retained" /\ error' = IF error = "cancelled" THEN error ELSE "unsafe"
Reap ==
  /\ pc = "reap" \/ (pc = "settle" /\ Living = {})
  /\ pc' = "close"
  /\ IF Unproved THEN Retained ELSE UNCHANGED <<scratch, error>>
  /\ UNCHANGED <<phase, attached, gate, late, interrupted, process, stubborn, known, result, looks, outcome>>

\* The end of the context: the directory goes unless it is retained, and a
\* deadline that passed in the cleanup fails the operation as well.
KeepsScratch == scratch = "retained"
Close ==
  /\ Go("close", "end")
  /\ scratch' = IF KeepsScratch THEN scratch ELSE "removed"
  /\ outcome' = IF error = "none" /\ ~late THEN "returned" ELSE "raised"
  /\ UNCHANGED <<phase, attached, gate, late, interrupted, process, stubborn, known, result, looks, error>>

\* An interruption ends the wait; one that ends the cleanup retains.
Interrupt ==
  /\ ~interrupted /\ interrupted' = TRUE /\ error' = "cancelled"
  /\ \/ pc \in {"attach", "wait"} /\ pc' = "terminate" /\ UNCHANGED scratch
     \/ pc \in {"terminate", "settle", "reap"} /\ pc' = "close" /\ scratch' = "retained"
  /\ UNCHANGED <<phase, attached, gate, late, process, stubborn, known, result, looks, outcome>>

---------------------------------------------------------------------------
\* The worker: gate, bootstrap, import, work, receipt, shutdown.
Work(from, to) == Worker \in alive /\ phase = from /\ phase' = to
Pass ==
  /\ gate /\ Work("gate", "work")
  /\ UNCHANGED <<pc, attached, gate, late, interrupted, process, stubborn, known, result, looks, error, scratch, outcome>>
Fork ==
  /\ phase = "work" /\ Worker \in alive /\ pc = "wait"
  /\ \E h \in Helpers \ alive : alive' = alive \union {h}
  /\ UNCHANGED <<pc, phase, attached, gate, late, interrupted, status, stubborn, known, result, looks, error, scratch, outcome>>
Answer ==
  /\ Work("work", "shutdown")
  /\ result' \in {"mine", "other", "broken"}
  /\ UNCHANGED <<pc, attached, gate, late, interrupted, process, stubborn, known, looks, error, scratch, outcome>>
Exit ==
  /\ Worker \in alive /\ alive' = alive \ {Worker}
  /\ status' = IF phase = "shutdown" THEN "zero" ELSE "error"
  /\ UNCHANGED <<pc, phase, attached, gate, late, interrupted, stubborn, known, result, looks, error, scratch, outcome>>
HelperEnds ==
  /\ \E h \in Helpers \intersect alive : alive' = alive \ {h}
  /\ UNCHANGED <<pc, phase, attached, gate, late, interrupted, status, stubborn, known, result, looks, error, scratch, outcome>>
Deadline ==
  /\ ~late /\ pc # "end" /\ late' = TRUE
  /\ UNCHANGED <<pc, phase, attached, gate, interrupted, process, stubborn, known, result, looks, error, scratch, outcome>>

Done == pc = "end" /\ UNCHANGED vars

Next ==
  \/ Mark \/ Spawn \/ Attach \/ Refresh \/ Expire \/ Exited
  \/ Terminate \/ LookAgain \/ Destroy \/ Reap \/ Close \/ Interrupt
  \/ Pass \/ Fork \/ Answer \/ Exit \/ HelperEnds \/ Deadline \/ Done
Spec == Init /\ [][Next]_vars

---------------------------------------------------------------------------
\* The directory the worker reads and writes is removed only when every
\* process of the operation is gone, whatever ignored a signal and at whichever
\* of these steps an interruption came; an answer is only of a worker that exited
\* cleanly in time, with its own receipt and nothing left behind; and no
\* worker works before its ownership is accounted for.
ScratchSafe ==
  /\ scratch = "removed" => alive = {}
  /\ outcome = "returned" => Acceptable /\ alive = {} /\ error = "none"
  /\ phase \notin {"none", "gate"} => attached
=============================================================================
