---------------------------- MODULE TaskVerdict ----------------------------
(***************************************************************************)
(* What one command promises about the remote status of its ClearML task,  *)
(* without saying how: the verdict of a task only ever gets worse, success *)
(* is announced only with every required delivery confirmed, and a warning *)
(* only over a trained checkpoint or a complete delivery.                  *)
(***************************************************************************)
EXTENDS Naturals

VARIABLES
  task,       \* how many tasks this process has tried to create
  verdict,    \* the status the server shows for the newest one
  delivered,  \* required artifacts and console output are confirmed
  trained     \* a verified training checkpoint exists

vars == <<task, verdict, delivered, trained>>

Evidence == delivered' \in BOOLEAN /\ trained' \in BOOLEAN

Init == task = 0 /\ verdict = "none" /\ delivered = FALSE /\ trained = FALSE

Create ==
  /\ task' = task + 1
  /\ verdict' \in {"none", "in_progress"}
  /\ Evidence

Work == UNCHANGED <<task, verdict>> /\ Evidence

Complete ==
  /\ verdict = "in_progress"
  /\ delivered
  /\ verdict' = "completed"
  /\ UNCHANGED task
  /\ Evidence

Warn ==
  /\ verdict \in {"in_progress", "completed", "warned"}
  /\ trained \/ delivered
  /\ verdict' = "warned"
  /\ UNCHANGED task
  /\ Evidence

Fail ==
  /\ verdict # "none"
  /\ verdict' = "failed"
  /\ UNCHANGED task
  /\ Evidence

Next == Create \/ Work \/ Complete \/ Warn \/ Fail
Spec == Init /\ [][Next]_vars
=============================================================================
