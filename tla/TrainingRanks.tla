---------------------------- MODULE TrainingRanks ----------------------------
(***************************************************************************)
(* One distributed training outside Ultralytics: the owner spawns a rank   *)
(* for every GPU, polls them, relays rank zero's scalars, stops everything *)
(* and reads the receipts (runtime/workers.py, integrations/               *)
(* distributed_training.py, training_worker.py).                           *)
(*                                                                         *)
(* Every rank may leave a child behind.  The trees are ProcessTree's:      *)
(* terminate leaves nothing alive or raises.  Lines bounds the scalars; a  *)
(* line is written in two halves.                                          *)
(***************************************************************************)
EXTENDS Naturals, Sequences, FiniteSets

CONSTANTS World, Lines

VARIABLES
  rank,      \* unborn, running, zero or nonzero (its exit), killed
  child,     \* ranks with a live descendant
  receipt,   \* none, partial, success or error
  written,   \* halves of scalar lines in the events file
  trees,     \* ranks the owner can signal
  codes,     \* what poll returned in this round
  relayed,   \* the scalars that were reported
  handled,   \* trees that _stop_workers has been at, in order
  unstopped, \* those of them that failed
  interrupted, \* no, working, or stopping: in the midst of the cleanup
  status, unverified, pc

work == <<rank, child, receipt, written>>
stops == <<handled, unstopped>>
vars == <<work, trees, codes, relayed, stops, status, interrupted, unverified, pc>>

Ranks == 0..(World - 1)
Unknown == [r \in Ranks |-> "none"]

Init ==
  /\ rank = [r \in Ranks |-> "unborn"] /\ child = {}
  /\ receipt = [r \in Ranks |-> "none"] /\ written = 0
  /\ trees = {} /\ codes = Unknown /\ relayed = <<>>
  /\ handled = {} /\ unstopped = {}
  /\ status = "none" /\ interrupted = "no" /\ unverified = FALSE /\ pc = "spawn"

Running(r) == rank[r] = "running"
Alive == {r \in Ranks : Running(r)}

---------------------------------------------------------------------------
\* The ranks: training_worker.run.
Owned == UNCHANGED <<trees, codes, relayed, stops, status, interrupted, unverified, pc>>

Report ==
  /\ Running(0) /\ receipt[0] = "none" /\ written < 2 * Lines /\ written' = written + 1
  /\ UNCHANGED <<rank, child, receipt>> /\ Owned

Fork(r) ==
  /\ Running(r) /\ child' = child \union {r} /\ child' # child
  /\ UNCHANGED <<rank, receipt, written>> /\ Owned

\* The receipt is written before the exit, and an exception has one as well;
\* whole lines were written when rank zero succeeds.
WriteReceipt(r) ==
  /\ Running(r)
  /\ \/ receipt[r] = "none" /\ receipt' = [receipt EXCEPT ![r] = "partial"]
     \/ /\ receipt[r] = "partial"
        /\ \E s \in {"success", "error"} :
             /\ s = "success" /\ r = 0 => written = 2 * Lines
             /\ receipt' = [receipt EXCEPT ![r] = s]
  /\ UNCHANGED <<rank, child, written>> /\ Owned

Exit(r) ==
  /\ Running(r)
  /\ \/ receipt[r] = "success" /\ rank' = [rank EXCEPT ![r] = "zero"]
     \/ rank' = [rank EXCEPT ![r] = "nonzero"]
  /\ UNCHANGED <<child, receipt, written>> /\ Owned

---------------------------------------------------------------------------
\* The owner: run_workers.
Still == UNCHANGED <<work, relayed>>

Spawn(r) ==
  /\ pc = "spawn" /\ rank[r] = "unborn" /\ \A q \in 0..(r - 1) : rank[q] # "unborn"
  /\ rank' = [rank EXCEPT ![r] = "running"]
  /\ \/ trees' = trees \union {r} /\ status' = status /\ pc' = IF r = World - 1 THEN "poll" ELSE "spawn"
     \/ trees' = trees /\ status' = "raised" /\ pc' = "stop"
  /\ UNCHANGED <<child, receipt, written, relayed, codes, stops, interrupted, unverified>>

SpawnFails ==
  /\ pc = "spawn" /\ status' = "raised" /\ pc' = "stop"
  /\ Still /\ UNCHANGED <<trees, codes, stops, interrupted, unverified>>

Code(r) == IF rank[r] = "zero" THEN "zero" ELSE IF Running(r) THEN "running" ELSE "nonzero"
Poll(r) ==
  /\ pc = "poll" /\ codes[r] = "none" /\ \A q \in 0..(r - 1) : codes[q] # "none"
  /\ codes' = [codes EXCEPT ![r] = Code(r)]
  /\ pc' = IF r = World - 1 THEN "decide" ELSE "poll"
  /\ Still /\ UNCHANGED <<trees, stops, status, interrupted, unverified>>

\* A failed rank, then all that succeeded, then the deadline.
Succeeded == \A r \in Ranks : codes[r] = "zero"
Decide ==
  /\ pc = "decide"
  /\ IF \E r \in Ranks : codes[r] = "nonzero" THEN status' = "crash" /\ pc' = "stop"
     ELSE IF Succeeded THEN status' = "success" /\ pc' = "stop"
     ELSE status' = status /\ pc' = "monitor"
  /\ codes' = Unknown
  /\ Still /\ UNCHANGED <<trees, stops, interrupted, unverified>>

\* _WorkerEvents.poll: complete lines from the kept offset.
Offset == Len(relayed)
Relay == relayed' = relayed \o [i \in 1..((written \div 2) - Offset) |-> Offset + i]

Monitor ==
  /\ pc = "monitor" /\ Relay
  /\ \/ pc' = "poll" /\ status' = status
     \/ pc' = "stop" /\ status' = "timeout"
  /\ UNCHANGED <<work, trees, codes, stops, interrupted, unverified>>

\* KeyboardInterrupt or SIGTERM's SystemExit, once; in the cleanup it leaves
\* the rest to the enclosing scope.
Interrupt ==
  /\ pc \in {"spawn", "poll", "decide", "monitor", "stop"} /\ interrupted = "no"
  /\ interrupted' = IF pc = "stop" THEN "stopping" ELSE "working"
  /\ status' = "raised" /\ pc' = IF pc = "stop" THEN "scope" ELSE "stop"
  /\ Still /\ UNCHANGED <<trees, codes, stops, unverified>>

\* _stop_workers: one tree after the other is signalled and terminated; a tree
\* may be gone although the signal failed, or outlive a failed terminate.
Kill(R) == [r \in Ranks |-> IF r \in R /\ Running(r) THEN "killed" ELSE rank[r]]
Goes(r) == r \in trees \ handled /\ \A q \in trees \ handled : r <= q
StopTree(r) ==
  /\ pc = "stop" /\ Goes(r)
  /\ handled' = handled \union {r}
  /\ \/ /\ rank' = Kill({r}) /\ child' = child \ {r}
        /\ unstopped' \in {unstopped, unstopped \union {r}}
     \/ rank' \in {rank, Kill({r})} /\ child' = child /\ unstopped' = unstopped \union {r}
  /\ UNCHANGED <<receipt, written, relayed, trees, codes, status, interrupted, unverified, pc>>

\* A failure, or a rank without a tree that does not end, is raised at the end.
HandledOrFailed == trees \subseteq handled \/ unstopped # {}
Handled == trees \subseteq handled
StopWorkers ==
  /\ pc = "stop" /\ Handled
  /\ pc' = "scope"
  /\ status' = IF unstopped # {} \/ Alive \ trees # {} THEN "raised" ELSE status
  /\ Still /\ UNCHANGED <<trees, codes, stops, interrupted, unverified>>

\* native_descendant_scope: every new descendant, or the cleanup is unverified.
Scoped == Ranks
LeaveScope ==
  /\ pc = "scope"
  /\ \/ rank' = Kill(Scoped) /\ child' = child \ Scoped /\ unverified' = FALSE
        /\ pc' = IF status = "raised" THEN "raised" ELSE "finish"
     \/ rank' = rank /\ child' = child /\ unverified' = TRUE /\ pc' = "raised"
  /\ UNCHANGED <<receipt, written, relayed, trees, codes, stops, status, interrupted>>

\* events.finish, then every receipt there is.
Finish ==
  /\ pc = "finish" /\ Relay
  /\ pc' = IF /\ status = "success"
              /\ \A r \in Ranks : receipt[r] = "success"
           THEN "returned" ELSE "raised"
  /\ UNCHANGED <<work, trees, codes, stops, status, interrupted, unverified>>

Next ==
  \/ Report \/ SpawnFails \/ Decide \/ Monitor \/ Interrupt \/ StopWorkers \/ LeaveScope \/ Finish
  \/ \E r \in Ranks : Fork(r) \/ WriteReceipt(r) \/ Exit(r) \/ Spawn(r) \/ Poll(r) \/ StopTree(r)

Spec == Init /\ [][Next]_vars

---------------------------------------------------------------------------
(***************************************************************************)
(* "Return only after all ranks and owned descendants exit, including on   *)
(* interruption" (workers.py:94), unless the cleanup itself is reported.   *)
(* A tree that cannot be stopped keeps no other one alive, unless the      *)
(* cleanup was interrupted, and is never passed over in silence.  A result *)
(* has every rank's success and every scalar of it was relayed, and none   *)
(* of any training twice or out of order.                                  *)
(***************************************************************************)
GroupWhole ==
  /\ pc \in {"finish", "returned", "raised"} /\ ~unverified => Alive = {} /\ child = {}
  /\ pc = "scope" /\ interrupted # "stopping" =>
       (Alive \union child) \intersect trees \subseteq unstopped
  /\ relayed = [i \in DOMAIN relayed |-> i]
  /\ pc = "returned" =>
       /\ \A r \in Ranks : rank[r] = "zero" /\ receipt[r] = "success"
       /\ Len(relayed) = Lines /\ unstopped = {}
=============================================================================
