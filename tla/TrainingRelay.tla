---------------------------- MODULE TrainingRelay ----------------------------
(***************************************************************************)
(* Native training in spawned ranks and the publication of its events:     *)
(* rank zero appends its callbacks to a journal, a thread of the owner     *)
(* reads it while training runs, and the owner replays the records through *)
(* the installed callbacks (integrations/native_ddp.py, native_runtime.py, *)
(* training.py).  Without ranks the callbacks run directly.                *)
(*                                                                         *)
(* Script is the events of a complete training, Scalars those that report  *)
(* values.  A journal line is two halves, 2k-1 and 2k for the k-th event,  *)
(* since the reader may see a line that is not finished.                   *)
(***************************************************************************)
EXTENDS Naturals, Sequences

CONSTANTS Script, Scalars

VARIABLES
  journal,            \* halves that rank zero has written
  ranks, ddp,         \* running, done or crashed; whether there are ranks
  captured,           \* scalars go to the journal of the invocation
  stop, thread,       \* the relay's event; where _consume is, or dead
  payload, offset, pending, consumed,
  scalars,            \* how often the values of each event were reported
  dispatched,         \* events whose callbacks have run in the owner
  pipeline, kept,     \* a pipeline's checkpoint is recorded as a success
  pc, warned

reading == <<payload, offset, pending, consumed>>
modes == <<ddp, captured, pipeline>>
vars == <<journal, ranks, modes, stop, thread, reading, scalars, dispatched, kept, pc, warned>>

Events == DOMAIN Script
Last == Len(Script)
Reported(k) == [scalars EXCEPT ![k] = IF k \in Scalars THEN @ + 1 ELSE @]

Init ==
  /\ journal = 0 /\ ranks = "running" /\ ddp \in BOOLEAN /\ captured \in BOOLEAN
  /\ stop = FALSE /\ thread = "wait"
  /\ payload = <<>> /\ offset = 0 /\ pending = <<>> /\ consumed = <<>>
  /\ scalars = [k \in Events |-> 0] /\ dispatched = <<>>
  /\ pipeline \in BOOLEAN /\ kept = FALSE /\ pc = "train" /\ warned = FALSE

---------------------------------------------------------------------------
\* _capture_event: the values first, if a capture is bound; then the line.
Capture ==
  /\ ddp /\ ranks = "running" /\ journal < 2 * Last
  /\ journal' = journal + 1
  /\ scalars' = IF captured /\ journal % 2 = 0 THEN Reported((journal \div 2) + 1) ELSE scalars
  /\ UNCHANGED <<ranks, modes, stop, thread, reading, dispatched, kept, pc, warned>>

RanksExit ==
  /\ ranks = "running"
  /\ \/ ranks' = "done" /\ IF ddp THEN journal = 2 * Last ELSE Len(dispatched) = Last
     \/ ranks' = "crashed"
  /\ UNCHANGED <<journal, modes, stop, thread, reading, scalars, dispatched, kept, pc, warned>>

\* The owner's own callbacks; the last one records the success first.
Callback ==
  /\ ~ddp /\ pc = "train" /\ ranks = "running" /\ Len(dispatched) < Last
  /\ LET k == Len(dispatched) + 1 IN
       /\ kept' = (kept \/ (pipeline /\ k = Last))
       /\ \/ dispatched' = Append(dispatched, k) /\ scalars' = Reported(k)
             /\ UNCHANGED <<pc, warned>>
          \/ k < Last /\ pc' = "raised" /\ UNCHANGED <<dispatched, scalars, warned>>
          \/ k = Last /\ dispatched' = Append(dispatched, k) /\ scalars' = scalars
             /\ IF pipeline THEN warned' = TRUE /\ pc' = pc ELSE pc' = "raised" /\ warned' = warned
  /\ UNCHANGED <<journal, ranks, modes, stop, thread, reading>>

---------------------------------------------------------------------------
\* _consume_live and _consume: stop is looked at before and after the read
\* and before every record.
Wait ==
  /\ thread = "wait"
  /\ thread' = IF stop THEN "dead" ELSE IF ddp THEN "read" ELSE "wait"
  /\ UNCHANGED <<journal, ranks, modes, stop, reading, scalars, dispatched, kept, pc, warned>>

Halves(from) == [i \in 1..(journal - from) |-> from + i]
ReadJournal ==
  /\ thread = "read" /\ payload' = Halves(offset) /\ thread' = "store"
  /\ UNCHANGED <<journal, ranks, modes, stop, offset, pending, consumed, scalars, dispatched, kept, pc, warned>>

Continues(to) == thread' = IF stop THEN "dead" ELSE to
CheckRead ==
  /\ thread = "store" /\ Continues("keep")
  /\ UNCHANGED <<journal, ranks, modes, stop, reading, scalars, dispatched, kept, pc, warned>>

Keep ==
  /\ thread = "keep" /\ thread' = "accept"
  /\ offset' = offset + Len(payload) /\ pending' = pending \o payload /\ payload' = <<>>
  /\ UNCHANGED <<journal, ranks, modes, stop, consumed, scalars, dispatched, kept, pc, warned>>

\* A line ends with an even half; it and the remainder are split off first.
HasLine == \E i \in DOMAIN pending : pending[i] % 2 = 0
CheckLine ==
  /\ thread = "accept" /\ IF HasLine THEN Continues("append") ELSE thread' = "wait"
  /\ payload' = IF HasLine THEN pending ELSE <<>>
  /\ UNCHANGED <<journal, ranks, modes, stop, offset, pending, consumed, scalars, dispatched, kept, pc, warned>>

AcceptRecord ==
  /\ thread = "append" /\ thread' = "cut" /\ consumed' = Append(consumed, payload[2] \div 2)
  /\ UNCHANGED <<journal, ranks, modes, stop, payload, offset, pending, scalars, dispatched, kept, pc, warned>>

Cut ==
  /\ thread = "cut" /\ thread' = "accept" /\ pending' = SubSeq(payload, 3, Len(payload))
  /\ UNCHANGED <<journal, ranks, modes, stop, payload, offset, consumed, scalars, dispatched, kept, pc, warned>>

---------------------------------------------------------------------------
Owner(from, to) == pc = from /\ pc' = to
Idle == UNCHANGED <<journal, ranks, modes, thread, reading, scalars, dispatched>>

\* model.train returns or raises; the checkpoint is required, then recorded.
NativeRaises ==
  /\ pc = "train" /\ ranks = "crashed" /\ pc' = "raised" /\ stop' = TRUE
  /\ Idle /\ UNCHANGED <<kept, warned>>

NativeReturns ==
  /\ Owner("train", "returned") /\ ranks = "done"
  /\ kept' = pipeline
  /\ Idle /\ UNCHANGED <<stop, warned>>

\* record_training_publication_failure: a kept training only warns.
Failure ==
  /\ pc \in {"returned", "joining", "consume", "replay", "final", "finalize"}
  /\ stop' = TRUE
  /\ IF kept THEN pc' = "done" /\ warned' = TRUE ELSE pc' = "raised" /\ warned' = warned
  /\ Idle /\ UNCHANGED kept

\* replay: stop and join the thread; one that stays alive is a failure.
StopConsumer ==
  /\ Owner("returned", "joining") /\ stop' = TRUE
  /\ Idle /\ UNCHANGED <<kept, warned>>

JoinedNot == TRUE
Joined == thread = "dead"
Join ==
  /\ pc = "joining" /\ Joined /\ pc' = IF ddp THEN "consume" ELSE "finalize"
  /\ Idle /\ UNCHANGED <<stop, kept, warned>>

\* _consume(final=True) takes what is left.
ConsumeRest ==
  LET rest == pending \o Halves(offset) IN
  /\ Owner("consume", "replay")
  /\ offset' = journal
  /\ consumed' = consumed \o [i \in 1..(Len(rest) \div 2) |-> rest[2 * i] \div 2]
  /\ pending' = SubSeq(rest, 2 * (Len(rest) \div 2) + 1, Len(rest))
  /\ UNCHANGED <<journal, ranks, modes, stop, thread, payload, scalars, dispatched, kept, warned>>

\* _dispatch, with journaled values suppressed.
Suppressed == captured
Dispatch(k) ==
  /\ dispatched' = Append(dispatched, k)
  /\ scalars' = IF Suppressed THEN scalars ELSE Reported(k)
  /\ UNCHANGED <<journal, ranks, modes, stop, thread, reading, kept, warned>>

\* Everything but on_train_end; nothing follows that (_accept_record).
Ended == consumed # <<>> /\ consumed[Len(consumed)] = Last
Ahead == IF Ended THEN SubSeq(consumed, 1, Len(consumed) - 1) ELSE consumed
Replay ==
  /\ pc = "replay"
  /\ IF Len(dispatched) < Len(Ahead)
     THEN pc' = pc /\ Dispatch(Ahead[Len(dispatched) + 1])
     ELSE pc' = "final" /\ Idle /\ UNCHANGED <<stop, kept, warned>>

\* _records: a complete journal, before on_train_end is dispatched.
Complete == pending = <<>> /\ Ended
ReplayEnd == Owner("final", "finalize") /\ Complete /\ Dispatch(Last)

\* The normalised arguments are written and the model is finalised.
FinalizeModel ==
  /\ Owner("finalize", "done")
  /\ Idle /\ UNCHANGED <<stop, kept, warned>>

Next ==
  \/ Capture \/ RanksExit \/ Callback \/ Wait \/ ReadJournal \/ CheckRead \/ Keep
  \/ CheckLine \/ AcceptRecord \/ Cut
  \/ NativeRaises \/ NativeReturns \/ Failure \/ StopConsumer \/ Join \/ ConsumeRest
  \/ Replay \/ ReplayEnd \/ FinalizeModel

Spec == Init /\ [][Next]_vars

---------------------------------------------------------------------------
(***************************************************************************)
(* The owner runs the callbacks of a training in its order and each once,  *)
(* whatever the thread was doing when it was stopped; values are never     *)
(* reported twice; an unwarned result has all of both; and publication     *)
(* never costs a pipeline a training that returned.                        *)
(***************************************************************************)
ReplayedOnce ==
  /\ dispatched = [k \in DOMAIN dispatched |-> k]
  /\ \A k \in Events : scalars[k] <= 1
  /\ pc = "done" /\ ~warned =>
       Len(dispatched) = Last /\ \A k \in Scalars : scalars[k] = 1
  /\ pc = "raised" => ~(pipeline /\ ranks = "done")
=============================================================================
