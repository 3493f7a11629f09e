-------------------------- MODULE ConsoleDelivery --------------------------
(***************************************************************************)
(* Delivery of captured output: the append-only logs of                    *)
(* adapters/observability/capture.py, ConsolePublisher of                  *)
(* adapters/clearml/console.py in the task's owner, and the worker process *)
(* of adapters/clearml/console_worker.py that tails the logs for it.       *)
(*                                                                         *)
(* The two processes talk through four files: the owner writes the offsets *)
(* to start from, the offsets of a barrier and the final ones, the worker  *)
(* a receipt after every flush.  Each is replaced atomically.              *)
(*                                                                         *)
(* Of the console a byte is whitespace "s", a character "c", or the lead   *)
(* "L" and the tail "T" of one character; stdout and stderr are alike, so  *)
(* one stands for both.  A row of the scalar journal is two bytes long.    *)
(***************************************************************************)
EXTENDS Naturals, Sequences, FiniteSets

CONSTANTS
  MaxBytes,       \* bytes of console output
  MaxRows,        \* complete rows of the scalar journal
  Batch,          \* bytes a worker reads of a log at once
  MaxToken,       \* _MAX_TOKEN: the longest text held back
  MaxPublishers,  \* publishers over one capture
  MaxBarriers,    \* barriers over one capture
  OtherWriters    \* do other processes write while the owner waits?

ASSUME DeliveryAssumption ==
  /\ MaxBytes \in Nat /\ MaxRows \in Nat
  /\ Batch \in Nat \ {0} /\ MaxToken \in Nat
  /\ MaxPublishers \in Nat /\ MaxBarriers \in Nat
  /\ OtherWriters \in BOOLEAN

VARIABLES
  console,     \* the console log
  journal,     \* bytes in the scalar journal
  started,     \* capture.publication_started
  sup,         \* where the owner's ConsolePublisher stands
  publishers,  \* publishers created
  barriers,    \* barriers requested
  initial,     \* publisher-initial.json
  request,     \* publisher-barrier.json
  final,       \* publisher-final.json
  receipt,     \* publisher-receipt.json
  wpc,         \* where the worker stands
  stopping,    \* run: final
  limits,      \* run: limits
  offsets,     \* run: offsets, acknowledged by the last batch
  position,    \* console bytes read: offsets plus pending_bytes
  discard,     \* HumanTextStream._discard
  sink,        \* bytes reported to the SDK and not yet flushed
  server,      \* bytes the server confirmed
  repeated     \* was a byte reported twice?

logs     == <<console, journal>>
controls == <<initial, request, final>>
owner    == <<started, sup, publishers, barriers>>
reader   == <<offsets, position, discard>>
remote   == <<sink, server, repeated>>
vars     == <<logs, controls, receipt, owner, wpc, stopping, limits, reader, remote>>

Streams == {"console", "scalars"}
NoFile  == <<>>
Zero    == [s \in Streams |-> 0]
Nothing == [s \in Streams |-> {}]

\* OutputCapture.offsets
Sizes == [s \in Streams |-> IF s = "console" THEN Len(console) ELSE journal]
Bytes(a, b) == (a + 1)..b
Covers(o, target) == \A s \in Streams : o[s] >= target[s]
Working == wpc \notin {"off", "done", "dead"}

Init ==
  /\ console = <<>> /\ journal = 0
  /\ started = FALSE /\ sup = "idle" /\ publishers = 0 /\ barriers = 0
  /\ initial = Zero /\ request = NoFile /\ final = NoFile /\ receipt = NoFile
  /\ wpc = "off" /\ stopping = FALSE /\ limits = NoFile
  /\ offsets = Zero /\ position = 0 /\ discard = FALSE
  /\ sink = Nothing /\ server = Nothing /\ repeated = FALSE

-----------------------------------------------------------------------------
(* The captured processes *)

\* The owner's own thread says nothing while it waits; its children may.
Speaks == OtherWriters \/ sup \notin {"barrier", "finish"}
HalfWritten == console # <<>> /\ console[Len(console)] = "L"

Speak(byte) ==
  /\ Speaks
  /\ Len(console) < MaxBytes
  /\ byte = "T" <=> HalfWritten
  /\ console' = Append(console, byte)
  /\ UNCHANGED <<journal, controls, receipt, owner, wpc, stopping, limits, reader, remote>>

\* append_scalar, by one write
AppendScalar ==
  /\ Speaks
  /\ journal % 2 = 0 /\ journal < 2 * MaxRows
  /\ journal' = journal + 2
  /\ UNCHANGED <<console, controls, receipt, owner, wpc, stopping, limits, reader, remote>>

\* The disk filled up in the middle of a row: "Incomplete scalar journal write".
TornScalar ==
  /\ Speaks
  /\ journal % 2 = 0
  /\ journal' = journal + 1
  /\ UNCHANGED <<console, controls, receipt, owner, wpc, stopping, limits, reader, remote>>

-----------------------------------------------------------------------------
(* The worker: run() and publish_batch() *)

Attach ==
  /\ wpc = "attach"
  /\ wpc' = "look"
  /\ offsets' = initial /\ position' = initial["console"] /\ discard' = FALSE
  /\ UNCHANGED <<logs, controls, receipt, owner, stopping, limits, remote>>

\* publisher-final.json decides first,
LookFinal ==
  /\ wpc = "look"
  /\ stopping' = (final # NoFile)
  /\ limits' = final
  /\ wpc' = IF final # NoFile THEN "console" ELSE "ask"
  /\ UNCHANGED <<logs, controls, receipt, owner, reader, remote>>

\* then a barrier the worker has not covered yet.
LookBarrier ==
  /\ wpc = "ask"
  /\ limits' = IF request # NoFile /\ ~Covers(offsets, request) THEN request ELSE NoFile
  /\ wpc' = "console"
  /\ UNCHANGED <<logs, controls, receipt, owner, stopping, reader, remote>>

\* What one read of a log returns.
ReadTo(from, s) ==
  LET wanted == IF limits = NoFile \/ from + Batch <= limits[s] THEN from + Batch
                ELSE IF limits[s] > from THEN limits[s] ELSE from
  IN IF wanted <= Sizes[s] THEN wanted ELSE Sizes[s]
AtLimit(n, s) == limits # NoFile /\ n >= limits[s]

Report(s, upto) ==
  /\ sink' = [sink EXCEPT ![s] = @ \union Bytes(offsets[s], upto)]
  /\ repeated' = (repeated \/ Bytes(offsets[s], upto) \intersect (sink[s] \union server[s]) # {})
  /\ offsets' = [offsets EXCEPT ![s] = upto]
  /\ UNCHANGED server

\* The decoder holds the lead byte of a character whose tail was not read.
HalfAt(n)  == n > initial["console"] /\ console[n] = "L"
Decoded(n) == IF HalfAt(n) THEN n - 1 ELSE n

(***************************************************************************)
(* HumanTextStream.feed: whitespace releases what is held back; a token    *)
(* longer than MaxToken is dropped, with everything up to the next         *)
(* whitespace.  upto is the first byte not handled yet.                    *)
(***************************************************************************)
Spaces(n) == {i \in Bytes(offsets["console"], Decoded(n)) : console[i] = "s"}
Feed(n) ==
  LET gaps  == Spaces(n)
      clear == IF gaps # {} THEN CHOOSE i \in gaps : \A j \in gaps : j <= i
               ELSE IF discard THEN Decoded(n) ELSE offsets["console"]
  IN IF Decoded(n) > clear + MaxToken
     THEN [upto |-> Decoded(n), discard |-> TRUE]
     ELSE [upto |-> clear, discard |-> discard /\ gaps = {}]

Take(n, upto, dropping) ==
  /\ position' = n /\ discard' = dropping
  /\ Report("console", upto)
  /\ wpc' = "scalars"
  /\ UNCHANGED <<logs, controls, receipt, owner, stopping, limits>>

\* An ordinary batch, or one that stops short of its limit.
PublishText ==
  LET n == ReadTo(position, "console") IN
  /\ wpc = "console" /\ ~AtLimit(n, "console")
  /\ Take(n, Feed(n).upto, Feed(n).discard)

\* Faulty variant: what is held back at a watermark waits for more text.
PublishWatermarkAsText ==
  LET n == ReadTo(position, "console") IN
  /\ wpc = "console" /\ AtLimit(n, "console") /\ ~stopping
  /\ Take(n, Feed(n).upto, Feed(n).discard)

(***************************************************************************)
(* The watermark of a barrier: nothing is held back but the lead byte of a *)
(* character, and its tail is read past the watermark when it is there.    *)
(* A possible reference cut off here is dropped up to the next whitespace. *)
(***************************************************************************)
PublishWatermark ==
  LET n == ReadTo(position, "console") IN
  /\ wpc = "console" /\ AtLimit(n, "console") /\ ~stopping
  /\ IF HalfAt(n)
     THEN IF n < Len(console) THEN Take(n + 1, n + 1, Feed(n).discard)
                              ELSE Take(n, Feed(n).upto, Feed(n).discard)
     ELSE \E cut \in BOOLEAN :
            /\ cut => Feed(n).upto < n /\ console[n] = "c"
            /\ Take(n, n, Feed(n).discard \/ cut)

\* The final offset flushes even half a character.
PublishEnd ==
  LET n == ReadTo(position, "console") IN
  /\ wpc = "console" /\ AtLimit(n, "console") /\ stopping
  /\ Take(n, n, discard /\ Spaces(n) = {})

\* The end of the last complete row of what was read, if there is one.
Rows(n) == IF n - (n % 2) > offsets["scalars"] THEN n - (n % 2) ELSE offsets["scalars"]

\* Complete rows only; the tail of a row is read again by the next batch.
PublishScalars ==
  LET n == ReadTo(offsets["scalars"], "scalars") IN
  /\ wpc = "scalars"
  /\ ~(stopping /\ AtLimit(n, "scalars") /\ Rows(n) # n)
  /\ Report("scalars", Rows(n))
  /\ wpc' = "flush"
  /\ UNCHANGED <<logs, controls, receipt, owner, stopping, limits, position, discard>>

\* sink.flush(wait=True)
Flush ==
  /\ wpc = "flush"
  /\ server' = [s \in Streams |-> server[s] \union sink[s]]
  /\ sink' = Nothing
  /\ wpc' = "receipt"
  /\ UNCHANGED <<logs, controls, receipt, owner, stopping, limits, reader, repeated>>

\* Faulty variant: acknowledges what was read, held back or not.
WriteReceiptOfReads ==
  /\ wpc = "receipt"
  /\ receipt' = [offsets EXCEPT !["console"] = position]
  /\ wpc' = IF ~stopping THEN "idle" ELSE IF offsets = limits THEN "done" ELSE "look"
  /\ stopping' = FALSE /\ limits' = NoFile
  /\ UNCHANGED <<logs, controls, owner, reader, remote>>

WriteReceipt ==
  /\ wpc = "receipt"
  /\ receipt' = offsets
  /\ wpc' = IF ~stopping THEN "idle" ELSE IF offsets = limits THEN "done" ELSE "look"
  /\ stopping' = FALSE /\ limits' = NoFile
  /\ UNCHANGED <<logs, controls, owner, reader, remote>>

\* The two seconds between batches, or less once the final offsets are there.
Rest ==
  /\ wpc = "idle"
  /\ wpc' = "look"
  /\ UNCHANGED <<logs, controls, receipt, owner, stopping, limits, reader, remote>>

\* What was reported and not flushed may or may not have been delivered.
Gone ==
  /\ wpc' = IF Working THEN "dead" ELSE wpc
  /\ sink' = Nothing
  /\ server' \in {server, [s \in Streams |-> server[s] \union sink[s]]}
  /\ stopping' = FALSE /\ limits' = NoFile
  /\ offsets' = Zero /\ position' = 0 /\ discard' = FALSE
  /\ UNCHANGED repeated

\* A flush that was not confirmed, a malformed journal, a lost process.
Crash ==
  /\ Working
  /\ Gone
  /\ UNCHANGED <<logs, controls, receipt, owner>>

-----------------------------------------------------------------------------
(* The owner: ConsolePublisher *)

\* __init__ and start: a later publisher begins where the logs stand now.
Start ==
  /\ sup \in {"idle", "acked", "failed"}
  /\ publishers < MaxPublishers /\ publishers' = publishers + 1
  /\ initial' = IF started THEN Sizes ELSE Zero
  /\ started' = TRUE
  /\ request' = NoFile /\ final' = NoFile /\ receipt' = NoFile
  /\ sup' = "running" /\ wpc' = "attach"
  /\ UNCHANGED <<logs, barriers, stopping, limits, reader, remote>>

\* The owner prints whole characters, so it never asks between two halves.
Barrier ==
  /\ sup = "running"
  /\ barriers < MaxBarriers /\ barriers' = barriers + 1
  /\ OtherWriters \/ ~HalfWritten
  /\ request' = Sizes
  /\ sup' = "barrier"
  /\ UNCHANGED <<logs, initial, final, receipt, started, publishers, wpc, stopping, limits,
                 reader, remote>>

\* Faulty variant: one stream that has arrived will do.
AcknowledgesAny == receipt # NoFile /\ \E s \in Streams : receipt[s] >= request[s]

\* _acknowledges
Acknowledges == receipt # NoFile /\ Covers(receipt, request)

BarrierAcked ==
  /\ sup = "barrier" /\ Working
  /\ Acknowledges
  /\ sup' = "running"
  /\ UNCHANGED <<logs, controls, receipt, started, publishers, barriers, wpc, stopping,
                 limits, reader, remote>>

\* The worker stopped, or the deadline expired: "terminal", never restarted.
BarrierFails ==
  /\ sup = "barrier"
  /\ sup' = "broken"
  /\ Gone
  /\ UNCHANGED <<logs, controls, receipt, started, publishers, barriers>>

Finish ==
  /\ sup \in {"running", "broken"}
  /\ final' = Sizes
  /\ sup' = "finish"
  /\ UNCHANGED <<logs, initial, request, receipt, started, publishers, barriers, wpc,
                 stopping, limits, reader, remote>>

FinishAcked ==
  /\ sup = "finish" /\ wpc = "done" /\ receipt = final
  /\ sup' = "acked"
  /\ UNCHANGED <<logs, controls, receipt, started, publishers, barriers, wpc, stopping,
                 limits, reader, remote>>

\* The worker died, or the deadline expired and it is killed.
FinishFails ==
  /\ sup = "finish" /\ wpc # "done"
  /\ sup' = "failed"
  /\ Gone
  /\ UNCHANGED <<logs, controls, receipt, started, publishers, barriers>>

Write  == AppendScalar \/ \E byte \in {"s", "c", "L", "T"} : Speak(byte)
Worker == \/ Attach \/ LookFinal \/ LookBarrier
          \/ PublishText \/ PublishWatermark \/ PublishEnd
          \/ PublishScalars \/ Flush \/ WriteReceipt \/ Rest
Owner  == Start \/ Barrier \/ BarrierAcked \/ Finish \/ FinishAcked
Faults == TornScalar \/ Crash \/ BarrierFails \/ FinishFails

Next == Write \/ Worker \/ Owner \/ Faults
Spec == Init /\ [][Next]_vars

\* Nothing fails, the worker runs, no deadline expires.
Healthy ==
  /\ Init /\ [][Write \/ Worker \/ Owner]_vars
  /\ WF_vars(Worker)
  /\ WF_vars(BarrierAcked) /\ WF_vars(FinishAcked)

-----------------------------------------------------------------------------
(* Properties *)

Offsets == [Streams -> Nat]

\* Every variable keeps its kind of value.
TypeOK ==
  /\ console \in Seq({"s", "c", "L", "T"}) /\ journal \in Nat
  /\ started \in BOOLEAN /\ publishers \in Nat /\ barriers \in Nat
  /\ sup \in {"idle", "running", "barrier", "broken", "finish", "acked", "failed"}
  /\ initial \in Offsets
  /\ request \in Offsets \union {NoFile} /\ final \in Offsets \union {NoFile}
  /\ receipt \in Offsets \union {NoFile} /\ limits \in Offsets \union {NoFile}
  /\ wpc \in {"off", "attach", "look", "ask", "console", "scalars", "flush", "receipt",
              "idle", "done", "dead"}
  /\ stopping \in BOOLEAN /\ discard \in BOOLEAN /\ repeated \in BOOLEAN
  /\ offsets \in Offsets /\ position \in Nat
  /\ sink \in [Streams -> SUBSET Nat] /\ server \in [Streams -> SUBSET Nat]

(***************************************************************************)
(* A receipt acknowledges only what the server confirmed: every byte of    *)
(* this publisher below it, the text that was held back or withheld by the *)
(* decoder excluded.                                                       *)
(***************************************************************************)
ReceiptHonest ==
  receipt # NoFile => \A s \in Streams : Bytes(initial[s], receipt[s]) \subseteq server[s]

(***************************************************************************)
(* No byte is reported twice: not by a batch that takes up text that was   *)
(* held back, not after a watermark, and not by the publisher of the next  *)
(* invocation over the same logs.                                          *)
(***************************************************************************)
NothingTwice == ~repeated

(***************************************************************************)
(* A barrier returns, and finish succeeds, only when everything written    *)
(* before the call has reached the server.                                 *)
(***************************************************************************)
AnswerMeansDelivered ==
  [][/\ sup = "barrier" /\ sup' = "running" =>
          \A s \in Streams : Bytes(initial[s], request[s]) \subseteq server[s]
     /\ sup = "finish" /\ sup' = "acked" =>
          \A s \in Streams : Bytes(initial[s], final[s]) \subseteq server[s]]_vars

(***************************************************************************)
(* "Never acknowledge undecoded original bytes": before the final offsets  *)
(* are known no receipt ends between the two halves of a character.        *)
(***************************************************************************)
WholeCharacters ==
  receipt # NoFile /\ final = NoFile /\ receipt["console"] > initial["console"] =>
    console[receipt["console"]] # "L"

(***************************************************************************)
(* What a receipt covers is on the server, once, and in whole characters.  *)
(* (console_worker.py, human_text.py)                                      *)
(***************************************************************************)
DeliveredOnce == TypeOK /\ ReceiptHonest /\ NothingTwice /\ WholeCharacters

(***************************************************************************)
(* A healthy worker never keeps its owner waiting for good, whatever is    *)
(* held back, cut in half by a watermark or written meanwhile by others.   *)
(* A barrier waits only for a writer that does not write the tail of a     *)
(* character whose lead byte the worker has read, as nothing before it is  *)
(* released then; finish only if the worker has already published more     *)
(* than the final offsets (the case of FinalAcknowledged).                 *)
(***************************************************************************)
Stranded == HalfWritten /\ position = Len(console)
Overshot == \E s \in Streams : offsets[s] > final[s]
EveryRequestAnswered ==
  /\ []<>(sup = "barrier" => Stranded)
  /\ []<>(sup = "finish" => Overshot)

(***************************************************************************)
(* docs/diagnostics.md:162: shutdown uses final offsets and fails          *)
(* incomplete required publication; a worker that has delivered everything *)
(* up to the final offsets acknowledges them.                              *)
(***************************************************************************)
FinalAcknowledged == sup = "finish" ~> sup = "acked"
=============================================================================
