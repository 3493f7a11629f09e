----------------------- MODULE ConsoleDelivery_proofs -----------------------
(***************************************************************************)
(* Proofs about ConsoleDelivery, for logs of any length, any batch and     *)
(* token size, any number of publishers and barriers.                      *)
(***************************************************************************)
EXTENDS ConsoleDelivery, WellFoundedInduction, TLAPS

\* The worker knows where to read from; it is handling a batch.
Attached == wpc \in {"look", "ask", "console", "scalars", "flush", "receipt", "idle", "done"}
Reading  == {"console", "scalars", "flush", "receipt"}

\* A lead byte is followed by a tail.
LogInv == \A i \in 1..Len(console) : console[i] = "L" /\ i < Len(console) => console[i + 1] # "L"

\* Where the owner stands, the worker stands, and which files there are.
OwnerInv ==
  /\ sup = "idle" <=> wpc = "off"
  /\ sup \in {"failed", "broken"} => wpc = "dead"
  /\ sup = "acked" => wpc = "done"
  /\ wpc = "done" => sup \in {"finish", "acked"}
  /\ final = NoFile <=> sup \in {"idle", "running", "barrier", "broken"}
  /\ sup = "barrier" => request # NoFile
  /\ started <=> sup # "idle"
  /\ sup = "idle" => initial = Zero
  /\ stopping => wpc \in Reading /\ final # NoFile /\ limits = final

\* Every offset lies between the initial one and what was written.
OffsetInv ==
  /\ Covers(Sizes, initial)
  /\ Attached =>
       /\ Covers(offsets, initial) /\ Covers(Sizes, offsets)
       /\ offsets["console"] <= position /\ position <= Len(console)
  /\ receipt # NoFile => Covers(Sizes, receipt)

\* How far anything may have been reported.
Reach(s) == IF Attached THEN offsets[s] ELSE IF wpc = "attach" THEN initial[s] ELSE Sizes[s]

\* What the worker counts as acknowledged was reported, and nothing beyond it.
SinkInv ==
  /\ wpc \notin {"scalars", "flush"} => sink = Nothing
  /\ wpc = "off" => server = Nothing
  /\ \A s \in Streams :
       /\ sink[s] \union server[s] \subseteq 1..Reach(s)
       /\ Attached => Bytes(initial[s], offsets[s]) \subseteq sink[s] \union server[s]

\* Only the last batch, up to the final offset, ends between two halves.
Half(n) == n > initial["console"] /\ console[n] = "L"
HalfInv ==
  Attached /\ Half(offsets["console"]) =>
    /\ final # NoFile /\ offsets["console"] >= final["console"]
    /\ wpc \notin {"ask", "idle"} /\ (wpc \in Reading => stopping)

Inv ==
  /\ TypeOK /\ LogInv /\ OwnerInv /\ OffsetInv /\ SinkInv /\ HalfInv
  /\ ReceiptHonest /\ NothingTwice /\ WholeCharacters

-----------------------------------------------------------------------------
(* Facts about offsets and batches *)

\* A file of offsets is a file.
LEMMA OffsetsAreFiles == \A o \in Offsets : o # NoFile
<1> SUFFICES ASSUME NEW o \in Offsets, o = NoFile PROVE FALSE
  OBVIOUS
<1>1. DOMAIN o = Streams BY DEF Offsets
<1>2. "console" \in DOMAIN o BY <1>1 DEF Streams
<1>3. DOMAIN o = 1..0 BY DEF NoFile
<1> QED BY <1>2, <1>3

\* The sizes of the logs are offsets.
LEMMA SizesTyped ==
  ASSUME TypeOK
  PROVE  Sizes \in Offsets /\ Zero \in Offsets /\ Sizes # NoFile
<1>1. Len(console) \in Nat /\ journal \in Nat BY DEF TypeOK
<1>2. Sizes \in Offsets BY <1>1 DEF Sizes, Offsets
<1> QED BY <1>2, OffsetsAreFiles DEF Zero, Offsets

\* A bounded set of numbers that is not empty has a largest element.
LEMMA Largest ==
  ASSUME NEW b \in Nat, NEW S \in SUBSET (0..b), S # {}
  PROVE  \E i \in S : \A j \in S : j <= i
<1> DEFINE T == {n \in Nat : n <= b /\ b - n \in S}
<1>1. T \subseteq Nat /\ T # {}
  <2>1. PICK i \in S : TRUE OBVIOUS
  <2>2. b - i \in T BY <2>1
  <2> QED BY <2>2
<1>2. PICK n \in T : \A m \in T : ~(<<m, n>> \in OpToRel(<, Nat))
  BY <1>1, NatLessThanWellFounded, WFMin, Zenon
<1>3. \A m \in T : ~(m < n) BY <1>2 DEF OpToRel
<1>4. \A j \in S : b - j \in T OBVIOUS
<1>5. \A j \in S : j <= b - n
  <2> SUFFICES ASSUME NEW j \in S PROVE j <= b - n OBVIOUS
  <2>1. ~(b - j < n) /\ b - j \in T BY <1>3, <1>4
  <2> QED BY <2>1
<1>6. b - n \in S BY <1>2
<1> QED BY <1>5, <1>6

\* A read goes forward, stays within the log, and does not pass its limit.
LEMMA ReadFacts ==
  ASSUME TypeOK, NEW s \in Streams, NEW from \in Nat, from <= Sizes[s]
  PROVE  /\ ReadTo(from, s) \in Nat
         /\ from <= ReadTo(from, s) /\ ReadTo(from, s) <= Sizes[s]
<1>1. Sizes[s] \in Nat BY SizesTyped DEF Offsets
<1>2. Batch \in Nat \ {0} BY DeliveryAssumption
<1>3. limits # NoFile => limits[s] \in Nat BY DEF TypeOK, Offsets
<1> QED BY <1>1, <1>2, <1>3 DEF ReadTo

\* The text that may be reported ends in no lead byte.
LEMMA FeedFacts ==
  ASSUME TypeOK, LogInv, OffsetInv, Attached, NEW n \in Nat, position <= n, n <= Len(console),
         ~Half(offsets["console"])
  PROVE  /\ Feed(n).upto \in Nat /\ Feed(n).discard \in BOOLEAN
         /\ offsets["console"] <= Feed(n).upto /\ Feed(n).upto <= n
         /\ ~Half(Feed(n).upto)
<1> DEFINE o == offsets["console"]
           gaps == Spaces(n)
           last == CHOOSE i \in gaps : \A j \in gaps : j <= i
           clear == IF gaps # {} THEN last ELSE IF discard THEN Decoded(n) ELSE o
<1>1. /\ o \in Nat /\ initial["console"] \in Nat /\ Len(console) \in Nat
      /\ o <= n /\ initial["console"] <= o /\ discard \in BOOLEAN
      /\ position \in Nat /\ MaxToken \in Nat
  BY DeliveryAssumption DEF TypeOK, OffsetInv, Covers, Streams, Offsets
<1>2. Decoded(n) \in Nat /\ o <= Decoded(n) /\ Decoded(n) <= n /\ ~Half(Decoded(n))
  <2>1. CASE HalfAt(n)
    <3>1. Decoded(n) = n - 1 /\ console[n] = "L" /\ n > initial["console"]
      BY <2>1 DEF Decoded, HalfAt
    <3>2. n # o BY <3>1 DEF Half
    <3>3. n - 1 > initial["console"] => console[n - 1] # "L"
      <4> SUFFICES ASSUME n - 1 > initial["console"], console[n - 1] = "L" PROVE FALSE
        OBVIOUS
      <4>1. n - 1 \in 1..Len(console) /\ n - 1 < Len(console) BY <1>1
      <4>2. console[(n - 1) + 1] # "L" BY <4>1 DEF LogInv
      <4>3. (n - 1) + 1 = n OBVIOUS
      <4> QED BY <4>2, <4>3, <3>1
    <3> QED BY <3>1, <3>2, <3>3, <1>1 DEF Half
  <2>2. CASE ~HalfAt(n)
    BY <2>2, <1>1 DEF Decoded, HalfAt, Half
  <2> QED BY <2>1, <2>2
<1>3. gaps # {} => last \in gaps
  <2> SUFFICES ASSUME gaps # {} PROVE last \in gaps OBVIOUS
  <2>1. gaps \in SUBSET (0..n) BY <1>1, <1>2 DEF Spaces, Bytes
  <2>2. \E i \in gaps : \A j \in gaps : j <= i BY <2>1, Largest
  <2> QED BY <2>2
<1>4. clear \in Nat /\ o <= clear /\ clear <= Decoded(n) /\ ~Half(clear)
  <2>1. CASE gaps # {}
    <3>1. \A i \in gaps : i \in (o + 1)..Decoded(n) /\ console[i] = "s"
      BY DEF Spaces, Bytes
    <3>2. last \in (o + 1)..Decoded(n) /\ console[last] = "s" BY <2>1, <1>3, <3>1
    <3>3. clear = last BY <2>1
    <3> HIDE DEF last, clear
    <3> QED BY <3>2, <3>3, <1>1, <1>2 DEF Half
  <2>2. CASE gaps = {}
    BY <2>2, <1>1, <1>2
  <2> QED BY <2>1, <2>2
<1>5. Feed(n) = IF Decoded(n) > clear + MaxToken
                THEN [upto |-> Decoded(n), discard |-> TRUE]
                ELSE [upto |-> clear, discard |-> discard /\ gaps = {}]
  BY DEF Feed
<1>6. CASE Decoded(n) > clear + MaxToken
  <2>1. Feed(n).upto = Decoded(n) /\ Feed(n).discard = TRUE BY <1>5, <1>6
  <2> QED BY <2>1, <1>2
<1>7. CASE ~(Decoded(n) > clear + MaxToken)
  <2> HIDE DEF clear, gaps
  <2>1. Feed(n) = [upto |-> clear, discard |-> discard /\ gaps = {}] BY <1>5, <1>7
  <2>2. (discard /\ gaps = {}) \in BOOLEAN OBVIOUS
  <2>3. Feed(n).upto = clear BY <2>1
  <2>4. Feed(n).discard \in BOOLEAN BY <2>1, <2>2
  <2> QED BY <2>3, <2>4, <1>2, <1>4
<1> QED BY <1>6, <1>7

\* Reporting the bytes above the offset repeats none and keeps the books.
LEMMA ReportFacts ==
  ASSUME TypeOK, SinkInv, OffsetInv, Attached, NEW s \in Streams, NEW upto \in Nat,
         offsets[s] <= upto, Report(s, upto)
  PROVE  /\ offsets' \in Offsets /\ sink' \in [Streams -> SUBSET Nat]
         /\ server' = server /\ repeated' = repeated
         /\ offsets'[s] = upto /\ \A t \in Streams : t # s => offsets'[t] = offsets[t]
         /\ \A t \in Streams :
              /\ sink'[t] \union server[t] \subseteq 1..offsets'[t]
              /\ Bytes(initial[t], offsets'[t]) \subseteq sink'[t] \union server[t]
<1>1. /\ offsets \in Offsets /\ sink \in [Streams -> SUBSET Nat]
      /\ server \in [Streams -> SUBSET Nat] /\ initial \in Offsets /\ repeated \in BOOLEAN
  BY DEF TypeOK
<1>2. /\ offsets' = [offsets EXCEPT ![s] = upto]
      /\ sink' = [sink EXCEPT ![s] = @ \union Bytes(offsets[s], upto)]
      /\ repeated' = (repeated \/ Bytes(offsets[s], upto) \intersect (sink[s] \union server[s]) # {})
      /\ server' = server
  BY DEF Report
<1>3. \A t \in Streams :
        /\ offsets[t] \in Nat /\ initial[t] \in Nat /\ initial[t] <= offsets[t]
        /\ sink[t] \union server[t] \subseteq 1..offsets[t]
        /\ Bytes(initial[t], offsets[t]) \subseteq sink[t] \union server[t]
  BY <1>1 DEF SinkInv, Reach, OffsetInv, Covers, Offsets
<1>4. Bytes(offsets[s], upto) \in SUBSET Nat BY <1>3 DEF Bytes
<1>5. offsets' \in Offsets /\ offsets'[s] = upto
      /\ \A t \in Streams : t # s => offsets'[t] = offsets[t]
  BY <1>1, <1>2 DEF Offsets
<1>6. /\ sink' \in [Streams -> SUBSET Nat] /\ sink'[s] = sink[s] \union Bytes(offsets[s], upto)
      /\ \A t \in Streams : t # s => sink'[t] = sink[t]
  BY <1>1, <1>2, <1>4
<1>7. Bytes(offsets[s], upto) \intersect (sink[s] \union server[s]) = {}
  BY <1>3 DEF Bytes
<1>8. repeated' = repeated BY <1>1, <1>2, <1>7
<1>9. ASSUME NEW t \in Streams
      PROVE /\ sink'[t] \union server[t] \subseteq 1..offsets'[t]
            /\ Bytes(initial[t], offsets'[t]) \subseteq sink'[t] \union server[t]
  <2>1. CASE t = s
    <3>1. sink[s] \union server[s] \subseteq 1..upto BY <1>3
    <3>2. Bytes(offsets[s], upto) \subseteq 1..upto BY <1>3 DEF Bytes
    <3>3. Bytes(initial[s], upto) \subseteq Bytes(initial[s], offsets[s]) \union Bytes(offsets[s], upto)
      BY <1>3 DEF Bytes
    <3> QED BY <2>1, <3>1, <3>2, <3>3, <1>3, <1>5, <1>6
  <2>2. CASE t # s
    BY <2>2, <1>3, <1>5, <1>6
  <2> QED BY <2>1, <2>2
<1> QED BY <1>2, <1>5, <1>6, <1>8, <1>9

\* What every way of publishing a batch of text has in common.
TextTo(n, upto, dropping) ==
  /\ wpc = "console" /\ Take(n, upto, dropping)
  /\ position <= n /\ n <= Len(console)
  /\ offsets["console"] <= upto /\ upto <= n
  /\ Half(upto) => stopping /\ final # NoFile /\ upto >= final["console"]
Text == \E n, upto \in Nat, dropping \in BOOLEAN : TextTo(n, upto, dropping)

LEMMA TextStep ==
  ASSUME Inv, PublishText \/ PublishWatermark \/ PublishEnd
  PROVE  Text
<1> DEFINE n == ReadTo(position, "console")
<1>1. TypeOK /\ LogInv /\ OwnerInv /\ OffsetInv /\ HalfInv BY DEF Inv
<1>2. wpc = "console" /\ Attached
  BY DEF PublishText, PublishWatermark, PublishEnd, Attached
<1>3. /\ position \in Nat /\ position <= Len(console) /\ offsets["console"] \in Nat
      /\ offsets["console"] <= position /\ Len(console) \in Nat /\ discard \in BOOLEAN
      /\ initial["console"] \in Nat
  BY <1>1, <1>2 DEF OffsetInv, TypeOK, Offsets, Streams
<1>4. Sizes["console"] = Len(console) /\ "console" \in Streams BY DEF Sizes, Streams
<1>5. n \in Nat /\ position <= n /\ n <= Len(console)
  <2> HIDE DEF n
  <2>1. position <= Sizes["console"] BY <1>3, <1>4
  <2> QED BY <1>1, <1>3, <1>4, <2>1, ReadFacts DEF n
<1>6. stopping => final # NoFile /\ limits = final /\ final["console"] \in Nat
  BY <1>1 DEF OwnerInv, TypeOK, Offsets, Streams
<1>7. ~(stopping /\ AtLimit(n, "console")) =>
        /\ Feed(n).upto \in Nat /\ Feed(n).discard \in BOOLEAN
        /\ offsets["console"] <= Feed(n).upto /\ Feed(n).upto <= n
        /\ ~Half(Feed(n).upto)
  <2> HIDE DEF n
  <2> SUFFICES ASSUME ~(stopping /\ AtLimit(n, "console"))
               PROVE  /\ Feed(n).upto \in Nat /\ Feed(n).discard \in BOOLEAN
                      /\ offsets["console"] <= Feed(n).upto /\ Feed(n).upto <= n
                      /\ ~Half(Feed(n).upto)
    OBVIOUS
  <2>1. ~Half(offsets["console"])
    <3> SUFFICES ASSUME Half(offsets["console"]) PROVE FALSE OBVIOUS
    <3>1. stopping /\ offsets["console"] >= final["console"]
      BY <1>1, <1>2 DEF HalfInv, Reading
    <3> QED BY <3>1, <1>3, <1>5, <1>6 DEF AtLimit
  <2> QED BY <1>1, <1>2, <1>5, <2>1, FeedFacts
<1> HIDE DEF n
<1>8. CASE PublishText
  <2>1. ~AtLimit(n, "console") /\ Take(n, Feed(n).upto, Feed(n).discard)
    BY <1>8 DEF PublishText, n
  <2>2. TextTo(n, Feed(n).upto, Feed(n).discard)
    BY <2>1, <1>2, <1>5, <1>7 DEF TextTo
  <2> QED BY <2>1, <2>2, <1>5, <1>7 DEF Text
<1>9. CASE PublishWatermark
  <2>1. /\ AtLimit(n, "console") /\ ~stopping
        /\ IF HalfAt(n)
           THEN IF n < Len(console) THEN Take(n + 1, n + 1, Feed(n).discard)
                                    ELSE Take(n, Feed(n).upto, Feed(n).discard)
           ELSE \E cut \in BOOLEAN :
                  /\ cut => Feed(n).upto < n /\ console[n] = "c"
                  /\ Take(n, n, Feed(n).discard \/ cut)
    BY <1>9 DEF PublishWatermark, n
  <2>2. CASE HalfAt(n) /\ n < Len(console)
    <3>1. console[n] = "L" /\ n \in 1..Len(console) BY <2>2, <1>3, <1>5 DEF HalfAt
    <3>2. console[n + 1] # "L" BY <3>1, <2>2, <1>1 DEF LogInv
    <3>3. TextTo(n + 1, n + 1, Feed(n).discard)
      BY <2>1, <2>2, <3>2, <1>2, <1>3, <1>5 DEF TextTo, Half
    <3> QED BY <3>3, <2>1, <1>5, <1>7 DEF Text
  <2>3. CASE HalfAt(n) /\ ~(n < Len(console))
    <3>1. TextTo(n, Feed(n).upto, Feed(n).discard)
      BY <2>1, <2>3, <1>2, <1>5, <1>7 DEF TextTo
    <3> QED BY <3>1, <2>1, <1>5, <1>7 DEF Text
  <2>4. CASE ~HalfAt(n)
    <3>1. PICK cut \in BOOLEAN : Take(n, n, Feed(n).discard \/ cut) BY <2>1, <2>4
    <3>2. ~Half(n) BY <2>4 DEF Half, HalfAt
    <3>3. TextTo(n, n, Feed(n).discard \/ cut)
      BY <3>1, <3>2, <1>2, <1>3, <1>5 DEF TextTo
    <3>4. (Feed(n).discard \/ cut) \in BOOLEAN OBVIOUS
    <3> QED BY <3>3, <3>4, <1>5 DEF Text
  <2> QED BY <2>2, <2>3, <2>4
<1>10. CASE PublishEnd
  <2>1. /\ AtLimit(n, "console") /\ stopping
        /\ Take(n, n, discard /\ Spaces(n) = {})
    BY <1>10 DEF PublishEnd, n
  <2>2. n >= final["console"] BY <2>1, <1>6 DEF AtLimit
  <2>3. TextTo(n, n, discard /\ Spaces(n) = {})
    BY <2>1, <2>2, <1>2, <1>3, <1>5, <1>6 DEF TextTo
  <2>4. (discard /\ Spaces(n) = {}) \in BOOLEAN OBVIOUS
  <2> QED BY <2>3, <2>4, <1>5 DEF Text
<1> QED BY <1>8, <1>9, <1>10

\* The parts of the invariant, for citing.
LEMMA Parts ==
  ASSUME Inv
  PROVE  /\ TypeOK /\ LogInv /\ OwnerInv /\ OffsetInv /\ SinkInv /\ HalfInv
         /\ ReceiptHonest /\ NothingTwice /\ WholeCharacters
  BY DEF Inv

-----------------------------------------------------------------------------
(* The steps, by what they do to the books *)

\* The logs are only appended to.
LEMMA Growth ==
  ASSUME TypeOK, [Next]_vars
  PROVE  /\ \A s \in Streams : Sizes[s] \in Nat /\ Sizes'[s] \in Nat /\ Sizes[s] <= Sizes'[s]
         /\ Len(console) \in Nat /\ Len(console') \in Nat /\ Len(console) <= Len(console')
         /\ \A i \in 1..Len(console) : console'[i] = console[i]
<1>1. console \in Seq({"s", "c", "L", "T"}) /\ journal \in Nat BY DEF TypeOK
<1>2. \/ journal' = journal /\ \E byte \in {"s", "c", "L", "T"} : console' = Append(console, byte)
      \/ console' = console /\ journal' \in {journal, journal + 1, journal + 2}
  BY DEF Next, Write, Worker, Owner, Faults, Speak, AppendScalar, TornScalar, Attach, LookFinal,
         LookBarrier, PublishText, PublishWatermark, PublishEnd, Take, PublishScalars, Flush,
         WriteReceipt, Rest, Crash, Start, Barrier, BarrierAcked, BarrierFails, Finish,
         FinishAcked, FinishFails, logs, vars
<1>3. /\ Len(console) \in Nat /\ Len(console') \in Nat /\ Len(console) <= Len(console')
      /\ \A i \in 1..Len(console) : console'[i] = console[i]
  BY <1>1, <1>2
<1>4. journal' \in Nat /\ journal <= journal' BY <1>1, <1>2
<1>5. /\ Sizes["console"] = Len(console) /\ Sizes["scalars"] = journal
      /\ Sizes'["console"] = Len(console') /\ Sizes'["scalars"] = journal'
  BY DEF Sizes, Streams
<1> QED BY <1>1, <1>3, <1>4, <1>5 DEF Streams

\* A step that leaves the books alone, a receipt of them apart,
Quiet ==
  /\ UNCHANGED <<initial, offsets, position, sink, server, repeated>>
  /\ Attached' <=> Attached
  /\ wpc' = "attach" <=> wpc = "attach"
  /\ wpc' \in {"scalars", "flush"} <=> wpc \in {"scalars", "flush"}
  /\ wpc' = "off" <=> wpc = "off"
  /\ \/ receipt' = receipt
     \/ receipt' = offsets /\ wpc = "receipt"

\* a step that reports a batch,
Batched ==
  /\ wpc \in {"console", "scalars"} /\ wpc' \in {"scalars", "flush"}
  /\ UNCHANGED <<logs, controls, receipt, owner, stopping, limits, server, repeated>>
  /\ Covers(offsets', offsets) /\ Covers(Sizes, offsets')
  /\ position' \in Nat /\ offsets'["console"] <= position' /\ position' <= Len(console)
  /\ offsets' \in Offsets /\ sink' \in [Streams -> SUBSET Nat] /\ discard' \in BOOLEAN
  /\ \A s \in Streams :
       /\ sink'[s] \union server[s] \subseteq 1..offsets'[s]
       /\ Bytes(initial[s], offsets'[s]) \subseteq sink'[s] \union server[s]
  /\ offsets'["console"] # offsets["console"] /\ Half(offsets'["console"]) =>
       stopping /\ final # NoFile /\ offsets'["console"] >= final["console"]

\* and a step that loses the worker.
Lost ==
  /\ wpc' = "dead" /\ sink' = Nothing
  /\ server' \in [Streams -> SUBSET Nat] /\ offsets' = Zero /\ position' = 0
  /\ discard' = FALSE /\ stopping' = FALSE /\ limits' = NoFile
  /\ UNCHANGED <<logs, controls, receipt, started, repeated>>
  /\ \A s \in Streams :
       /\ server[s] \subseteq server'[s]
       /\ server'[s] \subseteq server[s] \union sink[s]

LEMMA TextIsBatched ==
  ASSUME Inv, Text
  PROVE  Batched /\ position <= position'
<1>1. TypeOK /\ OffsetInv /\ SinkInv BY DEF Inv
<1>2. PICK n, upto \in Nat, dropping \in BOOLEAN : TextTo(n, upto, dropping) BY DEF Text
<1>3. /\ wpc = "console" /\ position <= n /\ n <= Len(console)
      /\ offsets["console"] <= upto /\ upto <= n
      /\ Half(upto) => stopping /\ final # NoFile /\ upto >= final["console"]
      /\ position' = n /\ discard' = dropping /\ Report("console", upto) /\ wpc' = "scalars"
      /\ UNCHANGED <<logs, controls, receipt, owner, stopping, limits>>
  BY <1>2 DEF TextTo, Take
<1>4. Attached /\ "console" \in Streams BY <1>3 DEF Attached, Streams
<1>5. /\ offsets' \in Offsets /\ sink' \in [Streams -> SUBSET Nat]
      /\ server' = server /\ repeated' = repeated
      /\ offsets'["console"] = upto
      /\ \A t \in Streams : t # "console" => offsets'[t] = offsets[t]
      /\ \A t \in Streams :
           /\ sink'[t] \union server[t] \subseteq 1..offsets'[t]
           /\ Bytes(initial[t], offsets'[t]) \subseteq sink'[t] \union server[t]
  BY <1>1, <1>3, <1>4, ReportFacts
<1>6. \A t \in Streams : offsets[t] \in Nat /\ offsets[t] <= Sizes[t]
  BY <1>1, <1>4 DEF OffsetInv, Covers, TypeOK, Offsets
<1>7. Sizes["console"] = Len(console) /\ Len(console) \in Nat BY <1>1 DEF Sizes, Streams, TypeOK
<1>8. Covers(offsets', offsets) /\ Covers(Sizes, offsets')
  <2> SUFFICES ASSUME NEW t \in Streams PROVE offsets'[t] >= offsets[t] /\ Sizes[t] >= offsets'[t]
    BY DEF Covers
  <2>1. CASE t = "console" BY <2>1, <1>3, <1>5, <1>7
  <2>2. CASE t # "console"
    <3>1. Sizes[t] \in Nat BY <1>1, SizesTyped DEF Offsets
    <3> QED BY <2>2, <3>1, <1>5, <1>6
  <2> QED BY <2>1, <2>2
<1>9. position <= position' BY <1>3
<1>10. position' \in Nat /\ offsets'["console"] <= position' /\ position' <= Len(console)
  BY <1>3, <1>5
<1> HIDE DEF logs, controls, owner
<1> QED BY <1>3, <1>5, <1>8, <1>9, <1>10 DEF Batched

LEMMA ScalarsAreBatched ==
  ASSUME Inv, PublishScalars
  PROVE  Batched /\ offsets'["console"] = offsets["console"]
<1> DEFINE o == offsets["scalars"]
           n == ReadTo(o, "scalars")
<1>1. TypeOK /\ OffsetInv /\ SinkInv BY DEF Inv
<1>2. /\ wpc = "scalars" /\ wpc' = "flush" /\ Report("scalars", Rows(n))
      /\ UNCHANGED <<logs, controls, receipt, owner, stopping, limits, position, discard>>
  BY DEF PublishScalars
<1>3. Attached /\ "scalars" \in Streams /\ "console" \in Streams BY <1>2 DEF Attached, Streams
<1>4. \A t \in Streams : offsets[t] \in Nat /\ Sizes[t] \in Nat /\ offsets[t] <= Sizes[t]
  BY <1>1, <1>3, SizesTyped DEF OffsetInv, Covers, TypeOK, Offsets
<1>5. n \in Nat /\ o <= n /\ n <= Sizes["scalars"]
  BY <1>1, <1>3, <1>4, ReadFacts
<1> HIDE DEF n
<1>6. Rows(n) \in Nat /\ o <= Rows(n) /\ Rows(n) <= n
  <2>1. o \in Nat BY <1>3, <1>4
  <2>2. n % 2 \in 0..1 /\ n % 2 <= n BY <1>5
  <2> QED BY <2>1, <2>2, <1>5 DEF Rows
<1>7. /\ offsets' \in Offsets /\ sink' \in [Streams -> SUBSET Nat]
      /\ server' = server /\ repeated' = repeated
      /\ offsets'["scalars"] = Rows(n)
      /\ \A t \in Streams : t # "scalars" => offsets'[t] = offsets[t]
      /\ \A t \in Streams :
           /\ sink'[t] \union server[t] \subseteq 1..offsets'[t]
           /\ Bytes(initial[t], offsets'[t]) \subseteq sink'[t] \union server[t]
  BY <1>1, <1>2, <1>3, <1>6, ReportFacts
<1>8. Covers(offsets', offsets) /\ Covers(Sizes, offsets')
  <2> SUFFICES ASSUME NEW t \in Streams PROVE offsets'[t] >= offsets[t] /\ Sizes[t] >= offsets'[t]
    BY DEF Covers
  <2>1. CASE t = "scalars" BY <2>1, <1>3, <1>4, <1>5, <1>6, <1>7
  <2>2. CASE t # "scalars" BY <2>2, <1>4, <1>7
  <2> QED BY <2>1, <2>2
<1>9. offsets'["console"] = offsets["console"] BY <1>3, <1>7
<1>10. /\ position' \in Nat /\ offsets'["console"] <= position' /\ position' <= Len(console)
       /\ discard' \in BOOLEAN
  BY <1>1, <1>2, <1>3, <1>9 DEF OffsetInv, TypeOK
<1> HIDE DEF logs, controls, owner
<1> QED BY <1>2, <1>7, <1>8, <1>9, <1>10 DEF Batched

LEMMA LossIsLost ==
  ASSUME Inv, Crash \/ BarrierFails \/ FinishFails
  PROVE  Lost
<1>1. TypeOK /\ OwnerInv BY DEF Inv
<1>2. Gone /\ UNCHANGED <<logs, controls, receipt, started>>
  BY DEF Crash, BarrierFails, FinishFails, owner
<1>3. wpc' = "dead"
  <2>1. Working \/ wpc = "dead"
    BY <1>1 DEF Crash, BarrierFails, FinishFails, OwnerInv, Working
  <2> QED BY <2>1, <1>2 DEF Gone, Working
<1>4. sink \in [Streams -> SUBSET Nat] /\ server \in [Streams -> SUBSET Nat]
  BY <1>1 DEF TypeOK
<1>5. server' = server \/ server' = [s \in Streams |-> server[s] \union sink[s]]
  BY <1>2 DEF Gone
<1>6. /\ server' \in [Streams -> SUBSET Nat]
      /\ \A s \in Streams :
           /\ server[s] \subseteq server'[s]
           /\ server'[s] \subseteq server[s] \union sink[s]
  <2>1. CASE server' = server BY <2>1, <1>4
  <2>2. CASE server' = [s \in Streams |-> server[s] \union sink[s]] BY <2>2, <1>4
  <2> QED BY <2>1, <2>2, <1>5
<1> HIDE DEF logs, controls
<1> QED BY <1>2, <1>3, <1>6 DEF Gone, Lost

\* Every step is one of these, or a step of its own kind.
LEMMA Kinds ==
  ASSUME Inv, [Next]_vars
  PROVE  Quiet \/ Batched \/ Lost \/ Attach \/ Flush \/ Start
<1>1. CASE Quiet \/ Attach \/ Flush \/ Start BY <1>1
<1>2. CASE PublishText \/ PublishWatermark \/ PublishEnd BY <1>2, TextStep, TextIsBatched
<1>3. CASE PublishScalars BY <1>3, ScalarsAreBatched
<1>4. CASE Crash \/ BarrierFails \/ FinishFails BY <1>4, LossIsLost
<1>5. CASE Write \/ TornScalar \/ UNCHANGED vars
  BY <1>5 DEF Write, Speak, AppendScalar, TornScalar, Quiet, Attached, vars, controls, reader, remote
<1>6. CASE LookFinal \/ LookBarrier \/ Rest
  BY <1>6 DEF LookFinal, LookBarrier, Rest, Quiet, Attached, controls, reader, remote
<1>7. CASE WriteReceipt
  BY <1>7 DEF WriteReceipt, Quiet, Attached, controls, reader, remote
<1>8. CASE Barrier \/ BarrierAcked
  BY <1>8 DEF Barrier, BarrierAcked, Quiet, Attached, controls, reader, remote
<1>9. CASE Finish \/ FinishAcked
  BY <1>9 DEF Finish, FinishAcked, Quiet, Attached, controls, reader, remote
<1> QED
  BY <1>1, <1>2, <1>3, <1>4, <1>5, <1>6, <1>7, <1>8, <1>9 DEF Next, Worker, Owner, Faults

-----------------------------------------------------------------------------
(* The parts of the invariant, step by step *)


\* Offsets stay between the initial ones and what was written.
LEMMA OffsetStep ==
  ASSUME Inv, [Next]_vars
  PROVE  OffsetInv'
<1>1. TypeOK /\ OffsetInv /\ SinkInv /\ OwnerInv BY DEF Inv
<1>2. /\ \A s \in Streams : Sizes[s] \in Nat /\ Sizes'[s] \in Nat /\ Sizes[s] <= Sizes'[s]
      /\ Len(console) \in Nat /\ Len(console') \in Nat /\ Len(console) <= Len(console')
  BY <1>1, Growth
<1>3. /\ initial \in Offsets /\ offsets \in Offsets /\ position \in Nat
      /\ receipt # NoFile => receipt \in Offsets
      /\ Covers(Sizes, initial) /\ (receipt # NoFile => Covers(Sizes, receipt))
  BY <1>1 DEF TypeOK, OffsetInv
<1>4. \A o \in Offsets : Covers(Sizes, o) => Covers(Sizes', o)
  BY <1>2 DEF Covers, Offsets
<1>5. CASE Quiet
  <2>1. /\ UNCHANGED <<initial, offsets, position>> /\ (Attached' <=> Attached)
        /\ receipt' = receipt \/ (receipt' = offsets /\ Attached)
    BY <1>5 DEF Quiet, Attached
  <2>2. Covers(Sizes', initial') BY <2>1, <1>3, <1>4
  <2>3. receipt' # NoFile => Covers(Sizes', receipt')
    BY <2>1, <1>1, <1>3, <1>4 DEF OffsetInv
  <2>4. Attached' => Covers(offsets', initial') /\ Covers(Sizes', offsets')
    BY <2>1, <1>1, <1>3, <1>4 DEF OffsetInv, Covers
  <2>5. Attached' => offsets'["console"] <= position' /\ position' <= Len(console')
    BY <2>1, <1>1, <1>2, <1>3 DEF OffsetInv
  <2> QED BY <2>2, <2>3, <2>4, <2>5 DEF OffsetInv
<1>6. CASE Batched
  <2>1. /\ UNCHANGED <<initial, receipt, console, journal>> /\ Attached
        /\ offsets' \in Offsets /\ Covers(offsets', offsets) /\ Covers(Sizes, offsets')
        /\ position' \in Nat /\ offsets'["console"] <= position' /\ position' <= Len(console)
    BY <1>6 DEF Batched, Attached, logs, controls
  <2>2. Sizes' = Sizes BY <2>1 DEF Sizes
  <2>3. Covers(offsets', initial)
    BY <2>1, <1>1, <1>3 DEF OffsetInv, Covers, Offsets
  <2> QED BY <2>1, <2>2, <2>3, <1>3 DEF OffsetInv, Covers
<1>7. CASE Lost
  BY <1>7, <1>3, <1>4 DEF Lost, OffsetInv, Attached, controls
<1>8. CASE Attach
  <2>1. /\ offsets' = initial /\ position' = initial["console"]
        /\ UNCHANGED <<initial, receipt, console, journal>>
    BY <1>8 DEF Attach, logs, controls
  <2>2. Sizes' = Sizes BY <2>1 DEF Sizes
  <2>3. Covers(initial, initial) BY <1>3 DEF Covers, Offsets
  <2>4. "console" \in Streams /\ Sizes["console"] = Len(console) BY DEF Streams, Sizes
  <2>5. initial["console"] <= Len(console) /\ initial["console"] \in Nat
    BY <2>4, <1>2, <1>3 DEF Covers, Offsets
  <2> QED BY <2>1, <2>2, <2>3, <2>5, <1>3 DEF OffsetInv
<1>9. CASE Flush
  BY <1>9, <1>1 DEF Flush, OffsetInv, Attached, Covers, Sizes, logs, controls, reader
<1>10. CASE Start
  <2>1. /\ initial' = (IF started THEN Sizes ELSE Zero) /\ receipt' = NoFile
        /\ wpc' = "attach" /\ UNCHANGED <<console, journal>>
    BY <1>10 DEF Start, logs
  <2>2. Sizes' = Sizes BY <2>1 DEF Sizes
  <2>3. Covers(Sizes, Sizes) /\ Covers(Sizes, Zero) BY <1>2 DEF Covers, Zero
  <2> QED BY <2>1, <2>2, <2>3 DEF OffsetInv, Attached
<1> QED BY <1>5, <1>6, <1>7, <1>8, <1>9, <1>10, Kinds

\* The books stay right, and nothing is reported twice.
LEMMA SinkStep ==
  ASSUME Inv, [Next]_vars
  PROVE  SinkInv' /\ NothingTwice'
<1>1. TypeOK /\ OffsetInv /\ SinkInv /\ OwnerInv /\ NothingTwice BY DEF Inv
<1>2. \A s \in Streams : Sizes[s] \in Nat /\ Sizes'[s] \in Nat /\ Sizes[s] <= Sizes'[s]
  BY <1>1, Growth
<1>3. /\ initial \in Offsets /\ offsets \in Offsets
      /\ sink \in [Streams -> SUBSET Nat] /\ server \in [Streams -> SUBSET Nat]
  BY <1>1 DEF TypeOK
<1>4. ASSUME NEW s \in Streams
      PROVE  /\ Reach(s) \in Nat /\ Reach(s) <= Sizes[s]
             /\ sink[s] \union server[s] \subseteq 1..Reach(s)
             /\ Attached => Reach(s) = offsets[s]
             /\ Attached => Bytes(initial[s], offsets[s]) \subseteq sink[s] \union server[s]
  BY <1>1, <1>2, <1>3 DEF Reach, OffsetInv, SinkInv, Covers, Offsets
<1>5. CASE Quiet
  <2>1. /\ UNCHANGED <<initial, offsets, sink, server, repeated>>
        /\ Attached' <=> Attached
        /\ wpc' = "attach" <=> wpc = "attach"
        /\ wpc' \in {"scalars", "flush"} <=> wpc \in {"scalars", "flush"}
        /\ wpc' = "off" <=> wpc = "off"
    BY <1>5 DEF Quiet
  <2>2. /\ wpc' \notin {"scalars", "flush"} => sink' = Nothing'
        /\ wpc' = "off" => server' = Nothing'
    BY <2>1, <1>1 DEF SinkInv, Nothing
  <2>3. ASSUME NEW s \in Streams
        PROVE  /\ sink'[s] \union server'[s] \subseteq 1..Reach(s)'
               /\ Attached' => Bytes(initial'[s], offsets'[s]) \subseteq sink'[s] \union server'[s]
    <3>1. Reach(s)' \in Nat /\ Reach(s) <= Reach(s)'
      BY <2>1, <1>2, <1>4, <1>3 DEF Reach, Offsets
    <3> QED BY <3>1, <2>1, <1>4
  <2>4. ~repeated' BY <2>1, <1>1 DEF NothingTwice
  <2> QED BY <2>2, <2>3, <2>4 DEF SinkInv, NothingTwice, Bytes
<1>6. CASE Batched
  <2>1. /\ UNCHANGED <<initial, server, repeated>> /\ wpc' \in {"scalars", "flush"}
        /\ \A s \in Streams :
             /\ sink'[s] \union server[s] \subseteq 1..offsets'[s]
             /\ Bytes(initial[s], offsets'[s]) \subseteq sink'[s] \union server[s]
    BY <1>6 DEF Batched, controls
  <2>2. Attached' BY <2>1 DEF Attached
  <2>3. \A s \in Streams : Reach(s)' = offsets'[s] BY <2>2 DEF Reach
  <2> QED BY <2>1, <2>2, <2>3, <1>1 DEF SinkInv, NothingTwice, Bytes
<1>7. CASE Lost
  <2>1. /\ wpc' = "dead" /\ sink' = Nothing /\ UNCHANGED <<repeated, console, journal>>
        /\ \A s \in Streams : server'[s] \subseteq server[s] \union sink[s]
    BY <1>7 DEF Lost, logs
  <2>2. \A s \in Streams : Reach(s)' = Sizes[s]
    BY <2>1 DEF Reach, Attached, Sizes
  <2>3. \A s \in Streams : sink'[s] \union server'[s] \subseteq 1..Reach(s)'
    BY <2>1, <2>2, <1>2, <1>4 DEF Nothing
  <2> QED BY <2>1, <2>3, <1>1 DEF SinkInv, NothingTwice, Attached, Nothing
<1>8. CASE Attach
  <2>1. /\ wpc = "attach" /\ wpc' = "look" /\ offsets' = initial
        /\ UNCHANGED <<initial, sink, server, repeated>>
    BY <1>8 DEF Attach, controls, remote
  <2>2. sink = Nothing BY <2>1, <1>1 DEF SinkInv
  <2>3. \A s \in Streams : Reach(s)' = initial[s] /\ Reach(s) = initial[s]
    BY <2>1 DEF Reach, Attached
  <2>4. \A s \in Streams : Bytes(initial[s], initial[s]) = {}
    BY <1>3 DEF Bytes, Offsets
  <2>5. \A s \in Streams : sink'[s] \union server'[s] \subseteq 1..Reach(s)'
    BY <2>1, <2>3, <1>4
  <2>6. \A s \in Streams : Bytes(initial'[s], offsets'[s]) = {} BY <2>1, <2>4
  <2> QED BY <2>1, <2>2, <2>5, <2>6, <1>1 DEF SinkInv, NothingTwice, Nothing, Bytes
<1>9. CASE Flush
  <2>1. /\ wpc = "flush" /\ wpc' = "receipt" /\ sink' = Nothing
        /\ server' = [s \in Streams |-> server[s] \union sink[s]]
        /\ UNCHANGED <<initial, offsets, repeated>>
    BY <1>9 DEF Flush, controls, reader
  <2>2. Attached /\ Attached' BY <2>1 DEF Attached
  <2>3. \A s \in Streams : sink'[s] = {} /\ server'[s] = server[s] \union sink[s]
    BY <2>1 DEF Nothing
  <2>4. \A s \in Streams : Reach(s)' = offsets[s] BY <2>1, <2>2 DEF Reach
  <2>5. ASSUME NEW s \in Streams
        PROVE  /\ sink'[s] \union server'[s] \subseteq 1..Reach(s)'
               /\ Bytes(initial'[s], offsets'[s]) \subseteq sink'[s] \union server'[s]
    BY <2>1, <2>2, <2>3, <2>4, <1>4 DEF Bytes
  <2> QED BY <2>1, <2>5, <1>1 DEF SinkInv, NothingTwice, Bytes, Nothing
<1>10. CASE Start
  <2>1. /\ sup \in {"idle", "acked", "failed"} /\ wpc' = "attach"
        /\ initial' = (IF started THEN Sizes ELSE Zero)
        /\ UNCHANGED <<sink, server, repeated>>
    BY <1>10 DEF Start, remote
  <2>2. wpc \in {"off", "done", "dead"} BY <2>1, <1>1 DEF OwnerInv
  <2>3. sink = Nothing BY <2>2, <1>1 DEF SinkInv
  <2>4. ~Attached' BY <2>1 DEF Attached
  <2>5. \A s \in Streams : Reach(s)' = initial'[s] BY <2>1, <2>4 DEF Reach
  <2>6. ASSUME NEW s \in Streams
        PROVE  sink'[s] \union server'[s] \subseteq 1..Reach(s)'
    <3>1. CASE started
      <4>1. Reach(s)' = Sizes[s] BY <3>1, <2>1, <2>5
      <4> QED BY <4>1, <2>1, <1>2, <1>4
    <3>2. CASE ~started
      <4>1. wpc = "off" /\ Reach(s)' = 0
        BY <3>2, <2>1, <2>5, <1>1 DEF OwnerInv, Zero
      <4>2. server = Nothing BY <4>1, <1>1 DEF SinkInv
      <4> QED BY <4>1, <4>2, <2>1, <2>3 DEF Nothing
    <3> QED BY <3>1, <3>2
  <2> QED BY <2>1, <2>3, <2>4, <2>6, <1>1 DEF SinkInv, NothingTwice, Nothing
<1> QED BY <1>5, <1>6, <1>7, <1>8, <1>9, <1>10, Kinds


\* Only the last batch of a stopping worker ends between two halves.
LEMMA HalfStep ==
  ASSUME Inv, [Next]_vars
  PROVE  HalfInv'
<1>1. TypeOK /\ OffsetInv /\ OwnerInv /\ HalfInv BY DEF Inv
<1>2. /\ Len(console) \in Nat /\ \A i \in 1..Len(console) : console'[i] = console[i]
  BY <1>1, Growth
<1>3. /\ "console" \in Streams /\ initial["console"] \in Nat /\ offsets["console"] \in Nat
      /\ Attached => offsets["console"] <= Len(console)
  BY <1>1, <1>2 DEF TypeOK, Offsets, Streams, OffsetInv
<1>4. ASSUME UNCHANGED <<initial, offsets>>, Attached, Half(offsets["console"])'
      PROVE  Half(offsets["console"])
  BY <1>2, <1>3, <1>4 DEF Half
<1>5. CASE Write \/ TornScalar \/ UNCHANGED vars
  <2>1. UNCHANGED <<initial, offsets, final, wpc, stopping>>
    BY <1>5 DEF Write, Speak, AppendScalar, TornScalar, vars, controls, reader
  <2> QED BY <2>1, <1>1, <1>4 DEF HalfInv, Attached
<1>6. CASE PublishText \/ PublishWatermark \/ PublishEnd \/ PublishScalars
  <2>1. Batched BY <1>6, TextStep, TextIsBatched, ScalarsAreBatched
  <2>2. /\ wpc \in {"console", "scalars"} /\ wpc' \in {"scalars", "flush"}
        /\ UNCHANGED <<initial, final, stopping, console>>
        /\ offsets'["console"] # offsets["console"] /\ Half(offsets'["console"]) =>
             stopping /\ final # NoFile /\ offsets'["console"] >= final["console"]
    BY <2>1 DEF Batched, controls, logs
  <2>3. Attached /\ wpc \in Reading BY <2>2 DEF Attached, Reading
  <2>4. Half(offsets'["console"]) =>
          stopping /\ final # NoFile /\ offsets'["console"] >= final["console"]
    BY <2>2, <2>3, <1>1 DEF HalfInv
  <2>5. Half(offsets["console"])' => Half(offsets'["console"]) BY <2>2 DEF Half
  <2> QED BY <2>2, <2>4, <2>5 DEF HalfInv
<1>7. CASE Attach
  BY <1>7, <1>3 DEF Attach, HalfInv, Half, controls, logs
<1>8. CASE LookFinal
  <2>1. /\ wpc = "look" /\ stopping' = (final # NoFile)
        /\ wpc' = (IF final # NoFile THEN "console" ELSE "ask")
        /\ UNCHANGED <<initial, offsets, final>>
    BY <1>8 DEF LookFinal, controls, reader
  <2> QED BY <2>1, <1>1, <1>4 DEF HalfInv, Attached
<1>9. CASE LookBarrier \/ Flush \/ Rest
  <2>1. /\ wpc \in {"ask", "flush", "idle"} /\ wpc' \in {"console", "receipt", "look"}
        /\ wpc = "flush" => wpc' = "receipt"
        /\ UNCHANGED <<initial, offsets, final, stopping>>
    BY <1>9 DEF LookBarrier, Flush, Rest, controls, reader
  <2> QED BY <2>1, <1>1, <1>4 DEF HalfInv, Attached, Reading
<1>10. CASE WriteReceipt
  <2>1. /\ wpc = "receipt" /\ stopping' = FALSE
        /\ wpc' = (IF ~stopping THEN "idle" ELSE IF offsets = limits THEN "done" ELSE "look")
        /\ UNCHANGED <<initial, offsets, final>>
    BY <1>10 DEF WriteReceipt, controls, reader
  <2> QED BY <2>1, <1>1, <1>4 DEF HalfInv, Attached, Reading
<1>11. CASE Crash \/ BarrierFails \/ FinishFails \/ Start
  <2>1. ~Attached'
    BY <1>11, LossIsLost DEF Lost, Start, Attached
  <2> QED BY <2>1 DEF HalfInv
<1>12. CASE Barrier \/ BarrierAcked \/ FinishAcked
  <2>1. UNCHANGED <<initial, offsets, final, wpc, stopping>>
    BY <1>12 DEF Barrier, BarrierAcked, FinishAcked, controls, reader
  <2> QED BY <2>1, <1>1, <1>4 DEF HalfInv, Attached
<1>13. CASE Finish
  <2>1. UNCHANGED <<initial, offsets, wpc>> /\ final = NoFile
    BY <1>13, <1>1 DEF Finish, OwnerInv, reader
  <2> QED BY <2>1, <1>1, <1>4 DEF HalfInv, Attached
<1> QED
  BY <1>5, <1>6, <1>7, <1>8, <1>9, <1>10, <1>11, <1>12, <1>13 DEF Next, Worker, Owner, Faults

\* Whoever writes, a tail follows its lead byte.
LEMMA LogStep ==
  ASSUME TypeOK, LogInv, [Next]_vars
  PROVE  LogInv'
<1>1. console \in Seq({"s", "c", "L", "T"}) BY DEF TypeOK
<1>2. CASE \E byte \in {"s", "c", "L", "T"} : Speak(byte)
  <2>1. PICK byte \in {"s", "c", "L", "T"} : Speak(byte) BY <1>2
  <2>2. console' = Append(console, byte) /\ (byte = "T" <=> HalfWritten)
    BY <2>1 DEF Speak
  <2>3. SUFFICES ASSUME NEW i \in 1..Len(console'), console'[i] = "L", i < Len(console')
                 PROVE  console'[i + 1] # "L"
    BY DEF LogInv
  <2>4. Len(console') = Len(console) + 1 /\ i \in 1..Len(console) /\ console[i] = "L"
    BY <1>1, <2>2, <2>3
  <2>5. CASE i < Len(console)
    <3>1. console[i + 1] # "L" BY <2>4, <2>5 DEF LogInv
    <3>2. console'[i + 1] = console[i + 1] BY <1>1, <2>2, <2>4, <2>5
    <3> QED BY <3>1, <3>2
  <2>6. CASE i = Len(console)
    <3>1. HalfWritten BY <1>1, <2>4, <2>6 DEF HalfWritten
    <3>2. console'[i + 1] = byte BY <1>1, <2>2, <2>6
    <3> QED BY <3>1, <3>2, <2>2
  <2> QED BY <2>4, <2>5, <2>6
<1>3. CASE console' = console
  BY <1>3 DEF LogInv
<1>4. (\E byte \in {"s", "c", "L", "T"} : Speak(byte)) \/ console' = console
  BY DEF Next, Write, Worker, Owner, Faults, Speak, AppendScalar, TornScalar, Attach, LookFinal,
         LookBarrier, PublishText, PublishWatermark, PublishEnd, Take, PublishScalars, Flush,
         WriteReceipt, Rest, Crash, Start, Barrier, BarrierAcked, BarrierFails, Finish,
         FinishAcked, FinishFails, logs, vars
<1> QED BY <1>2, <1>3, <1>4

\* A receipt stays honest, and whole until the final offsets are known.
LEMMA ReceiptStep ==
  ASSUME Inv, [Next]_vars
  PROVE  ReceiptHonest' /\ WholeCharacters'
<1>1. /\ TypeOK /\ OffsetInv /\ OwnerInv /\ SinkInv /\ HalfInv
      /\ ReceiptHonest /\ WholeCharacters
  BY DEF Inv
<1>2. /\ Len(console) \in Nat /\ \A i \in 1..Len(console) : console'[i] = console[i]
  BY <1>1, Growth
<1>3. /\ "console" \in Streams /\ Sizes["console"] = Len(console)
      /\ initial["console"] \in Nat /\ initial \in Offsets /\ offsets \in Offsets
      /\ receipt # NoFile => receipt["console"] \in Nat /\ receipt["console"] <= Len(console)
  BY <1>1 DEF TypeOK, Offsets, Streams, Sizes, OffsetInv, Covers
<1>4. ASSUME UNCHANGED <<initial, receipt>>, \A s \in Streams : server[s] \subseteq server'[s],
             final' = NoFile => final = NoFile
      PROVE  ReceiptHonest' /\ WholeCharacters'
  <2>1. ReceiptHonest' BY <1>1, <1>4 DEF ReceiptHonest, Bytes
  <2>2. receipt # NoFile /\ receipt["console"] > initial["console"] =>
          console'[receipt["console"]] = console[receipt["console"]]
    BY <1>2, <1>3
  <2>3. WholeCharacters' BY <1>1, <1>4, <2>2 DEF WholeCharacters
  <2> QED BY <2>1, <2>3
<1>5. CASE Lost
  BY <1>5, <1>4 DEF Lost, controls
<1>6. CASE Batched
  BY <1>6, <1>4 DEF Batched, controls
<1>7. CASE Start
  BY <1>7 DEF Start, ReceiptHonest, WholeCharacters
<1>8. CASE Flush
  <2>1. UNCHANGED <<initial, receipt, final>> BY <1>8 DEF Flush, controls
  <2>2. \A s \in Streams : server'[s] = server[s] \union sink[s] BY <1>8 DEF Flush
  <2> QED BY <2>1, <2>2, <1>4
<1>9. CASE WriteReceipt
  <2>1. /\ wpc = "receipt" /\ receipt' = offsets
        /\ UNCHANGED <<initial, final, console, server>>
    BY <1>9 DEF WriteReceipt, controls, logs, remote
  <2>2. Attached /\ sink = Nothing BY <2>1, <1>1 DEF Attached, SinkInv
  <2>3. ReceiptHonest'
    BY <2>1, <2>2, <1>1 DEF ReceiptHonest, SinkInv, Nothing, Bytes
  <2>4. WholeCharacters'
    BY <2>1, <2>2, <1>1 DEF WholeCharacters, HalfInv, Half
  <2> QED BY <2>3, <2>4
<1>10. CASE Finish
  <2>1. UNCHANGED <<initial, receipt, server>> /\ final' = Sizes
    BY <1>10 DEF Finish, remote
  <2>2. final' # NoFile BY <2>1, <1>1, SizesTyped
  <2> QED BY <2>1, <2>2, <1>4
<1>11. CASE Write \/ TornScalar \/ UNCHANGED vars
  BY <1>11, <1>4 DEF Write, Speak, AppendScalar, TornScalar, vars, controls, remote
<1>12. CASE Attach \/ LookFinal \/ LookBarrier \/ Rest
  BY <1>12, <1>4 DEF Attach, LookFinal, LookBarrier, Rest, controls, remote
<1>13. CASE Barrier \/ BarrierAcked \/ FinishAcked
  BY <1>13, <1>4 DEF Barrier, BarrierAcked, FinishAcked, controls, remote
<1> QED
  BY <1>5, <1>6, <1>7, <1>8, <1>9, <1>10, <1>11, <1>12, <1>13, TextStep, TextIsBatched,
     ScalarsAreBatched, LossIsLost
     DEF Next, Worker, Owner, Faults

\* The owner, the worker and the files stay in step.
LEMMA OwnerStep ==
  ASSUME Inv, [Next]_vars
  PROVE  OwnerInv'
<1>1. TypeOK /\ OwnerInv /\ Sizes # NoFile BY SizesTyped DEF Inv
<1>2. CASE Write \/ TornScalar \/ UNCHANGED vars
  BY <1>2, <1>1 DEF Write, Speak, AppendScalar, TornScalar, vars, controls, owner, OwnerInv
<1>3. CASE PublishText \/ PublishWatermark \/ PublishEnd \/ PublishScalars
  <2>1. Batched BY <1>3, TextStep, TextIsBatched, ScalarsAreBatched
  <2> QED BY <2>1, <1>1 DEF Batched, controls, owner, OwnerInv, Reading
<1>4. CASE Crash
  <2>1. Lost BY <1>4, LossIsLost
  <2>2. sup' = sup /\ wpc \notin {"off", "done", "dead"} BY <1>4 DEF Crash, owner, Working
  <2> QED BY <2>1, <2>2, <1>1 DEF Lost, controls, OwnerInv
<1>5. CASE BarrierFails \/ FinishFails
  <2>1. Lost BY <1>5, LossIsLost
  <2> QED BY <2>1, <1>5, <1>1 DEF Lost, controls, OwnerInv, BarrierFails, FinishFails
<1>6. CASE Attach \/ LookBarrier \/ Flush \/ Rest
  BY <1>6, <1>1 DEF Attach, LookBarrier, Flush, Rest, controls, owner, OwnerInv, Reading
<1>7. CASE LookFinal
  BY <1>7, <1>1 DEF LookFinal, controls, owner, OwnerInv, Reading
<1>8. CASE WriteReceipt
  <2>1. /\ wpc = "receipt" /\ stopping' = FALSE /\ UNCHANGED <<controls, owner>>
        /\ wpc' = (IF ~stopping THEN "idle" ELSE IF offsets = limits THEN "done" ELSE "look")
    BY <1>8 DEF WriteReceipt
  <2>2. stopping => sup = "finish"
    <3>1. sup \in {"idle", "running", "barrier", "broken", "finish", "acked", "failed"}
      BY <1>1 DEF TypeOK
    <3> QED BY <2>1, <3>1, <1>1 DEF OwnerInv
  <2> QED BY <2>1, <2>2, <1>1 DEF controls, owner, OwnerInv
<1>9. CASE Start
  BY <1>9, <1>1 DEF Start, OwnerInv, Reading
<1>10. CASE Barrier \/ BarrierAcked
  BY <1>10, <1>1 DEF Barrier, BarrierAcked, controls, OwnerInv
<1>11. CASE Finish \/ FinishAcked
  BY <1>11, <1>1 DEF Finish, FinishAcked, controls, OwnerInv
<1> QED
  BY <1>2, <1>3, <1>4, <1>5, <1>6, <1>7, <1>8, <1>9, <1>10, <1>11
     DEF Next, Worker, Owner, Faults

\* Every variable keeps its kind of value.
LEMMA TypeStep ==
  ASSUME Inv, [Next]_vars
  PROVE  TypeOK'
<1>1. TypeOK /\ Sizes \in Offsets /\ Zero \in Offsets BY SizesTyped DEF Inv
<1>2. CASE Write \/ TornScalar \/ UNCHANGED vars
  <2>1. UNCHANGED <<controls, receipt, owner, wpc, stopping, limits, reader, remote>>
    BY <1>2 DEF Write, Speak, AppendScalar, TornScalar, vars
  <2>2. \/ journal' = journal /\ \E byte \in {"s", "c", "L", "T"} : console' = Append(console, byte)
        \/ console' = console /\ journal' \in {journal, journal + 1, journal + 2}
    BY <1>2 DEF Write, Speak, AppendScalar, TornScalar, vars, logs
  <2>3. console \in Seq({"s", "c", "L", "T"}) /\ journal \in Nat BY <1>1 DEF TypeOK
  <2>4. console' \in Seq({"s", "c", "L", "T"}) BY <2>2, <2>3
  <2>5. journal' \in Nat BY <2>2, <2>3
  <2> QED BY <2>1, <2>4, <2>5, <1>1 DEF controls, owner, reader, remote, TypeOK
<1>3. CASE PublishText \/ PublishWatermark \/ PublishEnd \/ PublishScalars
  <2>1. Batched BY <1>3, TextStep, TextIsBatched, ScalarsAreBatched
  <2> QED BY <2>1, <1>1 DEF Batched, logs, controls, owner, TypeOK
<1>4. CASE Crash \/ BarrierFails \/ FinishFails
  <2>1. Lost BY <1>4, LossIsLost
  <2>2. sup' \in {sup, "broken", "failed"} /\ UNCHANGED <<publishers, barriers>>
    BY <1>4 DEF Crash, BarrierFails, FinishFails, owner
  <2> QED BY <2>1, <2>2, <1>1 DEF Lost, logs, controls, TypeOK, Nothing
<1>5. CASE Attach
  BY <1>5, <1>1 DEF Attach, logs, controls, owner, remote, TypeOK, Offsets, Streams
<1>6. CASE LookFinal \/ LookBarrier \/ Rest
  BY <1>6, <1>1
     DEF LookFinal, LookBarrier, Rest, logs, controls, owner, reader, remote, TypeOK
<1>7. CASE Flush
  BY <1>7, <1>1 DEF Flush, Nothing, logs, controls, owner, reader, TypeOK
<1>8. CASE WriteReceipt
  BY <1>8, <1>1 DEF WriteReceipt, logs, controls, owner, reader, remote, TypeOK
<1>9. CASE Start
  BY <1>9, <1>1 DEF Start, logs, reader, remote, TypeOK
<1>10. CASE Barrier \/ BarrierAcked
  BY <1>10, <1>1 DEF Barrier, BarrierAcked, logs, controls, reader, remote, TypeOK
<1>11. CASE Finish \/ FinishAcked
  BY <1>11, <1>1 DEF Finish, FinishAcked, logs, controls, reader, remote, TypeOK
<1> QED
  BY <1>2, <1>3, <1>4, <1>5, <1>6, <1>7, <1>8, <1>9, <1>10, <1>11
     DEF Next, Worker, Owner, Faults

-----------------------------------------------------------------------------
(* The theorems *)

LEMMA InitInv == Init => Inv
<1> SUFFICES ASSUME Init PROVE Inv
  OBVIOUS
<1>1. TypeOK
  <2>1. Zero \in Offsets /\ Nothing \in [Streams -> SUBSET Nat] BY DEF Zero, Nothing, Offsets
  <2>2. console \in Seq({"s", "c", "L", "T"}) BY DEF Init
  <2> QED BY <2>1, <2>2 DEF Init, TypeOK
<1>2. LogInv BY DEF Init, LogInv
<1>3. OwnerInv BY DEF Init, OwnerInv
<1>4. OffsetInv
  <2>1. \A s \in Streams : Sizes[s] >= Zero[s]
    BY DEF Init, Sizes, Zero
  <2> QED BY <2>1 DEF Init, OffsetInv, Attached, Covers
<1>5. SinkInv BY DEF Init, SinkInv, Attached, Nothing
<1>6. HalfInv BY DEF Init, HalfInv, Attached
<1> QED
  BY <1>1, <1>2, <1>3, <1>4, <1>5, <1>6
     DEF Init, Inv, ReceiptHonest, NothingTwice, WholeCharacters

LEMMA StepInv == Inv /\ [Next]_vars => Inv'
<1> SUFFICES ASSUME Inv, [Next]_vars PROVE Inv'
  OBVIOUS
<1>1. TypeOK' BY TypeStep
<1>2. LogInv' BY LogStep DEF Inv
<1>3. OwnerInv' BY OwnerStep
<1>4. OffsetInv' BY OffsetStep
<1>5. SinkInv' /\ NothingTwice' BY SinkStep
<1>6. HalfInv' BY HalfStep
<1>7. ReceiptHonest' /\ WholeCharacters' BY ReceiptStep
<1> QED BY <1>1, <1>2, <1>3, <1>4, <1>5, <1>6, <1>7 DEF Inv

LEMMA Invariance == Spec => []Inv
  BY InitInv, StepInv, PTL DEF Spec

(***************************************************************************)
(* What a receipt covers is on the server, nothing is reported twice, and  *)
(* until the final offsets are known no receipt cuts a character, whatever *)
(* crashes, deadlines and other writers come between.                      *)
(* (publish_batch, _complete_checkpoint_character)                         *)
(***************************************************************************)
THEOREM Delivered == Spec => []DeliveredOnce
<1>1. Inv => DeliveredOnce BY DEF Inv, DeliveredOnce
<1> QED BY <1>1, Invariance, PTL

(***************************************************************************)
(* A barrier returns, and finish succeeds, only when every byte written    *)
(* before the call is on the server.  (ConsolePublisher._acknowledges and  *)
(* finish)                                                                 *)
(***************************************************************************)
THEOREM AnswersEarned == Spec => AnswerMeansDelivered
<1> DEFINE Earned ==
      /\ sup = "barrier" /\ sup' = "running" =>
           \A s \in Streams : Bytes(initial[s], request[s]) \subseteq server[s]
      /\ sup = "finish" /\ sup' = "acked" =>
           \A s \in Streams : Bytes(initial[s], final[s]) \subseteq server[s]
<1>1. ASSUME Inv, [Next]_vars PROVE [Earned]_vars
  <2>1. TypeOK /\ OwnerInv /\ ReceiptHonest BY <1>1 DEF Inv
  <2>2. ASSUME sup = "barrier", sup' = "running" PROVE BarrierAcked
    <3>1. sup' # sup BY <2>2
    <3> QED
      BY <1>1, <2>2, <3>1
         DEF Next, Write, Worker, Owner, Faults, Speak, AppendScalar, TornScalar, Attach,
             LookFinal, LookBarrier, PublishText, PublishWatermark, PublishEnd, Take,
             PublishScalars, Flush, WriteReceipt, Rest, Crash, Start, Barrier, BarrierFails,
             Finish, FinishAcked, FinishFails, owner, vars
  <2>3. ASSUME sup = "finish", sup' = "acked" PROVE FinishAcked
    <3>1. sup' # sup BY <2>3
    <3> QED
      BY <1>1, <2>3, <3>1
         DEF Next, Write, Worker, Owner, Faults, Speak, AppendScalar, TornScalar, Attach,
             LookFinal, LookBarrier, PublishText, PublishWatermark, PublishEnd, Take,
             PublishScalars, Flush, WriteReceipt, Rest, Crash, Start, Barrier, BarrierAcked,
             BarrierFails, Finish, FinishFails, owner, vars
  <2>4. ASSUME BarrierAcked, NEW s \in Streams
        PROVE  Bytes(initial[s], request[s]) \subseteq server[s]
    <3>1. receipt # NoFile /\ request # NoFile /\ receipt[s] >= request[s]
      BY <2>1, <2>4 DEF BarrierAcked, Acknowledges, Covers, OwnerInv
    <3>2. receipt[s] \in Nat /\ request[s] \in Nat /\ initial[s] \in Nat
      BY <2>1, <3>1 DEF TypeOK, Offsets
    <3>3. Bytes(initial[s], request[s]) \subseteq Bytes(initial[s], receipt[s])
      BY <3>1, <3>2 DEF Bytes
    <3> QED BY <2>1, <3>1, <3>3 DEF ReceiptHonest
  <2>5. ASSUME FinishAcked, NEW s \in Streams
        PROVE  Bytes(initial[s], final[s]) \subseteq server[s]
    BY <2>1, <2>5 DEF FinishAcked, OwnerInv, ReceiptHonest
  <2> QED BY <2>2, <2>3, <2>4, <2>5
<1> QED BY <1>1, Invariance, PTL DEF Spec, AnswerMeansDelivered

=============================================================================
