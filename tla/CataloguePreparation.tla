------------------------ MODULE CataloguePreparation ------------------------
(***************************************************************************)
(* Preparation passes over the model catalogue (assets/preparation.py),    *)
(* the DEIM source among them (assets/archive.py, sources.py), and the     *)
(* conversion of a DINOv3 backbone an execution needs                      *)
(* (deim/hf_weights.py).  A pass that ended leaves a receipt; automatic    *)
(* passes trust it, manual ones start over.  A conversion publishes a      *)
(* checkpoint and then its receipt.                                        *)
(*                                                                         *)
(* A pass may be interrupted or killed anywhere.  MaxPasses bounds the     *)
(* passes that are started.                                                *)
(***************************************************************************)
EXTENDS Naturals, FiniteSets

CONSTANTS Procs, Requests, Source, MaxPasses

VARIABLES
  receipt,    \* requests the recorded pass has tried, or NoReceipt
  latest,     \* how the latest pass that touched the receipt ended
  lock,       \* the holder of the lock of the fingerprint
  tree,       \* the extracted source: missing, whole, damaged
  checkpoint, \* the converted backbone, and
  described,  \* the checkpoint its receipt was written for
  pc, automatic, tried, passes

files == <<receipt, tree, checkpoint, described>>
vars == <<files, latest, lock, pc, automatic, tried, passes>>

Nobody == "nobody"
NoReceipt == {"no receipt"}
Versions == {"none", "stale", "expected"}

Init ==
  /\ receipt = NoReceipt /\ latest = "none" /\ lock = Nobody
  /\ tree \in {"missing", "whole", "damaged"}
  /\ checkpoint \in Versions /\ described \in {"none", "stale"}
  /\ pc = [p \in Procs |-> "start"] /\ automatic = [p \in Procs |-> FALSE]
  /\ tried = [p \in Procs |-> {}] /\ passes = 0

At(p, place) == pc[p] = place
Goto(p, place) == pc' = [pc EXCEPT ![p] = place]
Free(p) == lock' = IF lock = p THEN Nobody ELSE lock

\* _prepare discovers the requests; a discovery that fails makes another
\* fingerprint, which is another instance of this module.
Discover(p) ==
  /\ At(p, "start") /\ passes < MaxPasses /\ passes' = passes + 1
  /\ \E b \in BOOLEAN : automatic' = [automatic EXCEPT ![p] = b]
  /\ tried' = [tried EXCEPT ![p] = {}]
  /\ Goto(p, "lock")
  /\ UNCHANGED <<files, latest, lock>>

Acquire(p) ==
  /\ At(p, "lock") /\ lock = Nobody /\ lock' = p /\ Goto(p, "receipt")
  /\ UNCHANGED <<files, latest, automatic, tried, passes>>

\* The lock times out or the directory cannot be written: a result, no receipt.
Unavailable(p) ==
  /\ At(p, "lock") /\ Goto(p, "returned")
  /\ UNCHANGED <<files, latest, lock, automatic, tried, passes>>

\* An automatic pass takes an older one that ended; any other one owns the
\* completion from here.
UnlinkNot(p) == receipt
Unlinked(p) == NoReceipt
Trust(p) ==
  /\ At(p, "receipt") /\ automatic[p] /\ receipt # NoReceipt
  /\ Goto(p, "skipped") /\ Free(p)
  /\ UNCHANGED <<files, latest, automatic, tried, passes>>

Own(p) ==
  /\ At(p, "receipt") /\ ~(automatic[p] /\ receipt # NoReceipt)
  /\ receipt' = Unlinked(p) /\ latest' = "running" /\ Goto(p, "pass")
  /\ UNCHANGED <<tree, checkpoint, described, lock, automatic, tried, passes>>

(***************************************************************************)
(* _prepare_asset: whatever it raises is one failure of the pass.  The     *)
(* source is extracted to staging, validated and renamed; a tree that is   *)
(* there is validated and never repaired.                                  *)
(***************************************************************************)
Extracted == IF tree = "missing" THEN {"missing", "whole"} ELSE {tree}
PrepareAsset(p) ==
  /\ At(p, "pass")
  /\ \E r \in Requests \ tried[p] :
       /\ tried' = [tried EXCEPT ![p] = @ \union {r}]
       /\ tree' \in IF r = Source THEN Extracted ELSE {tree}
  /\ UNCHANGED <<receipt, checkpoint, described, latest, lock, pc, automatic, passes>>

\* Every request was tried; the receipt replaces the file atomically.
WriteReceipt(p) ==
  /\ At(p, "pass") /\ tried[p] = Requests
  /\ \/ receipt' = tried[p] /\ latest' = "complete"
     \/ receipt' = receipt /\ latest' = "failed"
  /\ Goto(p, "returned") /\ Free(p)
  /\ UNCHANGED <<tree, checkpoint, described, automatic, tried, passes>>

\* KeyboardInterrupt leaves the pass, a kill any step.
Interrupt(p) ==
  /\ pc[p] \in {"lock", "receipt", "pass", "convert", "publish"}
  /\ Goto(p, "start") /\ Free(p)
  /\ latest' = IF At(p, "pass") THEN "interrupted" ELSE latest
  /\ UNCHANGED <<files, automatic, tried, passes>>

---------------------------------------------------------------------------
\* resolve_backbone: the receipt is of this checkpoint and its tensors are those expected.
Cached == described # "none" /\ described = checkpoint /\ checkpoint = "expected"
Convert(p) ==
  /\ At(p, "start") /\ lock = Nobody /\ passes < MaxPasses /\ passes' = passes + 1
  /\ IF Cached THEN Goto(p, "backbone") /\ lock' = lock ELSE Goto(p, "convert") /\ lock' = p
  /\ UNCHANGED <<files, latest, automatic, tried>>

\* The source changed, or its tensors do not fit the native architecture.
ConversionFails(p) ==
  /\ At(p, "convert") /\ Goto(p, "returned") /\ Free(p)
  /\ UNCHANGED <<files, latest, automatic, tried, passes>>

\* Checkpoint first, then its receipt.
PublishCheckpoint(p) ==
  /\ At(p, "convert") /\ checkpoint' = "expected" /\ Goto(p, "publish")
  /\ UNCHANGED <<receipt, tree, described, latest, lock, automatic, tried, passes>>

PublishReceipt(p) ==
  /\ At(p, "publish") /\ described' = "expected" /\ Goto(p, "backbone") /\ Free(p)
  /\ UNCHANGED <<receipt, tree, checkpoint, latest, automatic, tried, passes>>

Next ==
  \E p \in Procs :
    \/ Discover(p) \/ Acquire(p) \/ Unavailable(p) \/ Trust(p) \/ Own(p) \/ PrepareAsset(p)
    \/ WriteReceipt(p) \/ Interrupt(p)
    \/ Convert(p) \/ ConversionFails(p) \/ PublishCheckpoint(p) \/ PublishReceipt(p)

Spec == Init /\ [][Next]_vars

---------------------------------------------------------------------------
(***************************************************************************)
(* "Interruptions propagate and cannot publish completed receipts": there  *)
(* is a receipt only while the latest pass is one that ended and tried     *)
(* everything, and a backbone that is handed over is the expected one.     *)
(***************************************************************************)
ReceiptEarned ==
  /\ receipt # NoReceipt => latest = "complete" /\ receipt = Requests
  /\ \A p \in Procs : At(p, "backbone") => checkpoint = "expected"
=============================================================================
