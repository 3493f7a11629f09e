----------------------------- MODULE BatchCases -----------------------------
(***************************************************************************)
(* cy-batch-estimate: commands that measure cases on GPUs, one process per *)
(* case, and save them in one catalogue.  _CaseScheduler of                *)
(* entrypoints/batch_estimate.py, the IndependentWorkerPool it polls, the  *)
(* process of a case and the locked store they share.                      *)
(*                                                                         *)
(* What a case measures is BatchSearch; that a verified cleanup leaves no  *)
(* process of a case behind is what ProcessTree shows.  Here a case is a   *)
(* process that saves, writes a receipt and exits, or breaks anywhere.     *)
(***************************************************************************)
EXTENDS FiniteSets, Integers

CONSTANTS
  Commands,    \* invocations that run at the same time or one after another
  Keys,        \* estimate keys: a model on a kind of GPU
  Requests,    \* the keys commands may select, as functions of the command
  Gpus,
  Fits,        \* _hardware_matches, as pairs <<key, gpu>>
  Jobs,        \* --jobs, or the number of GPUs
  Refreshing,  \* the commands given --refresh
  MaxSaves,    \* bound: progress saved by a case
  Owner, NoKey, NoGpu, NoDraft

ASSUME CasesAssumption ==
  /\ Requests \subseteq [Commands -> SUBSET Keys]
  /\ Fits \subseteq Keys \X Gpus
  /\ IsFiniteSet(Gpus) /\ IsFiniteSet(Keys)
  /\ Jobs \in Nat \ {0} /\ MaxSaves \in Nat \ {0}
  /\ Refreshing \subseteq Commands
  /\ Owner \notin Keys /\ NoKey \notin Keys /\ NoGpu \notin Gpus
  /\ {"none", "old"} \intersect Commands = {}

VARIABLES
  asked,        \* the keys a command selects
  store,        \* the catalogue: what a key's case says
  draft,        \* the catalogue a writer is about to replace the store with
  pc,           \* where the scheduler of a command stands
  pending, hand, active, completed,
  unavailable, results,
  gpu,          \* the GPU a case was given
  case, tree, receipt, saves

owner == <<asked, pc, pending, hand, active, completed, unavailable, results, gpu>>
cases == <<case, tree, receipt, saves>>
vars  == <<store, draft, owner, cases>>

\* A saved case is unusable, usable since before, or usable and measured by a command.
Entry == {"none", "old"} \union Commands
Writers == Commands \X (Keys \union {Owner})
Over == {"done", "raised", "dead"}
Saving == {"invalidate", "refuse", "publish", "discard"}

Limit == IF Jobs <= Cardinality(Gpus) THEN Jobs ELSE Cardinality(Gpus)

Init ==
  /\ store \in [Keys -> {"none", "old"}]
  /\ draft = [w \in Writers |-> NoDraft]
  /\ pc = [c \in Commands |-> "begin"]
  /\ asked \in Requests
  /\ pending = asked
  /\ hand = [c \in Commands |-> NoKey]
  /\ active = [c \in Commands |-> {}]
  /\ completed = [c \in Commands |-> {}]
  /\ unavailable = [c \in Commands |-> {}]
  /\ results = [c \in Commands |-> [k \in Keys |-> "none"]]
  /\ gpu = [c \in Commands |-> [k \in Keys |-> NoGpu]]
  /\ case = [c \in Commands |-> [k \in Keys |-> "none"]]
  /\ tree = [c \in Commands |-> [k \in Keys |-> "none"]]
  /\ receipt = [c \in Commands |-> [k \in Keys |-> "none"]]
  /\ saves = [c \in Commands |-> [k \in Keys |-> 0]]

-----------------------------------------------------------------------------
(* FileBatchEstimateStore.save: one writer at a time reads the catalogue,  *)
(* puts its case in and replaces the file.                                 *)

Unlocked == \A w \in Writers : draft[w] = NoDraft

Lock(w, key, entry) ==
  /\ Unlocked
  /\ draft' = [draft EXCEPT ![w] = [store EXCEPT ![key] = entry]]

Replace(w) ==
  /\ draft[w] # NoDraft
  /\ store' = draft[w]
  /\ draft' = [draft EXCEPT ![w] = NoDraft]

\* The lock was not had in time, or writing failed, before or after the replacement.
SaveFails(w) ==
  /\ store' \in IF draft[w] = NoDraft THEN {store} ELSE {store, draft[w]}
  /\ draft' = [draft EXCEPT ![w] = NoDraft]

-----------------------------------------------------------------------------
(* The scheduler of a command *)

\* Cached cases are results at once; the pool is opened for the others.
Begin(c) ==
  LET cached == IF c \in Refreshing THEN {} ELSE {k \in asked[c] : store[k] # "none"} IN
  /\ pc[c] = "begin"
  /\ pending' = [pending EXCEPT ![c] = asked[c] \ cached]
  /\ results' = [results EXCEPT ![c] = [k \in Keys |-> IF k \in cached THEN "usable" ELSE "none"]]
  /\ pc' = [pc EXCEPT ![c] = IF asked[c] \subseteq cached THEN "done" ELSE "admit"]
  /\ UNCHANGED <<asked, store, draft, hand, active, completed, unavailable, gpu, cases>>

Occupied(c) == {gpu[c][k] : k \in active[c]}

\* Faulty variant: a GPU that could not be cleaned up is offered again.
CandidatesUnquarantined(c, k) == {g \in Gpus \ Occupied(c) : <<k, g>> \in Fits}

Candidates(c, k) == {g \in Gpus \ (Occupied(c) \union unavailable[c]) : <<k, g>> \in Fits}

\* Faulty variant: any GPU that fits is waited for.
WaitsForeign(c, k) == \E g \in Gpus : <<k, g>> \in Fits

\* Another case of this command can release a GPU that fits.
Waits(c, k) == \E g \in Occupied(c) : <<k, g>> \in Fits

Visit(c, k) ==
  /\ pc[c] = "admit" /\ k \in pending[c]
  /\ Cardinality(active[c]) < Limit
  /\ pending' = [pending EXCEPT ![c] = @ \ {k}]
  /\ hand' = [hand EXCEPT ![c] = k]
  /\ UNCHANGED <<asked, store, draft, active, completed, unavailable, results, cases>>

\* An idle candidate is taken.  Which one is idle is up to the machine.
Select(c, k) ==
  /\ Visit(c, k)
  /\ \E g \in Candidates(c, k) : gpu' = [gpu EXCEPT ![c][k] = g]
  /\ pc' = [pc EXCEPT ![c] = "invalidate"]

\* No candidate is idle and none will be released: foreign work is not waited for.
Refuse(c, k) ==
  /\ Visit(c, k)
  /\ ~Waits(c, k)
  /\ pc' = [pc EXCEPT ![c] = "refuse"]
  /\ UNCHANGED gpu

\* Every slot is taken, or what is still pending waits for a GPU.
Admitted(c) == Cardinality(active[c]) >= Limit \/ \A k \in pending[c] : Waits(c, k)

\* pool.start
Launch(c) ==
  LET k == hand[c] IN
  /\ pc[c] = "launch" /\ pc' = [pc EXCEPT ![c] = "admit"]
  /\ active' = [active EXCEPT ![c] = @ \union {k}]
  /\ case' = [case EXCEPT ![c][k] = "running"]
  /\ tree' = [tree EXCEPT ![c][k] = "live"]
  /\ UNCHANGED <<asked, store, draft, pending, hand, completed, unavailable, results, gpu, receipt, saves>>

\* Nothing was started, or what was is verifiably gone.
LaunchFails(c) ==
  /\ pc[c] = "launch" /\ pc' = [pc EXCEPT ![c] = "refuse"]
  /\ unavailable' = [unavailable EXCEPT ![c] = @ \union {gpu[c][hand[c]]}]
  /\ UNCHANGED <<asked, store, draft, pending, hand, active, completed, results, gpu, cases>>

\* The start and its cleanup failed: an ExceptionGroup that nobody catches.
LaunchUncertain(c) ==
  LET k == hand[c] IN
  /\ pc[c] = "launch" /\ pc' = [pc EXCEPT ![c] = "unwind"]
  /\ \E state \in {"running", "broken"} : case' = [case EXCEPT ![c][k] = state]
  /\ tree' = [tree EXCEPT ![c][k] = "uncertain"]
  /\ UNCHANGED <<asked, store, draft, pending, hand, active, completed, unavailable, results, gpu,
                 receipt, saves>>

Exited(c) == {k \in active[c] : case[c][k] \in {"ended", "broken"}}

\* pool.poll cleans up after every case that exited, and says if it could.
Poll(c) ==
  /\ pc[c] = "admit" /\ Admitted(c)
  /\ pc' = [pc EXCEPT ![c] = "receive"]
  /\ completed' = [completed EXCEPT ![c] = Exited(c)]
  /\ \E unclean \in SUBSET Exited(c) :
       tree' = [tree EXCEPT ![c] = [k \in Keys |->
                  IF k \in unclean THEN "uncertain"
                  ELSE IF k \in Exited(c) THEN "gone"
                  ELSE tree[c][k]]]
  /\ UNCHANGED <<asked, store, draft, pending, hand, active, unavailable, results, gpu, case, receipt, saves>>

\* _completed_case
Accepted(c, k) == case[c][k] = "ended" /\ tree[c][k] = "gone"

Receive(c, k) ==
  /\ pc[c] = "receive" /\ k \in completed[c]
  /\ completed' = [completed EXCEPT ![c] = @ \ {k}]
  /\ active' = [active EXCEPT ![c] = @ \ {k}]
  /\ unavailable' = [unavailable EXCEPT ![c] =
                       @ \union (IF tree[c][k] = "uncertain" THEN {gpu[c][k]} ELSE {})]
  /\ hand' = [hand EXCEPT ![c] = k]
  /\ pc' = [pc EXCEPT ![c] = IF Accepted(c, k) THEN "publish" ELSE "discard"]
  /\ UNCHANGED <<asked, store, draft, pending, results, gpu, cases>>

\* while self.pending or self.active
Received(c) ==
  /\ pc[c] = "receive" /\ completed[c] = {}
  /\ pc' = [pc EXCEPT ![c] = IF pending[c] = {} /\ active[c] = {} THEN "close" ELSE "admit"]
  /\ UNCHANGED <<asked, store, draft, pending, hand, active, completed, unavailable, results, gpu, cases>>

\* What the owner says of the key in its hand, and where it goes on.
Says(c) == IF pc[c] = "publish" THEN receipt[c][hand[c]] ELSE "failed"
After == [invalidate |-> "launch", refuse |-> "admit", publish |-> "receive", discard |-> "receive"]

OwnerLocks(c) ==
  /\ pc[c] \in Saving /\ draft[<<c, Owner>>] = NoDraft
  /\ Lock(<<c, Owner>>, hand[c], IF Says(c) = "usable" THEN c ELSE "none")
  /\ UNCHANGED <<store, owner, cases>>

OwnerSaves(c) ==
  /\ pc[c] \in Saving
  /\ Replace(<<c, Owner>>)
  /\ pc' = [pc EXCEPT ![c] = After[pc[c]]]
  /\ results' = IF pc[c] = "invalidate" THEN results
                ELSE [results EXCEPT ![c][hand[c]] = Says(c)]
  /\ UNCHANGED <<asked, pending, hand, active, completed, unavailable, gpu, cases>>

\* A save that fails, or an interruption anywhere, unwinds the pool.
Interrupted(c) ==
  /\ pc[c] \notin Over \union {"begin", "close", "unwind"}
  /\ SaveFails(<<c, Owner>>)
  /\ pc' = [pc EXCEPT ![c] = "unwind"]
  /\ UNCHANGED <<asked, pending, hand, active, completed, unavailable, results, gpu, cases>>

\* __exit__: every case still owned is stopped and cleaned up, or cannot be.
Close(c) ==
  LET owned == {k \in Keys : tree[c][k] \in {"live", "uncertain"}} IN
  /\ pc[c] \in {"close", "unwind"}
  /\ \E unclean \in SUBSET owned :
       /\ tree' = [tree EXCEPT ![c] = [k \in Keys |->
                     IF k \in unclean THEN "uncertain"
                     ELSE IF k \in owned THEN "gone"
                     ELSE tree[c][k]]]
       /\ case' = [case EXCEPT ![c] = [k \in Keys |->
                     IF k \in owned \ unclean /\ case[c][k] # "ended" THEN "broken" ELSE case[c][k]]]
       /\ draft' = [w \in Writers |->
                      IF w[1] = c /\ w[2] \in owned \ unclean THEN NoDraft ELSE draft[w]]
       /\ pc' = [pc EXCEPT ![c] = IF pc[c] = "close" /\ unclean = {} THEN "done" ELSE "raised"]
  /\ UNCHANGED <<asked, store, pending, hand, active, completed, unavailable, results, gpu, receipt, saves>>

\* SIGKILL: its lock is released, its cases go on without an owner.
Killed(c) ==
  /\ pc[c] \notin Over
  /\ pc' = [pc EXCEPT ![c] = "dead"]
  /\ draft' = [draft EXCEPT ![<<c, Owner>>] = NoDraft]
  /\ UNCHANGED <<asked, store, pending, hand, active, completed, unavailable, results, gpu, cases>>

-----------------------------------------------------------------------------
(* The process of a case: batch_estimate_worker.run *)

\* Faulty variant: the case publishes its own success.
SaysUnmasked(c, usable) == IF usable THEN c ELSE "none"

\* _PendingBatchStore.save: whatever the case says, it saves no success.
CaseSays(c, usable) == "none"

Draftless(c, k) == draft[<<c, k>>] = NoDraft

CaseLocks(c, k) ==
  /\ case[c][k] = "running" /\ Draftless(c, k)
  /\ saves[c][k] < MaxSaves
  /\ \E usable \in BOOLEAN : Lock(<<c, k>>, k, CaseSays(c, usable))
  /\ saves' = [saves EXCEPT ![c][k] = @ + 1]
  /\ UNCHANGED <<store, owner, case, tree, receipt>>

CaseSaves(c, k) ==
  /\ case[c][k] = "running"
  /\ Replace(<<c, k>>)
  /\ UNCHANGED <<owner, cases>>

\* The search of the case has ended and was saved: the receipt is put in place.
CaseWrites(c, k) ==
  /\ case[c][k] = "running" /\ Draftless(c, k) /\ saves[c][k] > 0
  /\ \E says \in {"failed", "usable"} : receipt' = [receipt EXCEPT ![c][k] = says]
  /\ case' = [case EXCEPT ![c][k] = "written"]
  /\ UNCHANGED <<store, draft, owner, tree, saves>>

CaseEnds(c, k) ==
  /\ case[c][k] = "written"
  /\ case' = [case EXCEPT ![c][k] = "ended"]
  /\ UNCHANGED <<store, draft, owner, tree, receipt, saves>>

\* An error, a signal or a save that fails: any exit but zero.
CaseBreaks(c, k) ==
  /\ case[c][k] \in {"running", "written"}
  /\ SaveFails(<<c, k>>)
  /\ case' = [case EXCEPT ![c][k] = "broken"]
  /\ UNCHANGED <<owner, tree, receipt, saves>>

-----------------------------------------------------------------------------

Admission(c) ==
  \/ \E k \in Keys : Select(c, k) \/ Refuse(c, k)
  \/ Launch(c) \/ LaunchFails(c) \/ LaunchUncertain(c)
Reception(c) == Poll(c) \/ Received(c) \/ \E k \in Keys : Receive(c, k)
Schedules(c) == Begin(c) \/ Admission(c) \/ Reception(c) \/ OwnerLocks(c) \/ OwnerSaves(c) \/ Close(c)
Case(c, k) ==
  CaseLocks(c, k) \/ CaseSaves(c, k) \/ CaseWrites(c, k) \/ CaseEnds(c, k) \/ CaseBreaks(c, k)

Next == \E c \in Commands :
  Schedules(c) \/ Interrupted(c) \/ Killed(c) \/ \E k \in Keys : Case(c, k)

Spec     == Init /\ [][Next]_vars
\* A scheduler goes on, and a case comes to its end: its trials have timeouts.
FairSpec ==
  /\ Spec
  /\ \A c \in Commands : WF_vars(Schedules(c)) /\ \A k \in Keys : WF_vars(Case(c, k))

-----------------------------------------------------------------------------
(* Properties *)

\* Every variable keeps its kind of value; a draft is somebody's whole catalogue.
TypeOK ==
  /\ store \in [Keys -> Entry]
  /\ draft \in [Writers -> [Keys -> Entry] \union {NoDraft}]
  /\ pc \in [Commands -> {"begin", "admit", "launch", "receive", "close", "unwind"}
                           \union Saving \union Over]
  /\ asked \in [Commands -> SUBSET Keys]
  /\ pending \in [Commands -> SUBSET Keys]
  /\ active \in [Commands -> SUBSET Keys] /\ completed \in [Commands -> SUBSET Keys]
  /\ hand \in [Commands -> Keys \union {NoKey}]
  /\ unavailable \in [Commands -> SUBSET Gpus]
  /\ results \in [Commands -> [Keys -> {"none", "failed", "usable"}]]
  /\ gpu \in [Commands -> [Keys -> Gpus \union {NoGpu}]]
  /\ case \in [Commands -> [Keys -> {"none", "running", "written", "ended", "broken"}]]
  /\ tree \in [Commands -> [Keys -> {"none", "live", "gone", "uncertain"}]]
  /\ receipt \in [Commands -> [Keys -> {"none", "failed", "usable"}]]
  /\ saves \in [Commands -> [Keys -> 0..MaxSaves]]

(***************************************************************************)
(* Two cases of a command are never on one GPU, a case that may have left  *)
(* processes behind included.                                              *)
(***************************************************************************)
Holds(c, k) == tree[c][k] \in {"live", "uncertain"}
NoSharedGpu ==
  \A c \in Commands : \A k, l \in Keys :
    k # l /\ Holds(c, k) /\ Holds(c, l) => gpu[c][k] # gpu[c][l]

(***************************************************************************)
(* What a command has published or reported as usable was measured by a    *)
(* case that wrote so, exited with zero and is verifiably gone; a case     *)
(* without an owner publishes nothing.                                     *)
(***************************************************************************)
Earned(c, k) == case[c][k] = "ended" /\ tree[c][k] = "gone" /\ receipt[c][k] = "usable"
Published ==
  \A c \in Commands : \A k \in Keys :
    /\ store[k] = c => Earned(c, k)
    /\ results[c][k] = "usable" /\ tree[c][k] # "none" => Earned(c, k)

(***************************************************************************)
(* Whoever holds the lock replaces one case and puts every other back as   *)
(* it is: no save of a peer is lost.                                       *)
(***************************************************************************)
NoLostUpdate ==
  \A w \in Writers :
    draft[w] # NoDraft =>
      \E k \in Keys :
        /\ k = (IF w[2] = Owner THEN hand[w[1]] ELSE w[2])
        /\ \A l \in Keys \ {k} : draft[w][l] = store[l]

(***************************************************************************)
(* Once a case was started, the success from before is gone for good, also *)
(* when its owner is killed or interrupted.                                *)
(***************************************************************************)
OldSuccessGone ==
  \A c \in Commands : \A k \in Keys : tree[c][k] # "none" => store[k] # "old"

(***************************************************************************)
(* The catalogue is honest: a success in it was earned by its own case,    *)
(* an old one is gone before it is measured again, and none is lost.       *)
(***************************************************************************)
CatalogueHonest == TypeOK /\ Published /\ NoLostUpdate /\ OldSuccessGone

(***************************************************************************)
(* Every command comes to an end, and one that ends of itself has a result *)
(* for every key it was asked.                                             *)
(***************************************************************************)
Ended(c) ==
  /\ pc[c] \in Over
  /\ pc[c] = "done" => \A k \in asked[c] : results[c][k] # "none"
Ends == \A c \in Commands : <>Ended(c)

(***************************************************************************)
(* batch_estimate.py:275 of a failed launch whose cleanup is not verified: *)
(* "Quarantine its GPU for this invocation".                               *)
(***************************************************************************)
LaunchQuarantined ==
  \A c \in Commands : \A k \in Keys :
    tree[c][k] = "uncertain" /\ k \notin active[c] => gpu[c][k] \in unavailable[c]
=============================================================================
