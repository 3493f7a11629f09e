---------------------------- MODULE BatchSearch ----------------------------
(***************************************************************************)
(* The search for the largest training batch of one GPU: BatchSearch of    *)
(* core/batch_estimation.py and the loop of use_cases/batch_estimate.py    *)
(* that feeds it trials and saves a case after each.                       *)
(*                                                                         *)
(* A search runs on exactly one GPU (estimate_batches refuses any other    *)
(* profile), so a global batch is a batch per rank.  What a trial measures *)
(* is up to the GPU: nothing is assumed about its outcome or its memory,   *)
(* not even that a smaller batch needs less.                               *)
(***************************************************************************)
EXTENDS Integers, Sequences

CONSTANTS
  Step,      \* _batch_step: the grid of batches, 8 or 1
  MaxBatch,  \* settings.max_global_batch
  Budget,    \* the GPU's memory times settings.memory_fraction
  Guided,    \* does search_strategy predict from memory growth?
  Peaks      \* peaks of memory a trial may report

ASSUME SearchAssumption ==
  /\ Step \in Nat \ {0}
  /\ MaxBatch \in Nat /\ MaxBatch >= Step
  /\ Budget \in Nat
  /\ Guided \in BOOLEAN
  /\ Peaks \subseteq Nat

VARIABLES
  pc,          \* where _measure stands
  lower,       \* largest batch that passed, 0 before any did
  upper,       \* smallest batch that exceeded the memory, 0 for None
  next,        \* next_batch, 0 for None
  confirming,
  status,
  batch,       \* global_batch, 0 for None
  trials,
  numerical,   \* is there a numerical_failure?
  case         \* the case saved last

search == <<lower, upper, next, confirming, status, batch, numerical>>
vars   == <<pc, search, trials, case>>

Usable  == {"validated", "ceiling_limited", "numerically_limited"}
Ceiling == (MaxBatch \div Step) * Step

Least(a, b)    == IF a <= b THEN a ELSE b
Greatest(a, b) == IF a >= b THEN a ELSE b

\* Timeouts, crashes, missing assets, interference and errors end a search alike.
Failures == {"oom", "memory_limit", "nonfinite", "error"}
Result ==
  [status : Failures, complete : {FALSE}, peak : {0}]
    \union [status : {"success"}, complete : BOOLEAN, peak : Peaks]
Trial == [id : Nat, batch : Nat, status : Failures \union {"success"},
          complete : BOOLEAN, peak : Nat]

\* _trial_observation: a success needs all its evidence and stays in the budget.
Observed(t) ==
  IF t.status # "success" THEN t.status
  ELSE IF ~t.complete THEN "error"
  ELSE IF t.peak > Budget THEN "memory_limit"
  ELSE "success"

\* "exceeding the per-GPU memory budget": the observations that bound capacity.
Capacity == {"oom", "memory_limit"}

\* What a case says of a search.
Pending == [status |-> "failed", batch |-> 0]
Snapshot(s, b) == IF s = "searching" THEN Pending ELSE [status |-> s, batch |-> b]

Init ==
  /\ pc = "begin"
  /\ lower = 0 /\ upper = 0 /\ next = Step
  /\ confirming = FALSE /\ status = "searching" /\ batch = 0
  /\ trials = <<>> /\ numerical = FALSE
  /\ case \in {Pending, [status |-> "validated", batch |-> Step]}

-----------------------------------------------------------------------------
(* The search *)

\* _growth_candidate: double, or follow the memory of the last two trials.
Growth(low, log) ==
  LET doubled == Least(2 * low, Ceiling)
      now     == log[Len(log)]
      before  == log[Len(log) - 1]
      predicted == now.batch + ((Budget - now.peak) * (now.batch - before.batch))
                                 \div (now.peak - before.peak)
  IN IF ~Guided \/ Len(log) <= 1 THEN doubled
     ELSE IF now.peak <= before.peak THEN doubled
     ELSE Greatest(low + Step, Least(predicted, Least(4 * low, Ceiling)))

\* Round down to the grid, but never back to the batch that passed.
Candidate(low, up, log) ==
  LET raw == IF up = 0 THEN Growth(low, log) ELSE (low + up) \div 2
  IN Greatest(low + Step, (raw \div Step) * Step)

Finish(s, b) ==
  /\ status' = s /\ batch' = b /\ next' = 0
  /\ UNCHANGED <<confirming, numerical>>

Confirm(low) ==
  /\ confirming' = TRUE /\ next' = low
  /\ UNCHANGED <<status, batch>>

\* Faulty variant: the winner of the discovery is not measured again.
AdvanceUnconfirmed(low, up, log) ==
  /\ lower' = low /\ upper' = up
  /\ IF low = Ceiling \/ (up # 0 /\ up - low = Step)
     THEN Finish(IF low = Ceiling THEN "ceiling_limited" ELSE "validated", low)
     ELSE next' = Candidate(low, up, log) /\ UNCHANGED <<confirming, status, batch, numerical>>

\* _advance
Advance(low, up, log) ==
  /\ lower' = low /\ upper' = up
  /\ UNCHANGED numerical
  /\ IF low = Ceiling \/ (up # 0 /\ up - low = Step)
     THEN Confirm(low)
     ELSE next' = Candidate(low, up, log) /\ UNCHANGED <<confirming, status, batch>>

\* _confirmed
Confirmed(seen) ==
  /\ UNCHANGED <<lower, upper>>
  /\ IF seen # "success" THEN Finish("failed", 0)
     ELSE IF numerical THEN Finish("numerically_limited", lower)
     ELSE IF lower = Ceiling THEN Finish("ceiling_limited", lower)
     ELSE Finish("validated", lower)

\* A numerical failure above a batch that passed: confirm that one.
StepBack ==
  /\ numerical' = TRUE
  /\ Confirm(lower)
  /\ UNCHANGED <<lower, upper>>

Discovered(seen, log) ==
  \/ seen = "success" /\ Advance(next, upper, log)
  \/ seen = "nonfinite" /\ lower > 0 /\ StepBack
  \/ seen \in Capacity /\ next # Step /\ Advance(lower, next, log)
  \/ /\ seen \in Capacity /\ next = Step
     /\ Finish("no_capacity", 0) /\ UNCHANGED <<lower, upper>>
  \/ /\ seen = "error" \/ (seen = "nonfinite" /\ lower = 0)
     /\ Finish("failed", 0) /\ UNCHANGED <<lower, upper>>

Observe(t) ==
  /\ trials' = Append(trials, t)
  /\ IF confirming THEN Confirmed(Observed(t)) ELSE Discovered(Observed(t), trials')

-----------------------------------------------------------------------------
(* The loop: _measure *)

\* A refresh invalidates the old success before any work starts.
Begin ==
  /\ pc = "begin" /\ pc' = "prepare"
  /\ case' = Pending
  /\ UNCHANGED <<search, trials>>

Prepared ==
  /\ pc = "prepare" /\ pc' = "search"
  /\ UNCHANGED <<search, trials, case>>

PrepareFails ==
  /\ pc = "prepare" /\ pc' = "returned"
  /\ case' = Pending
  /\ UNCHANGED <<search, trials>>

Fresh(id) == \A i \in DOMAIN trials : trials[i].id # id

\* Faulty variant: only a usable result ends the loop.
MeasureUntilUsable(id, result) ==
  /\ pc = "search" /\ next # 0
  /\ Fresh(id)
  /\ Observe([id |-> id, batch |-> next, status |-> result.status,
              complete |-> result.complete, peak |-> result.peak])
  /\ case' = Snapshot(status', batch')
  /\ pc' = IF status' \in Usable THEN "returned" ELSE "search"

Measure(id, result) ==
  /\ pc = "search" /\ next # 0
  /\ Fresh(id)
  /\ Observe([id |-> id, batch |-> next, status |-> result.status,
              complete |-> result.complete, peak |-> result.peak])
  /\ case' = Snapshot(status', batch')
  /\ pc' = IF next' = 0 THEN "returned" ELSE "search"

\* The probe raised, or its result is no new trial of the pending candidate.
MeasureFails ==
  /\ pc = "search" /\ next # 0
  /\ pc' = "returned"
  /\ case' = Pending
  /\ UNCHANGED <<search, trials>>

\* An interruption, or a profile that preparation changed, propagates.
Interrupted ==
  /\ pc \in {"prepare", "search"}
  /\ pc' = "raised"
  /\ UNCHANGED <<search, trials, case>>

NextTrial == \E result \in Result, id \in 1..(Len(trials) + 1) : Measure(id, result)
Next == Begin \/ Prepared \/ PrepareFails \/ NextTrial \/ MeasureFails \/ Interrupted

Spec     == Init /\ [][Next]_vars
FairSpec == Spec /\ WF_vars(Begin) /\ WF_vars(Prepared) /\ WF_vars(NextTrial)

-----------------------------------------------------------------------------
(* Properties *)

Aligned(b) == b % Step = 0

\* Every variable keeps its kind of value, and every batch stays in the range.
TypeOK ==
  /\ pc \in {"begin", "prepare", "search", "returned", "raised"}
  /\ lower \in 0..Ceiling /\ upper \in 0..Ceiling /\ next \in 0..Ceiling
  /\ batch \in 0..Ceiling
  /\ confirming \in BOOLEAN /\ numerical \in BOOLEAN
  /\ status \in {"searching", "failed", "no_capacity"} \union Usable
  /\ trials \in Seq(Trial)
  /\ case.status \in {"failed", "no_capacity"} \union Usable
  /\ case.batch \in 0..Ceiling

Passed(i)  == Observed(trials[i]) = "success"
Exceeded(i) == Observed(trials[i]) \in Capacity

(***************************************************************************)
(* During discovery the candidate lies on the grid strictly between the    *)
(* batch that passed and the one that did not, and was not measured yet.   *)
(***************************************************************************)
Bracketed ==
  status = "searching" /\ ~confirming =>
    /\ Aligned(lower) /\ Aligned(next) /\ Aligned(upper)
    /\ lower < next /\ (upper # 0 => next < upper)
    /\ \A i \in DOMAIN trials : trials[i].batch # next

(***************************************************************************)
(* Bounds are measurements: the lower one passed and nothing above it did, *)
(* the upper one ran out of memory.  A numerical failure, an error or a    *)
(* prediction is never a bound.                                            *)
(***************************************************************************)
BoundsMeasured ==
  /\ lower # 0 => \E i \in DOMAIN trials : Passed(i) /\ trials[i].batch = lower
  /\ upper # 0 => \E i \in DOMAIN trials : Exceeded(i) /\ trials[i].batch = upper
  /\ \A i \in DOMAIN trials : Passed(i) => trials[i].batch <= lower

(***************************************************************************)
(* A usable result was measured by two different process groups, nothing   *)
(* at or below it exceeded the memory, and its status says what is known   *)
(* above it: the next batch of the grid failed, the ceiling, or a          *)
(* numerical failure.                                                      *)
(***************************************************************************)
WinnerConfirmed ==
  status \in Usable =>
    /\ \E i, j \in DOMAIN trials :
         /\ trials[i].id # trials[j].id
         /\ \A k \in {i, j} : Passed(k) /\ trials[k].batch = batch
    /\ \A i \in DOMAIN trials : Exceeded(i) => trials[i].batch > batch
    /\ status = "validated" =>
         \E i \in DOMAIN trials : Exceeded(i) /\ trials[i].batch = batch + Step
    /\ status = "ceiling_limited" => batch = Ceiling
    /\ status = "numerically_limited" =>
         \E i \in DOMAIN trials : trials[i].status = "nonfinite" /\ trials[i].batch > batch

(***************************************************************************)
(* A case is usable only when the search it was saved from has ended so;   *)
(* an interrupted, failed or unfinished refresh leaves none behind.        *)
(***************************************************************************)
CaseHonest ==
  case.status \in Usable =>
    pc = "begin" \/ (pc = "returned" /\ case = [status |-> status, batch |-> batch])

(***************************************************************************)
(* A result is earned: the bounds of its search are measurements, a        *)
(* winner was measured by two process groups, and what is saved says so.   *)
(***************************************************************************)
ResultEarned == TypeOK /\ Bracketed /\ BoundsMeasured /\ WinnerConfirmed /\ CaseHonest

(***************************************************************************)
(* Every trial of the discovery ends it or narrows what is left.           *)
(***************************************************************************)
Left == (IF upper = 0 THEN Ceiling + Step ELSE upper) - lower
Narrows ==
  [][trials' # trials /\ status' = "searching" /\ ~confirming' => Left' < Left]_vars

(***************************************************************************)
(* The search comes to an end when every trial does.                       *)
(***************************************************************************)
Terminates == <>(pc \in {"returned", "raised"})
=============================================================================
