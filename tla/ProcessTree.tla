----------------------------- MODULE ProcessTree -----------------------------
(***************************************************************************)
(* native_descendant_scope of adapters/runtime/process_tree.py: how one    *)
(* invocation finds, signals and outlives every process it started.        *)
(*                                                                         *)
(* The kernel runs underneath: processes fork, exit, leave zombies, are    *)
(* adopted by the subreaper and give their pid to somebody else, all of it *)
(* between any two reads of /proc.  A scan sees one process at a time, so  *)
(* what it knows is never the tree at one instant.                         *)
(*                                                                         *)
(* A child shows its launch by the marker in its environ, by a fork record *)
(* it has yet to write ("pending"), or not at all ("silent").              *)
(*                                                                         *)
(* Not modelled: threads inside a process, nested subreapers.              *)
(***************************************************************************)
EXTENDS Naturals, FiniteSets

CONSTANTS
  Pids,             \* process ids other than the invocation's own
  Root,             \* the invocation: caller, supervisor and subreaper
  Orphanage,        \* init, the parent of what belongs to nobody else
  Helpers,          \* children the caller had before the scope began
  Traces,           \* what a child may show of its launch
  MaxBirths,        \* births in one behaviour, the invocation's own the first
  ReuseWithinScan   \* may a pid freed during a scan be reused before it ends

ASSUME TreeAssumption ==
  /\ Root \notin Pids /\ Orphanage \notin Pids /\ Root # Orphanage
  /\ Helpers \subseteq Pids
  /\ Traces \subseteq {"marked", "pending", "silent"}
  /\ MaxBirths \in Nat \ {0}
  /\ ReuseWithinScan \in BOOLEAN

VARIABLES
  proc,       \* the kernel's process table
  births,     \* processes born so far
  pipe,       \* the newest fork record of each pid nobody has read, 0 for none
  pc,         \* where native_descendant_scope stands
  use,        \* what the scan under way is for
  pending,    \* _table: entries still to visit
  cursor,     \* _table: the process whose children are read next
  table,      \* _table: what the scan saw
  changed,    \* _scan_changed: "yes" or "no"
  busy,       \* pids in use at some moment of the current scan
  seen,       \* the first scan's _snapshot
  identities, \* _identities, 0 for an unknown pid
  excluded,   \* _excluded, 0 for a pid outside the helpers' branches
  targets,    \* processes signal() still has to signal
  aim,        \* the listed process signal() is about to signal
  pidfd,      \* the process its descriptor pins
  hit         \* what kinds of process ever received a signal

kernel == <<proc, births, pipe>>
scan   == <<pending, cursor, table, changed, busy>>
memory == <<identities, excluded>>
sender == <<targets, aim, pidfd, hit>>
vars   == <<kernel, pc, use, scan, seen, memory, sender>>

Parents == Pids \union {Root, Orphanage}
Births  == 0..MaxBirths
Kinds   == {"helper", "work", "other", "nothing"}
States  == {"alive", "zombie", "free"}

Identity == [pid : Pids, born : Births \ {0}]
Process  == [state : States, born : Births, parent : Parents, kind : Kinds,
             trace : {"marked", "pending", "silent"}]
Stat     == [state : States, born : Births, parent : Parents]

None    == [pid |-> Root, born |-> 0]
RootId  == [pid |-> Root, born |-> 1]
Free    == [state |-> "free", born |-> 0, parent |-> Root, kind |-> "nothing", trace |-> "silent"]
Unseen  == [state |-> "free", born |-> 0, parent |-> Root]
NoTable == [p \in Pids |-> Unseen]

Id(p)         == [pid |-> p, born |-> proc[p].born]
Exists(p)     == proc[p].state # "free"
Current(id)   == id.pid = Root \/ (Exists(id.pid) /\ proc[id.pid].born = id.born)
ChildrenOf(p) == {c \in Pids : Exists(c) /\ proc[c].parent = p}
ReadStat(p)   == [state |-> proc[p].state, born |-> proc[p].born, parent |-> proc[p].parent]
Listed        == {p \in Pids : table[p].born # 0}
HasHelpers    == Helpers # {}

Init ==
  /\ proc = [p \in Pids |->
       IF p \in Helpers
       THEN [state |-> "alive", born |-> 1, parent |-> Root, kind |-> "helper", trace |-> "silent"]
       ELSE Free]
  /\ births = 1 /\ pipe = [p \in Pids |-> 0]
  /\ pc = "body" /\ use = "signal"
  /\ pending = {} /\ cursor = None /\ table = NoTable /\ changed = "no" /\ busy = {}
  /\ seen = {}
  /\ identities = [p \in Pids |-> 0]
  /\ excluded = [p \in Pids |-> IF p \in Helpers THEN 1 ELSE 0]
  /\ targets = {} /\ aim = None /\ pidfd = None /\ hit = {}

-----------------------------------------------------------------------------
(* The kernel and the processes it runs *)

\* Pids are handed out cyclically: one freed a moment ago is not the next.
Available(q) == ~Exists(q) /\ (ReuseWithinScan \/ q \notin busy)

Born(q, p, k, t) ==
  /\ births < MaxBirths
  /\ Available(q)
  /\ births' = births + 1
  /\ proc' = [proc EXCEPT ![q] = [state |-> "alive", born |-> births + 1, parent |-> p,
                                  kind |-> k, trace |-> t]]
  /\ busy' = IF pc = "scan" THEN busy \union {q} ELSE busy
  /\ UNCHANGED <<pipe, pc, use, pending, cursor, table, changed, seen, memory, sender>>

\* The workload runs in the caller only until the scope ends.
Launch(q, t) == pc = "body" /\ Born(q, Root, "work", t)

\* A Python child records itself before it can fork; helpers were not given the pipe.
Fork(p, q, t) ==
  /\ proc[p].state = "alive" /\ proc[p].kind # "other" /\ proc[p].trace # "pending"
  /\ proc[p].kind = "helper" => t = "silent"
  /\ Born(q, p, proc[p].kind, t)

Unrelated(q) == Born(q, Orphanage, "other", "silent")

\* _record_native_fork; a full or closed pipe drops the record.
Record(p) ==
  /\ proc[p].state = "alive" /\ proc[p].trace = "pending"
  /\ proc' = [proc EXCEPT ![p].trace = "silent"]
  /\ pipe' \in {pipe, [pipe EXCEPT ![p] = proc[p].born]}
  /\ UNCHANGED <<births, pc, use, scan, seen, memory, sender>>

\* The subreaper adopts the children; init reaps its own at once.
Exit(p) ==
  /\ proc[p].state = "alive"
  /\ proc' = [c \in Pids |->
       IF c = p
       THEN IF proc[p].parent = Orphanage THEN Free ELSE [proc[p] EXCEPT !.state = "zombie"]
       ELSE IF proc[c].parent = p THEN [proc[c] EXCEPT !.parent = Root] ELSE proc[c]]
  /\ UNCHANGED <<births, pipe, pc, use, scan, seen, memory, sender>>

\* A parent collects its zombie; the caller does so in its body, or for a helper.
Wait(p) ==
  /\ proc[p].state = "zombie"
  /\ proc[p].parent = Root => pc = "body" \/ proc[p].kind = "helper"
  /\ proc' = [proc EXCEPT ![p] = Free]
  /\ UNCHANGED <<births, pipe, pc, use, scan, seen, memory, sender>>

-----------------------------------------------------------------------------
(* One scan: ScopedProcessTree._table *)

BeginScan(purpose) ==
  /\ pc' = "scan" /\ use' = purpose
  /\ pending' = {[pid |-> p, born |-> identities[p], up |-> None]
                   : p \in {q \in Pids : identities[q] # 0}}
  /\ cursor' = RootId
  /\ busy' = {p \in Pids : Exists(p)}
  /\ UNCHANGED <<table, changed>>

EndScan(next) ==
  /\ pc' = next
  /\ pending' = {} /\ cursor' = None /\ table' = NoTable /\ changed' = "no" /\ busy' = {}

\* _candidate and _matches_parent: still the process that was listed, still
\* the child of the process that listed it.
Candidate(e) ==
  /\ Exists(e.pid)
  /\ e.born # 0 => proc[e.pid].born = e.born
  /\ e.up # None =>
       /\ Current(e.up)
       /\ proc[e.pid].parent = e.up.pid
       /\ proc[e.pid].born >= e.up.born

\* Faulty variant: a forgotten process that is gone counts as churn.
VisitRestless(e) ==
  /\ pc = "scan" /\ cursor = None /\ e \in pending
  /\ pending' = pending \ {e}
  /\ IF Candidate(e) /\ table[e.pid].born # proc[e.pid].born
     THEN /\ table' = [table EXCEPT ![e.pid] = ReadStat(e.pid)]
          /\ cursor' = Id(e.pid) /\ UNCHANGED changed
     ELSE /\ changed' = IF Candidate(e) THEN changed ELSE "yes"
          /\ UNCHANGED <<table, cursor>>
  /\ UNCHANGED <<kernel, pc, use, busy, seen, memory, sender>>

Visit(e) ==
  /\ pc = "scan" /\ cursor = None /\ e \in pending
  /\ pending' = pending \ {e}
  /\ IF Candidate(e)
     THEN /\ UNCHANGED changed
          /\ IF table[e.pid].born = proc[e.pid].born
             THEN UNCHANGED <<table, cursor>>
             ELSE /\ table' = [table EXCEPT ![e.pid] = ReadStat(e.pid)]
                  /\ cursor' = Id(e.pid)
     ELSE /\ changed' = IF e.up # None THEN "yes" ELSE changed
          /\ UNCHANGED <<table, cursor>>
  /\ UNCHANGED <<kernel, pc, use, busy, seen, memory, sender>>

\* _children: the list counts only while its owner is still the same process.
ReadChildren ==
  /\ pc = "scan" /\ cursor # None
  /\ cursor' = None
  /\ IF Current(cursor)
     THEN /\ pending' = pending \union
               {[pid |-> c, born |-> 0, up |-> cursor] : c \in ChildrenOf(cursor.pid)}
          /\ UNCHANGED changed
     ELSE changed' = "yes" /\ UNCHANGED pending
  /\ UNCHANGED <<kernel, pc, use, table, busy, seen, memory, sender>>

-----------------------------------------------------------------------------
(* Attribution: _NativeProcessTree._owned *)

\* The least set above seed that holds every listed child of a member.
Branch(seed) ==
  {p \in Listed : \A S \in SUBSET Listed :
     (seed \subseteq S /\ \A c \in Listed : table[c].parent \in S => c \in S) => p \in S}

Snapshot == {[pid |-> p, born |-> table[p].born, dead |-> table[p].state] : p \in Listed}

\* _fork_identities: known births, corrected by the records of the pipe.
Recorded == [p \in Pids |-> IF pipe[p] # 0 THEN pipe[p] ELSE identities[p]]

Same(p) == Exists(p) /\ proc[p].born = table[p].born
StillAlive(p) == Same(p) /\ proc[p].state = "alive"

\* Faulty variant: propagates protection from the caller itself.
ProtectedByCaller ==
  Branch({p \in Listed : table[p].born = excluded[p] \/ table[p].parent = Root})

Protected == Branch({p \in Listed : table[p].born = excluded[p]})
\* _known_owners, before and after revalidation
Known  == {p \in Listed : table[p].born = Recorded[p]}
Living == {p \in Known : StillAlive(p)}
\* _marked reads environ of everything listed alive outside the protected branches.
Asked  == {p \in Listed \ Protected : table[p].state = "alive"}
Marked == {p \in Asked : StillAlive(p) /\ proc[p].trace = "marked"}

Adopted == IF HasHelpers THEN {} ELSE {p \in Listed : table[p].parent = Root}
Owners  == Branch((Living \ Protected) \union Marked \union Adopted) \ Protected
AliveOwners == {p \in Owners : table[p].state = "alive"}
Ambiguous ==
  {p \in Listed \ (Owners \union Protected) : table[p].parent = Root /\ table[p].state = "alive"}

Churn ==
  \/ changed = "yes"
  \/ Recorded # identities
  \/ \E p \in Known \ Living : ReadStat(p) # table[p]
  \/ \E p \in Asked : ~StillAlive(p)
  \/ Ambiguous # {}

Remember == [p \in Pids |-> IF p \in Owners THEN table[p].born ELSE Recorded[p]]
\* Faulty variant: reaps whatever zombie child the caller has.
ReapableAll ==
  {p \in Listed : /\ table[p].state = "zombie" /\ table[p].parent = Root
                  /\ Same(p) /\ proc[p].state = "zombie"}

\* _reap_owned
Reapable ==
  {p \in Listed \ Protected :
     /\ Remember[p] = table[p].born /\ table[p].state = "zombie" /\ table[p].parent = Root
     /\ Same(p) /\ proc[p].state = "zombie"}

Judge ==
  /\ pc = "scan" /\ cursor = None /\ pending = {}
  /\ pipe' = [p \in Pids |-> 0]
  /\ identities' = Remember
  /\ excluded' = [p \in Pids |-> IF p \in Protected THEN table[p].born ELSE excluded[p]]
  /\ proc' = [p \in Pids |-> IF p \in Reapable THEN Free ELSE proc[p]]
  /\ UNCHANGED births

-----------------------------------------------------------------------------
(* terminate: signal, then verify until the deadline *)

EndScope ==
  /\ pc = "body"
  /\ BeginScan("signal")
  /\ UNCHANGED <<kernel, seen, memory, sender>>

\* signal(): one scan finds the owners,
SignalScan ==
  /\ use = "signal" /\ Judge
  /\ targets' = {[pid |-> p, born |-> table[p].born] : p \in AliveOwners}
  /\ EndScan("signal")
  /\ UNCHANGED <<use, seen, aim, pidfd, hit>>

\* a descriptor pins whatever process has the pid now,
OpenPidfd(t) ==
  /\ pc = "signal" /\ pidfd = None /\ t \in targets
  /\ targets' = targets \ {t}
  /\ IF Exists(t.pid) THEN aim' = t /\ pidfd' = Id(t.pid) ELSE UNCHANGED <<aim, pidfd>>
  /\ UNCHANGED <<kernel, pc, use, scan, seen, memory, hit>>

\* Faulty variant: trusts the pid.
SendByPid ==
  /\ pc = "signal" /\ pidfd # None
  /\ pidfd' = None /\ aim' = None
  /\ hit' = IF Current(pidfd) THEN hit \union {proc[pidfd.pid].kind} ELSE hit
  /\ UNCHANGED <<kernel, pc, use, scan, seen, memory, targets>>

\* and is used only if the pid still shows the birth that was listed.
Send ==
  /\ pc = "signal" /\ pidfd # None
  /\ pidfd' = None /\ aim' = None
  /\ hit' = IF Current(aim) /\ Current(pidfd) THEN hit \union {proc[pidfd.pid].kind} ELSE hit
  /\ UNCHANGED <<kernel, pc, use, scan, seen, memory, targets>>

Signalled ==
  /\ pc = "signal" /\ targets = {} /\ pidfd = None
  /\ BeginScan("first")
  /\ UNCHANGED <<kernel, seen, memory, sender>>

\* running(): two empty scans, nothing vanished during either,
FirstScan ==
  /\ use = "first" /\ Judge
  /\ IF AliveOwners = {} /\ ~Churn
     THEN EndScan("again") /\ seen' = Snapshot
     ELSE EndScan("retry") /\ UNCHANGED seen
  /\ UNCHANGED <<use, sender>>

SecondBegins ==
  /\ pc = "again"
  /\ BeginScan("second")
  /\ UNCHANGED <<kernel, seen, memory, sender>>

\* Faulty variant: two empty scans are enough, whatever they saw.
SecondScanEmpty ==
  /\ use = "second" /\ Judge
  /\ EndScan(IF AliveOwners = {} /\ ~Churn THEN "clean" ELSE "retry")
  /\ seen' = {}
  /\ UNCHANGED <<use, sender>>

\* and the second saw exactly the identities the first did.
SecondScan ==
  /\ use = "second" /\ Judge
  /\ EndScan(IF AliveOwners = {} /\ ~Churn /\ Snapshot = seen THEN "clean" ELSE "retry")
  /\ seen' = {}
  /\ UNCHANGED <<use, sender>>

\* /proc denied a read: nothing is concluded, terminate tries again.
Denied ==
  /\ pc = "scan" /\ use # "signal"
  /\ EndScan("retry") /\ seen' = {}
  /\ UNCHANGED <<kernel, use, memory, sender>>

\* Another verification, or SIGKILL first once the grace period is over.
Retry ==
  /\ pc = "retry"
  /\ \E purpose \in {"first", "signal"} : BeginScan(purpose)
  /\ UNCHANGED <<kernel, seen, memory, sender>>

\* The deadline: the scope fails and reports what survived.
GiveUp ==
  /\ pc = "retry"
  /\ pc' = "failed"
  /\ UNCHANGED <<kernel, use, scan, seen, memory, sender>>

Kernel ==
  \/ \E q \in Pids, t \in Traces : Launch(q, t) \/ \E p \in Pids : Fork(p, q, t)
  \/ \E p \in Pids : Unrelated(p) \/ Record(p) \/ Exit(p) \/ Wait(p)

Cleanup ==
  \/ EndScope
  \/ \E e \in pending : Visit(e)
  \/ ReadChildren \/ SignalScan \/ FirstScan \/ SecondBegins \/ SecondScan
  \/ \E t \in targets : OpenPidfd(t)
  \/ Send \/ Signalled \/ Retry

Next == Kernel \/ Cleanup \/ Denied \/ GiveUp
Spec == Init /\ [][Next]_vars

\* A round after the grace period, which signals before it verifies again.
Kills ==
  /\ pc = "retry"
  /\ BeginScan("signal")
  /\ UNCHANGED <<kernel, seen, memory, sender>>

\* The scope runs, its rounds come to SIGKILL, and a process that is signalled in
\* round after round dies of it; nothing else has to die.  The deadline is never needed.
Patience ==
  /\ Init /\ [][Kernel \/ Cleanup]_vars
  /\ WF_vars(Cleanup) /\ SF_vars(Kills)
  /\ \A p \in Pids : SF_vars(pidfd = Id(p) /\ Exit(p))

-----------------------------------------------------------------------------
(* Properties *)

\* Every variable keeps its kind of value.
TypeOK ==
  /\ proc \in [Pids -> Process] /\ births \in Births /\ pipe \in [Pids -> Births]
  /\ pc \in {"body", "scan", "again", "signal", "retry", "clean", "failed"}
  /\ use \in {"signal", "first", "second"}
  /\ pending \subseteq [pid : Pids, born : Births, up : Identity \union {None, RootId}]
  /\ cursor \in Identity \union {None, RootId}
  /\ table \in [Pids -> Stat] /\ changed \in {"yes", "no"} /\ busy \subseteq Pids
  /\ seen \subseteq [pid : Pids, born : Births, dead : States]
  /\ identities \in [Pids -> Births] /\ excluded \in [Pids -> Births]
  /\ targets \subseteq Identity
  /\ aim \in Identity \union {None} /\ pidfd \in Identity \union {None}
  /\ hit \subseteq Kinds

(***************************************************************************)
(* terminate returns only over a finished invocation: when two scans agree *)
(* on an empty tree no process the workload started is alive, however the  *)
(* processes forked, died and were adopted between the reads.              *)
(***************************************************************************)
NothingOutlives ==
  pc = "clean" => \A p \in Pids : proc[p].kind = "work" => proc[p].state # "alive"

(***************************************************************************)
(* The caller's own helpers, their descendants and unrelated processes     *)
(* that took over a dead worker's pid never receive a signal.              *)
(***************************************************************************)
OnlyWorkSignalled == hit \subseteq {"work"}

(***************************************************************************)
(* Reaping takes only statuses of the workload: a helper's zombie stays    *)
(* for the code that started the helper.                                   *)
(***************************************************************************)
OnlyWorkReaped ==
  [][pc = "scan" /\ pc' # "scan" =>
       \A p \in Pids : proc'[p] # proc[p] => proc[p].kind = "work"]_vars

(***************************************************************************)
(* Nothing the workload started is ever filed under the protected branches *)
(* of the caller's helpers, where no scan would look for it again.         *)
(***************************************************************************)
WorkNeverExcluded ==
  \A p \in Pids : proc[p].kind = "work" => excluded[p] # proc[p].born

(***************************************************************************)
(* Cleanup ends all of the work and touches nothing else.                  *)
(***************************************************************************)
Contained == TypeOK /\ NothingOutlives /\ OnlyWorkSignalled /\ WorkNeverExcluded

(***************************************************************************)
(* Without helpers every child is attributable: once births stop, every    *)
(* survivor is found and signalled until it dies, and cleanup is verified. *)
(***************************************************************************)
Converges == <>(pc = "clean")
=============================================================================
