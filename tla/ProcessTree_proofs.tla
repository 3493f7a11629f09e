------------------------- MODULE ProcessTree_proofs -------------------------
(***************************************************************************)
(* Proofs about ProcessTree for any number of pids, births and helpers of  *)
(* the caller.  Pids may be reused at any moment where the caller has no   *)
(* helpers; beside helpers not within one scan (Scoped), since attribution *)
(* follows parents by pid.                                                 *)
(***************************************************************************)
EXTENDS ProcessTree, TLAPS

Scoped == Helpers = {} \/ ~ReuseWithinScan

LiveWork == {p \in Pids : proc[p].kind = "work" /\ proc[p].state = "alive"}

(***************************************************************************)
(* The kernel: births number the processes, a living parent is of the same *)
(* kind, the dead have no children, only the workload shows its launch,    *)
(* and no set of living processes is its own ancestry, so the oldest of    *)
(* them is a child of the caller or of init.                               *)
(***************************************************************************)
KernelInv ==
  /\ births \in Nat \ {0}
  /\ \A p \in Pids :
       \/ proc[p] = Free
       \/ /\ proc[p].state \in {"alive", "zombie"}
          /\ proc[p].born \in 1..births
          /\ proc[p].kind \in {"helper", "work", "other"}
          /\ proc[p].kind # "work" => proc[p].trace = "silent"
          /\ proc[p].kind = "other" <=> proc[p].parent = Orphanage
          /\ proc[p].parent \in Pids =>
               /\ proc[proc[p].parent].state = "alive"
               /\ proc[proc[p].parent].kind = proc[p].kind
          /\ proc[p].parent \in Pids \union {Root, Orphanage}
Rooted ==
  \A S \in SUBSET Pids :
    S # {} /\ (\A p \in S : proc[p].state = "alive") => \E p \in S : proc[p].parent \notin S

\* The newest process of a pid is none of those the first scan saw.
NewTo(p) == \A s \in seen : s.pid = p => s.born # proc[p].born
Dead(p, b) == [pid |-> p, born |-> b, dead |-> "zombie"]
Entry(p)   == [pid |-> p, born |-> 0, up |-> RootId]

TableInv ==
  /\ \A p \in Pids : table[p] = Unseen \/
       /\ table[p].born \in 1..births /\ table[p].state \in {"alive", "zombie"}
       /\ table[p].state = "zombie" =>
            ~(proc[p].born = table[p].born /\ proc[p].state = "alive")
  /\ cursor = RootId => table = NoTable
  /\ pc # "scan" => table = NoTable

SeenInv ==
  \A s \in seen :
    /\ s.pid \in Pids /\ s.born \in 1..births
    /\ s.dead = "zombie" => ~(proc[s.pid].born = s.born /\ proc[s.pid].state = "alive")

(***************************************************************************)
(* The kernel forgets a process once its pid is free; what the scope       *)
(* remembers may be of such a process.  The parameter K is the history it  *)
(* lost: K[b] is the kind of the process that was born as number b.        *)
(* Whatever the scope holds for the workload, or for a helper, was one.    *)
(***************************************************************************)
Of(K, b, k) == b \in 1..births /\ K[b] = k

Lineage(K) ==
  /\ \A p \in Pids :
       /\ proc[p] # Free => K[proc[p].born] = proc[p].kind
       /\ pipe[p] # 0 => Of(K, pipe[p], "work")
       /\ identities[p] # 0 => Of(K, identities[p], "work")
       /\ excluded[p] # 0 => Of(K, excluded[p], "helper")
  /\ Helpers = {} => \A b \in 1..births : K[b] # "helper"

ScanKinds(K) ==
  /\ \A p \in Pids : table[p].born # 0 => K[table[p].born] \in {"work", "helper"}
  /\ \A e \in pending : e.up = None => Of(K, e.born, "work")

SenderKinds(K) ==
  /\ \A t \in targets : Of(K, t.born, "work")
  /\ pidfd # None => aim # None /\ aim.pid = pidfd.pid /\ Of(K, aim.born, "work")
  /\ hit \subseteq {"work"}

\* Where pids are not reused within a scan, a parent's pid in the table is of its kind.
Stable(K) ==
  ~ReuseWithinScan /\ pc = "scan" =>
    /\ \A p \in Pids : Exists(p) => p \in busy
    /\ \A p \in Listed :
         /\ p \in busy /\ (Exists(p) => proc[p].born = table[p].born)
         /\ table[p].parent \in Pids =>
              /\ table[p].parent \in busy
              /\ Exists(table[p].parent) => K[proc[table[p].parent].born] = K[table[p].born]
              /\ table[p].parent \in Listed => K[table[table[p].parent].born] = K[table[p].born]

(***************************************************************************)
(* What keeps a second scan from passing once the caller's children were   *)
(* read while the workload lived: a child still to visit, or its entry.    *)
(***************************************************************************)
ToVisit(p) ==
  /\ Entry(p) \in pending
  /\ Exists(p) =>
       \/ NewTo(p)
       \/ /\ proc[p].parent = Root /\ proc[p].kind = "work"
          /\ Dead(p, proc[p].born) \notin seen
          /\ table[p].born = proc[p].born => table[p].parent = Root

Visited(p, K) ==
  /\ table[p].born # 0
  /\ \/ [pid |-> p, born |-> table[p].born, dead |-> table[p].state] \notin seen
     \/ table[p].state = "alive" /\ table[p].parent = Root /\ K[table[p].born] = "work"
  /\ Exists(p) => proc[p].born = table[p].born \/ NewTo(p)

Witness(K) == changed = "yes" \/ LiveWork = {} \/ \E p \in Pids : ToVisit(p) \/ Visited(p, K)

SecondInv(K) == pc = "scan" /\ use = "second" /\ cursor # RootId => Witness(K)
CleanInv     == pc = "clean" => LiveWork = {}

Histories == [Births -> {"helper", "work", "other"}]

IInv(K) ==
  /\ TypeOK /\ KernelInv /\ Rooted /\ TableInv /\ SeenInv /\ SecondInv(K) /\ CleanInv
  /\ Lineage(K) /\ ScanKinds(K) /\ SenderKinds(K) /\ Stable(K)

Inv == \E K \in Histories : IInv(K)

-----------------------------------------------------------------------------
(* What any step does to the processes, one pid at a time *)

Stays(p) ==
  /\ Exists(p) /\ proc'[p].state \in {"alive", "zombie"}
  /\ proc'[p].born = proc[p].born /\ proc'[p].kind = proc[p].kind
  /\ proc'[p].state = "alive" => proc[p].state = "alive"
  /\ proc'[p].parent = proc[p].parent \/ proc'[p].parent = Root
Comes(p, k) ==
  /\ ~Exists(p) /\ births' = births + 1
  /\ proc'[p].state = "alive" /\ proc'[p].born = births + 1
  /\ proc'[p].kind = k
  /\ k = "work" => pc = "body" \/ LiveWork # {}
  /\ ReuseWithinScan \/ p \notin busy
  /\ pc = "scan" => p \in busy'
Evolves ==
  /\ births' \in {births, births + 1}
  /\ \E k \in {"helper", "work", "other"} :
       /\ k = "helper" => Helpers # {}
       /\ \A p \in Pids : proc'[p] = Free \/ Stays(p) \/ Comes(p, k)

\* The part of the invariant about processes alone, and about a birth.
LEMMA BornFacts ==
  ASSUME TypeOK, KernelInv, Rooted,
         NEW q \in Pids, NEW p \in Pids \union {Root, Orphanage},
         NEW k \in {"helper", "work", "other"}, NEW t \in {"marked", "pending", "silent"},
         Born(q, p, k, t), k # "work" => t = "silent", k = "helper" => Helpers # {},
         p \in Pids => proc[p].state = "alive" /\ proc[p].kind = k,
         k = "other" <=> p = Orphanage,
         k = "work" => pc = "body" \/ LiveWork # {}
  PROVE  proc' \in [Pids -> Process] /\ births' \in Births /\ Evolves /\ KernelInv' /\ Rooted'
<1> DEFINE new == [state |-> "alive", born |-> births + 1, parent |-> p, kind |-> k, trace |-> t]
<1>1. /\ births < MaxBirths /\ births' = births + 1 /\ births \in Nat /\ births \in Births
      /\ proc[q].state = "free" /\ proc \in [Pids -> Process]
      /\ proc' = [proc EXCEPT ![q] = new]
      /\ MaxBirths \in Nat /\ (ReuseWithinScan \/ q \notin busy) /\ (pc = "scan" => q \in busy')
  BY TreeAssumption DEF Born, Available, Exists, TypeOK, KernelInv
<1>2. new \in Process /\ births' \in Births
  BY <1>1, TreeAssumption DEF Process, Births, Parents, States, Kinds
<1>3. /\ proc'[q] = new
      /\ \A c \in Pids \ {q} : proc'[c] = proc[c]
      /\ proc' \in [Pids -> Process]
  BY <1>1, <1>2
<1>4. /\ proc'[q].state = "alive" /\ proc'[q].born = births + 1 /\ proc'[q].parent = p
      /\ proc'[q].kind = k /\ proc'[q].trace = t
  BY <1>3
<1> HIDE DEF new
<1>5. \A c \in Pids : proc[c] = Free \/ proc[c].state \in {"alive", "zombie"}
  BY DEF KernelInv
<1>6. Evolves
  <2>1. \A c \in Pids : proc'[c] = Free \/ Stays(c) \/ Comes(c, k)
    BY <1>1, <1>3, <1>4, <1>5 DEF Stays, Comes, Exists, Free
  <2> QED
    BY <1>1, <2>1 DEF Evolves
<1>7. KernelInv'
  <2>1. \A c \in Pids \ {q} : proc[c].parent # q \/ proc[c] = Free
    BY <1>1 DEF KernelInv
  <2>2. p # q
    BY <1>1
  <2> QED
    BY <1>1, <1>3, <1>4, <2>1, <2>2 DEF KernelInv
<1>8. Rooted'
  <2> SUFFICES ASSUME NEW S \in SUBSET Pids, S # {}, \A c \in S : proc'[c].state = "alive"
               PROVE  \E c \in S : proc'[c].parent \notin S
    BY DEF Rooted
  <2>1. CASE q \notin S
    <3>1. \A c \in S : proc'[c] = proc[c]
      BY <1>3, <2>1
    <3> QED
      BY <3>1 DEF Rooted
  <2>2. CASE S = {q}
    BY <1>1, <1>4, <2>2
  <2>3. CASE q \in S /\ S # {q}
    <3> DEFINE T == S \ {q}
    <3>1. T # {} /\ T \in SUBSET Pids /\ \A c \in T : proc'[c] = proc[c] /\ proc[c].state = "alive"
      BY <1>3, <2>3
    <3>2. PICK c \in T : proc[c].parent \notin T
      BY <3>1 DEF Rooted
    <3>3. proc[c].parent # q
      BY <1>1, <3>1 DEF KernelInv, Free
    <3> QED
      BY <3>1, <3>2, <3>3
  <2> QED
    BY <2>1, <2>2, <2>3
<1> QED
  BY <1>2, <1>3, <1>6, <1>7, <1>8

\* No living process is its own parent.
LEMMA OwnParent ==
  ASSUME Rooted, NEW p \in Pids, proc[p].state = "alive"
  PROVE  proc[p].parent # p
<1>1. {p} \in SUBSET Pids /\ {p} # {}
  OBVIOUS
<1> QED
  BY <1>1 DEF Rooted

\* Deaths: some processes turn into zombies or vanish, their children are adopted.
LEMMA DeathFacts ==
  ASSUME TypeOK, KernelInv, Rooted, births' = births,
         proc' \in [Pids -> Process],
         \A p \in Pids :
           \/ proc'[p] = Free
           \/ /\ proc[p].state \in {"alive", "zombie"} /\ proc'[p].state \in {"alive", "zombie"}
              /\ proc'[p].state = "alive" => proc[p].state = "alive"
              /\ proc'[p].born = proc[p].born /\ proc'[p].kind = proc[p].kind
              /\ proc'[p].trace \in {proc[p].trace, "silent"}
              /\ proc'[p].parent = proc[p].parent \/ (proc[p].parent \in Pids /\ proc'[p].parent = Root)
              /\ proc'[p].parent \in Pids => proc'[proc'[p].parent].state = "alive"
  PROVE  births' \in Births /\ Evolves /\ KernelInv' /\ Rooted'
<1>1. births' \in Births
  BY DEF TypeOK
<1>2. Evolves
  <2>1. \A p \in Pids : proc'[p] = Free \/ Stays(p)
    BY DEF Stays, Exists
  <2> QED
    BY <2>1 DEF Evolves
<1>3. KernelInv'
  <2>1. Free.state = "free" /\ Root \notin Pids /\ Orphanage \notin Pids /\ Root # Orphanage
    BY TreeAssumption DEF Free
  <2>2. \A p \in Pids : proc'[p] # Free => proc[p] # Free
    BY <2>1
  <2>3. ASSUME NEW p \in Pids, proc'[p] # Free
        PROVE  /\ proc'[p].state \in {"alive", "zombie"}
               /\ proc'[p].born \in 1..births
               /\ proc'[p].kind \in {"helper", "work", "other"}
               /\ proc'[p].kind # "work" => proc'[p].trace = "silent"
               /\ proc'[p].kind = "other" <=> proc'[p].parent = Orphanage
               /\ proc'[p].parent \in Pids =>
                    /\ proc'[proc'[p].parent].state = "alive"
                    /\ proc'[proc'[p].parent].kind = proc'[p].kind
               /\ proc'[p].parent \in Pids \union {Root, Orphanage}
    <3>1. /\ proc[p] # Free
          /\ proc[p].born \in 1..births
          /\ proc[p].kind \in {"helper", "work", "other"}
          /\ proc[p].kind # "work" => proc[p].trace = "silent"
          /\ proc[p].kind = "other" <=> proc[p].parent = Orphanage
          /\ proc[p].parent \in Pids => proc[proc[p].parent].kind = proc[p].kind
          /\ proc[p].parent \in Pids \union {Root, Orphanage}
      BY <2>2, <2>3 DEF KernelInv
    <3> QED
      BY <2>1, <2>3, <3>1
  <2> QED
    BY <2>3 DEF KernelInv
<1>4. Rooted'
  <2> SUFFICES ASSUME NEW S \in SUBSET Pids, S # {}, \A c \in S : proc'[c].state = "alive"
               PROVE  \E c \in S : proc'[c].parent \notin S
    BY DEF Rooted
  <2>1. \A c \in S : proc[c].state = "alive" /\ proc'[c].parent \in {proc[c].parent, Root}
    BY DEF Free
  <2>2. PICK c \in S : proc[c].parent \notin S
    BY <2>1 DEF Rooted
  <2> QED
    BY <2>1, <2>2, TreeAssumption
<1> QED
  BY <1>1, <1>2, <1>3, <1>4

\* What forks, exits and reaping by the kernel leave of the scan's knowledge.
LEMMA KernelFacts ==
  ASSUME NEW K \in Histories, TypeOK, KernelInv, Rooted, Lineage(K), Kernel
  PROVE  /\ proc' \in [Pids -> Process] /\ births' \in Births
         /\ Evolves /\ KernelInv' /\ Rooted'
         /\ pipe' \in [Pids -> Births]
         /\ \A p \in Pids : pipe'[p] # 0 =>
              \/ pipe'[p] = pipe[p]
              \/ /\ proc[p].state = "alive" /\ proc[p].kind = "work"
                 /\ pipe'[p] = proc[p].born
         /\ busy \subseteq busy' /\ busy' \subseteq Pids
         /\ UNCHANGED <<pc, use, pending, cursor, table, changed, seen, memory, sender>>
<1>1. /\ proc \in [Pids -> Process] /\ births \in Births /\ pipe \in [Pids -> Births]
      /\ busy \subseteq Pids
  BY DEF TypeOK
<1>2. Root \notin Pids /\ Orphanage \notin Pids /\ Root # Orphanage /\ Free.state = "free"
  BY TreeAssumption DEF Free
<1>3. \A q \in Pids : proc[q].state \in {"alive", "zombie"} =>
          /\ proc[q].kind \in {"helper", "work", "other"}
          /\ proc[q].kind # "work" => proc[q].trace = "silent"
          /\ proc[q].kind = "helper" => Helpers # {}
  BY <1>2 DEF KernelInv, Lineage
<1>4. CASE \E q \in Pids, t \in Traces : Launch(q, t)
  <2>1. PICK q \in Pids, t \in Traces : Launch(q, t)
    BY <1>4
  <2>2. Born(q, Root, "work", t) /\ pc = "body"
    BY <2>1 DEF Launch
  <2>3. proc' \in [Pids -> Process] /\ births' \in Births /\ Evolves /\ KernelInv' /\ Rooted'
    BY <1>2, <2>2, BornFacts, TreeAssumption
  <2> QED
    BY <1>1, <2>2, <2>3 DEF Born, memory, sender
<1>5. CASE \E q \in Pids, t \in Traces : \E p \in Pids : Fork(p, q, t)
  <2>1. PICK q \in Pids, t \in Traces, p \in Pids : Fork(p, q, t)
    BY <1>5
  <2>2. /\ proc[p].state = "alive" /\ proc[p].kind \in {"helper", "work"}
        /\ Born(q, p, proc[p].kind, t) /\ (proc[p].kind = "helper" => t = "silent" /\ Helpers # {})
        /\ t \in {"marked", "pending", "silent"}
    BY <1>3, <2>1, TreeAssumption DEF Fork
  <2>3. p # Orphanage /\ (proc[p].kind = "work" => LiveWork # {})
    BY <1>2, <2>2 DEF LiveWork
  <2> HIDE DEF LiveWork
  <2>4. proc' \in [Pids -> Process] /\ births' \in Births /\ Evolves /\ KernelInv' /\ Rooted'
    BY <2>2, <2>3, BornFacts
  <2> QED
    BY <1>1, <2>2, <2>4 DEF Born, memory, sender
<1>6. CASE \E p \in Pids : Unrelated(p)
  <2>1. PICK q \in Pids : Unrelated(q)
    BY <1>6
  <2>2. Born(q, Orphanage, "other", "silent")
    BY <2>1 DEF Unrelated
  <2>3. proc' \in [Pids -> Process] /\ births' \in Births /\ Evolves /\ KernelInv' /\ Rooted'
    BY <1>2, <2>2, BornFacts, TreeAssumption
  <2> QED
    BY <1>1, <2>2, <2>3 DEF Born, memory, sender
<1>7. CASE \E p \in Pids : Record(p)
  <2>1. PICK p \in Pids : Record(p)
    BY <1>7
  <2> DEFINE after == [proc[p] EXCEPT !.trace = "silent"]
  <2>2. /\ after \in Process /\ after.state = proc[p].state /\ after.born = proc[p].born
        /\ after.kind = proc[p].kind /\ after.parent = proc[p].parent /\ after.trace = "silent"
    BY <1>1 DEF Process
  <2>3. proc' = [proc EXCEPT ![p] = after]
    BY <2>1 DEF Record
  <2>4. /\ proc' \in [Pids -> Process]
        /\ \A c \in Pids : /\ proc'[c].state = proc[c].state /\ proc'[c].born = proc[c].born
                           /\ proc'[c].kind = proc[c].kind /\ proc'[c].parent = proc[c].parent
                           /\ proc'[c].trace \in {proc[c].trace, "silent"}
                           /\ proc[c] = Free => proc'[c] = Free
    <3> HIDE DEF after
    <3>1. proc[p] # Free
      BY <1>2, <2>1 DEF Record
    <3> QED
      BY <1>1, <2>2, <2>3, <3>1
  <2>5. births' \in Births /\ Evolves /\ KernelInv' /\ Rooted'
    <3>1. births' = births
      BY <2>1 DEF Record
    <3>2. \A c \in Pids :
            \/ proc'[c] = Free
            \/ /\ proc[c].state \in {"alive", "zombie"}
               /\ proc[c].parent \in Pids => proc'[proc[c].parent].state = "alive"
      BY <2>4 DEF KernelInv
    <3> QED
      BY <2>4, <3>1, <3>2, DeathFacts
  <2>6. pipe' \in [Pids -> Births]
    BY <1>1, <2>1 DEF Record, Process
  <2> QED
    <3>1. proc[p].state = "alive" /\ proc[p].kind = "work"
      BY <1>2, <2>1 DEF Record, KernelInv
    <3>2. \A c \in Pids : pipe'[c] # 0 => pipe'[c] = pipe[c] \/ (c = p /\ pipe'[c] = proc[p].born)
      BY <1>1, <2>1 DEF Record
    <3> QED
      BY <1>1, <2>1, <2>4, <2>5, <2>6, <3>1, <3>2 DEF Record, scan, memory, sender
<1>8. CASE \E p \in Pids : Exit(p)
  <2>1. PICK p \in Pids : Exit(p)
    BY <1>8
  <2> DEFINE dying == [proc[p] EXCEPT !.state = "zombie"]
             adopted(c) == [proc[c] EXCEPT !.parent = Root]
  <2>2. /\ dying \in Process /\ dying.state = "zombie" /\ dying.born = proc[p].born
        /\ dying.kind = proc[p].kind /\ dying.parent = proc[p].parent
        /\ dying.trace = proc[p].trace /\ Free \in Process
    BY <1>1, TreeAssumption DEF Process, Free, States, Parents, Births, Kinds
  <2>3. \A c \in Pids :
          /\ adopted(c) \in Process /\ adopted(c).state = proc[c].state
          /\ adopted(c).born = proc[c].born /\ adopted(c).kind = proc[c].kind
          /\ adopted(c).parent = Root /\ adopted(c).trace = proc[c].trace
    BY <1>1 DEF Process, Parents
  <2>4. proc' = [c \in Pids |->
          IF c = p THEN IF proc[p].parent = Orphanage THEN Free ELSE dying
          ELSE IF proc[c].parent = p THEN adopted(c) ELSE proc[c]]
    BY <2>1 DEF Exit
  <2>5. \A c \in Pids : proc[c] = Free => proc[c].parent # p
    BY <1>2 DEF Free
  <2> HIDE DEF dying, adopted
  <2>9. \A c \in Pids \ {p} :
          /\ proc'[c].state = proc[c].state /\ proc'[c].born = proc[c].born
          /\ proc'[c].kind = proc[c].kind /\ proc'[c].trace = proc[c].trace
          /\ proc'[c].parent = IF proc[c].parent = p THEN Root ELSE proc[c].parent
          /\ proc[c] = Free => proc'[c] = Free
    BY <2>3, <2>4, <2>5
  <2>6. proc' \in [Pids -> Process]
    BY <1>1, <2>2, <2>3, <2>4
  <2>7. proc[p].state = "alive" /\ births' = births
    BY <2>1 DEF Exit
  <2>8. \A c \in Pids :
           \/ proc'[c] = Free
           \/ /\ proc[c].state \in {"alive", "zombie"} /\ proc'[c].state \in {"alive", "zombie"}
              /\ proc'[c].state = "alive" => proc[c].state = "alive"
              /\ proc'[c].born = proc[c].born /\ proc'[c].kind = proc[c].kind
              /\ proc'[c].trace \in {proc[c].trace, "silent"}
              /\ proc'[c].parent = proc[c].parent \/ (proc[c].parent \in Pids /\ proc'[c].parent = Root)
              /\ proc'[c].parent \in Pids => proc'[proc'[c].parent].state = "alive"
    <3> TAKE c \in Pids
    <3>1. CASE c = p /\ proc[p].parent = Orphanage
      BY <2>4, <3>1
    <3>2. CASE c = p /\ proc[p].parent # Orphanage
      <4>1. proc'[c] = dying
        BY <2>4, <3>2
      <4>2. proc[p].parent # p /\ (proc[p].parent \in Pids => proc[proc[p].parent].state = "alive")
        BY <1>2, <2>7, OwnParent DEF KernelInv
      <4>3. proc[p].parent \in Pids => proc'[proc[p].parent].state = "alive"
        BY <2>9, <4>2
      <4> QED
        BY <2>2, <2>7, <3>2, <4>1, <4>3
    <3>3. CASE c # p /\ proc[c] = Free
      BY <2>9, <3>3
    <3>4. CASE c # p /\ proc[c] # Free
      <4>1. /\ proc[c].state \in {"alive", "zombie"}
            /\ proc[c].parent \in Pids => proc[proc[c].parent].state = "alive"
        BY <3>4 DEF KernelInv
      <4> QED
        BY <1>2, <2>9, <3>4, <4>1
    <3> QED
      BY <3>1, <3>2, <3>3, <3>4
  <2> QED
    <3>1. births' \in Births /\ Evolves /\ KernelInv' /\ Rooted'
      BY <2>6, <2>7, <2>8, DeathFacts
    <3> QED
      BY <1>1, <2>1, <2>6, <3>1 DEF Exit, scan, memory, sender
<1>9. CASE \E p \in Pids : Wait(p)
  <2>1. PICK p \in Pids : Wait(p)
    BY <1>9
  <2>2. /\ proc' = [proc EXCEPT ![p] = Free] /\ births' = births /\ proc[p].state = "zombie"
        /\ Free \in Process
    BY <2>1, TreeAssumption DEF Wait, Process, Free, States, Parents, Births, Kinds
  <2>3. proc' \in [Pids -> Process] /\ \A c \in Pids : proc'[c] = IF c = p THEN Free ELSE proc[c]
    BY <1>1, <2>2
  <2>4. \A c \in Pids : proc'[c] # Free =>
          /\ proc[c].state \in {"alive", "zombie"}
          /\ proc[c].parent \in Pids => proc'[proc[c].parent].state = "alive"
    BY <2>2, <2>3 DEF KernelInv
  <2> QED
    <3>1. births' \in Births /\ Evolves /\ KernelInv' /\ Rooted'
      BY <2>2, <2>3, <2>4, DeathFacts
    <3> QED
      BY <1>1, <2>1, <2>3, <3>1 DEF Wait, scan, memory, sender
<1> QED
  BY <1>4, <1>5, <1>6, <1>7, <1>8, <1>9 DEF Kernel

(***************************************************************************)
(* The history grows by one kind at a birth and keeps what it says of      *)
(* every earlier process.                                                  *)
(***************************************************************************)
LEMMA HistoryFacts ==
  ASSUME NEW K \in Histories, TypeOK, KernelInv, Lineage(K), Evolves, births' \in Births
  PROVE  \E L \in Histories :
           /\ \A b \in 1..births : L[b] = K[b]
           /\ \A p \in Pids : proc'[p] # Free => L[proc'[p].born] = proc'[p].kind
           /\ Helpers = {} => \A b \in 1..births' : L[b] # "helper"
<1>1. PICK k \in {"helper", "work", "other"} :
        /\ k = "helper" => Helpers # {}
        /\ \A p \in Pids : proc'[p] = Free \/ Stays(p) \/ Comes(p, k)
  BY DEF Evolves
<1>2. /\ births \in Nat \ {0} /\ births' \in {births, births + 1} /\ 1..births \subseteq Births
      /\ \A p \in Pids : Stays(p) => proc[p] # Free /\ proc[p].born \in 1..births
                                     /\ K[proc[p].born] = proc[p].kind
  BY TreeAssumption DEF KernelInv, Evolves, Stays, Exists, Free, Lineage, Births, TypeOK
<1>3. CASE births' = births
  BY <1>1, <1>2, <1>3 DEF Lineage, Stays, Comes
<1>4. CASE births' = births + 1
  <2>1. PICK L : L = [K EXCEPT ![births + 1] = k]
    OBVIOUS
  <2>2. L \in Histories /\ L[births + 1] = k /\ \A b \in 1..births : L[b] = K[b]
    BY <1>2, <1>4, <2>1 DEF Histories
  <2>3. \A p \in Pids : proc'[p] # Free => L[proc'[p].born] = proc'[p].kind
    BY <1>1, <1>2, <2>2 DEF Stays, Comes
  <2>4. Helpers = {} => \A b \in 1..births' : L[b] # "helper"
    <3>1. \A b \in 1..births' : b \in 1..births \/ b = births + 1
      BY <1>2, <1>4
    <3> QED
      BY <1>1, <2>2, <3>1 DEF Lineage
  <2> QED
    BY <2>2, <2>3, <2>4
<1> QED
  BY <1>2, <1>3, <1>4

-----------------------------------------------------------------------------
(* Attribution: what a scan concludes from its table *)

\* Branch is a set of listed processes that holds its seed.
LEMMA BranchFacts ==
  ASSUME NEW seed \in SUBSET Listed
  PROVE  seed \subseteq Branch(seed) /\ Branch(seed) \subseteq Listed
  BY DEF Branch

AllOf(K, k, S) == \A p \in S : K[table[p].born] = k
Kin(K) ==
  \A c \in Listed : table[c].parent \in Listed =>
    K[table[table[c].parent].born] = K[table[c].born]

\* A branch is of the kind of its seed where every listed child is of its parent's.
LEMMA BranchKinds ==
  ASSUME NEW K, NEW k, NEW seed \in SUBSET Listed, AllOf(K, k, seed), Kin(K)
  PROVE  AllOf(K, k, Branch(seed))
<1> DEFINE S == {p \in Listed : K[table[p].born] = k}
<1>1. S \in SUBSET Listed /\ seed \subseteq S
  BY DEF AllOf
<1>2. \A c \in Listed : table[c].parent \in S => c \in S
  BY DEF Kin
<1> HIDE DEF S
<1>3. Branch(seed) \subseteq S
  BY <1>1, <1>2 DEF Branch
<1> QED
  BY <1>3 DEF S, AllOf

(***************************************************************************)
(* At the end of a scan the processes it owns, and all it will remember,   *)
(* are the workload's; what it protects is the helpers'.                   *)
(***************************************************************************)
LEMMA Attribution ==
  ASSUME NEW K \in Histories, TypeOK, KernelInv, TableInv, Lineage(K), ScanKinds(K), Stable(K),
         Scoped, pc = "scan"
  PROVE  /\ Listed \subseteq Pids /\ Owners \subseteq Listed /\ Protected \subseteq Listed
         /\ \A p \in Listed : table[p].born \in 1..births
         /\ \A p \in Owners : Of(K, table[p].born, "work")
         /\ \A p \in Protected : Of(K, table[p].born, "helper")
         /\ \A p \in Pids : Recorded[p] # 0 => Of(K, Recorded[p], "work")
         /\ \A p \in Pids : Remember[p] # 0 => Of(K, Remember[p], "work")
<1>1. Listed \subseteq Pids /\ \A p \in Listed : table[p].born # 0
  BY DEF Listed
<1>2. \A p \in Listed : /\ table[p].born \in 1..births
                        /\ K[table[p].born] \in {"work", "helper"}
                        /\ Helpers = {} => K[table[p].born] = "work"
  BY <1>1 DEF TableInv, Unseen, ScanKinds, Lineage
<1>3. Kin(K)
  <2>1. CASE Helpers = {}
    BY <1>2, <2>1 DEF Kin
  <2>2. CASE ~ReuseWithinScan
    BY <1>1, <2>2 DEF Stable, Kin
  <2> QED
    BY <2>1, <2>2 DEF Scoped
<1>4. \A p \in Pids : Recorded[p] # 0 => Of(K, Recorded[p], "work")
  BY DEF Recorded, Lineage
<1>5. \A p \in Protected : K[table[p].born] = "helper"
  <2> DEFINE seed == {p \in Listed : table[p].born = excluded[p]}
  <2>1. seed \in SUBSET Listed /\ AllOf(K, "helper", seed)
    BY <1>1 DEF Lineage, Of, AllOf
  <2> HIDE DEF seed
  <2>2. AllOf(K, "helper", Branch(seed))
    BY <1>3, <2>1, BranchKinds
  <2> QED
    BY <2>2 DEF Protected, seed, AllOf
<1>6. /\ Owners \subseteq Listed /\ Protected \subseteq Listed
      /\ \A p \in Owners : K[table[p].born] = "work"
  <2> DEFINE seed == (Living \ Protected) \union Marked \union Adopted
  <2>1. seed \in SUBSET Listed
    BY DEF Living, Known, Marked, Asked, Adopted
  <2>2. ASSUME NEW p \in seed PROVE K[table[p].born] = "work"
    <3>1. p \in Listed /\ p \in Pids
      BY <1>1, <2>1
    <3>2. CASE p \in Living
      BY <1>1, <1>4, <3>1, <3>2 DEF Living, Known, Of
    <3>3. CASE p \in Marked
      <4>1. /\ proc[p].state # "free" /\ proc[p].born = table[p].born /\ proc[p].trace = "marked"
        BY <3>3 DEF Marked, StillAlive, Same, Exists
      <4>2. proc[p] # Free /\ proc[p].kind = "work"
        BY <3>1, <4>1 DEF KernelInv, Free
      <4> QED
        BY <3>1, <4>1, <4>2 DEF Lineage
    <3>4. CASE p \in Adopted
      BY <1>2, <3>1, <3>4 DEF Adopted, HasHelpers
    <3> QED
      BY <3>2, <3>3, <3>4
  <2> HIDE DEF seed
  <2>3. AllOf(K, "work", Branch(seed))
    <3>1. AllOf(K, "work", seed)
      BY <2>2 DEF AllOf
    <3> QED
      BY <1>3, <2>1, <3>1, BranchKinds
  <2>4. Branch(seed) \subseteq Listed
    BY <2>1, BranchFacts
  <2>5. Owners = Branch(seed) \ Protected
    BY DEF Owners, seed
  <2>6. Protected \subseteq Listed
    BY DEF Protected, Branch
  <2> QED
    BY <2>3, <2>4, <2>5, <2>6 DEF AllOf
<1>7. \A p \in Pids : Remember[p] # 0 => Of(K, Remember[p], "work")
  <2> TAKE p \in Pids
  <2>1. CASE p \in Owners
    BY <1>2, <1>6, <2>1 DEF Remember, Of
  <2>2. CASE p \notin Owners
    BY <1>4, <2>2 DEF Remember
  <2> QED
    BY <2>1, <2>2
<1> QED
  BY <1>1, <1>2, <1>4, <1>5, <1>6, <1>7 DEF Of

\* What a scan reaps was the workload's.
LEMMA ReapedFacts ==
  ASSUME NEW K \in Histories, TypeOK, KernelInv, TableInv, Lineage(K), ScanKinds(K), Stable(K),
         Scoped, pc = "scan"
  PROVE  \A p \in Reapable : p \in Pids /\ proc[p].state = "zombie" /\ proc[p].kind = "work"
<1> TAKE p \in Reapable
<1>1. /\ p \in Listed /\ Remember[p] = table[p].born /\ proc[p].born = table[p].born
      /\ proc[p].state = "zombie"
  BY DEF Reapable, Same
<1>2. p \in Pids /\ Of(K, Remember[p], "work")
  BY <1>1, Attribution DEF Of, Listed
<1>3. proc[p] # Free
  BY <1>1 DEF Free
<1> QED
  BY <1>1, <1>2, <1>3 DEF Lineage, Of

\* A finished scan changes only zombies, and remembers each for what it was.
LEMMA JudgeFacts ==
  ASSUME NEW K \in Histories, TypeOK, KernelInv, Rooted, TableInv, Lineage(K), ScanKinds(K),
         Stable(K), Scoped, Judge
  PROVE  /\ Listed \subseteq Pids /\ Owners \subseteq Listed
         /\ proc' \in [Pids -> Process] /\ births' \in Births /\ pipe' \in [Pids -> Births]
         /\ identities' \in [Pids -> Births] /\ excluded' \in [Pids -> Births]
         /\ Evolves /\ KernelInv' /\ Rooted' /\ Lineage(K)'
<1>1. /\ Listed \subseteq Pids /\ Owners \subseteq Listed /\ Protected \subseteq Listed
      /\ \A p \in Protected : Of(K, table[p].born, "helper")
      /\ \A p \in Pids : Remember[p] # 0 => Of(K, Remember[p], "work")
  BY Attribution DEF Judge
<1>2. \A p \in Reapable : proc[p].state = "zombie"
  BY DEF Reapable
<1>3. proc \in [Pids -> Process] /\ table \in [Pids -> Stat] /\ identities \in [Pids -> Births]
      /\ pipe \in [Pids -> Births] /\ births \in Births /\ excluded \in [Pids -> Births]
  BY DEF TypeOK
<1>4. Free \in Process /\ 0 \in Births /\ Free.state = "free"
  BY TreeAssumption DEF Process, Free, States, Parents, Births, Kinds
<1>5. /\ proc' = [p \in Pids |-> IF p \in Reapable THEN Free ELSE proc[p]]
      /\ births' = births /\ pipe' = [p \in Pids |-> 0] /\ identities' = Remember
      /\ excluded' = [p \in Pids |-> IF p \in Protected THEN table[p].born ELSE excluded[p]]
  BY DEF Judge
<1> HIDE DEF Reapable, Protected
<1>6. \A p \in Pids : table[p].born \in Births
  BY <1>3 DEF Stat
<1>7. Remember \in [Pids -> Births] /\ excluded' \in [Pids -> Births]
  BY <1>3, <1>5, <1>6 DEF Remember, Recorded
<1>8. proc' \in [Pids -> Process]
  BY <1>3, <1>4, <1>5
<1>9. \A p \in Pids :
           \/ proc'[p] = Free
           \/ /\ proc[p].state \in {"alive", "zombie"} /\ proc'[p].state \in {"alive", "zombie"}
              /\ proc'[p].state = "alive" => proc[p].state = "alive"
              /\ proc'[p].born = proc[p].born /\ proc'[p].kind = proc[p].kind
              /\ proc'[p].trace \in {proc[p].trace, "silent"}
              /\ proc'[p].parent = proc[p].parent \/ (proc[p].parent \in Pids /\ proc'[p].parent = Root)
              /\ proc'[p].parent \in Pids => proc'[proc'[p].parent].state = "alive"
  <2> TAKE p \in Pids
  <2>1. CASE p \in Reapable \/ proc[p] = Free
    BY <1>5, <2>1
  <2>2. CASE p \notin Reapable /\ proc[p] # Free
    <3>1. proc'[p] = proc[p]
      BY <1>5, <2>2
    <3>2. proc[p].state \in {"alive", "zombie"}
          /\ (proc[p].parent \in Pids => proc[proc[p].parent].state = "alive")
      BY <2>2 DEF KernelInv
    <3>3. proc[p].parent \in Pids => proc'[proc[p].parent] = proc[proc[p].parent]
      BY <1>2, <1>5, <3>2
    <3> QED
      BY <3>1, <3>2, <3>3
  <2> QED
    BY <2>1, <2>2
<1>10. births' \in Births /\ Evolves /\ KernelInv' /\ Rooted'
  BY <1>5, <1>8, <1>9, DeathFacts
<1>11. Lineage(K)'
  <2>1. \A p \in Pids :
          /\ proc'[p] # Free => proc'[p] = proc[p]
          /\ excluded'[p] # 0 => Of(K, excluded'[p], "helper")
    BY <1>1, <1>5 DEF Lineage
  <2> QED
    BY <1>1, <1>5, <2>1 DEF Lineage, Of
<1> QED
  BY <1>1, <1>4, <1>5, <1>7, <1>8, <1>10, <1>11

-----------------------------------------------------------------------------
(* Scans *)

(***************************************************************************)
(* What the scan knows survives whatever the kernel does meanwhile.        *)
(***************************************************************************)
LEMMA QuietStep ==
  ASSUME NEW K \in Histories, NEW L \in Histories, \A b \in 1..births : L[b] = K[b],
         TypeOK, KernelInv, TableInv, SeenInv, SecondInv(K), CleanInv,
         Evolves, UNCHANGED <<pc, use, pending, cursor, table, changed, seen>>
  PROVE  TableInv' /\ SeenInv' /\ SecondInv(L)' /\ CleanInv'
<1>0. PICK k : \A p \in Pids : proc'[p] = Free \/ Stays(p) \/ Comes(p, k)
  BY DEF Evolves
<1>1. /\ births \in Nat /\ births' \in {births, births + 1}
      /\ \A p \in Pids : proc[p] = Free \/ proc[p].born \in 1..births
      /\ Free.state = "free" /\ Free.born = 0 /\ Free.kind = "nothing"
  BY DEF KernelInv, Free, Evolves
<1>2. \A p \in Pids : table[p] = Unseen \/ L[table[p].born] = K[table[p].born]
  BY DEF TableInv
<1>3. TableInv'
  <2>1. \A p \in Pids : table[p] = Unseen \/
       /\ table[p].born \in 1..births' /\ table[p].state \in {"alive", "zombie"}
       /\ table[p].state = "zombie" =>
            ~(proc'[p].born = table[p].born /\ proc'[p].state = "alive")
    BY <1>0, <1>1 DEF TableInv, Stays, Comes
  <2> QED
    BY <2>1 DEF TableInv
<1>4. SeenInv'
  BY <1>0, <1>1 DEF SeenInv, Stays, Comes
<1>5. LiveWork = {} /\ pc # "body" => LiveWork' = {}
  BY <1>0, <1>1 DEF LiveWork, Stays, Comes
<1>6. CleanInv'
  BY <1>5 DEF CleanInv
<1>7. \A p \in Pids : Comes(p, k) => NewTo(p)'
  BY <1>1 DEF Comes, NewTo, SeenInv
<1>8. \A p \in Pids : Stays(p) /\ NewTo(p) => NewTo(p)'
  BY DEF Stays, NewTo
<1>9. \A p \in Pids : ToVisit(p) => ToVisit(p)'
  <2> TAKE p \in Pids
  <2> HAVE ToVisit(p)
  <2>1. CASE proc'[p] = Free
    BY <1>1, <2>1 DEF ToVisit, Exists
  <2>2. CASE Comes(p, k)
    BY <1>7, <2>2 DEF ToVisit
  <2>3. CASE Stays(p)
    <3>1. Exists(p) /\ proc'[p].born = proc[p].born /\ proc'[p].kind = proc[p].kind
          /\ (proc[p].parent = Root => proc'[p].parent = Root)
      BY <2>3 DEF Stays
    <3> QED
      BY <1>8, <2>3, <3>1 DEF ToVisit
  <2> QED
    BY <1>0, <2>1, <2>2, <2>3
<1>10. \A p \in Pids : Visited(p, K) => Visited(p, L)'
  <2> TAKE p \in Pids
  <2> HAVE Visited(p, K)
  <2>0. L[table[p].born] = K[table[p].born]
    BY <1>2 DEF Visited, Unseen
  <2>1. CASE proc'[p] = Free
    BY <1>1, <2>0, <2>1 DEF Visited, Exists
  <2>2. CASE Comes(p, k)
    BY <1>7, <2>0, <2>2 DEF Visited
  <2>3. CASE Stays(p)
    BY <1>8, <2>0, <2>3 DEF Visited, Stays
  <2> QED
    BY <1>0, <2>1, <2>2, <2>3
<1>11. SecondInv(L)'
  BY <1>5, <1>9, <1>10 DEF SecondInv, Witness
<1> QED
  BY <1>3, <1>4, <1>6, <1>11

\* What the scope holds for the workload stays so while the kernel moves.
LEMMA KindStep ==
  ASSUME NEW K \in Histories, IInv(K), Kernel
  PROVE  \E L \in Histories : IInv(L)'
<1>1. /\ proc' \in [Pids -> Process] /\ births' \in Births
      /\ Evolves /\ KernelInv' /\ Rooted'
      /\ pipe' \in [Pids -> Births] /\ busy \subseteq busy' /\ busy' \subseteq Pids
      /\ UNCHANGED <<pc, use, pending, cursor, table, changed, seen, memory, sender>>
      /\ \A p \in Pids : pipe'[p] # 0 =>
           \/ pipe'[p] = pipe[p]
           \/ /\ proc[p].state = "alive" /\ proc[p].kind = "work"
              /\ pipe'[p] = proc[p].born
  BY KernelFacts DEF IInv
<1>2. PICK L \in Histories :
        /\ \A b \in 1..births : L[b] = K[b]
        /\ \A p \in Pids : proc'[p] # Free => L[proc'[p].born] = proc'[p].kind
        /\ Helpers = {} => \A b \in 1..births' : L[b] # "helper"
  BY <1>1, HistoryFacts DEF IInv
<1>3. TableInv' /\ SeenInv' /\ SecondInv(L)' /\ CleanInv'
  BY <1>1, <1>2, QuietStep DEF IInv
<1>4. TypeOK'
  BY <1>1 DEF IInv, TypeOK, memory, sender
<1>5. births \in Nat /\ births' \in {births, births + 1}
  BY <1>1 DEF IInv, KernelInv, Evolves
<1>6. \A b, k : Of(K, b, k) => Of(L, b, k)'
  BY <1>2, <1>5 DEF Of
<1>7. Lineage(L)'
  <2>1. \A p \in Pids : pipe'[p] # 0 => Of(K, pipe'[p], "work")
    BY <1>1 DEF IInv, Lineage, KernelInv, Free, Of
  <2>2. identities' = identities /\ excluded' = excluded
    BY <1>1 DEF memory
  <2> QED
    BY <1>2, <1>6, <2>1, <2>2 DEF IInv, Lineage
<1>8. ScanKinds(L)' /\ SenderKinds(L)'
  <2>1. \A p \in Pids : table[p].born # 0 => L[table[p].born] = K[table[p].born]
    BY <1>2 DEF IInv, TableInv, Unseen
  <2> QED
    BY <1>1, <1>6, <2>1 DEF IInv, ScanKinds, SenderKinds, sender
<1>9. Stable(L)'
  <2> SUFFICES ASSUME ~ReuseWithinScan, pc = "scan" PROVE Stable(L)'
    BY <1>1 DEF Stable
  <2>1. PICK k : \A p \in Pids : proc'[p] = Free \/ Stays(p) \/ Comes(p, k)
    BY <1>1 DEF Evolves
  <2>2. /\ \A p \in Pids : Exists(p) => p \in busy
        /\ \A p \in Listed :
             /\ p \in busy /\ (Exists(p) => proc[p].born = table[p].born)
             /\ table[p].parent \in Pids =>
                  /\ table[p].parent \in busy
                  /\ Exists(table[p].parent) => K[proc[table[p].parent].born] = K[table[p].born]
                  /\ table[p].parent \in Listed => K[table[table[p].parent].born] = K[table[p].born]
    BY DEF IInv, Stable
  <2>3. \A p \in Pids : proc'[p].state # "free" =>
          Comes(p, k) \/ (Exists(p) /\ proc'[p].born = proc[p].born /\ proc[p].born \in 1..births)
    BY <2>1 DEF Free, Stays, Exists, IInv, KernelInv
  <2>4. \A p \in Pids : Comes(p, k) => p \notin busy /\ p \in busy'
    BY DEF Comes
  <2>5. \A p \in Pids : proc'[p].state # "free" => p \in busy'
    BY <1>1, <2>2, <2>3, <2>4
  <2>6. \A p \in busy : proc'[p].state # "free" =>
          Exists(p) /\ proc'[p].born = proc[p].born /\ L[proc[p].born] = K[proc[p].born]
    BY <1>2, <2>3, <2>4 DEF IInv, TypeOK
  <2>7. \A p \in Listed : p \in Pids /\ L[table[p].born] = K[table[p].born]
    BY <1>2 DEF IInv, TableInv, Unseen, Listed
  <2>8. Listed' = Listed /\ table' = table
    BY <1>1 DEF Listed
  <2>9. \A p \in Listed :
          /\ p \in busy' /\ (proc'[p].state # "free" => proc'[p].born = table[p].born)
          /\ table[p].parent \in Pids =>
               /\ table[p].parent \in busy'
               /\ proc'[table[p].parent].state # "free" =>
                    L[proc'[table[p].parent].born] = L[table[p].born]
               /\ table[p].parent \in Listed => L[table[table[p].parent].born] = L[table[p].born]
    BY <1>1, <2>2, <2>6, <2>7
  <2> QED
    BY <2>5, <2>8, <2>9 DEF Stable, Exists
<1> QED
  BY <1>1, <1>3, <1>4, <1>7, <1>8, <1>9 DEF IInv

\* A scan that begins knows nothing yet.
LEMMA BeginFacts ==
  ASSUME NEW K \in Histories, IInv(K), pc # "scan", NEW purpose \in {"signal", "first", "second"}, BeginScan(purpose),
         UNCHANGED <<kernel, seen, memory, sender>>
  PROVE  IInv(K)'
<1>1. TypeOK'
  <2>1. \A p \in Pids : identities[p] \in Births
    BY DEF IInv, TypeOK
  <2>2. pending' \subseteq [pid : Pids, born : Births, up : Identity \union {None, RootId}]
    BY <2>1 DEF BeginScan
  <2> QED
    BY <2>2 DEF IInv, TypeOK, BeginScan, kernel, memory, sender
<1>2. TableInv'
  BY DEF IInv, TableInv, BeginScan, kernel
<1>3. KernelInv' /\ Rooted' /\ SeenInv' /\ Lineage(K)' /\ SenderKinds(K)'
  BY DEF IInv, KernelInv, Rooted, SeenInv, Lineage, SenderKinds, Of, kernel, memory, sender
<1>4. SecondInv(K)' /\ CleanInv'
  BY DEF SecondInv, CleanInv, BeginScan
<1>5. \A p \in Pids : table[p].born = 0
  BY DEF IInv, TableInv, NoTable, Unseen
<1>6. ScanKinds(K)'
  <2>1. \A e \in pending' : Of(K, e.born, "work")
    BY DEF IInv, Lineage, BeginScan
  <2> QED
    BY <1>5, <2>1 DEF ScanKinds, BeginScan, Of, kernel
<1>7. Stable(K)'
  BY <1>5 DEF Stable, BeginScan, Listed, Exists, kernel
<1> QED
  BY <1>1, <1>2, <1>3, <1>4, <1>6, <1>7 DEF IInv

\* Visiting an entry: the witness is found changed, gone, or still there.
LEMMA VisitFacts ==
  ASSUME NEW K \in Histories, IInv(K), NEW e \in pending, Visit(e)
  PROVE  IInv(K)'
<1>1. /\ e.pid \in Pids /\ e.born \in Births /\ e.up \in Identity \union {None, RootId}
      /\ proc \in [Pids -> Process] /\ table \in [Pids -> Stat]
      /\ Root \notin Pids /\ None # RootId
  BY TreeAssumption DEF IInv, TypeOK, None, RootId
<1>2. /\ pc = "scan" /\ cursor = None /\ pc' = pc /\ use' = use /\ seen' = seen
      /\ proc' = proc /\ births' = births /\ pending' = pending \ {e}
      /\ identities' = identities /\ excluded' = excluded
      /\ pipe' = pipe /\ busy' = busy /\ UNCHANGED sender
  BY DEF Visit, kernel, memory
<1>3. \/ Candidate(e) /\ changed' = changed /\ UNCHANGED <<table, cursor>>
         /\ table[e.pid].born = proc[e.pid].born
      \/ /\ Candidate(e) /\ changed' = changed /\ cursor' = Id(e.pid)
         /\ table[e.pid].born # proc[e.pid].born
         /\ table' = [table EXCEPT ![e.pid] = ReadStat(e.pid)]
      \/ ~Candidate(e) /\ changed' = (IF e.up # None THEN "yes" ELSE changed)
         /\ UNCHANGED <<table, cursor>>
  BY DEF Visit
<1>4. Candidate(e) =>
        /\ Exists(e.pid) /\ proc[e.pid].state \in {"alive", "zombie"}
        /\ proc[e.pid].born \in 1..births
        /\ ReadStat(e.pid) \in Stat /\ Id(e.pid) \in Identity /\ Id(e.pid).pid = e.pid
        /\ ReadStat(e.pid).state = proc[e.pid].state
        /\ ReadStat(e.pid).born = proc[e.pid].born
        /\ ReadStat(e.pid).parent = proc[e.pid].parent
  BY <1>1 DEF IInv, KernelInv, Candidate, Exists, Free, ReadStat, Id, Stat, Process, Identity
<1>5. KernelInv' /\ Rooted' /\ SeenInv' /\ CleanInv' /\ Lineage(K)' /\ SenderKinds(K)'
  BY <1>2 DEF IInv, KernelInv, Rooted, SeenInv, CleanInv, Lineage, SenderKinds, Of, sender
<1>6. TypeOK'
  <2>1. table' \in [Pids -> Stat] /\ cursor' \in Identity \union {None, RootId}
        /\ changed' \in {"yes", "no"}
    BY <1>1, <1>2, <1>3, <1>4 DEF IInv, TypeOK
  <2> QED
    BY <1>2, <2>1 DEF IInv, TypeOK, sender
<1>7. TableInv'
  <2>1. cursor' # RootId
    BY <1>1, <1>2, <1>3, <1>4 DEF RootId
  <2>2. \A p \in Pids : table'[p] = Unseen \/
       /\ table'[p].born \in 1..births /\ table'[p].state \in {"alive", "zombie"}
       /\ table'[p].state = "zombie" =>
            ~(proc[p].born = table'[p].born /\ proc[p].state = "alive")
    <3> TAKE p \in Pids
    <3>1. CASE table'[p] = table[p]
      BY <3>1 DEF IInv, TableInv
    <3>2. CASE table'[p] # table[p]
      <4>1. p = e.pid /\ Candidate(e) /\ table'[p] = ReadStat(p)
        BY <1>1, <1>3, <3>2
      <4> QED
        BY <1>4, <4>1
    <3> QED
      BY <3>1, <3>2
  <2> QED
    BY <1>2, <2>1, <2>2 DEF TableInv
<1>8. SecondInv(K)'
  <2> SUFFICES ASSUME use = "second" PROVE Witness(K)'
    BY <1>2 DEF SecondInv
  <2>1. Witness(K)
    BY <1>1, <1>2 DEF IInv, SecondInv
  <2>2. CASE changed = "yes" \/ LiveWork = {}
    BY <1>2, <1>3, <2>2 DEF Witness, LiveWork
  <2>3. ASSUME NEW p \in Pids, Visited(p, K)
        PROVE  Visited(p, K)'
    <3>1. CASE table'[p] = table[p]
      BY <1>2, <2>3, <3>1 DEF Visited, NewTo, Exists
    <3>2. CASE table'[p] # table[p]
      <4>1. p = e.pid /\ Candidate(e) /\ table'[p] = ReadStat(p) /\ table[p].born # proc[p].born
        BY <1>1, <1>3, <3>2
      <4>2. NewTo(p)
        BY <1>4, <2>3, <4>1 DEF Visited
      <4> QED
        BY <1>2, <1>4, <4>1, <4>2 DEF Visited, NewTo, Exists
    <3> QED
      BY <3>1, <3>2
  <2>4. ASSUME NEW p \in Pids, ToVisit(p)
        PROVE  Witness(K)'
    <3>1. CASE e # Entry(p)
      <4>1. Entry(p) \in pending'
        BY <1>2, <2>4, <3>1 DEF ToVisit
      <4>2. CASE table'[p] = table[p]
        <5>1. ToVisit(p)'
          BY <1>2, <2>4, <4>1, <4>2 DEF ToVisit, Entry, NewTo, Dead, Exists
        <5> QED
          BY <5>1 DEF Witness
      <4>3. CASE table'[p] # table[p]
        <5>1. p = e.pid /\ Candidate(e) /\ table'[p] = ReadStat(p)
          BY <1>1, <1>3, <4>3
        <5>2. ToVisit(p)'
          BY <1>2, <1>4, <2>4, <4>1, <5>1 DEF ToVisit, Entry, NewTo, Dead, Exists
        <5> QED
          BY <5>2 DEF Witness
      <4> QED
        BY <4>2, <4>3
    <3>2. CASE e = Entry(p) /\ ~Candidate(e)
      BY <1>1, <1>3, <3>2 DEF Entry, Witness
    <3>3. CASE e = Entry(p) /\ Candidate(e)
      <4>1. e.pid = p /\ proc[p].born # 0 /\ table'[p].born = proc[p].born
        BY <1>1, <1>3, <1>4, <3>3 DEF Entry
      <4>2. NewTo(p) \/
              /\ proc[p].parent = Root /\ Dead(p, proc[p].born) \notin seen
              /\ table'[p].parent = Root /\ K[table'[p].born] = "work"
        <5>1. proc[p] # Free /\ K[proc[p].born] = proc[p].kind
          BY <1>4, <3>3, <4>1 DEF IInv, Lineage, Exists, Free
        <5> QED
          BY <1>1, <1>3, <1>4, <2>4, <3>3, <4>1, <5>1 DEF ToVisit
      <4>3. table'[p].state \in {"alive", "zombie"}
        BY <1>7, <4>1 DEF TableInv, Unseen
      <4>4. Visited(p, K)'
        BY <1>2, <4>1, <4>2, <4>3 DEF Visited, NewTo, Dead
      <4> QED
        BY <4>4 DEF Witness
    <3> QED
      BY <3>1, <3>2, <3>3
  <2> QED
    BY <2>1, <2>2, <2>3, <2>4 DEF Witness
<1>9. Candidate(e) => K[proc[e.pid].born] \in {"work", "helper"}
  <2> HAVE Candidate(e)
  <2>1. proc[e.pid] # Free /\ K[proc[e.pid].born] = proc[e.pid].kind
    BY <1>1, <1>4 DEF IInv, Lineage, Exists, Free
  <2>2. CASE e.up = None
    BY <2>1, <2>2 DEF IInv, ScanKinds, Of, Candidate
  <2>3. CASE e.up # None
    <3>1. proc[e.pid].parent = e.up.pid /\ e.up.pid # Orphanage
      BY <1>1, <2>3, TreeAssumption DEF Candidate, Identity, RootId
    <3> QED
      BY <1>1, <2>1, <3>1 DEF IInv, KernelInv
  <2> QED
    BY <2>2, <2>3
<1>10. ScanKinds(K)'
  <2>1. \A p \in Pids : table'[p] = table[p] \/
          (p = e.pid /\ Candidate(e) /\ table'[p].born = proc[e.pid].born)
    BY <1>1, <1>3, <1>4
  <2>2. \A p \in Pids : table'[p].born # 0 => K[table'[p].born] \in {"work", "helper"}
    BY <1>9, <2>1 DEF IInv, ScanKinds
  <2> QED
    BY <1>2, <2>2 DEF IInv, ScanKinds, Of
<1>11. Stable(K)'
  <2> SUFFICES ASSUME ~ReuseWithinScan PROVE Stable(K)'
    BY DEF Stable
  <2>1. /\ \A p \in Pids : Exists(p) => p \in busy
        /\ \A p \in Listed :
             /\ p \in busy /\ (Exists(p) => proc[p].born = table[p].born)
             /\ table[p].parent \in Pids =>
                  /\ table[p].parent \in busy
                  /\ Exists(table[p].parent) => K[proc[table[p].parent].born] = K[table[p].born]
                  /\ table[p].parent \in Listed => K[table[table[p].parent].born] = K[table[p].born]
    BY <1>2 DEF IInv, Stable
  <2>2. CASE table' = table
    BY <1>2, <2>1, <2>2 DEF Stable, Listed, Exists
  <2>3. CASE table' # table
    <3> DEFINE v == e.pid
    <3>1. /\ v \in Pids /\ Exists(v) /\ Candidate(e)
          /\ table'[v].born = proc[v].born /\ table'[v].parent = proc[v].parent
          /\ proc[v].born # 0 /\ proc[v].born \in 1..births
          /\ \A p \in Pids \ {v} : table'[p] = table[p]
      BY <1>1, <1>3, <1>4, <2>3
    <3>2. proc[v].parent \in Pids =>
            /\ proc[v].parent # v /\ Exists(proc[v].parent)
            /\ K[proc[proc[v].parent].born] = K[proc[v].born]
      <4> HAVE proc[v].parent \in Pids
      <4>1. proc[v] # Free /\ (proc[v].state = "alive" => proc[v].parent # v)
        BY <3>1, OwnParent DEF Exists, Free, IInv
      <4>2. /\ proc[proc[v].parent].state = "alive" /\ proc[proc[v].parent] # Free
            /\ proc[proc[v].parent].kind = proc[v].kind
        BY <3>1, <4>1 DEF IInv, KernelInv, Free
      <4> QED
        BY <3>1, <4>1, <4>2 DEF IInv, Lineage, Exists
    <3> HIDE DEF v
    <3>3. /\ \A p \in Listed' : p = v \/ (p \in Listed /\ p # v /\ p \in Pids)
          /\ Listed' \subseteq Pids
      BY <3>1 DEF Listed
    <3>4. \A p \in Listed' :
             /\ p \in busy /\ (Exists(p) => proc[p].born = table'[p].born)
             /\ table'[p].parent \in Pids =>
                  /\ table'[p].parent \in busy
                  /\ Exists(table'[p].parent) => K[proc[table'[p].parent].born] = K[table'[p].born]
      BY <2>1, <3>1, <3>2, <3>3
    <3>5. ASSUME NEW p \in Listed', table'[p].parent \in Listed'
          PROVE  K[table'[table'[p].parent].born] = K[table'[p].born]
      <4>1. CASE p = v
        BY <2>1, <3>1, <3>2, <3>3, <3>5, <4>1
      <4>2. CASE p # v /\ table'[p].parent = v
        BY <2>1, <3>1, <3>3, <4>2
      <4>3. CASE p # v /\ table'[p].parent # v
        BY <2>1, <3>1, <3>3, <3>5, <4>3
      <4> QED
        BY <4>1, <4>2, <4>3
    <3> QED
      BY <1>2, <2>1, <3>4, <3>5 DEF Stable, Exists
  <2> QED
    BY <2>2, <2>3
<1> QED
  BY <1>5, <1>6, <1>7, <1>8, <1>10, <1>11 DEF IInv

(***************************************************************************)
(* Reading the caller's children while the workload lives: its oldest      *)
(* living process is among them, and the first scan did not see it dead.   *)
(***************************************************************************)
LEMMA ReadFacts ==
  ASSUME NEW K \in Histories, IInv(K), ReadChildren
  PROVE  IInv(K)'
<1>1. /\ proc \in [Pids -> Process] /\ Root \notin Pids /\ Root # Orphanage /\ Orphanage \notin Pids
      /\ None # RootId /\ RootId.pid = Root /\ RootId.born = 1 /\ Free.state = "free"
  BY TreeAssumption DEF IInv, TypeOK, None, RootId, Free
<1>2. /\ pc = "scan" /\ cursor # None /\ cursor' = None /\ pc' = pc /\ use' = use /\ seen' = seen
      /\ proc' = proc /\ births' = births /\ table' = table
      /\ identities' = identities /\ excluded' = excluded
      /\ pipe' = pipe /\ busy' = busy /\ UNCHANGED sender
  BY DEF ReadChildren, kernel, memory
<1>3. \/ /\ Current(cursor) /\ changed' = changed
         /\ pending' = pending \union
              {[pid |-> c, born |-> 0, up |-> cursor] : c \in ChildrenOf(cursor.pid)}
      \/ ~Current(cursor) /\ changed' = "yes" /\ pending' = pending
  BY DEF ReadChildren
<1>4. KernelInv' /\ Rooted' /\ SeenInv' /\ CleanInv' /\ Lineage(K)' /\ SenderKinds(K)'
  BY <1>2 DEF IInv, KernelInv, Rooted, SeenInv, CleanInv, Lineage, SenderKinds, Of, sender
<1>5. TypeOK'
  <2>1. 0 \in Births /\ ChildrenOf(cursor.pid) \subseteq Pids
    BY TreeAssumption DEF Births, ChildrenOf
  <2>2. pending' \subseteq [pid : Pids, born : Births, up : Identity \union {None, RootId}]
    BY <1>3, <2>1 DEF IInv, TypeOK
  <2> QED
    BY <1>2, <1>3, <2>2 DEF IInv, TypeOK, sender
<1>6. TableInv'
  BY <1>1, <1>2 DEF IInv, TableInv
<1>7. SecondInv(K)'
  <2> SUFFICES ASSUME use = "second" PROVE Witness(K)'
    BY <1>2 DEF SecondInv
  <2>1. CASE cursor # RootId
    <3>1. Witness(K)
      BY <1>2, <2>1 DEF IInv, SecondInv
    <3>2. \A p \in Pids : (ToVisit(p) => ToVisit(p)') /\ (Visited(p, K) => Visited(p, K)')
      BY <1>2, <1>3 DEF ToVisit, Visited, NewTo, Exists
    <3> QED
      BY <1>2, <1>3, <3>1, <3>2 DEF Witness, LiveWork
  <2>2. CASE cursor = RootId /\ LiveWork = {}
    BY <1>2, <2>2 DEF Witness, LiveWork
  <2>3. CASE cursor = RootId /\ LiveWork # {}
    <3>1. LiveWork \in SUBSET Pids /\ \A p \in LiveWork : proc[p].state = "alive" /\ proc[p].kind = "work"
      BY DEF LiveWork
    <3>2. PICK p \in LiveWork : proc[p].parent \notin LiveWork
      BY <2>3, <3>1 DEF IInv, Rooted
    <3>3. proc[p] # Free /\ proc[p].state = "alive" /\ proc[p].kind = "work" /\ p \in Pids
      BY <1>1, <3>1
    <3>4. proc[p].parent = Root
      BY <1>1, <3>2, <3>3 DEF IInv, KernelInv, LiveWork
    <3>5. p \in ChildrenOf(Root)
      BY <3>3, <3>4 DEF ChildrenOf, Exists
    <3>6. Entry(p) \in pending'
      BY <1>1, <1>3, <2>3, <3>5 DEF Current, Entry
    <3>7. Dead(p, proc[p].born) \notin seen
      BY <3>3 DEF IInv, SeenInv, Dead
    <3>8. table[p].born # proc[p].born
      BY <2>3, <3>3 DEF IInv, TableInv, NoTable, Unseen, KernelInv
    <3>9. ToVisit(p)'
      BY <1>2, <3>3, <3>4, <3>6, <3>7, <3>8 DEF ToVisit, Entry, Dead
    <3> QED
      BY <3>3, <3>9 DEF Witness
  <2> QED
    BY <2>1, <2>2, <2>3
<1>8. ScanKinds(K)' /\ Stable(K)'
  <2>1. \A e \in pending' : e \in pending \/ e.up = cursor
    BY <1>3
  <2>2. \A e \in pending' : e.up = None => Of(K, e.born, "work")
    BY <1>2, <2>1 DEF IInv, ScanKinds
  <2> QED
    BY <1>2, <2>2 DEF IInv, ScanKinds, Stable, Listed, Exists, Of
<1> QED
  BY <1>4, <1>5, <1>6, <1>7, <1>8 DEF IInv

\* What the end of any scan leaves, whatever is concluded from it.
LEMMA EndFacts ==
  ASSUME NEW K \in Histories, IInv(K), Scoped, Judge, UNCHANGED <<use, aim, pidfd, hit>>, pending' = {}, cursor' = None, table' = NoTable,
         changed' = "no", busy' = {}, pc' # "scan",
         pc' \in {"again", "signal", "retry", "clean"},
         seen' \in {{}, seen, Snapshot},
         targets' \subseteq Identity, \A t \in targets' : Of(K, t.born, "work"),
         pc' = "clean" => LiveWork = {}
  PROVE  IInv(K)'
<1>1. /\ proc' \in [Pids -> Process] /\ births' \in Births /\ pipe' \in [Pids -> Births]
      /\ identities' \in [Pids -> Births] /\ excluded' \in [Pids -> Births]
      /\ Evolves /\ KernelInv' /\ Rooted' /\ Lineage(K)' /\ Listed \subseteq Pids
  BY JudgeFacts DEF IInv
<1>2. /\ Unseen \in Stat /\ 0 \in Births /\ births \in Nat /\ births' = births
      /\ pc = "scan" /\ Free.state = "free"
  BY TreeAssumption DEF Stat, Unseen, States, Births, Parents, IInv, KernelInv, Judge, Free
<1>3. \A s \in Snapshot :
        /\ s.pid \in Pids /\ s.born \in 1..births /\ s.born \in Births /\ s.dead \in States
        /\ s \in [pid : Pids, born : Births, dead : States]
        /\ s.dead = "zombie" => ~(proc[s.pid].born = s.born /\ proc[s.pid].state = "alive")
  <2> SUFFICES ASSUME NEW p \in Listed
               PROVE  /\ table[p].born \in 1..births /\ table[p].born \in Births
                      /\ table[p].state \in States
                      /\ table[p].state = "zombie" =>
                           ~(proc[p].born = table[p].born /\ proc[p].state = "alive")
    BY <1>1 DEF Snapshot
  <2>1. table[p] # Unseen /\ table[p] \in Stat
    BY DEF Listed, Unseen, IInv, TypeOK
  <2> QED
    BY <1>1, <2>1 DEF IInv, TableInv, Stat
<1>4. TypeOK'
  <2>1. NoTable \in [Pids -> Stat]
    BY <1>2 DEF NoTable
  <2>2. seen' \subseteq [pid : Pids, born : Births, dead : States]
    BY <1>3 DEF IInv, TypeOK
  <2> QED
    BY <1>1, <2>1, <2>2 DEF IInv, TypeOK
<1>5. TableInv'
  BY TreeAssumption DEF TableInv, NoTable, None, RootId
<1>6. SeenInv'
  <2>1. \A s \in seen' :
          /\ s.pid \in Pids /\ s.born \in 1..births
          /\ s.dead = "zombie" => ~(proc[s.pid].born = s.born /\ proc[s.pid].state = "alive")
    BY <1>3 DEF IInv, SeenInv
  <2>2. \A p \in Pids : proc'[p] = Free \/ proc'[p] = proc[p]
    BY DEF Judge
  <2> QED
    BY <1>2, <2>1, <2>2 DEF SeenInv
<1>7. SecondInv(K)' /\ CleanInv'
  <2>1. LiveWork' \subseteq LiveWork
    BY <1>2 DEF LiveWork, Judge
  <2> QED
    BY <2>1 DEF SecondInv, CleanInv
<1>8. ScanKinds(K)' /\ SenderKinds(K)' /\ Stable(K)'
  <2>1. \A p \in Pids : table'[p].born = 0
    BY DEF NoTable, Unseen
  <2> QED
    BY <1>2, <2>1 DEF ScanKinds, SenderKinds, Stable, Of, IInv
<1> QED
  BY <1>1, <1>4, <1>5, <1>6, <1>7, <1>8 DEF IInv

(***************************************************************************)
(* The second scan concludes "clean" only when no witness is left: every   *)
(* entry was visited, none is alive, and all were dead for the first scan. *)
(***************************************************************************)
LEMMA CleanFacts ==
  ASSUME NEW K \in Histories, IInv(K), Scoped, use = "second", Judge, AliveOwners = {}, ~Churn, Snapshot = seen
  PROVE  LiveWork = {}
<1>1. pc = "scan" /\ cursor = None /\ pending = {} /\ None # RootId /\ changed # "yes"
  BY TreeAssumption DEF Judge, None, RootId, Churn
<1>2. Witness(K)
  BY <1>1 DEF IInv, SecondInv
<1>3. \A p \in Protected : K[table[p].born] = "helper"
  BY <1>1, Attribution DEF IInv, Of
<1>4. ASSUME NEW p \in Pids, Visited(p, K)
      PROVE  FALSE
  <2>1. p \in Listed
    BY <1>4 DEF Visited, Listed
  <2>2. [pid |-> p, born |-> table[p].born, dead |-> table[p].state] \in seen
    BY <2>1 DEF Snapshot
  <2>3. /\ table[p].state = "alive" /\ table[p].parent = Root /\ K[table[p].born] = "work"
    BY <1>4, <2>2 DEF Visited
  <2>4. p \notin Protected
    BY <1>3, <2>3
  <2>5. p \in Owners
    BY <2>1, <2>3, <2>4 DEF Churn, Ambiguous
  <2> QED
    BY <2>3, <2>5 DEF AliveOwners
<1>5. \A p \in Pids : ~ToVisit(p)
  BY <1>1 DEF ToVisit
<1> QED
  BY <1>1, <1>2, <1>4, <1>5 DEF Witness

\* The strengthening holds before the workload is launched.
LEMMA InitFacts == Init => Inv
<1> SUFFICES ASSUME Init PROVE Inv
  OBVIOUS
<1> DEFINE child == [state |-> "alive", born |-> 1, parent |-> Root, kind |-> "helper",
                     trace |-> "silent"]
<1>1. /\ proc = [p \in Pids |-> IF p \in Helpers THEN child ELSE Free]
      /\ births = 1 /\ seen = {} /\ pc = "body" /\ pending = {} /\ targets = {}
      /\ pidfd = None /\ hit = {} /\ table = NoTable
      /\ pipe = [p \in Pids |-> 0] /\ identities = [p \in Pids |-> 0]
      /\ excluded = [p \in Pids |-> IF p \in Helpers THEN 1 ELSE 0]
  BY DEF Init
<1>2. /\ Free \in Process /\ child \in Process /\ Unseen \in Stat /\ 0 \in Births /\ 1 \in Births
      /\ Free.state = "free" /\ child.state = "alive" /\ child.born = 1 /\ child.parent = Root
      /\ child.kind = "helper" /\ child.trace = "silent"
      /\ Root \notin Pids /\ Root # Orphanage
  BY TreeAssumption DEF Process, Stat, Free, Unseen, States, Parents, Births, Kinds
<1> HIDE DEF child
<1>3. TypeOK
  BY <1>1, <1>2 DEF Init, TypeOK, NoTable
<1>4. KernelInv
  BY <1>1, <1>2 DEF KernelInv
<1>5. Rooted
  BY <1>1, <1>2 DEF Rooted
<1>6. TableInv /\ SeenInv /\ CleanInv
  BY <1>1 DEF TableInv, NoTable, SeenInv, CleanInv
<1>7. PICK K \in Histories : \A b \in Births : K[b] = IF Helpers = {} THEN "work" ELSE "helper"
  <2>1. [b \in Births |-> IF Helpers = {} THEN "work" ELSE "helper"] \in Histories
    BY DEF Histories
  <2> QED
    BY <2>1
<1>8. Lineage(K)
  BY <1>1, <1>2, <1>7 DEF Lineage, Of
<1>9. SecondInv(K) /\ ScanKinds(K) /\ SenderKinds(K) /\ Stable(K)
  BY <1>1 DEF SecondInv, ScanKinds, SenderKinds, Stable, NoTable, Unseen
<1> QED
  BY <1>3, <1>4, <1>5, <1>6, <1>8, <1>9 DEF Inv, IInv

(***************************************************************************)
(* signal() pins the process it listed: a descriptor of another process    *)
(* with that pid is not used, and the listed one was the workload's.       *)
(***************************************************************************)
LEMMA SendFacts ==
  ASSUME NEW K \in Histories, IInv(K),
         Send \/ \E t \in targets : OpenPidfd(t)
  PROVE  IInv(K)'
<1>1. TypeOK' /\ SenderKinds(K)'
  <2>1. CASE Send
    <3>1. pidfd # None => aim \in Identity /\ aim.pid \in Pids /\ Of(K, aim.born, "work")
                          /\ aim.pid = pidfd.pid
      BY DEF IInv, TypeOK, SenderKinds, Identity
    <3>2. pidfd # None /\ Current(aim) => proc[pidfd.pid].kind = "work"
      <4> HAVE pidfd # None /\ Current(aim)
      <4>1. Exists(aim.pid) /\ proc[aim.pid].born = aim.born
        BY <3>1, TreeAssumption DEF Current
      <4>2. proc[aim.pid] # Free
        BY <4>1 DEF Exists, Free
      <4> QED
        BY <3>1, <4>1, <4>2 DEF IInv, Lineage, Of
    <3>3. hit' \subseteq {"work"} /\ hit' \subseteq Kinds
      BY <2>1, <3>2 DEF Send, IInv, SenderKinds, Kinds
    <3> QED
      BY <2>1, <3>3 DEF Send, IInv, TypeOK, SenderKinds, Of, kernel, scan, memory
  <2>2. ASSUME NEW t \in targets, OpenPidfd(t) PROVE TypeOK' /\ SenderKinds(K)'
    <3>1. t \in Identity /\ t.pid \in Pids /\ t # None /\ Of(K, t.born, "work")
      BY TreeAssumption DEF IInv, TypeOK, SenderKinds, Identity, None
    <3>2. Exists(t.pid) => Id(t.pid) \in Identity /\ Id(t.pid).pid = t.pid
      BY <3>1 DEF IInv, TypeOK, KernelInv, Exists, Free, Id, Identity, Process
    <3>3. TypeOK'
      BY <2>2, <3>1, <3>2 DEF OpenPidfd, IInv, TypeOK, kernel, scan, memory
    <3> QED
      BY <2>2, <3>1, <3>2, <3>3 DEF OpenPidfd, IInv, SenderKinds, Of, kernel
  <2> QED
    BY <2>1, <2>2
<1>2. UNCHANGED <<kernel, pc, use, scan, seen, memory>>
  BY DEF Send, OpenPidfd
<1> QED
  BY <1>1, <1>2 DEF IInv, kernel, scan, memory, KernelInv, Rooted, TableInv, SeenInv, SecondInv,
     Witness, ToVisit, Visited, NewTo, Exists, LiveWork, CleanInv, Lineage, Of, ScanKinds, Stable, Listed

\* Every step of the kernel, the workload and the cleanup keeps the strengthening.
LEMMA StepFacts ==
  ASSUME NEW K \in Histories, IInv(K), Scoped, [Next]_vars
  PROVE  \E L \in Histories : IInv(L)'
<1>1. CASE Kernel
  BY <1>1, KindStep
<1>2. CASE EndScope
  BY <1>2, BeginFacts DEF EndScope
<1>3. CASE \E e \in pending : Visit(e)
  BY <1>3, VisitFacts
<1>4. CASE ReadChildren
  BY <1>4, ReadFacts
<1>5. CASE SignalScan
  <2>1. targets' \subseteq Identity /\ \A t \in targets' : Of(K, t.born, "work")
    <3>1. /\ AliveOwners \subseteq Listed /\ Listed \subseteq Pids
          /\ \A p \in AliveOwners : Of(K, table[p].born, "work")
          /\ targets' = {[pid |-> p, born |-> table[p].born] : p \in AliveOwners}
      BY <1>5, Attribution DEF IInv, SignalScan, Judge, AliveOwners
    <3>2. \A p \in Listed : table[p].born \in Births \ {0}
      BY DEF Listed, IInv, TypeOK, Stat
    <3> QED
      BY <3>1, <3>2 DEF Identity
  <2> QED
    BY <1>5, <2>1, EndFacts DEF SignalScan, EndScan
<1>6. CASE FirstScan
  <2>1. targets' \subseteq Identity /\ \A t \in targets' : Of(K, t.born, "work")
    BY <1>6 DEF FirstScan, sender, IInv, TypeOK, SenderKinds
  <2> QED
    BY <1>6, <2>1, EndFacts DEF FirstScan, EndScan, sender
<1>7. CASE SecondBegins
  BY <1>7, BeginFacts DEF SecondBegins
<1>8. CASE SecondScan
  <2>1. targets' \subseteq Identity /\ \A t \in targets' : Of(K, t.born, "work")
    BY <1>8 DEF SecondScan, sender, IInv, TypeOK, SenderKinds
  <2>2. pc' = "clean" => LiveWork = {}
    BY <1>8, CleanFacts DEF SecondScan, EndScan
  <2> QED
    BY <1>8, <2>1, <2>2, EndFacts DEF SecondScan, EndScan, sender
<1>9. CASE Send \/ \E t \in targets : OpenPidfd(t)
  BY <1>9, SendFacts
<1>10. CASE Signalled
  BY <1>10, BeginFacts DEF Signalled
<1>11. CASE Retry
  BY <1>11, BeginFacts DEF Retry
<1>12. CASE Denied
  <2>1. TypeOK' /\ TableInv'
    <3>1. NoTable \in [Pids -> Stat]
      BY TreeAssumption DEF NoTable, Unseen, Stat, States, Births, Parents
    <3> QED
      BY <1>12, <3>1, TreeAssumption
         DEF Denied, EndScan, IInv, TypeOK, TableInv, kernel, memory, sender, NoTable, None, RootId
  <2>2. ScanKinds(K)' /\ SenderKinds(K)' /\ Lineage(K)'
    BY <1>12 DEF Denied, EndScan, IInv, kernel, memory, sender, Lineage, Of, ScanKinds, SenderKinds,
       NoTable, Unseen
  <2>3. IInv(K)'
    BY <1>12, <2>1, <2>2 DEF Denied, EndScan, IInv, kernel, KernelInv, Rooted, SeenInv, SecondInv,
       CleanInv, Stable
  <2> QED
    BY <2>3
<1>13. CASE GiveUp
  <2>1. IInv(K)'
    BY <1>13 DEF GiveUp, IInv, TypeOK, kernel, scan, memory, sender, KernelInv, Rooted, TableInv,
       SeenInv, SecondInv, CleanInv, Lineage, Of, ScanKinds, SenderKinds, Stable
  <2> QED
    BY <2>1
<1>14. CASE UNCHANGED vars
  <2>0. UNCHANGED <<kernel, pc, use, scan, seen, memory, sender>>
    BY <1>14 DEF vars
  <2> USE <2>0 DEF IInv, kernel, scan, memory, sender
  <2>1. TypeOK' /\ KernelInv' /\ Rooted'
    BY DEF TypeOK, KernelInv, Rooted
  <2>2. TableInv' /\ SeenInv' /\ CleanInv'
    BY DEF TableInv, SeenInv, CleanInv, LiveWork
  <2>3. SecondInv(K)'
    BY DEF SecondInv, Witness, ToVisit, Visited, NewTo, Exists, LiveWork
  <2>4. Lineage(K)' /\ ScanKinds(K)' /\ SenderKinds(K)'
    BY DEF Lineage, Of, ScanKinds, SenderKinds
  <2>5. Stable(K)'
    BY DEF Stable, Listed, Exists
  <2> QED
    BY <2>1, <2>2, <2>3, <2>4, <2>5
<1> QED
  BY <1>1, <1>2, <1>3, <1>4, <1>5, <1>6, <1>7, <1>8, <1>9, <1>10, <1>11, <1>12, <1>13, <1>14
     DEF Next, Cleanup

-----------------------------------------------------------------------------
(* The theorems *)

\* The strengthening holds in every state of the scope, for some history.
THEOREM Invariance == Scoped /\ Spec => []Inv
<1> SUFFICES ASSUME Scoped PROVE Spec => []Inv
  OBVIOUS
<1>1. Inv /\ [Next]_vars => Inv'
  <2> SUFFICES ASSUME Inv, [Next]_vars PROVE Inv'
    OBVIOUS
  <2>1. PICK K \in Histories : IInv(K)
    BY DEF Inv
  <2>2. PICK L \in Histories : IInv(L)'
    BY <2>1, StepFacts
  <2> QED
    BY <2>2 DEF Inv
<1> QED
  BY <1>1, InitFacts, PTL DEF Spec

(***************************************************************************)
(* Cleanup that is reported complete is complete: with any number of       *)
(* processes, forking and dying between any two reads, no process of the   *)
(* workload outlives a terminate that returned.                            *)
(***************************************************************************)
THEOREM Soundness == Scoped /\ Spec => []NothingOutlives
<1>1. Inv => NothingOutlives
  BY DEF Inv, IInv, CleanInv, LiveWork, NothingOutlives
<1> QED
  BY <1>1, Invariance, PTL

(***************************************************************************)
(* signal() reaches the workload only: no helper of the caller, nothing a  *)
(* helper started and no process that took over a pid, for any number of   *)
(* each.  Scoped: beside helpers no pid is reused within one scan, where   *)
(* a stranger may be signalled.  (signal, _owned, _marked)                 *)
(***************************************************************************)
THEOREM SignalsWork == Scoped /\ Spec => []OnlyWorkSignalled
<1>1. Inv => OnlyWorkSignalled
  BY DEF Inv, IInv, SenderKinds, OnlyWorkSignalled
<1> QED
  BY <1>1, Invariance, PTL

(***************************************************************************)
(* Every variable of the kernel and of the scans keeps its kind of value.  *)
(* (_ProcessTree)                                                          *)
(***************************************************************************)
THEOREM Types == Scoped /\ Spec => []TypeOK
<1>1. Inv => TypeOK
  BY DEF Inv, IInv
<1> QED
  BY <1>1, Invariance, PTL

(***************************************************************************)
(* Beside any helpers the scope ends all of the work, signals nothing      *)
(* else, and never files a process of the work under a helper's branch.    *)
(* (terminate, _owned)                                                     *)
(***************************************************************************)
THEOREM Containment == Scoped /\ Spec => []Contained
<1>1. Inv => WorkNeverExcluded
  <2> SUFFICES ASSUME Inv, NEW p \in Pids, proc[p].kind = "work", excluded[p] = proc[p].born
               PROVE  FALSE
    BY DEF WorkNeverExcluded
  <2>1. PICK K \in Histories : IInv(K)
    BY DEF Inv
  <2>2. proc[p] # Free /\ proc[p].born # 0
    BY <2>1 DEF Free, IInv, KernelInv
  <2> QED
    BY <2>1, <2>2 DEF IInv, Lineage, Of
<1>2. TypeOK /\ NothingOutlives /\ OnlyWorkSignalled /\ WorkNeverExcluded => Contained
  BY DEF Contained
<1> QED
  BY <1>1, <1>2, Invariance, Types, Soundness, SignalsWork, PTL

(***************************************************************************)
(* A scan reaps only zombies of the workload: the status of a helper, and  *)
(* of what a helper started, stays for whoever started it.  (_reap_owned)  *)
(***************************************************************************)
THEOREM ReapsWork == Scoped /\ Spec => OnlyWorkReaped
<1> SUFFICES ASSUME Scoped PROVE Spec => OnlyWorkReaped
  OBVIOUS
<1> DEFINE Reaps == pc = "scan" /\ pc' # "scan" =>
                      \A p \in Pids : proc'[p] # proc[p] => proc[p].kind = "work"
<1>1. Inv /\ [Next]_vars => [Reaps]_vars
  <2> SUFFICES ASSUME Inv, [Next]_vars, pc = "scan", pc' # "scan",
                      NEW p \in Pids, proc'[p] # proc[p]
               PROVE  proc[p].kind = "work"
    BY DEF Reaps
  <2>1. PICK K \in Histories : IInv(K)
    BY DEF Inv
  <2>2. CASE Judge
    <3>1. p \in Reapable
      BY <2>2 DEF Judge
    <3> QED
      BY <2>1, <3>1, ReapedFacts DEF IInv
  <2>3. CASE Kernel
    BY <2>1, <2>3, KernelFacts DEF IInv
  <2>4. CASE ~Judge /\ ~Kernel
    <3>1. proc' = proc
      BY <2>4 DEF Next, Cleanup, SignalScan, FirstScan, SecondScan, Visit, ReadChildren, OpenPidfd,
         Send, Signalled, Retry, EndScope, SecondBegins, Denied, GiveUp, kernel, vars
    <3> QED
      BY <3>1
  <2> QED
    BY <2>2, <2>3, <2>4
<1> QED
  BY <1>1, Invariance, PTL DEF Spec, OnlyWorkReaped
=============================================================================
