-------------------------- MODULE BatchCases_proofs --------------------------
(***************************************************************************)
(* Proofs about BatchCases, for any commands, keys, GPUs and requests.     *)
(***************************************************************************)
EXTENDS BatchCases, TLAPS

\* Commands that still admit and receive cases.
Scheduling == {"begin", "admit", "launch", "receive", "close"} \union Saving
\* The key in hand was taken from those pending and not started yet.
Admitting  == {"invalidate", "launch", "refuse"}

\* The lock excludes, and an owner holds it only while it saves.
LockInv ==
  /\ \A v, w \in Writers : draft[v] # NoDraft /\ draft[w] # NoDraft => v = w
  /\ \A c \in Commands : draft[<<c, Owner>>] # NoDraft => pc[c] \in Saving

\* What a draft may bring into the catalogue.
DraftInv ==
  \A w \in Writers : draft[w] # NoDraft =>
    \A k \in Keys :
      /\ draft[w][k] = "old" => store[k] = "old"
      /\ \A c \in Commands : draft[w][k] = c => Earned(c, k)

\* Invalidation comes before the launch.
Invalidated(c) ==
  /\ pc[c] = "launch" => store[hand[c]] # "old"
  /\ pc[c] \in Saving /\ draft[<<c, Owner>>] # NoDraft => draft[<<c, Owner>>][hand[c]] # "old"
InvalidInv == \A c \in Commands : Invalidated(c)

\* A key is pending, or in hand, or active: it is started once.
HandInv ==
  \A c \in Commands :
    /\ pc[c] \in Saving \union {"launch"} => hand[c] \in Keys \ (pending[c] \union active[c])
    /\ pc[c] \in Admitting => tree[c][hand[c]] = "none"
    /\ pc[c] \in {"invalidate", "launch"} => results[c][hand[c]] = "none"
    /\ pc[c] = "publish" => Accepted(c, hand[c])

PendingInv ==
  \A c \in Commands :
    /\ \A k \in pending[c] : k \notin active[c] /\ tree[c][k] = "none" /\ results[c][k] = "none"
    /\ pc[c] = "begin" => pending[c] = asked[c] /\ \A k \in Keys : tree[c][k] = "none"

\* What was polled and not received yet is all that is not live of the active cases.
PollInv ==
  \A c \in Commands : pc[c] \in Scheduling =>
    /\ completed[c] \subseteq active[c]
    /\ pc[c] \in {"begin", "admit", "close"} \union Admitting => completed[c] = {}
    /\ pc[c] \in {"begin", "close"} => active[c] = {}
    /\ \A k \in active[c] : k \in completed[c] \/ tree[c][k] = "live"
    /\ \A k \in completed[c] : tree[c][k] \in {"gone", "uncertain"}

\* Active cases have a GPU each; what may be left of others is quarantined.
GpuInv ==
  \A c \in Commands : pc[c] \in Scheduling =>
    /\ \A k \in active[c] : gpu[c][k] \in Gpus
    /\ \A k, l \in active[c] : k # l => gpu[c][k] # gpu[c][l]
    /\ \A k \in Keys : Holds(c, k) => k \in active[c] \/ gpu[c][k] \in unavailable[c]
    /\ pc[c] \in {"invalidate", "launch"} =>
         gpu[c][hand[c]] \in Gpus \ (Occupied(c) \union unavailable[c])

SchedulerInv == HandInv /\ PendingInv /\ PollInv
CatalogueInv == LockInv /\ DraftInv /\ InvalidInv /\ Published /\ NoLostUpdate /\ OldSuccessGone
Inv == TypeOK /\ SchedulerInv /\ CatalogueInv /\ GpuInv /\ NoSharedGpu

-----------------------------------------------------------------------------
(* Facts about writers and their steps *)

\* Owners and cases are writers,
LEMMA WriterFacts ==
  /\ \A c \in Commands : <<c, Owner>> \in Writers
  /\ \A c \in Commands, k \in Keys : <<c, k>> \in Writers
  BY DEF Writers

\* and an owner is none of its cases.
LEMMA OwnerApart ==
  \A c, d \in Commands, k \in Keys : <<c, k>> # <<d, Owner>>
  BY CasesAssumption

\* A writer is a command and its owner or a key.
LEMMA WriterPairs ==
  \A w \in Writers : w = <<w[1], w[2]>> /\ w[1] \in Commands
  BY DEF Writers

\* Where an owner goes on after each of its saves.
LEMMA AfterFacts ==
  /\ After["invalidate"] = "launch" /\ After["refuse"] = "admit"
  /\ After["publish"] = "receive" /\ After["discard"] = "receive"
  BY DEF After

\* Locking puts one entry into the only draft.
LEMMA LockFacts ==
  ASSUME TypeOK, NEW w \in Writers, NEW key \in Keys, NEW entry \in Entry, Lock(w, key, entry)
  PROVE  /\ \A v \in Writers : draft[v] = NoDraft
         /\ \A v \in Writers \ {w} : draft'[v] = NoDraft
         /\ draft'[w][key] = entry /\ \A l \in Keys \ {key} : draft'[w][l] = store[l]
  BY DEF Lock, Unlocked, TypeOK

\* A save that ends, well or not, frees its draft and touches no other.
LEMMA FreeFacts ==
  ASSUME TypeOK, NEW w \in Writers, Replace(w) \/ SaveFails(w)
  PROVE  /\ draft'[w] = NoDraft /\ \A v \in Writers \ {w} : draft'[v] = draft[v]
         /\ store' = store \/ (draft[w] # NoDraft /\ store' = draft[w])
  BY DEF Replace, SaveFails, TypeOK

-----------------------------------------------------------------------------
(* The scheduler *)

\* Every step keeps every variable's kind of value.
LEMMA TypesStep ==
  ASSUME TypeOK, HandInv, PollInv, GpuInv, [Next]_vars
  PROVE  TypeOK'
<1> USE DEF TypeOK, cases, owner
<1>1. ASSUME NEW c \in Commands, Begin(c) PROVE TypeOK'
  BY <1>1, WriterFacts, CasesAssumption DEF Begin, Entry, Over
<1>2. ASSUME NEW c \in Commands, NEW k \in Keys, Select(c, k) PROVE TypeOK'
  BY <1>2, WriterFacts, CasesAssumption DEF Select, Visit, Candidates, Saving
<1>3. ASSUME NEW c \in Commands, NEW k \in Keys, Refuse(c, k) PROVE TypeOK'
  BY <1>3, WriterFacts, CasesAssumption DEF Refuse, Visit, Saving
<1>4. ASSUME NEW c \in Commands, Launch(c) PROVE TypeOK'
  BY <1>4, WriterFacts, CasesAssumption DEF Launch, HandInv
<1>5. ASSUME NEW c \in Commands, LaunchFails(c) PROVE TypeOK'
  BY <1>5, WriterFacts, CasesAssumption DEF LaunchFails, Saving, Scheduling, HandInv, GpuInv
<1>6. ASSUME NEW c \in Commands, LaunchUncertain(c) PROVE TypeOK'
  BY <1>6, WriterFacts, CasesAssumption DEF LaunchUncertain, HandInv
<1>7. ASSUME NEW c \in Commands, Poll(c) PROVE TypeOK'
  BY <1>7, WriterFacts, CasesAssumption DEF Poll, Exited
<1>8. ASSUME NEW c \in Commands, NEW k \in Keys, Receive(c, k) PROVE TypeOK'
  BY <1>8, WriterFacts, CasesAssumption DEF Receive, Accepted, Saving, PollInv, GpuInv,
     Scheduling
<1>9. ASSUME NEW c \in Commands, Received(c) PROVE TypeOK'
  BY <1>9, WriterFacts, CasesAssumption DEF Received
<1>10. ASSUME NEW c \in Commands, OwnerLocks(c) PROVE TypeOK'
  BY <1>10, WriterFacts, CasesAssumption DEF OwnerLocks, Lock, Unlocked, Entry, Says, Saving
<1>11. ASSUME NEW c \in Commands, OwnerSaves(c) PROVE TypeOK'
  <2>1. After[pc[c]] \in {"launch", "admit", "receive"}
    BY <1>11, AfterFacts DEF OwnerSaves, Saving
  <2>2. Says(c) \in {"none", "failed", "usable"}
    BY DEF Says, HandInv, Saving
  <2> QED BY <1>11, <2>1, <2>2, WriterFacts DEF OwnerSaves, Replace
<1>12. ASSUME NEW c \in Commands, Interrupted(c) PROVE TypeOK'
  BY <1>12, WriterFacts, CasesAssumption DEF Interrupted, SaveFails, Saving, Over
<1>13. ASSUME NEW c \in Commands, Close(c) PROVE TypeOK'
  BY <1>13, WriterFacts, CasesAssumption DEF Close, Over
<1>14. ASSUME NEW c \in Commands, Killed(c) PROVE TypeOK'
  BY <1>14, WriterFacts, CasesAssumption DEF Killed, Over
<1>15. ASSUME NEW c \in Commands, NEW k \in Keys, CaseLocks(c, k) PROVE TypeOK'
  BY <1>15, WriterFacts, CasesAssumption DEF CaseLocks, Lock, Unlocked, CaseSays, Draftless,
     Entry
<1>16. ASSUME NEW c \in Commands, NEW k \in Keys, CaseSaves(c, k) PROVE TypeOK'
  BY <1>16, WriterFacts, CasesAssumption DEF CaseSaves, Replace
<1>17. ASSUME NEW c \in Commands, NEW k \in Keys, CaseWrites(c, k) PROVE TypeOK'
  BY <1>17, WriterFacts, CasesAssumption DEF CaseWrites, Draftless
<1>18. ASSUME NEW c \in Commands, NEW k \in Keys, CaseEnds(c, k) PROVE TypeOK'
  BY <1>18, WriterFacts, CasesAssumption DEF CaseEnds
<1>19. ASSUME NEW c \in Commands, NEW k \in Keys, CaseBreaks(c, k) PROVE TypeOK'
  BY <1>19, WriterFacts, CasesAssumption DEF CaseBreaks, SaveFails
<1>20. CASE UNCHANGED vars
  BY <1>20, WriterFacts, CasesAssumption DEF vars
<1> QED BY <1>1, <1>2, <1>3, <1>4, <1>5, <1>6, <1>7, <1>8, <1>9, <1>10, <1>11, <1>12, <1>13,
   <1>14, <1>15, <1>16, <1>17, <1>18, <1>19, <1>20 DEF Next, Schedules, Admission, Reception,
   Case

\* Every step keeps what is known of the key in hand.
LEMMA HandStep ==
  ASSUME TypeOK, SchedulerInv, [Next]_vars
  PROVE  HandInv'
<1> USE DEF TypeOK, HandInv, Accepted, cases, owner, Saving, Admitting, SchedulerInv
<1>1. ASSUME NEW c \in Commands, Begin(c) PROVE HandInv'
  BY <1>1, AfterFacts DEF Begin, Over, PendingInv
<1>2. ASSUME NEW c \in Commands, NEW k \in Keys, Select(c, k) PROVE HandInv'
  BY <1>2, AfterFacts DEF Select, Visit, Candidates, PendingInv
<1>3. ASSUME NEW c \in Commands, NEW k \in Keys, Refuse(c, k) PROVE HandInv'
  BY <1>3, AfterFacts DEF Refuse, Visit, PendingInv
<1>4. ASSUME NEW c \in Commands, Launch(c) PROVE HandInv'
  BY <1>4, AfterFacts DEF Launch
<1>5. ASSUME NEW c \in Commands, LaunchFails(c) PROVE HandInv'
  BY <1>5, AfterFacts DEF LaunchFails
<1>6. ASSUME NEW c \in Commands, LaunchUncertain(c) PROVE HandInv'
  BY <1>6, AfterFacts DEF LaunchUncertain
<1>7. ASSUME NEW c \in Commands, Poll(c) PROVE HandInv'
  BY <1>7, AfterFacts DEF Poll, Exited, PollInv, Scheduling
<1>8. ASSUME NEW c \in Commands, NEW k \in Keys, Receive(c, k) PROVE HandInv'
  BY <1>8, AfterFacts DEF Receive, Accepted, PollInv, PendingInv, Scheduling
<1>9. ASSUME NEW c \in Commands, Received(c) PROVE HandInv'
  BY <1>9, AfterFacts DEF Received
<1>10. ASSUME NEW c \in Commands, OwnerLocks(c) PROVE HandInv'
  BY <1>10, AfterFacts DEF OwnerLocks, Lock, Unlocked
<1>11. ASSUME NEW c \in Commands, OwnerSaves(c) PROVE HandInv'
  BY <1>11, AfterFacts DEF OwnerSaves, Replace
<1>12. ASSUME NEW c \in Commands, Interrupted(c) PROVE HandInv'
  BY <1>12, AfterFacts DEF Interrupted, SaveFails, Over
<1>13. ASSUME NEW c \in Commands, Close(c) PROVE HandInv'
  BY <1>13, AfterFacts DEF Close, Over
<1>14. ASSUME NEW c \in Commands, Killed(c) PROVE HandInv'
  BY <1>14, AfterFacts DEF Killed, Over
<1>15. ASSUME NEW c \in Commands, NEW k \in Keys, CaseLocks(c, k) PROVE HandInv'
  BY <1>15, AfterFacts DEF CaseLocks, Lock, Unlocked, CaseSays, Draftless
<1>16. ASSUME NEW c \in Commands, NEW k \in Keys, CaseSaves(c, k) PROVE HandInv'
  BY <1>16, AfterFacts DEF CaseSaves, Replace
<1>17. ASSUME NEW c \in Commands, NEW k \in Keys, CaseWrites(c, k) PROVE HandInv'
  BY <1>17, AfterFacts DEF CaseWrites, Draftless
<1>18. ASSUME NEW c \in Commands, NEW k \in Keys, CaseEnds(c, k) PROVE HandInv'
  BY <1>18, AfterFacts DEF CaseEnds
<1>19. ASSUME NEW c \in Commands, NEW k \in Keys, CaseBreaks(c, k) PROVE HandInv'
  BY <1>19, AfterFacts DEF CaseBreaks, SaveFails
<1>20. CASE UNCHANGED vars
  BY <1>20, AfterFacts DEF vars
<1> QED BY <1>1, <1>2, <1>3, <1>4, <1>5, <1>6, <1>7, <1>8, <1>9, <1>10, <1>11, <1>12, <1>13,
   <1>14, <1>15, <1>16, <1>17, <1>18, <1>19, <1>20 DEF Next, Schedules, Admission, Reception,
   Case

\* Every step keeps what is known of pending keys.
LEMMA PendingStep ==
  ASSUME TypeOK, SchedulerInv, [Next]_vars
  PROVE  PendingInv'
<1> USE DEF TypeOK, PendingInv, cases, owner, SchedulerInv
<1>1. ASSUME NEW c \in Commands, Begin(c) PROVE PendingInv'
  BY <1>1, AfterFacts DEF Begin, PollInv, Scheduling
<1>2. ASSUME NEW c \in Commands, NEW k \in Keys, Select(c, k) PROVE PendingInv'
  BY <1>2, AfterFacts DEF Select, Visit, Candidates
<1>3. ASSUME NEW c \in Commands, NEW k \in Keys, Refuse(c, k) PROVE PendingInv'
  BY <1>3, AfterFacts DEF Refuse, Visit
<1>4. ASSUME NEW c \in Commands, Launch(c) PROVE PendingInv'
  BY <1>4, AfterFacts DEF Launch, HandInv, Admitting, Saving
<1>5. ASSUME NEW c \in Commands, LaunchFails(c) PROVE PendingInv'
  BY <1>5, AfterFacts DEF LaunchFails
<1>6. ASSUME NEW c \in Commands, LaunchUncertain(c) PROVE PendingInv'
  BY <1>6, AfterFacts DEF LaunchUncertain, HandInv, Admitting, Saving
<1>7. ASSUME NEW c \in Commands, Poll(c) PROVE PendingInv'
  BY <1>7, AfterFacts DEF Poll, Exited, PollInv, Scheduling
<1>8. ASSUME NEW c \in Commands, NEW k \in Keys, Receive(c, k) PROVE PendingInv'
  BY <1>8, AfterFacts DEF Receive, Accepted
<1>9. ASSUME NEW c \in Commands, Received(c) PROVE PendingInv'
  BY <1>9, AfterFacts DEF Received
<1>10. ASSUME NEW c \in Commands, OwnerLocks(c) PROVE PendingInv'
  BY <1>10, AfterFacts DEF OwnerLocks, Lock, Unlocked
<1>11. ASSUME NEW c \in Commands, OwnerSaves(c) PROVE PendingInv'
  BY <1>11, AfterFacts DEF OwnerSaves, Replace, HandInv, Admitting, Saving, Accepted, Says
<1>12. ASSUME NEW c \in Commands, Interrupted(c) PROVE PendingInv'
  BY <1>12, AfterFacts DEF Interrupted, SaveFails
<1>13. ASSUME NEW c \in Commands, Close(c) PROVE PendingInv'
  BY <1>13, AfterFacts DEF Close, PollInv, Scheduling
<1>14. ASSUME NEW c \in Commands, Killed(c) PROVE PendingInv'
  BY <1>14, AfterFacts DEF Killed
<1>15. ASSUME NEW c \in Commands, NEW k \in Keys, CaseLocks(c, k) PROVE PendingInv'
  BY <1>15, AfterFacts DEF CaseLocks, Lock, Unlocked, CaseSays, Draftless
<1>16. ASSUME NEW c \in Commands, NEW k \in Keys, CaseSaves(c, k) PROVE PendingInv'
  BY <1>16, AfterFacts DEF CaseSaves, Replace
<1>17. ASSUME NEW c \in Commands, NEW k \in Keys, CaseWrites(c, k) PROVE PendingInv'
  BY <1>17, AfterFacts DEF CaseWrites, Draftless
<1>18. ASSUME NEW c \in Commands, NEW k \in Keys, CaseEnds(c, k) PROVE PendingInv'
  BY <1>18, AfterFacts DEF CaseEnds
<1>19. ASSUME NEW c \in Commands, NEW k \in Keys, CaseBreaks(c, k) PROVE PendingInv'
  BY <1>19, AfterFacts DEF CaseBreaks, SaveFails
<1>20. CASE UNCHANGED vars
  BY <1>20, AfterFacts DEF vars
<1> QED BY <1>1, <1>2, <1>3, <1>4, <1>5, <1>6, <1>7, <1>8, <1>9, <1>10, <1>11, <1>12, <1>13,
   <1>14, <1>15, <1>16, <1>17, <1>18, <1>19, <1>20 DEF Next, Schedules, Admission, Reception,
   Case

\* Every step keeps what is known of active and polled cases.
LEMMA PollStep ==
  ASSUME TypeOK, SchedulerInv, [Next]_vars
  PROVE  PollInv'
<1> USE DEF TypeOK, PollInv, cases, owner, SchedulerInv, Scheduling, Saving, Admitting
<1>1. ASSUME NEW c \in Commands, Begin(c) PROVE PollInv'
  BY <1>1, AfterFacts DEF Begin, PendingInv
<1>2. ASSUME NEW c \in Commands, NEW k \in Keys, Select(c, k) PROVE PollInv'
  BY <1>2, AfterFacts DEF Select, Visit, Candidates
<1>3. ASSUME NEW c \in Commands, NEW k \in Keys, Refuse(c, k) PROVE PollInv'
  BY <1>3, AfterFacts DEF Refuse, Visit
<1>4. ASSUME NEW c \in Commands, Launch(c) PROVE PollInv'
  BY <1>4, AfterFacts DEF Launch, HandInv
<1>5. ASSUME NEW c \in Commands, LaunchFails(c) PROVE PollInv'
  BY <1>5, AfterFacts DEF LaunchFails
<1>6. ASSUME NEW c \in Commands, LaunchUncertain(c) PROVE PollInv'
  BY <1>6, AfterFacts DEF LaunchUncertain
<1>7. ASSUME NEW c \in Commands, Poll(c) PROVE PollInv'
  BY <1>7, AfterFacts DEF Poll, Exited
<1>8. ASSUME NEW c \in Commands, NEW k \in Keys, Receive(c, k) PROVE PollInv'
  BY <1>8, AfterFacts DEF Receive, Accepted
<1>9. ASSUME NEW c \in Commands, Received(c) PROVE PollInv'
  BY <1>9, AfterFacts DEF Received
<1>10. ASSUME NEW c \in Commands, OwnerLocks(c) PROVE PollInv'
  BY <1>10, AfterFacts DEF OwnerLocks, Lock, Unlocked
<1>11. ASSUME NEW c \in Commands, OwnerSaves(c) PROVE PollInv'
  BY <1>11, AfterFacts DEF OwnerSaves, Replace
<1>12. ASSUME NEW c \in Commands, Interrupted(c) PROVE PollInv'
  BY <1>12, AfterFacts DEF Interrupted, SaveFails, Over
<1>13. ASSUME NEW c \in Commands, Close(c) PROVE PollInv'
  BY <1>13, AfterFacts DEF Close, Over
<1>14. ASSUME NEW c \in Commands, Killed(c) PROVE PollInv'
  BY <1>14, AfterFacts DEF Killed, Over
<1>15. ASSUME NEW c \in Commands, NEW k \in Keys, CaseLocks(c, k) PROVE PollInv'
  BY <1>15, AfterFacts DEF CaseLocks, Lock, Unlocked, CaseSays, Draftless
<1>16. ASSUME NEW c \in Commands, NEW k \in Keys, CaseSaves(c, k) PROVE PollInv'
  BY <1>16, AfterFacts DEF CaseSaves, Replace
<1>17. ASSUME NEW c \in Commands, NEW k \in Keys, CaseWrites(c, k) PROVE PollInv'
  BY <1>17, AfterFacts DEF CaseWrites, Draftless
<1>18. ASSUME NEW c \in Commands, NEW k \in Keys, CaseEnds(c, k) PROVE PollInv'
  BY <1>18, AfterFacts DEF CaseEnds
<1>19. ASSUME NEW c \in Commands, NEW k \in Keys, CaseBreaks(c, k) PROVE PollInv'
  BY <1>19, AfterFacts DEF CaseBreaks, SaveFails
<1>20. CASE UNCHANGED vars
  BY <1>20, AfterFacts DEF vars
<1> QED BY <1>1, <1>2, <1>3, <1>4, <1>5, <1>6, <1>7, <1>8, <1>9, <1>10, <1>11, <1>12, <1>13,
   <1>14, <1>15, <1>16, <1>17, <1>18, <1>19, <1>20 DEF Next, Schedules, Admission, Reception,
   Case

\* Every step keeps the GPUs of active cases apart and the others quarantined.
LEMMA GpuStep ==
  ASSUME TypeOK, SchedulerInv, GpuInv, [Next]_vars
  PROVE  GpuInv'
<1> USE DEF TypeOK, GpuInv, Holds, Occupied, cases, owner, Scheduling, Saving
<1>1. ASSUME NEW c \in Commands, Begin(c) PROVE GpuInv'
  BY <1>1, AfterFacts DEF Begin, Over, SchedulerInv, PollInv, PendingInv
<1>2. ASSUME NEW c \in Commands, NEW k \in Keys, Select(c, k) PROVE GpuInv'
  BY <1>2, AfterFacts DEF Select, Visit, Candidates, SchedulerInv, PendingInv
<1>3. ASSUME NEW c \in Commands, NEW k \in Keys, Refuse(c, k) PROVE GpuInv'
  BY <1>3, AfterFacts DEF Refuse, Visit, SchedulerInv, PendingInv
<1>4. ASSUME NEW c \in Commands, Launch(c) PROVE GpuInv'
  BY <1>4, AfterFacts DEF Launch, SchedulerInv, HandInv
<1>5. ASSUME NEW c \in Commands, LaunchFails(c) PROVE GpuInv'
  BY <1>5, AfterFacts DEF LaunchFails
<1>6. ASSUME NEW c \in Commands, LaunchUncertain(c) PROVE GpuInv'
  BY <1>6, AfterFacts DEF LaunchUncertain
<1>7. ASSUME NEW c \in Commands, Poll(c) PROVE GpuInv'
  BY <1>7, AfterFacts DEF Poll, Exited, SchedulerInv, PollInv
<1>8. ASSUME NEW c \in Commands, NEW k \in Keys, Receive(c, k) PROVE GpuInv'
  BY <1>8, AfterFacts DEF Receive, Accepted, SchedulerInv, PollInv
<1>9. ASSUME NEW c \in Commands, Received(c) PROVE GpuInv'
  BY <1>9, AfterFacts DEF Received, SchedulerInv, PollInv
<1>10. ASSUME NEW c \in Commands, OwnerLocks(c) PROVE GpuInv'
  BY <1>10, AfterFacts DEF OwnerLocks, Lock, Unlocked
<1>11. ASSUME NEW c \in Commands, OwnerSaves(c) PROVE GpuInv'
  BY <1>11, AfterFacts DEF OwnerSaves, Replace
<1>12. ASSUME NEW c \in Commands, Interrupted(c) PROVE GpuInv'
  BY <1>12, AfterFacts DEF Interrupted, SaveFails, Over
<1>13. ASSUME NEW c \in Commands, Close(c) PROVE GpuInv'
  BY <1>13, AfterFacts DEF Close, Over
<1>14. ASSUME NEW c \in Commands, Killed(c) PROVE GpuInv'
  BY <1>14, AfterFacts DEF Killed, Over
<1>15. ASSUME NEW c \in Commands, NEW k \in Keys, CaseLocks(c, k) PROVE GpuInv'
  BY <1>15, AfterFacts DEF CaseLocks, Lock, Unlocked, CaseSays, Draftless
<1>16. ASSUME NEW c \in Commands, NEW k \in Keys, CaseSaves(c, k) PROVE GpuInv'
  BY <1>16, AfterFacts DEF CaseSaves, Replace
<1>17. ASSUME NEW c \in Commands, NEW k \in Keys, CaseWrites(c, k) PROVE GpuInv'
  BY <1>17, AfterFacts DEF CaseWrites, Draftless
<1>18. ASSUME NEW c \in Commands, NEW k \in Keys, CaseEnds(c, k) PROVE GpuInv'
  BY <1>18, AfterFacts DEF CaseEnds
<1>19. ASSUME NEW c \in Commands, NEW k \in Keys, CaseBreaks(c, k) PROVE GpuInv'
  BY <1>19, AfterFacts DEF CaseBreaks, SaveFails
<1>20. CASE UNCHANGED vars
  BY <1>20, AfterFacts DEF vars
<1> QED BY <1>1, <1>2, <1>3, <1>4, <1>5, <1>6, <1>7, <1>8, <1>9, <1>10, <1>11, <1>12, <1>13,
   <1>14, <1>15, <1>16, <1>17, <1>18, <1>19, <1>20 DEF Next, Schedules, Admission, Reception,
   Case

\* No step lets two cases of a command share a GPU.
LEMMA SharedStep ==
  ASSUME TypeOK, SchedulerInv, GpuInv, NoSharedGpu, [Next]_vars
  PROVE  NoSharedGpu'
<1> USE DEF TypeOK, NoSharedGpu, Holds, cases, owner
<1>1. ASSUME NEW c \in Commands, Begin(c) PROVE NoSharedGpu'
  BY <1>1 DEF Begin
<1>2. ASSUME NEW c \in Commands, NEW k \in Keys, Select(c, k) PROVE NoSharedGpu'
  BY <1>2 DEF Select, Visit, Candidates, SchedulerInv, PendingInv
<1>3. ASSUME NEW c \in Commands, NEW k \in Keys, Refuse(c, k) PROVE NoSharedGpu'
  BY <1>3 DEF Refuse, Visit, SchedulerInv, PendingInv
<1>4. ASSUME NEW c \in Commands, Launch(c) PROVE NoSharedGpu'
  BY <1>4 DEF Launch, SchedulerInv, HandInv, GpuInv, Occupied, Scheduling, Saving
<1>5. ASSUME NEW c \in Commands, LaunchFails(c) PROVE NoSharedGpu'
  BY <1>5 DEF LaunchFails
<1>6. ASSUME NEW c \in Commands, LaunchUncertain(c) PROVE NoSharedGpu'
  BY <1>6 DEF LaunchUncertain, SchedulerInv, HandInv, GpuInv, Occupied, Scheduling, Saving
<1>7. ASSUME NEW c \in Commands, Poll(c) PROVE NoSharedGpu'
  BY <1>7 DEF Poll, Exited, SchedulerInv, PollInv, Scheduling
<1>8. ASSUME NEW c \in Commands, NEW k \in Keys, Receive(c, k) PROVE NoSharedGpu'
  BY <1>8 DEF Receive, Accepted
<1>9. ASSUME NEW c \in Commands, Received(c) PROVE NoSharedGpu'
  BY <1>9 DEF Received
<1>10. ASSUME NEW c \in Commands, OwnerLocks(c) PROVE NoSharedGpu'
  BY <1>10 DEF OwnerLocks, Lock, Unlocked
<1>11. ASSUME NEW c \in Commands, OwnerSaves(c) PROVE NoSharedGpu'
  BY <1>11 DEF OwnerSaves, Replace
<1>12. ASSUME NEW c \in Commands, Interrupted(c) PROVE NoSharedGpu'
  BY <1>12 DEF Interrupted, SaveFails
<1>13. ASSUME NEW c \in Commands, Close(c) PROVE NoSharedGpu'
  BY <1>13 DEF Close
<1>14. ASSUME NEW c \in Commands, Killed(c) PROVE NoSharedGpu'
  BY <1>14 DEF Killed
<1>15. ASSUME NEW c \in Commands, NEW k \in Keys, CaseLocks(c, k) PROVE NoSharedGpu'
  BY <1>15 DEF CaseLocks, Lock, Unlocked, CaseSays, Draftless
<1>16. ASSUME NEW c \in Commands, NEW k \in Keys, CaseSaves(c, k) PROVE NoSharedGpu'
  BY <1>16 DEF CaseSaves, Replace
<1>17. ASSUME NEW c \in Commands, NEW k \in Keys, CaseWrites(c, k) PROVE NoSharedGpu'
  BY <1>17 DEF CaseWrites, Draftless
<1>18. ASSUME NEW c \in Commands, NEW k \in Keys, CaseEnds(c, k) PROVE NoSharedGpu'
  BY <1>18 DEF CaseEnds
<1>19. ASSUME NEW c \in Commands, NEW k \in Keys, CaseBreaks(c, k) PROVE NoSharedGpu'
  BY <1>19 DEF CaseBreaks, SaveFails
<1>20. CASE UNCHANGED vars
  BY <1>20 DEF vars
<1> QED BY <1>1, <1>2, <1>3, <1>4, <1>5, <1>6, <1>7, <1>8, <1>9, <1>10, <1>11, <1>12, <1>13,
   <1>14, <1>15, <1>16, <1>17, <1>18, <1>19, <1>20 DEF Next, Schedules, Admission, Reception,
   Case

-----------------------------------------------------------------------------
(* The catalogue *)

\* The key a writer's draft is about
Slot(w) == IF w[2] = Owner THEN hand[w[1]] ELSE w[2]

\* A step may free drafts only, or lock the catalogue, or end a save.
Quiet ==
  /\ store' = store
  /\ \A w \in Writers : draft'[w] \in {draft[w], NoDraft}
  /\ \A c \in Commands : draft[<<c, Owner>>] # NoDraft => hand'[c] = hand[c]
Locks ==
  /\ store' = store /\ hand' = hand
  /\ \E w \in Writers, key \in Keys, entry \in Entry :
       /\ Lock(w, key, entry) /\ key = Slot(w)
       /\ entry # "old" /\ (entry \in Commands => Earned(entry, key))
Frees ==
  /\ hand' = hand
  /\ \E w \in Writers : Replace(w) \/ SaveFails(w)

\* Every step is one of the three as far as the catalogue is concerned.
LEMMA Moves ==
  ASSUME TypeOK, SchedulerInv, LockInv, [Next]_vars
  PROVE  Quiet \/ Locks \/ Frees
<1> USE DEF TypeOK, cases, owner
<1>1. ASSUME NEW c \in Commands, Begin(c) PROVE Quiet \/ Locks \/ Frees
  BY <1>1, WriterFacts DEF Begin, Quiet, LockInv, Saving
<1>2. ASSUME NEW c \in Commands, NEW k \in Keys, Select(c, k) PROVE Quiet \/ Locks \/ Frees
  BY <1>2, WriterFacts DEF Select, Visit, Candidates, Quiet, LockInv, Saving
<1>3. ASSUME NEW c \in Commands, NEW k \in Keys, Refuse(c, k) PROVE Quiet \/ Locks \/ Frees
  BY <1>3, WriterFacts DEF Refuse, Visit, Quiet, LockInv, Saving
<1>4. ASSUME NEW c \in Commands, Launch(c) PROVE Quiet \/ Locks \/ Frees
  BY <1>4, WriterFacts DEF Launch, Quiet, LockInv, Saving
<1>5. ASSUME NEW c \in Commands, LaunchFails(c) PROVE Quiet \/ Locks \/ Frees
  BY <1>5, WriterFacts DEF LaunchFails, Quiet, LockInv, Saving
<1>6. ASSUME NEW c \in Commands, LaunchUncertain(c) PROVE Quiet \/ Locks \/ Frees
  BY <1>6, WriterFacts DEF LaunchUncertain, Quiet, LockInv, Saving
<1>7. ASSUME NEW c \in Commands, Poll(c) PROVE Quiet \/ Locks \/ Frees
  BY <1>7, WriterFacts DEF Poll, Exited, Quiet, LockInv, Saving
<1>8. ASSUME NEW c \in Commands, NEW k \in Keys, Receive(c, k) PROVE Quiet \/ Locks \/ Frees
  BY <1>8, WriterFacts DEF Receive, Accepted, Quiet, LockInv, Saving
<1>9. ASSUME NEW c \in Commands, Received(c) PROVE Quiet \/ Locks \/ Frees
  BY <1>9, WriterFacts DEF Received, Quiet, LockInv, Saving
<1>10. ASSUME NEW c \in Commands, OwnerLocks(c) PROVE Quiet \/ Locks \/ Frees
  <2> DEFINE entry == IF Says(c) = "usable" THEN c ELSE "none"
  <2>1. Lock(<<c, Owner>>, hand[c], entry) /\ hand[c] \in Keys /\ store' = store /\ hand' = hand
    BY <1>10 DEF OwnerLocks, SchedulerInv, HandInv
  <2>2. Says(c) = "usable" => Earned(c, hand[c])
    BY DEF Says, SchedulerInv, HandInv, Accepted, Earned
  <2>3. entry \in Entry /\ entry # "old" /\ (entry \in Commands => Earned(entry, hand[c]))
    BY <2>2, CasesAssumption DEF Entry
  <2>4. Slot(<<c, Owner>>) = hand[c]
    BY DEF Slot
  <2> QED BY <2>1, <2>3, <2>4, WriterFacts DEF Locks
<1>11. ASSUME NEW c \in Commands, OwnerSaves(c) PROVE Quiet \/ Locks \/ Frees
  BY <1>11, WriterFacts DEF OwnerSaves, Frees
<1>12. ASSUME NEW c \in Commands, Interrupted(c) PROVE Quiet \/ Locks \/ Frees
  BY <1>12, WriterFacts DEF Interrupted, Frees
<1>13. ASSUME NEW c \in Commands, Close(c) PROVE Quiet \/ Locks \/ Frees
  BY <1>13, WriterFacts DEF Close, Quiet, LockInv, Saving
<1>14. ASSUME NEW c \in Commands, Killed(c) PROVE Quiet \/ Locks \/ Frees
  BY <1>14, WriterFacts DEF Killed, Quiet, LockInv, Saving
<1>15. ASSUME NEW c \in Commands, NEW k \in Keys, CaseLocks(c, k) PROVE Quiet \/ Locks \/ Frees
  <2>1. PICK usable \in BOOLEAN : Lock(<<c, k>>, k, CaseSays(c, usable))
    BY <1>15 DEF CaseLocks
  <2>2. Lock(<<c, k>>, k, "none") /\ "none" \in Entry /\ "none" \notin Commands
    BY <2>1, CasesAssumption DEF CaseSays, Entry
  <2>3. Slot(<<c, k>>) = k
    BY CasesAssumption DEF Slot
  <2>4. store' = store /\ hand' = hand
    BY <1>15 DEF CaseLocks
  <2> QED BY <2>2, <2>3, <2>4, WriterFacts DEF Locks
<1>16. ASSUME NEW c \in Commands, NEW k \in Keys, CaseSaves(c, k) PROVE Quiet \/ Locks \/ Frees
  BY <1>16, WriterFacts DEF CaseSaves, Frees
<1>17. ASSUME NEW c \in Commands, NEW k \in Keys, CaseWrites(c, k) PROVE Quiet \/ Locks \/ Frees
  BY <1>17, WriterFacts DEF CaseWrites, Draftless, Quiet, LockInv, Saving
<1>18. ASSUME NEW c \in Commands, NEW k \in Keys, CaseEnds(c, k) PROVE Quiet \/ Locks \/ Frees
  BY <1>18, WriterFacts DEF CaseEnds, Quiet, LockInv, Saving
<1>19. ASSUME NEW c \in Commands, NEW k \in Keys, CaseBreaks(c, k) PROVE Quiet \/ Locks \/ Frees
  BY <1>19, WriterFacts DEF CaseBreaks, Frees
<1>20. CASE UNCHANGED vars
  BY <1>20 DEF vars, Quiet
<1> QED BY <1>1, <1>2, <1>3, <1>4, <1>5, <1>6, <1>7, <1>8, <1>9, <1>10, <1>11, <1>12, <1>13,
   <1>14, <1>15, <1>16, <1>17, <1>18, <1>19, <1>20 DEF Next, Schedules, Admission, Reception,
   Case

\* A case that has earned a success has earned it for good.
LEMMA EarnedStep ==
  ASSUME TypeOK, SchedulerInv, [Next]_vars
  PROVE  \A d \in Commands, l \in Keys : Earned(d, l) => Earned(d, l)'
<1> DEFINE Goal == \A d \in Commands, l \in Keys : Earned(d, l) => Earned(d, l)'
<1> USE DEF TypeOK, Earned, cases, owner
<1>1. ASSUME NEW c \in Commands, Begin(c) PROVE Goal
  BY <1>1 DEF Begin
<1>2. ASSUME NEW c \in Commands, NEW k \in Keys, Select(c, k) PROVE Goal
  BY <1>2 DEF Select, Visit, Candidates
<1>3. ASSUME NEW c \in Commands, NEW k \in Keys, Refuse(c, k) PROVE Goal
  BY <1>3 DEF Refuse, Visit
<1>4. ASSUME NEW c \in Commands, Launch(c) PROVE Goal
  BY <1>4 DEF Launch, SchedulerInv, HandInv, Saving, Admitting
<1>5. ASSUME NEW c \in Commands, LaunchFails(c) PROVE Goal
  BY <1>5 DEF LaunchFails
<1>6. ASSUME NEW c \in Commands, LaunchUncertain(c) PROVE Goal
  BY <1>6 DEF LaunchUncertain, SchedulerInv, HandInv, Saving, Admitting
<1>7. ASSUME NEW c \in Commands, Poll(c) PROVE Goal
  <2>1. \A l \in Exited(c) : tree[c][l] = "live"
    BY <1>7 DEF Poll, Exited, SchedulerInv, PollInv, Scheduling
  <2> QED BY <1>7, <2>1 DEF Poll
<1>8. ASSUME NEW c \in Commands, NEW k \in Keys, Receive(c, k) PROVE Goal
  BY <1>8 DEF Receive, Accepted
<1>9. ASSUME NEW c \in Commands, Received(c) PROVE Goal
  BY <1>9 DEF Received
<1>10. ASSUME NEW c \in Commands, OwnerLocks(c) PROVE Goal
  BY <1>10 DEF OwnerLocks, Lock, Unlocked
<1>11. ASSUME NEW c \in Commands, OwnerSaves(c) PROVE Goal
  BY <1>11 DEF OwnerSaves, Replace
<1>12. ASSUME NEW c \in Commands, Interrupted(c) PROVE Goal
  BY <1>12 DEF Interrupted, SaveFails
<1>13. ASSUME NEW c \in Commands, Close(c) PROVE Goal
  BY <1>13 DEF Close
<1>14. ASSUME NEW c \in Commands, Killed(c) PROVE Goal
  BY <1>14 DEF Killed
<1>15. ASSUME NEW c \in Commands, NEW k \in Keys, CaseLocks(c, k) PROVE Goal
  BY <1>15 DEF CaseLocks, Lock, Unlocked, CaseSays, Draftless
<1>16. ASSUME NEW c \in Commands, NEW k \in Keys, CaseSaves(c, k) PROVE Goal
  BY <1>16 DEF CaseSaves, Replace
<1>17. ASSUME NEW c \in Commands, NEW k \in Keys, CaseWrites(c, k) PROVE Goal
  BY <1>17 DEF CaseWrites, Draftless
<1>18. ASSUME NEW c \in Commands, NEW k \in Keys, CaseEnds(c, k) PROVE Goal
  BY <1>18 DEF CaseEnds
<1>19. ASSUME NEW c \in Commands, NEW k \in Keys, CaseBreaks(c, k) PROVE Goal
  BY <1>19 DEF CaseBreaks, SaveFails
<1>20. CASE UNCHANGED vars
  BY <1>20 DEF vars
<1> QED BY <1>1, <1>2, <1>3, <1>4, <1>5, <1>6, <1>7, <1>8, <1>9, <1>10, <1>11, <1>12, <1>13,
   <1>14, <1>15, <1>16, <1>17, <1>18, <1>19, <1>20 DEF Next, Schedules, Admission, Reception,
   Case

\* What a freed draft leaves in the catalogue was in it or was earned.
LEMMA FreedStore ==
  ASSUME TypeOK, CatalogueInv, NEW w \in Writers, Replace(w) \/ SaveFails(w)
  PROVE  \A l \in Keys :
           /\ store'[l] = "old" => store[l] = "old"
           /\ \A d \in Commands : store'[l] = d => Earned(d, l)
<1>1. \A d \in Commands, l \in Keys : store[l] = d => Earned(d, l)
  BY DEF CatalogueInv, Published
<1>2. draft[w] # NoDraft => \A l \in Keys :
         /\ draft[w][l] = "old" => store[l] = "old"
         /\ \A d \in Commands : draft[w][l] = d => Earned(d, l)
  BY DEF CatalogueInv, DraftInv
<1>3. CASE store' = store
  BY <1>1, <1>3
<1>4. CASE draft[w] # NoDraft /\ store' = draft[w]
  BY <1>2, <1>4
<1> QED BY <1>3, <1>4, FreeFacts

\* No step brings an old success back, or a success that was not earned.
LEMMA StoreStep ==
  ASSUME TypeOK, SchedulerInv, CatalogueInv, [Next]_vars
  PROVE  \A l \in Keys :
           /\ store'[l] = "old" => store[l] = "old"
           /\ \A d \in Commands : store'[l] = d => Earned(d, l)'
<1>1. \A d \in Commands, l \in Keys : Earned(d, l) => Earned(d, l)'
  BY EarnedStep
<1>2. \A d \in Commands, l \in Keys : store[l] = d => Earned(d, l)
  BY DEF CatalogueInv, Published
<1>3. CASE store' = store
  BY <1>1, <1>2, <1>3
<1>4. CASE Frees
  <2>1. PICK w \in Writers : Replace(w) \/ SaveFails(w)
    BY <1>4 DEF Frees
  <2> QED BY <1>1, <2>1, FreedStore
<1> QED BY <1>3, <1>4, Moves DEF CatalogueInv, Quiet, Locks

\* Drafts are made of the catalogue and of what was earned.
LEMMA DraftStep ==
  ASSUME TypeOK, SchedulerInv, CatalogueInv, [Next]_vars
  PROVE  DraftInv'
<1>1. \A d \in Commands, l \in Keys : Earned(d, l) => Earned(d, l)'
  BY EarnedStep
<1>2. DraftInv /\ \A d \in Commands, l \in Keys : store[l] = d => Earned(d, l)
  BY DEF CatalogueInv, Published
<1> SUFFICES ASSUME NEW v \in Writers, draft'[v] # NoDraft, NEW l \in Keys
             PROVE  /\ draft'[v][l] = "old" => store'[l] = "old"
                    /\ \A d \in Commands : draft'[v][l] = d => Earned(d, l)'
  BY DEF DraftInv
<1>3. CASE Quiet
  BY <1>1, <1>2, <1>3 DEF Quiet, DraftInv
<1>4. CASE Locks
  <2>1. PICK w \in Writers, key \in Keys, entry \in Entry :
          /\ Lock(w, key, entry) /\ entry # "old" /\ (entry \in Commands => Earned(entry, key))
    BY <1>4 DEF Locks
  <2>2. v = w
    BY <2>1, LockFacts
  <2>3. CASE l = key
    BY <1>1, <2>1, <2>2, <2>3, LockFacts
  <2>4. CASE l # key
    <3>1. draft'[v][l] = store[l] /\ store'[l] = store[l]
      BY <1>4, <2>1, <2>2, <2>4, LockFacts DEF Locks
    <3> QED BY <1>1, <1>2, <3>1
  <2> QED BY <2>3, <2>4
<1>5. CASE Frees
  <2>1. PICK w \in Writers : Replace(w) \/ SaveFails(w)
    BY <1>5 DEF Frees
  <2>2. v # w /\ draft'[v] = draft[v] /\ draft[v] # NoDraft
    BY <2>1, FreeFacts
  <2>3. store' = store
    BY <2>1, <2>2, FreeFacts DEF CatalogueInv, LockInv
  <2> QED BY <1>1, <1>2, <2>2, <2>3 DEF DraftInv
<1> QED BY <1>3, <1>4, <1>5, Moves DEF CatalogueInv

\* Every draft is the catalogue but for its own key.
LEMMA LostStep ==
  ASSUME TypeOK, SchedulerInv, CatalogueInv, [Next]_vars
  PROVE  NoLostUpdate'
<1>1. \A w \in Writers : draft[w] # NoDraft =>
        Slot(w) \in Keys /\ \A l \in Keys \ {Slot(w)} : draft[w][l] = store[l]
  BY DEF CatalogueInv, NoLostUpdate, Slot
<1> SUFFICES ASSUME NEW v \in Writers, draft'[v] # NoDraft
             PROVE  Slot(v)' \in Keys /\ \A l \in Keys \ {Slot(v)'} : draft'[v][l] = store'[l]
  BY DEF NoLostUpdate, Slot
<1>2. CASE Quiet
  <2>1. draft'[v] = draft[v] /\ draft[v] # NoDraft /\ store' = store
    BY <1>2 DEF Quiet
  <2>2. Slot(v)' = Slot(v)
    BY <1>2, <2>1, WriterPairs DEF Quiet, Slot
  <2> QED BY <1>1, <2>1, <2>2
<1>3. CASE Locks
  <2>1. PICK w \in Writers, key \in Keys, entry \in Entry : Lock(w, key, entry) /\ key = Slot(w)
    BY <1>3 DEF Locks
  <2>2. v = w
    BY <2>1, LockFacts
  <2>3. Slot(v)' = key /\ store' = store
    BY <1>3, <2>1, <2>2 DEF Locks, Slot
  <2> QED BY <2>1, <2>2, <2>3, LockFacts
<1>4. CASE Frees
  <2>1. PICK w \in Writers : Replace(w) \/ SaveFails(w)
    BY <1>4 DEF Frees
  <2>2. v # w /\ draft'[v] = draft[v] /\ draft[v] # NoDraft
    BY <2>1, FreeFacts
  <2>3. store' = store
    BY <2>1, <2>2, FreeFacts DEF CatalogueInv, LockInv
  <2>4. Slot(v)' = Slot(v)
    BY <1>4 DEF Frees, Slot
  <2> QED BY <1>1, <2>2, <2>3, <2>4
<1> QED BY <1>2, <1>3, <1>4, Moves DEF CatalogueInv

\* A draft of an owner is there only while it saves.
LEMMA OwnerStep ==
  ASSUME TypeOK, LockInv, [Next]_vars
  PROVE  \A d \in Commands : draft'[<<d, Owner>>] # NoDraft => pc'[d] \in Saving
<1> DEFINE Goal == \A d \in Commands : draft'[<<d, Owner>>] # NoDraft => pc'[d] \in Saving
<1> USE DEF TypeOK, LockInv, cases, owner, Saving
<1>1. ASSUME NEW c \in Commands, Begin(c) PROVE Goal
  BY <1>1, WriterFacts, OwnerApart DEF Begin, Over
<1>2. ASSUME NEW c \in Commands, NEW k \in Keys, Select(c, k) PROVE Goal
  BY <1>2, WriterFacts, OwnerApart DEF Select, Visit, Candidates
<1>3. ASSUME NEW c \in Commands, NEW k \in Keys, Refuse(c, k) PROVE Goal
  BY <1>3, WriterFacts, OwnerApart DEF Refuse, Visit
<1>4. ASSUME NEW c \in Commands, Launch(c) PROVE Goal
  BY <1>4, WriterFacts, OwnerApart DEF Launch
<1>5. ASSUME NEW c \in Commands, LaunchFails(c) PROVE Goal
  BY <1>5, WriterFacts, OwnerApart DEF LaunchFails
<1>6. ASSUME NEW c \in Commands, LaunchUncertain(c) PROVE Goal
  BY <1>6, WriterFacts, OwnerApart DEF LaunchUncertain
<1>7. ASSUME NEW c \in Commands, Poll(c) PROVE Goal
  BY <1>7, WriterFacts, OwnerApart DEF Poll, Exited
<1>8. ASSUME NEW c \in Commands, NEW k \in Keys, Receive(c, k) PROVE Goal
  BY <1>8, WriterFacts, OwnerApart DEF Receive, Accepted
<1>9. ASSUME NEW c \in Commands, Received(c) PROVE Goal
  BY <1>9, WriterFacts, OwnerApart DEF Received
<1>10. ASSUME NEW c \in Commands, OwnerLocks(c) PROVE Goal
  BY <1>10, WriterFacts, OwnerApart DEF OwnerLocks, Lock, Unlocked
<1>11. ASSUME NEW c \in Commands, OwnerSaves(c) PROVE Goal
  BY <1>11, WriterFacts, OwnerApart DEF OwnerSaves, Replace
<1>12. ASSUME NEW c \in Commands, Interrupted(c) PROVE Goal
  BY <1>12, WriterFacts, OwnerApart DEF Interrupted, SaveFails, Over
<1>13. ASSUME NEW c \in Commands, Close(c) PROVE Goal
  BY <1>13, WriterFacts, OwnerApart DEF Close, Over, Writers
<1>14. ASSUME NEW c \in Commands, Killed(c) PROVE Goal
  BY <1>14, WriterFacts, OwnerApart DEF Killed, Over
<1>15. ASSUME NEW c \in Commands, NEW k \in Keys, CaseLocks(c, k) PROVE Goal
  <2>1. PICK usable \in BOOLEAN : Lock(<<c, k>>, k, CaseSays(c, usable))
    BY <1>15 DEF CaseLocks
  <2>2. \A v \in Writers \ {<<c, k>>} : draft'[v] = NoDraft
    BY <2>1, LockFacts, WriterFacts DEF CaseSays, Entry
  <2> QED BY <2>2, WriterFacts, OwnerApart
<1>16. ASSUME NEW c \in Commands, NEW k \in Keys, CaseSaves(c, k) PROVE Goal
  BY <1>16, WriterFacts, OwnerApart DEF CaseSaves, Replace
<1>17. ASSUME NEW c \in Commands, NEW k \in Keys, CaseWrites(c, k) PROVE Goal
  BY <1>17, WriterFacts, OwnerApart DEF CaseWrites, Draftless
<1>18. ASSUME NEW c \in Commands, NEW k \in Keys, CaseEnds(c, k) PROVE Goal
  BY <1>18, WriterFacts, OwnerApart DEF CaseEnds
<1>19. ASSUME NEW c \in Commands, NEW k \in Keys, CaseBreaks(c, k) PROVE Goal
  BY <1>19, WriterFacts, OwnerApart DEF CaseBreaks, SaveFails
<1>20. CASE UNCHANGED vars
  BY <1>20, WriterFacts, OwnerApart DEF vars
<1> QED BY <1>1, <1>2, <1>3, <1>4, <1>5, <1>6, <1>7, <1>8, <1>9, <1>10, <1>11, <1>12, <1>13,
   <1>14, <1>15, <1>16, <1>17, <1>18, <1>19, <1>20 DEF Next, Schedules, Admission, Reception,
   Case

\* A case is started by the launch of the key in hand.
LEMMA TreeStep ==
  ASSUME TypeOK, SchedulerInv, [Next]_vars
  PROVE  \A d \in Commands, l \in Keys :
           tree'[d][l] # "none" => tree[d][l] # "none" \/ (pc[d] = "launch" /\ l = hand[d])
<1> DEFINE Goal == \A d \in Commands, l \in Keys :
           tree'[d][l] # "none" => tree[d][l] # "none" \/ (pc[d] = "launch" /\ l = hand[d])
<1> USE DEF TypeOK, cases, owner
<1>1. ASSUME NEW c \in Commands, Begin(c) PROVE Goal
  BY <1>1 DEF Begin
<1>2. ASSUME NEW c \in Commands, NEW k \in Keys, Select(c, k) PROVE Goal
  BY <1>2 DEF Select, Visit, Candidates
<1>3. ASSUME NEW c \in Commands, NEW k \in Keys, Refuse(c, k) PROVE Goal
  BY <1>3 DEF Refuse, Visit
<1>4. ASSUME NEW c \in Commands, Launch(c) PROVE Goal
  BY <1>4 DEF Launch
<1>5. ASSUME NEW c \in Commands, LaunchFails(c) PROVE Goal
  BY <1>5 DEF LaunchFails
<1>6. ASSUME NEW c \in Commands, LaunchUncertain(c) PROVE Goal
  BY <1>6 DEF LaunchUncertain
<1>7. ASSUME NEW c \in Commands, Poll(c) PROVE Goal
  <2>1. \A l \in Exited(c) : tree[c][l] = "live"
    BY <1>7 DEF Poll, Exited, SchedulerInv, PollInv, Scheduling
  <2> QED BY <1>7, <2>1 DEF Poll
<1>8. ASSUME NEW c \in Commands, NEW k \in Keys, Receive(c, k) PROVE Goal
  BY <1>8 DEF Receive, Accepted
<1>9. ASSUME NEW c \in Commands, Received(c) PROVE Goal
  BY <1>9 DEF Received
<1>10. ASSUME NEW c \in Commands, OwnerLocks(c) PROVE Goal
  BY <1>10 DEF OwnerLocks, Lock, Unlocked
<1>11. ASSUME NEW c \in Commands, OwnerSaves(c) PROVE Goal
  BY <1>11 DEF OwnerSaves, Replace
<1>12. ASSUME NEW c \in Commands, Interrupted(c) PROVE Goal
  BY <1>12 DEF Interrupted, SaveFails
<1>13. ASSUME NEW c \in Commands, Close(c) PROVE Goal
  BY <1>13 DEF Close
<1>14. ASSUME NEW c \in Commands, Killed(c) PROVE Goal
  BY <1>14 DEF Killed
<1>15. ASSUME NEW c \in Commands, NEW k \in Keys, CaseLocks(c, k) PROVE Goal
  BY <1>15 DEF CaseLocks, Lock, Unlocked, CaseSays, Draftless
<1>16. ASSUME NEW c \in Commands, NEW k \in Keys, CaseSaves(c, k) PROVE Goal
  BY <1>16 DEF CaseSaves, Replace
<1>17. ASSUME NEW c \in Commands, NEW k \in Keys, CaseWrites(c, k) PROVE Goal
  BY <1>17 DEF CaseWrites, Draftless
<1>18. ASSUME NEW c \in Commands, NEW k \in Keys, CaseEnds(c, k) PROVE Goal
  BY <1>18 DEF CaseEnds
<1>19. ASSUME NEW c \in Commands, NEW k \in Keys, CaseBreaks(c, k) PROVE Goal
  BY <1>19 DEF CaseBreaks, SaveFails
<1>20. CASE UNCHANGED vars
  BY <1>20 DEF vars
<1> QED BY <1>1, <1>2, <1>3, <1>4, <1>5, <1>6, <1>7, <1>8, <1>9, <1>10, <1>11, <1>12, <1>13,
   <1>14, <1>15, <1>16, <1>17, <1>18, <1>19, <1>20 DEF Next, Schedules, Admission, Reception,
   Case

\* A result that says usable of a case that was started was earned.
LEMMA ResultStep ==
  ASSUME TypeOK, SchedulerInv, Published, [Next]_vars
  PROVE  \A d \in Commands, l \in Keys :
           results'[d][l] = "usable" /\ tree'[d][l] # "none" => Earned(d, l)
<1> DEFINE Goal == \A d \in Commands, l \in Keys :
           results'[d][l] = "usable" /\ tree'[d][l] # "none" => Earned(d, l)
<1>t. \A d \in Commands, l \in Keys :
         tree'[d][l] # "none" => tree[d][l] # "none" \/ (pc[d] = "launch" /\ l = hand[d])
  BY TreeStep
<1>r. \A d \in Commands, l \in Keys : results[d][l] = "usable" /\ tree[d][l] # "none" => Earned(d, l)
  BY DEF Published
<1>h. \A d \in Commands : pc[d] = "launch" => results[d][hand[d]] = "none"
  BY DEF SchedulerInv, HandInv
<1> USE DEF TypeOK, cases, owner
<1>1. ASSUME NEW c \in Commands, Begin(c) PROVE Goal
  BY <1>1, <1>t, <1>r, <1>h DEF Begin, SchedulerInv, PendingInv
<1>2. ASSUME NEW c \in Commands, NEW k \in Keys, Select(c, k) PROVE Goal
  BY <1>2, <1>t, <1>r, <1>h DEF Select, Visit, Candidates
<1>3. ASSUME NEW c \in Commands, NEW k \in Keys, Refuse(c, k) PROVE Goal
  BY <1>3, <1>t, <1>r, <1>h DEF Refuse, Visit
<1>4. ASSUME NEW c \in Commands, Launch(c) PROVE Goal
  BY <1>4, <1>t, <1>r, <1>h DEF Launch
<1>5. ASSUME NEW c \in Commands, LaunchFails(c) PROVE Goal
  BY <1>5, <1>t, <1>r, <1>h DEF LaunchFails
<1>6. ASSUME NEW c \in Commands, LaunchUncertain(c) PROVE Goal
  BY <1>6, <1>t, <1>r, <1>h DEF LaunchUncertain
<1>7. ASSUME NEW c \in Commands, Poll(c) PROVE Goal
  BY <1>7, <1>t, <1>r, <1>h DEF Poll, Exited
<1>8. ASSUME NEW c \in Commands, NEW k \in Keys, Receive(c, k) PROVE Goal
  BY <1>8, <1>t, <1>r, <1>h DEF Receive, Accepted
<1>9. ASSUME NEW c \in Commands, Received(c) PROVE Goal
  BY <1>9, <1>t, <1>r, <1>h DEF Received
<1>10. ASSUME NEW c \in Commands, OwnerLocks(c) PROVE Goal
  BY <1>10, <1>t, <1>r, <1>h DEF OwnerLocks, Lock, Unlocked
<1>11. ASSUME NEW c \in Commands, OwnerSaves(c) PROVE Goal
  <2>1. Says(c) = "usable" => Earned(c, hand[c])
    BY DEF Says, SchedulerInv, HandInv, Accepted, Earned
  <2>2. \A d \in Commands, l \in Keys : results'[d][l] = "usable" =>
          results[d][l] = "usable" \/ (d = c /\ l = hand[c] /\ Says(c) = "usable")
    BY <1>11 DEF OwnerSaves
  <2> QED BY <1>t, <1>r, <1>h, <2>1, <2>2
<1>12. ASSUME NEW c \in Commands, Interrupted(c) PROVE Goal
  BY <1>12, <1>t, <1>r, <1>h DEF Interrupted, SaveFails
<1>13. ASSUME NEW c \in Commands, Close(c) PROVE Goal
  BY <1>13, <1>t, <1>r, <1>h DEF Close
<1>14. ASSUME NEW c \in Commands, Killed(c) PROVE Goal
  BY <1>14, <1>t, <1>r, <1>h DEF Killed
<1>15. ASSUME NEW c \in Commands, NEW k \in Keys, CaseLocks(c, k) PROVE Goal
  BY <1>15, <1>t, <1>r, <1>h DEF CaseLocks, Lock, Unlocked, CaseSays, Draftless
<1>16. ASSUME NEW c \in Commands, NEW k \in Keys, CaseSaves(c, k) PROVE Goal
  BY <1>16, <1>t, <1>r, <1>h DEF CaseSaves, Replace
<1>17. ASSUME NEW c \in Commands, NEW k \in Keys, CaseWrites(c, k) PROVE Goal
  BY <1>17, <1>t, <1>r, <1>h DEF CaseWrites, Draftless
<1>18. ASSUME NEW c \in Commands, NEW k \in Keys, CaseEnds(c, k) PROVE Goal
  BY <1>18, <1>t, <1>r, <1>h DEF CaseEnds
<1>19. ASSUME NEW c \in Commands, NEW k \in Keys, CaseBreaks(c, k) PROVE Goal
  BY <1>19, <1>t, <1>r, <1>h DEF CaseBreaks, SaveFails
<1>20. CASE UNCHANGED vars
  BY <1>20, <1>t, <1>r, <1>h DEF vars
<1> QED BY <1>1, <1>2, <1>3, <1>4, <1>5, <1>6, <1>7, <1>8, <1>9, <1>10, <1>11, <1>12, <1>13,
   <1>14, <1>15, <1>16, <1>17, <1>18, <1>19, <1>20 DEF Next, Schedules, Admission, Reception,
   Case

\* At most one draft at a time, and an owner's only while it saves.
LEMMA LockStep ==
  ASSUME TypeOK, SchedulerInv, CatalogueInv, [Next]_vars
  PROVE  LockInv'
<1>1. \A v, w \in Writers : draft'[v] # NoDraft /\ draft'[w] # NoDraft => v = w
  <2>1. \A v, w \in Writers : draft[v] # NoDraft /\ draft[w] # NoDraft => v = w
    BY DEF CatalogueInv, LockInv
  <2>2. CASE Quiet
    BY <2>1, <2>2 DEF Quiet
  <2>3. CASE Locks
    BY <2>3, LockFacts DEF Locks
  <2>4. CASE Frees
    <3>1. PICK w \in Writers : Replace(w) \/ SaveFails(w)
      BY <2>4 DEF Frees
    <3> QED BY <2>1, <3>1, FreeFacts
  <2> QED BY <2>2, <2>3, <2>4, Moves DEF CatalogueInv
<1>2. \A d \in Commands : draft'[<<d, Owner>>] # NoDraft => pc'[d] \in Saving
  BY OwnerStep DEF CatalogueInv
<1> QED BY <1>1, <1>2 DEF LockInv

\* A launch follows the save that invalidates its key.
LEMMA LaunchStep ==
  ASSUME TypeOK, [Next]_vars
  PROVE  \A d \in Commands : pc'[d] = "launch" =>
           /\ hand'[d] = hand[d]
           /\ \/ pc[d] = "launch"
              \/ pc[d] \in Saving /\ draft[<<d, Owner>>] # NoDraft /\ store' = draft[<<d, Owner>>]
<1> DEFINE Goal == \A d \in Commands : pc'[d] = "launch" =>
           /\ hand'[d] = hand[d]
           /\ \/ pc[d] = "launch"
              \/ pc[d] \in Saving /\ draft[<<d, Owner>>] # NoDraft /\ store' = draft[<<d, Owner>>]
<1> USE DEF TypeOK, cases, owner
<1>1. ASSUME NEW c \in Commands, Begin(c) PROVE Goal
  BY <1>1 DEF Begin, Over
<1>2. ASSUME NEW c \in Commands, NEW k \in Keys, Select(c, k) PROVE Goal
  BY <1>2 DEF Select, Visit, Candidates
<1>3. ASSUME NEW c \in Commands, NEW k \in Keys, Refuse(c, k) PROVE Goal
  BY <1>3 DEF Refuse, Visit
<1>4. ASSUME NEW c \in Commands, Launch(c) PROVE Goal
  BY <1>4 DEF Launch
<1>5. ASSUME NEW c \in Commands, LaunchFails(c) PROVE Goal
  BY <1>5 DEF LaunchFails
<1>6. ASSUME NEW c \in Commands, LaunchUncertain(c) PROVE Goal
  BY <1>6 DEF LaunchUncertain
<1>7. ASSUME NEW c \in Commands, Poll(c) PROVE Goal
  BY <1>7 DEF Poll, Exited
<1>8. ASSUME NEW c \in Commands, NEW k \in Keys, Receive(c, k) PROVE Goal
  BY <1>8 DEF Receive, Accepted
<1>9. ASSUME NEW c \in Commands, Received(c) PROVE Goal
  BY <1>9 DEF Received
<1>10. ASSUME NEW c \in Commands, OwnerLocks(c) PROVE Goal
  BY <1>10 DEF OwnerLocks, Lock, Unlocked
<1>11. ASSUME NEW c \in Commands, OwnerSaves(c) PROVE Goal
  BY <1>11 DEF OwnerSaves, Replace
<1>12. ASSUME NEW c \in Commands, Interrupted(c) PROVE Goal
  BY <1>12 DEF Interrupted, SaveFails, Over
<1>13. ASSUME NEW c \in Commands, Close(c) PROVE Goal
  BY <1>13 DEF Close, Over
<1>14. ASSUME NEW c \in Commands, Killed(c) PROVE Goal
  BY <1>14 DEF Killed, Over
<1>15. ASSUME NEW c \in Commands, NEW k \in Keys, CaseLocks(c, k) PROVE Goal
  BY <1>15 DEF CaseLocks, Lock, Unlocked, CaseSays, Draftless
<1>16. ASSUME NEW c \in Commands, NEW k \in Keys, CaseSaves(c, k) PROVE Goal
  BY <1>16 DEF CaseSaves, Replace
<1>17. ASSUME NEW c \in Commands, NEW k \in Keys, CaseWrites(c, k) PROVE Goal
  BY <1>17 DEF CaseWrites, Draftless
<1>18. ASSUME NEW c \in Commands, NEW k \in Keys, CaseEnds(c, k) PROVE Goal
  BY <1>18 DEF CaseEnds
<1>19. ASSUME NEW c \in Commands, NEW k \in Keys, CaseBreaks(c, k) PROVE Goal
  BY <1>19 DEF CaseBreaks, SaveFails
<1>20. CASE UNCHANGED vars
  BY <1>20 DEF vars
<1> QED BY <1>1, <1>2, <1>3, <1>4, <1>5, <1>6, <1>7, <1>8, <1>9, <1>10, <1>11, <1>12, <1>13,
   <1>14, <1>15, <1>16, <1>17, <1>18, <1>19, <1>20 DEF Next, Schedules, Admission, Reception,
   Case

\* A key is invalid when its case is launched.
LEMMA InvalidStep ==
  ASSUME TypeOK, SchedulerInv, CatalogueInv, [Next]_vars
  PROVE  InvalidInv'
<1>1. \A d \in Commands : Invalidated(d) /\ (draft[<<d, Owner>>] # NoDraft => pc[d] \in Saving)
  BY DEF CatalogueInv, InvalidInv, LockInv
<1> SUFFICES ASSUME NEW d \in Commands
             PROVE  Invalidated(d)'
  BY DEF InvalidInv
<1>2. ASSUME pc'[d] = "launch" PROVE store'[hand'[d]] # "old"
  <2>1. hand'[d] = hand[d] /\ hand[d] \in Keys
    BY <1>2, LaunchStep DEF SchedulerInv, HandInv
  <2>2. CASE pc[d] = "launch"
    BY <1>1, <2>1, <2>2, StoreStep DEF Invalidated
  <2>3. CASE pc[d] \in Saving /\ draft[<<d, Owner>>] # NoDraft /\ store' = draft[<<d, Owner>>]
    BY <1>1, <2>1, <2>3 DEF Invalidated
  <2> QED BY <1>2, <2>2, <2>3, LaunchStep
<1>3. ASSUME draft'[<<d, Owner>>] # NoDraft PROVE draft'[<<d, Owner>>][hand'[d]] # "old"
  <2>1. CASE Quiet
    BY <1>1, <1>3, <2>1, WriterFacts DEF Quiet, Invalidated
  <2>2. CASE Locks
    <3>1. PICK w \in Writers, key \in Keys, entry \in Entry :
            Lock(w, key, entry) /\ key = Slot(w) /\ entry # "old"
      BY <2>2 DEF Locks
    <3>2. w = <<d, Owner>>
      BY <1>3, <3>1, LockFacts, WriterFacts
    <3>3. hand'[d] = key
      BY <2>2, <3>1, <3>2 DEF Locks, Slot
    <3> QED BY <3>1, <3>2, <3>3, LockFacts
  <2>3. CASE Frees
    <3>1. PICK w \in Writers : Replace(w) \/ SaveFails(w)
      BY <2>3 DEF Frees
    <3>2. draft'[<<d, Owner>>] = draft[<<d, Owner>>] /\ hand' = hand
      BY <1>3, <2>3, <3>1, FreeFacts, WriterFacts DEF Frees
    <3> QED BY <1>1, <1>3, <3>2 DEF Invalidated
  <2> QED BY <2>1, <2>2, <2>3, Moves DEF CatalogueInv
<1> QED BY <1>2, <1>3 DEF Invalidated

\* Results that say usable were earned, and so was every success in the catalogue.
LEMMA PublishedStep ==
  ASSUME TypeOK, SchedulerInv, CatalogueInv, [Next]_vars
  PROVE  Published'
<1>1. \A d \in Commands, l \in Keys : store'[l] = d => Earned(d, l)'
  BY StoreStep
<1>2. \A d \in Commands, l \in Keys : Earned(d, l) => Earned(d, l)'
  BY EarnedStep
<1>3. \A d \in Commands, l \in Keys : results'[d][l] = "usable" /\ tree'[d][l] # "none" => Earned(d, l)
  BY ResultStep DEF CatalogueInv, Published
<1> QED BY <1>1, <1>2, <1>3 DEF Published

\* A success from before is gone once its key is measured.
LEMMA OldStep ==
  ASSUME TypeOK, SchedulerInv, CatalogueInv, [Next]_vars
  PROVE  OldSuccessGone'
<1>1. \A d \in Commands, l \in Keys :
        tree'[d][l] # "none" => tree[d][l] # "none" \/ (pc[d] = "launch" /\ l = hand[d])
  BY TreeStep
<1> SUFFICES ASSUME NEW d \in Commands, NEW l \in Keys, tree'[d][l] # "none"
             PROVE  store'[l] # "old"
  BY DEF OldSuccessGone
<1>2. CASE tree[d][l] # "none"
  BY <1>2, StoreStep DEF CatalogueInv, OldSuccessGone
<1>3. CASE pc[d] = "launch" /\ l = hand[d]
  BY <1>3, StoreStep DEF CatalogueInv, InvalidInv, Invalidated
<1> QED BY <1>1, <1>2, <1>3

-----------------------------------------------------------------------------
(* The invariant, and what follows from it *)

\* No case was started when the commands begin.
LEMMA InitInv == Init => Inv
<1> SUFFICES ASSUME Init PROVE Inv
  OBVIOUS
<1> USE DEF Init
<1>1. TypeOK
  BY CasesAssumption DEF TypeOK, Entry
<1>2. HandInv /\ PendingInv
  BY CasesAssumption DEF HandInv, PendingInv, Saving, Admitting
<1>3. PollInv /\ GpuInv
  BY DEF PollInv, GpuInv, Holds
<1>4. LockInv /\ DraftInv /\ NoLostUpdate
  BY WriterFacts DEF LockInv, DraftInv, NoLostUpdate
<1>5. InvalidInv /\ OldSuccessGone /\ NoSharedGpu
  BY DEF InvalidInv, Invalidated, OldSuccessGone, NoSharedGpu, Holds, Saving
<1>6. Published
  BY CasesAssumption DEF Published
<1> QED BY <1>1, <1>2, <1>3, <1>4, <1>5, <1>6 DEF Inv, SchedulerInv, CatalogueInv

LEMMA StepInv == Inv /\ [Next]_vars => Inv'
<1> SUFFICES ASSUME Inv, [Next]_vars PROVE Inv'
  OBVIOUS
<1> USE DEF Inv
<1>1. TypeOK'
  BY TypesStep DEF SchedulerInv
<1>2. SchedulerInv'
  BY HandStep, PendingStep, PollStep DEF SchedulerInv
<1>3. GpuInv' /\ NoSharedGpu'
  BY GpuStep, SharedStep
<1>4. LockInv' /\ DraftInv' /\ InvalidInv'
  BY LockStep, DraftStep, InvalidStep
<1>5. Published' /\ NoLostUpdate' /\ OldSuccessGone'
  BY PublishedStep, LostStep, OldStep
<1> QED BY <1>1, <1>2, <1>3, <1>4, <1>5 DEF CatalogueInv

LEMMA Invariance == Spec => []Inv
  BY InitInv, StepInv, PTL DEF Spec

(***************************************************************************)
(* Whatever commands and cases do at the same time, and wherever they are  *)
(* killed, a success in the catalogue was earned by its own case, the one  *)
(* from before is gone once its key is measured again, and no save undoes  *)
(* a peer's (FileBatchEstimateStore, _CaseScheduler).                      *)
(***************************************************************************)
THEOREM Catalogue == Spec => []CatalogueHonest
<1>1. Inv => CatalogueHonest
  BY DEF Inv, CatalogueInv, CatalogueHonest
<1> QED BY <1>1, Invariance, PTL

(***************************************************************************)
(* Two cases of a command never have one GPU, also after a cleanup that    *)
(* could not be verified (_CaseScheduler._candidates).                     *)
(***************************************************************************)
THEOREM GpusApart == Spec => []NoSharedGpu
<1>1. Inv => NoSharedGpu
  BY DEF Inv
<1> QED BY <1>1, Invariance, PTL

(***************************************************************************)
(* What a command has earned, and the old successes it has removed, stay   *)
(* so: no later step takes an earned case back or restores an old one.     *)
(***************************************************************************)
THEOREM Settled ==
  Spec => [][/\ \A c \in Commands, k \in Keys : Earned(c, k) => Earned(c, k)'
             /\ \A k \in Keys : store'[k] = "old" => store[k] = "old"]_vars
<1>1. Inv /\ [Next]_vars =>
        [/\ \A c \in Commands, k \in Keys : Earned(c, k) => Earned(c, k)'
         /\ \A k \in Keys : store'[k] = "old" => store[k] = "old"]_vars
  BY EarnedStep, StoreStep DEF Inv
<1> QED BY <1>1, Invariance, PTL DEF Spec

=============================================================================
