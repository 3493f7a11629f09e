----------------------------- MODULE MCProgress -----------------------------
(***************************************************************************)
(* What must eventually happen in the components that wait: the cleanup of *)
(* a process tree, the answers of a console publisher, a batch estimation. *)
(* Each is explored alone under the fairness its module states.            *)
(***************************************************************************)
EXTENDS Naturals, Sequences, FiniteSets

CONSTANTS
  Pids, Root, Orphanage, Helpers, Traces, MaxBirths, ReuseWithinScan,  \* ProcessTree
  MaxBytes, MaxRows, Batch, MaxToken, MaxPublishers, MaxBarriers, OtherWriters,
  Commands, Keys, Gpus, Jobs, Refreshing, MaxSaves,  \* BatchCases
  CaseOwner, NoKey, NoGpu, NoDraft

VARIABLES
  focus,  \* the component a behaviour is about
  proc, births, pipe, treePc, use, treePending, cursor, table, changed, busy,
  seen, identities, excluded, targets, aim, pidfd, hit,
  console, journal, started, sup, publishers, barriers, initial, request, final,
  consoleReceipt, wpc, stopping, limits, offsets, position, discard, sink,
  server, repeated,
  asked, store, draft, casePc, casePending, hand, active, completed,
  unavailable, results, gpu, case, tree, caseReceipt, saves

\* One command with two cases, one of which fits a single GPU.
MCRequests == {[c \in Commands |-> Keys]}
MCFits == {<<"k1", "g1">>, <<"k2", "g1">>, <<"k2", "g2">>}

Tree == INSTANCE ProcessTree WITH pc <- treePc, pending <- treePending
Console == INSTANCE ConsoleDelivery WITH receipt <- consoleReceipt
Cases == INSTANCE BatchCases WITH
  Requests <- MCRequests, Fits <- MCFits, pc <- casePc, pending <- casePending,
  Owner <- CaseOwner, receipt <- caseReceipt

\* What the variables of a component are, and stay, while it is not in focus.
Off(value) == value = "off"
Stays(value) == value' = value

TreeAll(P(_)) ==
  /\ P(proc) /\ P(births) /\ P(pipe) /\ P(treePc) /\ P(use) /\ P(treePending)
  /\ P(cursor) /\ P(table) /\ P(changed) /\ P(busy) /\ P(seen) /\ P(identities)
  /\ P(excluded) /\ P(targets) /\ P(aim) /\ P(pidfd) /\ P(hit)
ConsoleAll(P(_)) ==
  /\ P(console) /\ P(journal) /\ P(started) /\ P(sup) /\ P(publishers)
  /\ P(barriers) /\ P(initial) /\ P(request) /\ P(final) /\ P(consoleReceipt)
  /\ P(wpc) /\ P(stopping) /\ P(limits) /\ P(offsets) /\ P(position)
  /\ P(discard) /\ P(sink) /\ P(server) /\ P(repeated)
CasesAll(P(_)) ==
  /\ P(asked) /\ P(store) /\ P(draft) /\ P(casePc) /\ P(casePending) /\ P(hand)
  /\ P(active) /\ P(completed) /\ P(unavailable) /\ P(results) /\ P(gpu)
  /\ P(case) /\ P(tree) /\ P(caseReceipt) /\ P(saves)

Init ==
  /\ focus \in {"tree", "console", "cases"}
  /\ IF focus = "tree" THEN Tree!Init ELSE TreeAll(Off)
  /\ IF focus = "console" THEN Console!Init ELSE ConsoleAll(Off)
  /\ IF focus = "cases" THEN Cases!Init ELSE CasesAll(Off)

Alone ==
  /\ UNCHANGED focus
  /\ IF focus = "tree" THEN TRUE ELSE TreeAll(Stays)
  /\ IF focus = "console" THEN TRUE ELSE ConsoleAll(Stays)
  /\ IF focus = "cases" THEN TRUE ELSE CasesAll(Stays)

Next ==
  \/ focus = "tree" /\ Tree!Cleanup /\ Alone
  \/ focus = "tree" /\ Tree!Kernel /\ Alone
  \/ focus = "console" /\ Console!Worker /\ Alone
  \/ focus = "console" /\ Console!Write /\ Alone
  \/ focus = "console" /\ Console!Owner /\ Alone
  \/ focus = "cases" /\ Cases!Next /\ Alone

treeVars == Tree!vars
consoleVars == Console!vars
casesVars == Cases!vars
vars == <<focus, treeVars, consoleVars, casesVars>>

\* The fairness of ProcessTree.Patience, ConsoleDelivery.Healthy, BatchCases.FairSpec.
TreeFair ==
  /\ WF_treeVars(focus = "tree" /\ Tree!Cleanup)
  /\ SF_treeVars(focus = "tree" /\ Tree!Kills)
  /\ \A p \in Pids : SF_treeVars(focus = "tree" /\ pidfd = Tree!Id(p) /\ Tree!Exit(p))
ConsoleFair ==
  /\ WF_consoleVars(focus = "console" /\ Console!Worker)
  /\ WF_consoleVars(focus = "console" /\ Console!BarrierAcked)
  /\ WF_consoleVars(focus = "console" /\ Console!FinishAcked)
CasesFair ==
  \A c \in Commands :
    /\ WF_casesVars(focus = "cases" /\ Cases!Schedules(c))
    /\ \A k \in Keys : WF_casesVars(focus = "cases" /\ Cases!Case(c, k))

Spec == Init /\ [][Next]_vars /\ TreeFair /\ ConsoleFair /\ CasesFair

-----------------------------------------------------------------------------
\* Once births stop every survivor is found and dies (ProcessTree).
Converges == focus = "tree" => Tree!Converges
\* A healthy worker answers every barrier and every finish, other writers or not (ConsoleDelivery).
EveryRequestAnswered == focus = "console" => Console!EveryRequestAnswered
\* A command ends, and then with a result for every key it was asked (BatchCases).
Ends == \A c \in Commands : <>(focus = "cases" => Cases!Ended(c))
=============================================================================
