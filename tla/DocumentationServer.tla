------------------------ MODULE DocumentationServer ------------------------
(***************************************************************************)
(* The documentation server (adapters/documentation/server.py) and its     *)
(* disposable preview workers (worker.py): a thread per connection, a      *)
(* process group per preview, and a main thread that ends them all.        *)
(*                                                                         *)
(* One request comes over one connection.  Whatever holds the lock of      *)
(* PreviewWorkers is one step.  An interruption ends the server; a second  *)
(* one while it closes is not modelled.  Connections and Workers are the   *)
(* permits of the two semaphores.                                          *)
(***************************************************************************)
EXTENDS Naturals, FiniteSets

CONSTANTS Requests, Connections, Workers

VARIABLES
  main,                     \* "serve", "server close", "mark", "release", "ended"
  turn,                     \* the connection the main thread has accepted
  thread,                   \* per request
  free, slots,              \* _connections, _slots
  sockets,                  \* _sockets
  leader, children,         \* the group of a worker
  processes, directories,   \* _processes; the directories that exist
  closed, pending, stopped, \* close(): what is left, and what of it is stopped
  strays                    \* signals to groups that were not owned any more

pool == <<free, slots, sockets>>
group == <<leader, children>>
held == <<processes, directories>>
ending == <<closed, pending, stopped>>
vars == <<main, turn, thread, pool, group, held, ending, strays>>

Init ==
  /\ main = "serve" /\ turn = {} /\ thread = [r \in Requests |-> "none"]
  /\ free = Connections /\ slots = Workers /\ sockets = {}
  /\ leader = [r \in Requests |-> "none"] /\ children = {}
  /\ processes = {} /\ directories = {}
  /\ closed = FALSE /\ pending = {} /\ stopped = {} /\ strays = {}

\* Threads are daemons: they do not outlive the process.
Goes(r, from, to) ==
  main # "ended" /\ thread[r] = from /\ thread' = [thread EXCEPT ![r] = to]

\* get_request.
GetRequest(r) ==
  /\ main = "serve" /\ turn = {} /\ thread[r] = "none"
  /\ turn' = {r} /\ sockets' = sockets \union {r}
  /\ UNCHANGED <<main, thread, free, slots, group, held, ending, strays>>

\* process_request: no permit, or no thread, and the connection is refused.
ProcessRequest(r) ==
  /\ main = "serve" /\ turn = {r} /\ turn' = {}
  /\ \/ free > 0 /\ Goes(r, "none", "open") /\ free' = free - 1 /\ UNCHANGED sockets
     \/ Goes(r, "none", "gone") /\ sockets' = sockets \ {r} /\ UNCHANGED free
  /\ UNCHANGED <<main, slots, group, held, ending, strays>>

\* do_GET, and whatever is wrong with a request, ends it; do_POST asks for a
\* preview.
Parse(r) ==
  /\ Goes(r, "open", "answered") \/ (r \in sockets /\ Goes(r, "open", "asked"))
  /\ UNCHANGED <<main, turn, pool, group, held, ending, strays>>

Acquire(r) ==
  /\ \/ slots > 0 /\ Goes(r, "asked", "slot") /\ slots' = slots - 1
     \/ slots = 0 /\ Goes(r, "asked", "answered") /\ UNCHANGED slots
  /\ UNCHANGED <<main, turn, free, sockets, group, held, ending, strays>>

\* _run: under the lock no worker starts once the server is closing.
Opened == ~closed
OpenedAlways == TRUE
MayStart == Opened

StartWorker(r) ==
  /\ MayStart /\ Goes(r, "slot", "talk")
  /\ leader' = [leader EXCEPT ![r] = "alive"]
  /\ processes' = processes \union {r} /\ directories' = directories \union {r}
  /\ UNCHANGED <<main, turn, pool, children, ending, strays>>

StartFails(r) ==
  /\ Goes(r, "slot", "freed")
  /\ UNCHANGED <<main, turn, pool, group, held, ending, strays>>

\* The worker forks, and exits before its children do.
WorkerForks(r) ==
  /\ leader[r] = "alive" /\ r \notin children
  /\ children' = children \union {r}
  /\ UNCHANGED <<main, turn, thread, pool, leader, held, ending, strays>>

WorkerExits(r) ==
  /\ leader[r] = "alive" /\ leader' = [leader EXCEPT ![r] = "exited"]
  /\ UNCHANGED <<main, turn, thread, pool, children, held, ending, strays>>

\* _communicate_bounded: the streams end, or a limit or the deadline does.
Communicate(r) ==
  /\ Goes(r, "talk", "wait") \/ Goes(r, "talk", "stop")
  /\ UNCHANGED <<main, turn, pool, group, held, ending, strays>>

\* killpg and wait: a number that has been reaped names another group.
KillGroup(r) ==
  /\ strays' = IF leader[r] = "reaped" THEN strays \union {r} ELSE strays
  /\ children' = children \ {r} /\ leader' = [leader EXCEPT ![r] = "reaped"]

\* _wait_worker: the exit is seen without reaping, and the group is ended
\* before its number is given up; or the deadline passes.
EndExited(r) == KillGroup(r)
WaitWorker(r) ==
  \/ /\ leader[r] = "reaped" /\ Goes(r, "wait", "stop")
     /\ UNCHANGED <<main, turn, pool, group, held, ending, strays>>
  \/ /\ leader[r] = "exited" /\ EndExited(r) /\ Goes(r, "wait", "stop")
     /\ UNCHANGED <<main, turn, pool, held, ending>>
  \/ /\ leader[r] # "reaped" /\ Goes(r, "wait", "stop")
     /\ UNCHANGED <<main, turn, pool, group, held, ending, strays>>

\* _stop.
Stop(r) == IF leader[r] = "reaped" THEN UNCHANGED <<group, strays>> ELSE KillGroup(r)

ThreadStops(r) ==
  /\ Goes(r, "stop", "clean") /\ Stop(r)
  /\ UNCHANGED <<main, turn, pool, held, ending>>

\* The second half of _release.
CleanUp(r) ==
  /\ directories' = directories \ {r} /\ processes' = processes \ {r}

ThreadCleans(r) ==
  /\ Goes(r, "clean", "freed") /\ CleanUp(r)
  /\ UNCHANGED <<main, turn, pool, group, ending, strays>>

FreeSlot(r) ==
  /\ Goes(r, "freed", "answered") /\ slots' = slots + 1
  /\ UNCHANGED <<main, turn, free, sockets, group, held, ending, strays>>

\* process_request_thread: the socket is shut, then the permit returned.
ShutdownRequest(r) ==
  /\ Goes(r, "answered", "shut") /\ sockets' = sockets \ {r}
  /\ UNCHANGED <<main, turn, free, slots, group, held, ending, strays>>

Return(r) ==
  /\ Goes(r, "shut", "gone") /\ free' = free + 1
  /\ UNCHANGED <<main, turn, slots, sockets, group, held, ending, strays>>

---------------------------------------------------------------------------
Step(from, to) == main = from /\ main' = to

Interrupt ==
  /\ Step("serve", "server close")
  /\ UNCHANGED <<turn, thread, pool, group, held, ending, strays>>

ServerClose ==
  /\ Step("server close", "mark") /\ sockets' = {}
  /\ UNCHANGED <<turn, thread, free, slots, group, held, ending, strays>>

\* close: no more workers, and the present ones are released in turn.
Close ==
  /\ Step("mark", "release") /\ closed' = TRUE /\ pending' = processes
  /\ UNCHANGED <<turn, thread, pool, group, held, stopped, strays>>

Release(r) ==
  /\ main = "release" /\ r \in pending /\ stopped \subseteq {r}
  /\ IF stopped = {r}
     THEN CleanUp(r) /\ pending' = pending \ {r} /\ stopped' = {} /\ UNCHANGED <<group, strays>>
     ELSE Stop(r) /\ stopped' = {r} /\ UNCHANGED <<pending, held>>
  /\ UNCHANGED <<main, turn, thread, pool, closed>>

End ==
  /\ Step("release", "ended") /\ pending = {}
  /\ UNCHANGED <<turn, thread, pool, group, held, ending, strays>>

Next ==
  \/ Interrupt \/ ServerClose \/ Close \/ End
  \/ \E r \in Requests :
       \/ GetRequest(r) \/ ProcessRequest(r) \/ Parse(r) \/ Acquire(r)
       \/ StartWorker(r) \/ StartFails(r) \/ WorkerForks(r) \/ WorkerExits(r)
       \/ Communicate(r) \/ WaitWorker(r) \/ ThreadStops(r) \/ ThreadCleans(r)
       \/ FreeSlot(r) \/ ShutdownRequest(r) \/ Return(r) \/ Release(r)

Spec == Init /\ [][Next]_vars

---------------------------------------------------------------------------
\* A preview leaves nothing: a group is never signalled once its number has
\* been given up, no child of a worker stays when its request is done, and a
\* server that has closed leaves neither process nor directory, however its
\* threads and its main thread interleave (_run, _release, _stop, close).
Disposable ==
  /\ strays = {}
  /\ \A r \in Requests :
       thread[r] \in {"freed", "answered", "shut", "gone"} =>
         r \notin children /\ r \notin directories /\ leader[r] \in {"none", "reaped"}
  /\ main = "ended" =>
       /\ processes = {} /\ directories = {} /\ children = {}
       /\ \A r \in Requests : leader[r] \in {"none", "reaped"}
===========================================================================
