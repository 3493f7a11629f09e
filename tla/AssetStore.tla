----------------------------- MODULE AssetStore -----------------------------
(***************************************************************************)
(* Pretrained assets in shared caches: adapters/assets (resolver.py,       *)
(* hub.py, bundles.py, execution.py).  A process wants one flat file or    *)
(* one Hub snapshot.  Execution may download it from its source, the       *)
(* preparation of the catalogue only from the pinned project release       *)
(* (a tar archive).  The flat file belongs to a native cache; it may have  *)
(* a copy elsewhere.  File locks are gone with their process.              *)
(*                                                                         *)
(* A file is missing, good, or bad: whatever its validator refuses.  A Hub *)
(* snapshot has a preferred and a second representation of the weights and *)
(* a configuration; it is visible once refs names its commit.  The files   *)
(* may be in any state at first; what a Hub download brings is in the      *)
(* cache before anybody validates it.  MaxKills bounds the kills.          *)
(***************************************************************************)
EXTENDS Naturals, FiniteSets, Sequences

CONSTANTS Procs, MaxKills

VARIABLES
  file,    \* the files of the caches
  ref,     \* refs of the Hub repository names the commit
  lock,    \* who holds the lock of the destination, the repository, the archive
  pc, want, mode,
  eye,     \* what a look without the lock reads next
  hidden,  \* those over whose look a corrupt representation appeared
  routes,  \* downloads left to try: Hub endpoints and files, or urls
  broken,  \* the representations found corrupt before downloading
  kills

vars == <<file, ref, lock, pc, want, mode, eye, hidden, routes, broken, kills>>

Preferred == "safetensors"
Second == "bin"
Weights == {Preferred, Second}
Files == {"flat", "elsewhere", "archive", "legacy", "config"} \union Weights
Nobody == "nobody"

Init ==
  /\ file \in [Files -> {"missing", "good", "bad"}]
  /\ \A f \in {"legacy", "elsewhere", "archive"} : file[f] # "bad"
  /\ \/ file["flat"] = "missing" /\ file["elsewhere"] = "missing"
     \/ \A f \in Weights \union {"config", "legacy"} : file[f] = "missing"
  /\ ref \in BOOLEAN
  /\ lock = [l \in {"flat", "hub", "archive"} |-> Nobody]
  /\ pc = [p \in Procs |-> "start"]
  /\ want = [p \in Procs |-> "none"] /\ mode = [p \in Procs |-> "none"]
  /\ eye = [p \in Procs |-> Preferred] /\ hidden = {}
  /\ routes = [p \in Procs |-> <<>>] /\ broken = [p \in Procs |-> {}] /\ kills = 0

At(p, place) == pc[p] = place
Goto(p, place) == pc' = [pc EXCEPT ![p] = place]
Holding(p) == [l \in DOMAIN lock |-> IF lock[l] = p THEN Nobody ELSE lock[l]]
Move(p, place) == Goto(p, place) /\ UNCHANGED <<lock, routes, broken>>
\* Leaves the locks the process holds, and what it found out under them.
Leave(p, place) ==
  /\ Goto(p, place) /\ lock' = Holding(p)
  /\ routes' = [routes EXCEPT ![p] = <<>>] /\ broken' = [broken EXCEPT ![p] = {}]
\* The route failed: the next one, if there is one.
NextRoute(p, place) ==
  \/ Len(routes[p]) = 1 /\ Leave(p, "failed")
  \/ /\ Len(routes[p]) > 1 /\ Goto(p, place)
     /\ routes' = [routes EXCEPT ![p] = Tail(@)] /\ UNCHANGED <<lock, broken>>
Put(f, state) == file' = [file EXCEPT ![f] = state]
Keeps == UNCHANGED <<want, mode, eye, kills>>
Still == UNCHANGED <<file, ref, hidden>>

\* _requests of an execution, the catalogue of a preparation.
Begin(p) ==
  /\ At(p, "start") /\ Goto(p, "look")
  /\ \E w \in {"flat", "hub"}, m \in {"execution", "preparation"} :
       want' = [want EXCEPT ![p] = w] /\ mode' = [mode EXCEPT ![p] = m]
  /\ UNCHANGED <<lock, eye, routes, broken, kills>> /\ Still

---------------------------------------------------------------------------
(***************************************************************************)
(* _cached: the first representation that validates, unless one before it  *)
(* is there and does not: native loading would choose that one.            *)
(***************************************************************************)
Cached ==
  /\ ref
  /\ \/ file[Preferred] = "good"
     \/ file[Preferred] = "missing" /\ file[Second] = "good"
Corrupt == {f \in Weights : ref /\ file[f] = "bad"}
Repaired == file["config"] = "good"

\* Two urls, a mirror and the original, and two attempts each.
UrlRoutes == [i \in 1 .. 4 |-> <<IF i < 3 THEN "mirror" ELSE "original", "file">>]

\* What a process asks the cache while it holds the lock.
Ready(w) == IF w = "hub" THEN Cached /\ Repaired ELSE file["flat"] = "good"
LocalOnly(p) == mode[p] = "preparation"

---------------------------------------------------------------------------
(* The same without the lock, one file after the other: _resolve_hub_asset *)
(* and resolve_asset at first ("look"), _seed before it downloads ("seed"),*)
(* and _prepare_asset after it ("again").                                  *)

Seen(p) ==
  IF want[p] = "flat" THEN file["flat"]
  ELSE IF ref \/ eye[p] = "config" THEN file[eye[p]] ELSE "missing"
PassOver(p) == want[p] = "hub" /\ eye[p] = Preferred /\ Seen(p) = "missing"

GoOn(p, next) == eye' = [eye EXCEPT ![p] = next] /\ UNCHANGED <<pc, hidden>>
Answer(p, place) ==
  /\ Goto(p, place) /\ eye' = [eye EXCEPT ![p] = Preferred]
  /\ hidden' = IF place = "found" THEN hidden ELSE hidden \ {p}

Found(p) == Answer(p, IF At(p, "seed") THEN "again" ELSE "found")
NotFound(p) ==
  Answer(p, CASE At(p, "look") /\ want[p] = "hub" /\ LocalOnly(p) -> "seed"
              [] At(p, "look") /\ ~(want[p] = "hub" /\ LocalOnly(p)) -> "lock"
              [] At(p, "seed") -> "download"
              [] At(p, "again") -> "failed")

Look(p) ==
  /\ pc[p] \in {"look", "seed", "again"}
  /\ \/ PassOver(p) /\ GoOn(p, Second)
     \/ Seen(p) = "good" /\ want[p] = "hub" /\ eye[p] # "config" /\ GoOn(p, "config")
     \/ Seen(p) = "good" /\ (want[p] = "flat" \/ eye[p] = "config") /\ Found(p)
     \/ Seen(p) # "good" /\ ~PassOver(p) /\ NotFound(p)
  /\ UNCHANGED <<file, ref, lock, want, mode, routes, broken, kills>>

\* A representation becomes corrupt over looks that have read something.
Appears ==
  hidden' = IF Corrupt' \subseteq Corrupt THEN hidden
            ELSE hidden \union {p \in Procs : eye[p] # Preferred \/ At(p, "found")}

Lock(p) ==
  /\ At(p, "lock") /\ lock[want[p]] = Nobody
  /\ lock' = [lock EXCEPT ![want[p]] = p] /\ Goto(p, want[p])
  /\ UNCHANGED <<routes, broken>> /\ Still /\ Keeps

---------------------------------------------------------------------------
\* resolve_asset under its lock: a valid copy elsewhere is promoted.
Flat(p) ==
  /\ At(p, "flat")
  /\ \/ file["flat"] = "good" /\ Leave(p, "returned") /\ UNCHANGED file
     \/ /\ file["flat"] # "good" /\ file["elsewhere"] = "good"
        /\ Put("flat", "good") /\ Leave(p, "returned")
     \/ /\ file["flat"] # "good" /\ file["elsewhere"] # "good" /\ UNCHANGED file
        /\ IF LocalOnly(p) THEN Leave(p, "seed")
           ELSE /\ Goto(p, "fetch") /\ routes' = [routes EXCEPT ![p] = UrlRoutes]
                /\ UNCHANGED <<lock, broken>>
  /\ UNCHANGED <<ref, hidden>> /\ Keeps

\* Faulty variant: what was downloaded is not validated.
ArrivedBlindly(state) == state # "missing"
\* _retrieve: only a validated staging file replaces the destination.
Arrived(state) == state = "good"
Fetch(p) ==
  /\ At(p, "fetch")
  /\ \E state \in {"missing", "good", "bad"} :
       IF Arrived(state) THEN Put("flat", state) /\ Leave(p, "returned")
       ELSE UNCHANGED file /\ NextRoute(p, "fetch")
  /\ UNCHANGED <<ref, hidden>> /\ Keeps

---------------------------------------------------------------------------
\* Every endpoint, and for each every representation, the preferred one first.
HubRoutes ==
  <<<<"configured", Preferred>>, <<"configured", Second>>, <<"public", Preferred>>,
    <<"public", Second>>>>

\* _resolve_hub_asset under its lock.
Hub(p) ==
  /\ At(p, "hub")
  /\ \/ Cached /\ Repaired /\ Leave(p, "returned")
     \/ Cached /\ ~Repaired /\ Move(p, "repair")
     \/ /\ ~Cached /\ Goto(p, "promote")
        /\ broken' = [broken EXCEPT ![p] = Corrupt] /\ UNCHANGED <<lock, routes>>
  /\ Still /\ Keeps

\* _promote: a legacy file is published under native metadata as blob and
\* snapshot, then its ref; its configuration comes along when it has one.
PromoteFile(p) ==
  /\ At(p, "promote")
  /\ \/ \E f \in Weights : file["legacy"] = "good" /\ Put(f, "good") /\ Goto(p, "promoteRef")
     \/ Goto(p, "retrieve") /\ UNCHANGED file
  /\ routes' = [routes EXCEPT ![p] = HubRoutes]
  /\ UNCHANGED <<ref, hidden, lock, broken>> /\ Keeps

PromoteRef(p) ==
  /\ At(p, "promoteRef")
  /\ ref' = TRUE
  /\ \E state \in {file["config"], "good"} : Put("config", state)
  /\ \/ Cached' /\ Repaired' /\ Leave(p, "returned")
     \/ Cached' /\ ~Repaired' /\ Move(p, "repair")
     \/ ~Cached' /\ Move(p, "retrieve")
  /\ Appears /\ Keeps

\* _config: a valid one is kept; a download may fail, or bring one that is refused.
Configured == IF Repaired THEN {"good"} ELSE {file["config"], "good", "bad"}

\* _repair_config, endpoint after endpoint.
Repair(p) ==
  /\ At(p, "repair")
  /\ \E state \in Configured :
       Put("config", state) /\ Leave(p, IF state = "good" THEN "returned" ELSE "failed")
  /\ UNCHANGED <<ref, hidden>> /\ Keeps

(***************************************************************************)
(* _retrieve_one.  hf_hub_download keeps a file that is there, unless it   *)
(* was found corrupt before; it may name the commit and fail then; and     *)
(* what it brings stays in the cache although _record refuses it.          *)
(***************************************************************************)
Downloaded(p, f) == IF f \in broken[p] \/ file[f] = "missing" THEN {"good", "bad"} ELSE {file[f]}
Retrieve(p) ==
  /\ At(p, "retrieve")
  /\ LET f == routes[p][1][2]
     IN \/ UNCHANGED file /\ ref' \in {ref, TRUE} /\ NextRoute(p, "retrieve")
        \/ /\ \E state \in Downloaded(p, f) : Put(f, state)
           /\ ref' = TRUE
           /\ IF file'[f] = "good" THEN Move(p, "configure") ELSE NextRoute(p, "retrieve")
  /\ Appears /\ Keeps

Configure(p) ==
  /\ At(p, "configure")
  /\ \E state \in Configured :
       /\ Put("config", state)
       /\ IF state = "good" THEN Move(p, "confirm") ELSE NextRoute(p, "retrieve")
  /\ UNCHANGED <<ref, hidden>> /\ Keeps

\* _ready: the preferred representation may still be corrupt.
Confirm(p) ==
  /\ At(p, "confirm")
  /\ IF Cached THEN Leave(p, "returned") ELSE NextRoute(p, "retrieve")
  /\ Still /\ Keeps

---------------------------------------------------------------------------
\* seed_bundle_asset: what is not there comes from the archive, under its lock.
Seed(p) ==
  /\ At(p, "download") /\ lock["archive"] = Nobody /\ Goto(p, "archive")
  /\ lock' = [lock EXCEPT !["archive"] = p]
  /\ routes' = [routes EXCEPT ![p] = UrlRoutes]
  /\ UNCHANGED broken /\ Still /\ Keeps

\* _archive_path: size and digest of the pinned archive.
Archive(p) ==
  /\ At(p, "archive")
  /\ \/ file["archive"] = "good" /\ Leave(p, "restore") /\ UNCHANGED file
     \/ file["archive"] # "good" /\ Put("archive", "good") /\ Leave(p, "restore")
     \/ file["archive"] # "good" /\ UNCHANGED file /\ NextRoute(p, "archive")
  /\ UNCHANGED <<ref, hidden>> /\ Keeps

\* The members are copied to scratch and verified, then published under the lock
\* of the destination, or as configuration, weights and ref of a snapshot.
Restore(p) ==
  /\ At(p, "restore") /\ lock[want[p]] = Nobody
  /\ lock' = [lock EXCEPT ![want[p]] = p]
  /\ \/ Ready(want[p]) /\ Goto(p, "restored") /\ UNCHANGED file
     \/ ~Ready("flat") /\ want[p] = "flat" /\ Put("flat", "good") /\ Goto(p, "restored")
     \/ ~Ready("hub") /\ want[p] = "hub" /\ Put("config", "good") /\ Goto(p, "restoreWeights")
  /\ UNCHANGED <<ref, hidden, routes, broken>> /\ Keeps

RestoreWeights(p) ==
  /\ At(p, "restoreWeights") /\ Move(p, "restoreRef")
  /\ \E f \in Weights : Put(f, "good")
  /\ UNCHANGED <<ref, hidden>> /\ Keeps

RestoreRef(p) ==
  /\ At(p, "restoreRef") /\ ref' = TRUE /\ Leave(p, "again")
  /\ UNCHANGED file /\ Appears /\ Keeps

Restored(p) == At(p, "restored") /\ Leave(p, "again") /\ Still /\ Keeps

\* Any I/O error on the way, or a lock that times out.
Fail(p) ==
  /\ pc[p] \in {"lock", "flat", "hub", "promoteRef", "download", "restore", "restoreWeights",
                "restoreRef"}
  /\ Leave(p, "failed") /\ Still /\ Keeps

Kill(p) ==
  /\ kills < MaxKills /\ kills' = kills + 1
  /\ pc[p] \notin {"start", "found", "returned", "failed"} /\ Leave(p, "failed")
  /\ eye' = [eye EXCEPT ![p] = Preferred]
  /\ UNCHANGED <<want, mode>> /\ Still

Step(p) ==
  \/ Begin(p) \/ Look(p) \/ Lock(p) \/ Flat(p) \/ Fetch(p) \/ Hub(p) \/ PromoteFile(p)
  \/ PromoteRef(p) \/ Repair(p) \/ Retrieve(p) \/ Configure(p) \/ Confirm(p)
  \/ Seed(p) \/ Archive(p) \/ Restore(p) \/ RestoreWeights(p) \/ RestoreRef(p) \/ Restored(p)
  \/ Fail(p) \/ Kill(p)

Next == \E p \in Procs : Step(p)

Spec == Init /\ [][Next]_vars

---------------------------------------------------------------------------
(***************************************************************************)
(* Whatever earlier and other processes leave, killed or not: an asset     *)
(* that is handed over is the one native loading will choose, it is valid  *)
(* and its configuration is there.  The one exception is an asset found    *)
(* without the lock over which a corrupt representation appeared after     *)
(* the look began: a refused download stays in the cache (hub.py:559),     *)
(* and nobody looks again.  What was taken under the lock has none.        *)
(***************************************************************************)
Chosen == IF file[Preferred] # "missing" THEN Preferred ELSE Second
Usable ==
  \A p \in Procs : At(p, "returned") \/ (At(p, "found") /\ p \notin hidden) =>
    IF want[p] = "hub" THEN ref /\ file[Chosen] = "good" /\ file["config"] = "good"
    ELSE file["flat"] = "good"
=============================================================================
