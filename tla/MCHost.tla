------------------------------- MODULE MCHost -------------------------------
(***************************************************************************)
(* The processes of one machine and what they share on its disks: ten      *)
(* components that share no state here, each explored alone.  A behaviour  *)
(* is about the component in focus; the variables of the others are off.   *)
(***************************************************************************)
EXTENDS Naturals, Sequences, FiniteSets, TLC

CONSTANTS
  Procs,                           \* commands that share a store
  Paths, Base, Fold, Boxes, Unusable, NoBox, MaxRows,  \* DatasetRecords
  Formats, MaxEdits,               \* DatasetCache
  SharedFiles, Linked, Foreign, MaxWrites,  \* Deduplication
  MaxKills,                        \* AssetStore, ViewerDataset
  Requests, Source, MaxPasses,     \* CataloguePreparation
  Publications, Publication, Runs, None,  \* ViewerDataset
  Helpers, Worker, MaxLooks,       \* ViewerWorker
  Clients, Connections, Workers,   \* DocumentationServer
  World, Lines,                    \* TrainingRanks
  Script, Scalars                  \* TrainingRelay

ASSUME HostAssumption ==
  /\ "nobody" \notin Procs
  /\ MaxEdits \in Nat \ {0}
  /\ None \notin Publications /\ \A p \in Publications : Publication[p].run \in Runs
  /\ World \in Nat \ {0} /\ Lines \in Nat
  /\ Script \in Seq(STRING) \ {<<>>} /\ Scalars \subseteq DOMAIN Script

VARIABLES
  focus,  \* the component a behaviour is about
  rows, stage, format, files,
  csv, links, entries, staging, holder, cachePc, request, cacheSource, identity,
  served,
  bytes, stamp, owner, snapshot, todo, firsts, dedupSource, dest, temp, dedupPc,
  dedupResult, clones, writes, dedupLate,
  file, ref, assetLock, assetPc, want, mode, eye, hidden, routes, broken,
  assetKills,
  catalogueReceipt, latest, catalogueLock, tree, checkpoint, described,
  cataloguePc, automatic, tried, passes,
  viewerPc, info, exists, saved, samples, overlays, evals, viewerLock,
  viewerKills,
  helperPc, phase, attached, gate, helperLate, helperInterrupted, alive,
  helperStatus, stubborn, known, helperResult, looks, error, scratch, outcome,
  main, turn, docsThread, free, slots, sockets, leader, children, processes,
  directories, closed, docsPending, stopped, strays,
  rank, child, ranksReceipt, written, trees, codes, relayed, handled, unstopped, ranksStatus,
  ranksInterrupted, unverified, ranksPc,
  journal, ranks, ddp, captured, stop, relayThread, payload, offset,
  relayPending, consumed, scalars, dispatched, pipeline, kept, relayPc, warned

\* DatasetRecords: two paths of one name, and a third whose name differs by case.
MCBase == [xa |-> "a", ya |-> "a", xj |-> "A"]
MCFold == [a |-> "a", A |-> "a"]

\* ViewerDataset: two publications of one run, and three of another that disagree
\* on where its images are and what was evaluated.
MCRows ==
  {[name |-> "a", path |-> "a", split |-> "val"], [name |-> "b", path |-> "b", split |-> "test"]}
MCMoved ==
  {[name |-> "a", path |-> "x", split |-> "val"], [name |-> "b", path |-> "y", split |-> "test"]}
MCScored(s, i) == [split |-> s, images |-> {i}]
MCRequest(r, images, scores) ==
  [run |-> r, rows |-> images, predictions |-> {"a"}, evaluations |-> scores]
MCPublication ==
  [p1 |-> MCRequest("r1", MCRows, {MCScored("val", "a"), MCScored("test", "b")}),
   p2 |-> MCRequest("r1", MCRows, {MCScored("val", "a")}),
   p3 |-> MCRequest("r2", MCRows, {}),
   p4 |-> MCRequest("r2", MCMoved, {}),
   p5 |-> MCRequest("r2", MCRows, {MCScored("val", "b")})]

\* TrainingRelay: the callbacks of a training with one epoch.
MCScript == <<"pretrain", "epoch", "val", "fit", "end">>

Records == INSTANCE DatasetRecords WITH
  Splits <- {"train", "val"}, Formats <- {"ndjson", "flat", "coco"}
Cache == INSTANCE DatasetCache WITH pc <- cachePc, source <- cacheSource
Dedup == INSTANCE Deduplication WITH
  Files <- SharedFiles,
  source <- dedupSource, pc <- dedupPc, result <- dedupResult, late <- dedupLate
Asset == INSTANCE AssetStore WITH
  lock <- assetLock, pc <- assetPc, kills <- assetKills
Catalogue == INSTANCE CataloguePreparation WITH
  receipt <- catalogueReceipt, lock <- catalogueLock, pc <- cataloguePc
Viewer == INSTANCE ViewerDataset WITH
  Request <- Publication, pc <- viewerPc, lock <- viewerLock, kills <- viewerKills
Helper == INSTANCE ViewerWorker WITH
  pc <- helperPc, late <- helperLate, interrupted <- helperInterrupted,
  status <- helperStatus, result <- helperResult
Docs == INSTANCE DocumentationServer WITH
  Requests <- Clients, thread <- docsThread, pending <- docsPending
Ranks == INSTANCE TrainingRanks WITH
  receipt <- ranksReceipt, status <- ranksStatus,
  interrupted <- ranksInterrupted, pc <- ranksPc
Relay == INSTANCE TrainingRelay WITH
  thread <- relayThread, pending <- relayPending,
  pc <- relayPc

\* What the variables of a component are, and stay, while it is not in focus.
Off(value) == value = "off"
Stays(value) == value' = value

RecordsAll(P(_)) ==
  /\ P(rows) /\ P(stage) /\ P(format) /\ P(files)
CacheAll(P(_)) ==
  /\ P(csv) /\ P(links) /\ P(entries) /\ P(staging) /\ P(holder) /\ P(cachePc)
  /\ P(request) /\ P(cacheSource) /\ P(identity) /\ P(served)
DedupAll(P(_)) ==
  /\ P(bytes) /\ P(stamp) /\ P(owner) /\ P(snapshot) /\ P(todo) /\ P(firsts)
  /\ P(dedupSource) /\ P(dest) /\ P(temp) /\ P(dedupPc) /\ P(dedupResult)
  /\ P(clones) /\ P(writes) /\ P(dedupLate)
AssetAll(P(_)) ==
  /\ P(file) /\ P(ref) /\ P(assetLock) /\ P(assetPc) /\ P(want) /\ P(mode)
  /\ P(eye) /\ P(hidden) /\ P(routes) /\ P(broken) /\ P(assetKills)
CatalogueAll(P(_)) ==
  /\ P(catalogueReceipt) /\ P(latest) /\ P(catalogueLock) /\ P(tree)
  /\ P(checkpoint) /\ P(described) /\ P(cataloguePc) /\ P(automatic) /\ P(tried)
  /\ P(passes)
ViewerAll(P(_)) ==
  /\ P(viewerPc) /\ P(info) /\ P(exists) /\ P(saved) /\ P(samples)
  /\ P(overlays) /\ P(evals) /\ P(viewerLock) /\ P(viewerKills)
HelperAll(P(_)) ==
  /\ P(helperPc) /\ P(phase) /\ P(attached) /\ P(gate) /\ P(helperLate)
  /\ P(helperInterrupted) /\ P(alive) /\ P(helperStatus) /\ P(stubborn)
  /\ P(known) /\ P(helperResult) /\ P(looks) /\ P(error) /\ P(scratch)
  /\ P(outcome)
DocsAll(P(_)) ==
  /\ P(main) /\ P(turn) /\ P(docsThread) /\ P(free) /\ P(slots) /\ P(sockets)
  /\ P(leader) /\ P(children) /\ P(processes) /\ P(directories) /\ P(closed)
  /\ P(docsPending) /\ P(stopped) /\ P(strays)
RanksAll(P(_)) ==
  /\ P(rank) /\ P(child) /\ P(ranksReceipt) /\ P(written) /\ P(trees)
  /\ P(codes) /\ P(relayed) /\ P(handled) /\ P(unstopped) /\ P(ranksStatus)
  /\ P(ranksInterrupted)
  /\ P(unverified) /\ P(ranksPc)
RelayAll(P(_)) ==
  /\ P(journal) /\ P(ranks) /\ P(ddp) /\ P(captured) /\ P(stop)
  /\ P(relayThread) /\ P(payload) /\ P(offset) /\ P(relayPending) /\ P(consumed)
  /\ P(scalars) /\ P(dispatched) /\ P(pipeline) /\ P(kept) /\ P(relayPc)
  /\ P(warned)

Init ==
  /\ focus \in
       {"records", "datasets", "deduplication", "assets", "catalogue", "viewer",
        "viewer worker", "documentation", "ranks", "relay"}
  /\ IF focus = "records" THEN Records!Init ELSE RecordsAll(Off)
  /\ IF focus = "datasets" THEN Cache!Init ELSE CacheAll(Off)
  /\ IF focus = "deduplication" THEN Dedup!Init ELSE DedupAll(Off)
  /\ IF focus = "assets" THEN Asset!Init ELSE AssetAll(Off)
  /\ IF focus = "catalogue" THEN Catalogue!Init ELSE CatalogueAll(Off)
  /\ IF focus = "viewer" THEN Viewer!Init ELSE ViewerAll(Off)
  /\ IF focus = "viewer worker" THEN Helper!Init ELSE HelperAll(Off)
  /\ IF focus = "documentation" THEN Docs!Init ELSE DocsAll(Off)
  /\ IF focus = "ranks" THEN Ranks!Init ELSE RanksAll(Off)
  /\ IF focus = "relay" THEN Relay!Init ELSE RelayAll(Off)

Alone ==
  /\ UNCHANGED focus
  /\ IF focus = "records" THEN TRUE ELSE RecordsAll(Stays)
  /\ IF focus = "datasets" THEN TRUE ELSE CacheAll(Stays)
  /\ IF focus = "deduplication" THEN TRUE ELSE DedupAll(Stays)
  /\ IF focus = "assets" THEN TRUE ELSE AssetAll(Stays)
  /\ IF focus = "catalogue" THEN TRUE ELSE CatalogueAll(Stays)
  /\ IF focus = "viewer" THEN TRUE ELSE ViewerAll(Stays)
  /\ IF focus = "viewer worker" THEN TRUE ELSE HelperAll(Stays)
  /\ IF focus = "documentation" THEN TRUE ELSE DocsAll(Stays)
  /\ IF focus = "ranks" THEN TRUE ELSE RanksAll(Stays)
  /\ IF focus = "relay" THEN TRUE ELSE RelayAll(Stays)

Next ==
  \/ focus = "records" /\ Records!Next /\ Alone
  \/ focus = "datasets" /\ Cache!Next /\ Alone
  \/ focus = "deduplication" /\ Dedup!Next /\ Alone
  \/ focus = "assets" /\ Asset!Next /\ Alone
  \/ focus = "catalogue" /\ Catalogue!Next /\ Alone
  \/ focus = "viewer" /\ Viewer!Next /\ Alone
  \/ focus = "viewer worker" /\ Helper!Next /\ Alone
  \/ focus = "documentation" /\ Docs!Next /\ Alone
  \/ focus = "ranks" /\ Ranks!Next /\ Alone
  \/ focus = "relay" /\ Relay!Next /\ Alone

vars == <<focus, Records!vars, Cache!vars, Dedup!vars, Asset!vars, Catalogue!vars,
          Viewer!vars, Helper!vars, Docs!vars, Ranks!vars, Relay!vars>>

Spec == Init /\ [][Next]_vars

Symmetry == Permutations(Procs)

-----------------------------------------------------------------------------
\* Every image is in the dataset once, under its own name (DatasetRecords).
Membership == focus = "records" => Records!Membership
\* A served dataset is whole and of its source (DatasetCache).
ServedWhole == focus = "datasets" => Cache!ServedWhole
\* Deduplication changes no file's bytes (Deduplication).
BytesKept == focus = "deduplication" => Dedup!BytesKept
\* An asset that is handed out loads (AssetStore).
Usable == focus = "assets" => Asset!Usable
\* A receipt is earned by a preparation that ended (CataloguePreparation).
ReceiptEarned == focus = "catalogue" => Catalogue!ReceiptEarned
\* A run in the viewer is one publication, whole (ViewerDataset).
RunWhole == focus = "viewer" => Viewer!RunWhole
\* Nothing of a viewer worker uses its scratch directory after it (ViewerWorker).
ScratchSafe == focus = "viewer worker" => Helper!ScratchSafe
\* A preview leaves nothing behind (DocumentationServer).
Disposable == focus = "documentation" => Docs!Disposable
\* Ranks succeed, and end, together (TrainingRanks).
GroupWhole == focus = "ranks" => Ranks!GroupWhole
\* What the ranks reported is replayed once and in order (TrainingRelay).
ReplayedOnce == focus = "relay" => Relay!ReplayedOnce
=============================================================================
