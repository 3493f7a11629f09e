---------------------------- MODULE MCHost_proofs ----------------------------
(***************************************************************************)
(* Proofs about the stores the processes of a machine share, and about the *)
(* processes a command owns on it: the worker of a viewer operation, the   *)
(* previews of the documentation server and the ranks of a distributed     *)
(* training.  Each component of MCHost has an invariant of its own, which  *)
(* its steps keep and the steps of the other components leave alone.       *)
(***************************************************************************)
EXTENDS MCHost, FiniteSetTheorems, FunctionTheorems, TLAPS

\* The component in focus steps; every other one stays as it is.
LEMMA InFocus ==
  ASSUME [Next]_vars
  PROVE  /\ focus' = focus
         /\ focus = "records" => [Records!Next]_(Records!vars)
         /\ focus = "datasets" => [Cache!Next]_(Cache!vars)
         /\ focus = "deduplication" => [Dedup!Next]_(Dedup!vars)
         /\ focus = "assets" => [Asset!Next]_(Asset!vars)
         /\ focus = "catalogue" => [Catalogue!Next]_(Catalogue!vars)
         /\ focus = "viewer" => [Viewer!Next]_(Viewer!vars)
         /\ focus = "viewer worker" => [Helper!Next]_(Helper!vars)
         /\ focus = "documentation" => [Docs!Next]_(Docs!vars)
         /\ focus = "ranks" => [Ranks!Next]_(Ranks!vars)
         /\ focus = "relay" => [Relay!Next]_(Relay!vars)
<1>1. CASE Next BY <1>1 DEF Next, Alone
<1>2. CASE UNCHANGED vars BY <1>2 DEF vars
<1> QED BY <1>1, <1>2

-----------------------------------------------------------------------------
(* A ground-truth CSV becomes a dataset (DatasetRecords) *)

\* One path and one split for a name, and one name for a path.
RecordsClaimed ==
  \A i, j \in DOMAIN rows :
    rows[i].path = rows[j].path \/ Records!Name(rows[i]) = Records!Name(rows[j]) =>
      rows[i].path = rows[j].path /\ rows[i].split = rows[j].split
\* Every image has files of its own.
RecordsExported ==
  /\ \A n \in Records!Images : \E f \in DOMAIN files : f[1] = "image" /\ files[f] = n
  /\ format # "coco" =>
       \A n \in Records!Images : \E f \in DOMAIN files : f[1] = "label" /\ files[f] = n
\* A background row is alone, and the rows of an image repeat no valid box: the
\* first is seen while rows are read, the rest when they are grouped and valid.
RecordsDistinct ==
  /\ \A i, j \in DOMAIN rows : i # j /\ Records!Background(rows[i]) => rows[i] # rows[j]
  /\ stage \in {"grouped", "valid", "exported"} =>
       \A n \in Records!Images : ~Records!Mixed(n)
  /\ stage \in {"valid", "exported"} =>
       \A n \in Records!Images : ~Records!Duplicated(n)
RecordsInv ==
  /\ rows \in Seq(Records!Row) /\ RecordsClaimed /\ RecordsDistinct
  /\ stage = "exported" => RecordsExported

\* The counter gives every image a number of its own.
LEMMA Counted ==
  ASSUME rows \in Seq(Records!Row)
  PROVE  \A m, n \in Records!Images : m # n => Records!Index[m] # Records!Index[n]
<1> DEFINE I == Records!Images
           Numbers == [I -> 1 .. Cardinality(I)]
           Apart(f) == \A m, n \in I : m # n => f[m] # f[n]
<1>1. IsFiniteSet(I)
  <2> DEFINE name == [i \in 1..Len(rows) |-> Records!Name(rows[i])]
  <2>1. I = {name[i] : i \in 1..Len(rows)}
    BY DEF Records!Images, Records!Names
  <2>2. name \in Surjection(1..Len(rows), I)
    BY <2>1 DEF Surjection
  <2>3. IsFiniteSet(1..Len(rows)) BY FS_Interval
  <2> HIDE DEF I, name
  <2> QED BY <2>2, <2>3, FS_Surjection
<1> HIDE DEF I
<1>2. ExistsBijection(I, 1 .. Cardinality(I))
  BY <1>1, FS_CardinalityType, Fun_ExistsBijSymmetric
<1>3. PICK f \in Bijection(I, 1 .. Cardinality(I)) : TRUE
  BY <1>2 DEF ExistsBijection
<1>4. f \in Numbers /\ Apart(f)
  BY <1>3 DEF Bijection, Injection, IsInjective
<1>5. Apart(CHOOSE g \in Numbers : Apart(g))
  BY <1>4
<1>6. Records!Index = CHOOSE g \in Numbers : Apart(g) BY DEF Records!Index, I, Records!Cardinality, Cardinality
<1> HIDE DEF Numbers
<1>7. Apart(Records!Index) BY <1>5, <1>6
<1> QED BY <1>7 DEF I

\* A file that is written is the file of one image, so no image loses its own.
LEMMA Exporting ==
  ASSUME RecordsInv, Records!ExportDataset, stage' = "exported"
  PROVE  RecordsExported'
<1> DEFINE I == Records!Images
<1>1. /\ format' \in {"ndjson", "flat", "coco"} /\ ~Records!Collides /\ files' = Records!Written
      /\ rows' = rows
  BY DEF Records!ExportDataset
<1>2. \A m, n \in I : m # n => Records!Index[m] # Records!Index[n]
  BY Counted DEF RecordsInv
<1>3. \A m, n \in I : Records!ImageFile(m) = Records!ImageFile(n) => m = n
  BY <1>2 DEF Records!ImageFile
<1>4. \A n \in I : Records!ImageFile(n)[1] = "image" BY DEF Records!ImageFile
<1>5. \A n \in I : \A f \in Records!LabelFile(n) : f[1] = "label"
  BY <1>1 DEF Records!LabelFile
<1>6. \A m, n \in I : \A f \in Records!LabelFile(n) : f \in Records!LabelFile(m) => m = n
  <2> SUFFICES ASSUME NEW m \in I, NEW n \in I, NEW f \in Records!LabelFile(n),
                      f \in Records!LabelFile(m)
               PROVE  m = n
    OBVIOUS
  <2>1. CASE format' = "ndjson"
    BY <1>1, <2>1 DEF Records!LabelFile, Records!Collides
  <2>2. CASE format' = "flat"
    BY <1>2, <2>2 DEF Records!LabelFile
  <2>3. CASE format' = "coco"
    BY <2>3 DEF Records!LabelFile
  <2> QED BY <1>1, <2>1, <2>2, <2>3
<1>7. \A m, n \in I : \A f : Records!Owner(f, m) /\ Records!Owner(f, n) => m = n
  BY <1>3, <1>4, <1>5, <1>6 DEF Records!Owner
<1> DEFINE all == UNION {{Records!ImageFile(n)} \union Records!LabelFile(n) : n \in I}
<1>8. files' = [f \in all |-> CHOOSE n \in I : Records!Owner(f, n)]
  BY <1>1 DEF Records!Written
<1>9. ASSUME NEW n \in I, NEW f, Records!Owner(f, n)
      PROVE  f \in DOMAIN files' /\ files'[f] = n
  <2>1. f \in all BY <1>9 DEF Records!Owner
  <2>2. files'[f] = CHOOSE m \in I : Records!Owner(f, m) BY <1>8, <2>1
  <2>3. files'[f] \in I /\ Records!Owner(f, files'[f]) BY <1>9, <2>2
  <2> QED BY <1>7, <1>8, <1>9, <2>1, <2>3
<1>10. \A n \in I : \E f \in DOMAIN files' : f[1] = "image" /\ files'[f] = n
  BY <1>4, <1>9 DEF Records!Owner
<1>11. format' # "coco" => \A n \in I : \E f \in DOMAIN files' : f[1] = "label" /\ files'[f] = n
  <2>1. format' # "coco" => \A n \in I : \E f : f \in Records!LabelFile(n)
    BY <1>1 DEF Records!LabelFile
  <2> QED BY <1>5, <1>9, <2>1 DEF Records!Owner
<1>12. Records!Images' = I BY <1>1 DEF Records!Images, Records!Names
<1> QED BY <1>10, <1>11, <1>12 DEF RecordsExported

\* What rows say depends on them alone.
RecordsFrame ==
  /\ Records!Images' = Records!Images
  /\ \A n \in Records!Images : (Records!Mixed(n)' <=> Records!Mixed(n))
                             /\ (Records!Duplicated(n)' <=> Records!Duplicated(n))
  /\ \A i \in DOMAIN rows : Records!Background(rows'[i]) <=> Records!Background(rows[i])
LEMMA RecordsSame ==
  ASSUME UNCHANGED rows
  PROVE  RecordsFrame
BY DEF RecordsFrame, Records!Images, Records!Names, Records!Mixed, Records!Duplicated,
       Records!BoxesOf, Records!RowsOf, Records!Background, Records!Name

LEMMA RecordsStep ==
  ASSUME RecordsInv, [Records!Next]_(Records!vars)
  PROVE  RecordsInv'
<1>1. CASE Records!ReadRow
  <2>1. PICK row \in Records!Row :
          \/ Records!Claim(row) /\ ~Records!Repeated(row) /\ rows' = Append(rows, row)
          \/ rows' = rows
    BY <1>1 DEF Records!ReadRow
  <2>2. rows \in Seq(Records!Row) /\ RecordsClaimed /\ RecordsDistinct BY DEF RecordsInv
  <2>3. stage' \notin {"grouped", "valid", "exported"} BY <1>1 DEF Records!ReadRow
  <2>4. rows' \in Seq(Records!Row) BY <2>1, <2>2
  <2>5. CASE Records!Claim(row) /\ ~Records!Repeated(row) /\ rows' = Append(rows, row)
    <3>1. /\ DOMAIN rows' = DOMAIN rows \union {Len(rows) + 1} /\ rows'[Len(rows) + 1] = row
          /\ \A i \in DOMAIN rows : rows'[i] = rows[i]
      BY <2>2, <2>5
    <3>2. RecordsClaimed'
      BY <2>2, <2>5, <3>1 DEF RecordsClaimed, Records!Claim, Records!Name
    <3>3. RecordsDistinct'
      <4>1. \A i \in DOMAIN rows : Records!Background(row) \/ Records!Background(rows[i]) => rows[i] # row
        BY <2>5 DEF Records!Repeated, Records!Background
      <4>2. \A i, j \in DOMAIN rows : i # j /\ Records!Background(rows[i]) => rows[i] # rows[j]
        BY <2>2 DEF RecordsDistinct
      <4>3. ASSUME NEW i \in DOMAIN rows', NEW j \in DOMAIN rows', i # j,
                   rows'[i].box = NoBox
            PROVE  rows'[i] # rows'[j]
        BY <3>1, <4>1, <4>2, <4>3 DEF Records!Background
      <4> QED BY <2>3, <4>3 DEF RecordsDistinct, Records!Background
    <3> QED BY <2>3, <2>4, <3>2, <3>3 DEF RecordsInv
  <2>6. CASE rows' = rows
    BY <2>2, <2>3, <2>6 DEF RecordsInv, RecordsClaimed, RecordsDistinct, Records!Background
  <2> QED BY <2>1, <2>5, <2>6
<1>2. CASE Records!Malformed \/ Records!UnreadableImage
  <2>1. rows' = rows /\ stage' = "rejected"
    BY <1>2 DEF Records!Malformed, Records!UnreadableImage
  <2> QED BY <2>1 DEF RecordsInv, RecordsClaimed, RecordsDistinct, Records!Background
<1>3. CASE Records!GroupRows
  <2>1. /\ rows' = rows /\ stage' \in {"rejected", "grouped"}
        /\ stage' = "grouped" => \A n \in Records!Images : ~Records!Mixed(n)
    BY <1>3 DEF Records!GroupRows, Records!Images
  <2>2. RecordsFrame BY <2>1, RecordsSame
  <2> QED BY <2>1, <2>2 DEF RecordsInv, RecordsClaimed, RecordsDistinct, RecordsFrame
<1>4. CASE Records!ValidateGroundTruth
  <2>1. /\ rows' = rows /\ stage = "grouped" /\ stage' \in {"rejected", "valid"}
        /\ stage' = "valid" => \A n \in Records!Images : ~Records!Duplicated(n)
    BY <1>4 DEF Records!ValidateGroundTruth, Records!Images
  <2>2. RecordsFrame BY <2>1, RecordsSame
  <2> QED BY <2>1, <2>2 DEF RecordsInv, RecordsClaimed, RecordsDistinct, RecordsFrame
<1>5. CASE Records!ExportDataset
  <2>1. rows' = rows /\ stage = "valid" /\ stage' \in {"rejected", "exported"}
    BY <1>5 DEF Records!ExportDataset
  <2>2. RecordsFrame BY <2>1, RecordsSame
  <2> QED BY <1>5, <2>1, <2>2, Exporting DEF RecordsInv, RecordsClaimed, RecordsDistinct, RecordsFrame
<1>6. CASE UNCHANGED Records!vars
  <2>1. rows' = rows /\ stage' = stage /\ files' = files /\ format' = format BY <1>6 DEF Records!vars
  <2>2. RecordsFrame BY <2>1, RecordsSame
  <2> QED
    BY <2>1, <2>2 DEF RecordsInv, RecordsClaimed, RecordsDistinct, RecordsExported, RecordsFrame
<1> QED BY <1>1, <1>2, <1>3, <1>4, <1>5, <1>6 DEF Records!Next

(***************************************************************************)
(* What is exported keeps the membership of the CSV, for any paths, names, *)
(* foldings of names and boxes: one path and split for an image, which is  *)
(* one background row or rows whose boxes differ unless they are reported, *)
(* and files no other image shares.  (_claim_identity, _group_rows,        *)
(* validate_ground_truth, _export_images, exported_image_filename)         *)
(***************************************************************************)
THEOREM Members == Spec => []Membership
<1>1. Init => (focus = "records" => RecordsInv)
  <2> SUFFICES ASSUME Init, focus = "records" PROVE RecordsInv
    OBVIOUS
  <2>1. Records!Init BY DEF Init
  <2> QED BY <2>1 DEF Records!Init, RecordsInv, RecordsClaimed, RecordsDistinct
<1>2. (focus = "records" => RecordsInv) /\ [Next]_vars => (focus = "records" => RecordsInv)'
  BY InFocus, RecordsStep
<1>3. (focus = "records" => RecordsInv) => Membership
  <2> SUFFICES ASSUME focus = "records", RecordsInv, stage = "exported"
               PROVE  Records!Membership
    BY DEF Membership, Records!Membership
  <2>1. ASSUME NEW i \in DOMAIN rows, NEW j \in DOMAIN rows, i # j,
               Records!Name(rows[i]) = Records!Name(rows[j])
        PROVE  ~Records!Background(rows[i]) /\ (rows[i].box # rows[j].box \/ i \in Records!Errors)
    <3> DEFINE n == Records!Name(rows[i])
    <3>1. n \in Records!Images /\ i \in Records!RowsOf(n) /\ j \in Records!RowsOf(n)
      BY <2>1 DEF Records!Images, Records!Names, Records!RowsOf
    <3>2. ~Records!Mixed(n) /\ ~Records!Duplicated(n) BY <3>1 DEF RecordsInv, RecordsDistinct
    <3>3. /\ rows[i] \in Records!Row /\ rows[j] \in Records!Row
          /\ rows[i].path = rows[j].path /\ rows[i].split = rows[j].split
      BY <2>1 DEF RecordsInv, RecordsClaimed
    <3>4. rows[i].box = rows[j].box => rows[i] = rows[j] BY <3>3 DEF Records!Row
    <3>5. ~Records!Background(rows[i])
      <4> SUFFICES ASSUME Records!Background(rows[i]) PROVE FALSE OBVIOUS
      <4>1. rows[i] # rows[j] BY <2>1 DEF RecordsInv, RecordsDistinct
      <4>2. ~Records!Background(rows[j]) BY <3>4, <4>1 DEF Records!Background
      <4> QED BY <3>1, <3>2, <4>2 DEF Records!Mixed
    <3>6. ASSUME rows[i].box = rows[j].box PROVE i \in Records!Errors
      <4>1. rows[i].box \notin Records!BoxesOf(n) BY <2>1, <3>1, <3>2, <3>6 DEF Records!Duplicated
      <4> QED BY <3>1, <3>5, <4>1 DEF Records!BoxesOf, Records!Errors, Records!Background
    <3> QED BY <3>5, <3>6
  <2> QED
    BY <2>1 DEF RecordsInv, RecordsClaimed, RecordsExported, Records!Membership
<1> QED BY <1>1, <1>2, <1>3, PTL DEF Spec

-----------------------------------------------------------------------------
(* The cache of prepared datasets (DatasetCache) *)

CacheSteps   == {"files", "paths", "completion"}
CacheEntries == [made : SUBSET CacheSteps, csv : 1..MaxEdits]
CacheHeld    == {"load", "stage", "prepare", "use", "raised"}
CachePlaces  == {"start", "read", "lock", "done", "failed", "killed"} \union CacheHeld
CacheOwners  == Procs \union {Cache!Nobody}

CacheTypes ==
  /\ csv \in 1..MaxEdits /\ links \in 1..MaxEdits
  /\ entries \in [Cache!Identity -> CacheEntries \union {Cache!Nothing}]
  /\ staging \in [Procs -> SUBSET (CacheSteps \union {"directory"})]
  /\ holder \in [Cache!Identity -> CacheOwners]
  /\ cachePc \in [Procs -> CachePlaces]
  /\ DOMAIN request = Procs /\ DOMAIN cacheSource = Procs
  /\ DOMAIN identity = Procs /\ DOMAIN served = Procs

\* What a process knows at each place: its source, its identity, its lock.
CacheKnown(p) ==
  /\ cachePc[p] # "start" => cacheSource[p] \in 1..MaxEdits /\ request[p].format \in Formats
  /\ cachePc[p] \notin {"start", "read"} => identity[p] \in Cache!Identity
  /\ cachePc[p] \in CacheHeld => holder[identity[p]] = p
CacheServed(p) ==
  cachePc[p] = "use" =>
    /\ served[p] = [made |-> CacheSteps, csv |-> cacheSource[p]]
    /\ entries[identity[p]] = served[p]
    /\ request[p].splits \subseteq Cache!SplitsOf(cacheSource[p])
CacheInv == CacheTypes /\ \A p \in Procs : CacheKnown(p) /\ CacheServed(p)

LEMMA CacheStep ==
  ASSUME CacheInv, [Cache!Next]_(Cache!vars)
  PROVE  CacheInv'
<1>0. /\ csv \in 1..MaxEdits /\ links \in 1..MaxEdits /\ MaxEdits \in Nat \ {0}
      /\ entries \in [Cache!Identity -> CacheEntries \union {Cache!Nothing}]
      /\ staging \in [Procs -> SUBSET (CacheSteps \union {"directory"})]
      /\ holder \in [Cache!Identity -> CacheOwners]
      /\ cachePc \in [Procs -> CachePlaces]
      /\ DOMAIN request = Procs /\ DOMAIN cacheSource = Procs
      /\ DOMAIN identity = Procs /\ DOMAIN served = Procs
      /\ Cache!Nobody \notin Procs
      /\ \A p \in Procs : CacheKnown(p) /\ CacheServed(p)
  BY HostAssumption DEF CacheInv, CacheTypes, Cache!Nobody
<1>1. ASSUME NEW p \in Procs, Cache!ReadSource(p) PROVE CacheInv'
  BY <1>0, <1>1
     DEF Cache!ReadSource, Cache!At, Cache!Goto, CacheInv, CacheTypes, CacheKnown, CacheServed,
         CachePlaces, CacheHeld
<1>2. ASSUME NEW p \in Procs, Cache!Identify(p) PROVE CacheInv'
  BY <1>0, <1>2
     DEF Cache!Identify, Cache!At, Cache!Goto, CacheInv, CacheTypes, CacheKnown, CacheServed,
         CachePlaces, CacheHeld, Cache!Identity
<1>3. ASSUME NEW p \in Procs, Cache!Lock(p) PROVE CacheInv'
  BY <1>0, <1>3
     DEF Cache!Lock, Cache!ofProc, Cache!At, Cache!Goto, CacheInv, CacheTypes, CacheKnown,
         CacheServed, CachePlaces, CacheHeld, CacheOwners
<1>4. ASSUME NEW p \in Procs, Cache!LoadEntry(p) PROVE CacheInv'
  <2>1. /\ cachePc[p] = "load" /\ identity[p] \in Cache!Identity /\ holder[identity[p]] = p
        /\ UNCHANGED <<csv, links, entries, staging, holder, request, cacheSource, identity>>
    BY <1>0, <1>4
       DEF Cache!LoadEntry, Cache!At, CacheKnown, CacheHeld
  <2>2. \/ /\ served' = served
           /\ \/ cachePc' = [cachePc EXCEPT ![p] = "stage"]
              \/ cachePc' = [cachePc EXCEPT ![p] = "raised"]
        \/ /\ served' = [served EXCEPT ![p] = entries[identity[p]]]
           /\ cachePc' = [cachePc EXCEPT ![p] = "use"]
           /\ entries[identity[p]] # Cache!Nothing
           /\ entries[identity[p]].made = CacheSteps
           /\ entries[identity[p]].csv = cacheSource[p]
           /\ request[p].splits \subseteq Cache!SplitsOf(cacheSource[p])
    BY <1>4
       DEF Cache!LoadEntry, Cache!Entry, Cache!Completed, Cache!Steps, Cache!Goto, CacheSteps
  <2>3. CacheTypes' BY <1>0, <2>1, <2>2 DEF CacheTypes, CachePlaces, CacheHeld
  <2>4. ASSUME NEW q \in Procs PROVE CacheKnown(q)'
    BY <1>0, <2>1, <2>2 DEF CacheKnown, CacheHeld
  <2>5. ASSUME NEW q \in Procs PROVE CacheServed(q)'
    <3>1. CASE q # p
      <4>1. cachePc'[q] = cachePc[q] /\ served'[q] = served[q] BY <1>0, <2>2, <3>1
      <4> QED BY <1>0, <2>1, <4>1 DEF CacheServed
    <3>2. CASE q = p /\ cachePc' # [cachePc EXCEPT ![p] = "use"]
      <4>1. cachePc'[p] # "use" BY <1>0, <2>2, <3>2
      <4> QED BY <3>2, <4>1 DEF CacheServed
    <3>3. CASE q = p /\ cachePc' = [cachePc EXCEPT ![p] = "use"]
      <4>0. cachePc'[p] = "use" BY <1>0, <3>3
      <4>1. /\ served'[p] = entries[identity[p]] /\ entries[identity[p]] \in CacheEntries
            /\ entries[identity[p]].made = CacheSteps
            /\ entries[identity[p]].csv = cacheSource[p]
            /\ request[p].splits \subseteq Cache!SplitsOf(cacheSource[p])
        BY <1>0, <2>1, <2>2, <4>0
      <4>2. entries[identity[p]] = [made |-> CacheSteps, csv |-> cacheSource[p]]
        BY <4>1 DEF CacheEntries
      <4> QED BY <3>3, <4>1, <4>2, <2>1 DEF CacheServed
    <3> QED BY <3>1, <3>2, <3>3
  <2> QED BY <2>3, <2>4, <2>5 DEF CacheInv
<1>5. ASSUME NEW p \in Procs, Cache!Stage(p) \/ Cache!Prepare(p) \/ Cache!PrepareFails(p)
      PROVE  CacheInv'
  <2>1. /\ cachePc[p] \in {"stage", "prepare"}
        /\ UNCHANGED <<csv, links, entries, holder, request, cacheSource, identity, served>>
    BY <1>5 DEF Cache!Stage, Cache!Prepare, Cache!PrepareFails, Cache!ofProc, Cache!At
  <2>2. \E place \in {"prepare", "raised"} : cachePc' = [cachePc EXCEPT ![p] = place]
    <3>1. CASE Cache!Stage(p) BY <3>1 DEF Cache!Stage, Cache!Goto
    <3>2. CASE Cache!Prepare(p)
      <4>1. cachePc[p] = "prepare" /\ cachePc' = cachePc BY <3>2 DEF Cache!Prepare, Cache!At
      <4> QED BY <1>0, <4>1
    <3>3. CASE Cache!PrepareFails(p) BY <3>3 DEF Cache!PrepareFails, Cache!Goto
    <3> QED BY <1>5, <3>1, <3>2, <3>3
  <2>3. \E s \in SUBSET (CacheSteps \union {"directory"}) : staging' = [staging EXCEPT ![p] = s]
    <3>1. CASE Cache!Stage(p) BY <3>1 DEF Cache!Stage
    <3>2. CASE Cache!Prepare(p)
      <4>1. Cache!PrepareStep(p) \in CacheSteps BY DEF Cache!PrepareStep, CacheSteps
      <4>2. staging' = [staging EXCEPT ![p] = staging[p] \union {Cache!PrepareStep(p)}]
        BY <3>2 DEF Cache!Prepare
      <4> QED BY <1>0, <4>1, <4>2
    <3>3. CASE Cache!PrepareFails(p) BY <3>3 DEF Cache!PrepareFails, Cache!NoStaging
    <3> QED BY <1>5, <3>1, <3>2, <3>3
  <2>4. CacheTypes' BY <1>0, <2>1, <2>2, <2>3 DEF CacheTypes, CachePlaces, CacheHeld
  <2>5. \A q \in Procs : CacheKnown(q)' /\ CacheServed(q)'
    BY <1>0, <2>1, <2>2 DEF CacheKnown, CacheServed, CacheHeld
  <2> QED BY <2>4, <2>5 DEF CacheInv
<1>6. ASSUME NEW p \in Procs, Cache!PublishEntry(p) PROVE CacheInv'
  BY <1>0, <1>6
     DEF Cache!PublishEntry, Cache!Ready, Cache!NoStaging, Cache!ofProc, Cache!At, Cache!Goto,
         CacheInv, CacheTypes, CacheKnown, CacheServed, CachePlaces, CacheHeld, CacheEntries,
         CacheSteps
<1>7. ASSUME NEW p \in Procs, Cache!Release(p) \/ Cache!Kill(p) PROVE CacheInv'
  BY <1>0, <1>7
     DEF Cache!Release, Cache!Kill, Cache!ofProc, Cache!At, Cache!Goto, CacheInv, CacheTypes,
         CacheKnown, CacheServed, CachePlaces, CacheHeld, CacheOwners
<1>8. CASE Cache!Edit \/ Cache!Retarget
  BY <1>0, <1>8
     DEF Cache!Edit, Cache!Retarget, Cache!ofProc, CacheInv, CacheTypes, CacheKnown, CacheServed
<1>9. CASE Cache!Damage
  BY <1>0, <1>9
     DEF Cache!Damage, Cache!ofProc, Cache!Nothing, CacheInv, CacheTypes, CacheKnown,
         CacheServed, CacheHeld, CacheEntries
<1>10. CASE UNCHANGED Cache!vars
  BY <1>10
     DEF Cache!vars, Cache!ofProc, CacheInv, CacheTypes, CacheKnown, CacheServed, Cache!Nothing
<1> QED
  BY <1>1, <1>2, <1>3, <1>4, <1>5, <1>6, <1>7, <1>8, <1>9, <1>10 DEF Cache!Next

(***************************************************************************)
(* A command trains on a whole dataset of the bytes it hashed, with the    *)
(* splits it asked for, and nothing changes the entry under it, for any    *)
(* number of processes, formats and edits.  (cached_dataset)               *)
(***************************************************************************)
THEOREM Datasets == Spec => []ServedWhole
<1>1. Init => (focus = "datasets" => CacheInv)
  <2> SUFFICES ASSUME Init, focus = "datasets" PROVE CacheInv
    OBVIOUS
  <2>1. Cache!Init BY DEF Init
  <2> QED
    BY <2>1, HostAssumption
       DEF Cache!Init, CacheInv, CacheTypes, CacheKnown, CacheServed, CachePlaces, CacheHeld,
           CacheOwners, Cache!NoStaging
<1>2. (focus = "datasets" => CacheInv) /\ [Next]_vars => (focus = "datasets" => CacheInv)'
  BY InFocus, CacheStep
<1>3. (focus = "datasets" => CacheInv) => ServedWhole
  BY DEF CacheInv, CacheServed, CacheSteps, ServedWhole, Cache!ServedWhole, Cache!At,
         Cache!Holds, Cache!Entry, Cache!Steps
<1> QED BY <1>1, <1>2, <1>3, PTL DEF Spec

-----------------------------------------------------------------------------
(* Reflinks among the images of a store (Deduplication) *)

DedupPair == {"equal", "open", "clone", "verify", "source", "dest", "replace"}

DedupTypes ==
  /\ DOMAIN bytes = SharedFiles /\ DOMAIN owner = SharedFiles
  /\ DOMAIN dedupResult = SharedFiles /\ todo \subseteq SharedFiles
  /\ stamp \in [SharedFiles -> Nat] /\ snapshot \in [SharedFiles -> Nat]
  /\ \A e \in firsts : e[2] \in SharedFiles \ todo
  /\ \A e \in clones : e[2] \in SharedFiles \ todo
  /\ dedupPc \in DedupPair => dedupSource \in SharedFiles /\ dest \in SharedFiles \ todo

Unchanged(f) == stamp[f] = snapshot[f]

\* A file's digest is taken once, so a destination is no source and no clone yet.
DedupPairs ==
  /\ dedupPc \in DedupPair =>
       /\ dedupSource # dest
       /\ \A e \in firsts \union clones : e[2] # dest
  /\ dedupPc \in DedupPair \ {"equal"} =>
       dest \notin Linked /\ Dedup!SameDevice(dedupSource, dest)
  /\ \A e \in clones :
       /\ e[2] \notin Linked /\ Dedup!SameDevice(e[1], e[2]) /\ e[1] # e[2]
       /\ dedupResult[e[2]] = "reflinked"

\* What was compared still holds of files that are as they were scanned; a write
\* that comes too late for the checks is recorded.
DedupBytes ==
  /\ \A f \in SharedFiles : snapshot[f] <= stamp[f]
  /\ dedupPc \in {"open", "clone"} /\ Unchanged(dedupSource) /\ Unchanged(dest) =>
       bytes[dedupSource] = bytes[dest]
  /\ dedupPc \in {"verify", "source"} /\ Unchanged(dedupSource) /\ Unchanged(dest) =>
       temp = bytes[dest]
  /\ dedupPc = "dest" /\ Unchanged(dest) => temp = bytes[dest]
  /\ dedupPc = "replace" /\ dest \notin dedupLate => temp = bytes[dest]
  /\ \A f \in SharedFiles \ dedupLate : bytes[f] = owner[f]
DedupInv == DedupTypes /\ DedupPairs /\ DedupBytes

LEMMA DedupStep ==
  ASSUME DedupInv, [Dedup!Next]_(Dedup!vars)
  PROVE  DedupInv'
<1> USE DEF Dedup!At, Dedup!Keep, Dedup!world, DedupInv, DedupTypes, DedupPair, Unchanged
<1>1. CASE Dedup!Scan
  BY <1>1 DEF Dedup!Scan, DedupPairs, DedupBytes
<1>2. CASE Dedup!Digest
  <2>1. PICK f \in todo :
          /\ todo' = todo \ {f} /\ dest' = f
          /\ \/ /\ dedupResult' = [dedupResult EXCEPT ![f] = "failed"]
                /\ UNCHANGED <<dedupPc, firsts, dedupSource>>
             \/ /\ firsts' = firsts \union {<<bytes[f], f>>}
                /\ UNCHANGED <<dedupPc, dedupSource, dedupResult>>
             \/ /\ \E e \in firsts : dedupSource' = e[2]
                /\ dedupPc' = "equal" /\ UNCHANGED <<firsts, dedupResult>>
    BY <1>2 DEF Dedup!Digest
  <2>2. /\ dedupPc = "digest" /\ f \in SharedFiles
        /\ UNCHANGED <<bytes, stamp, owner, snapshot, temp, dedupLate, clones>>
    BY <1>2 DEF Dedup!Digest
  <2>3. DedupTypes'
    BY <2>1, <2>2
  <2>4. DedupPairs'
    BY <2>1, <2>2 DEF DedupPairs, Dedup!SameDevice
  <2>5. DedupBytes'
    BY <2>1, <2>2 DEF DedupBytes
  <2> QED BY <2>3, <2>4, <2>5
<1>3. CASE Dedup!Compare
  <2>1. /\ \A e \in firsts' : e \in firsts \/ (e[2] = dest /\ dedupPc' = "digest")
        /\ \/ /\ dedupPc' = "open" /\ UNCHANGED dedupResult
              /\ dest \notin Linked /\ Dedup!SameDevice(dedupSource, dest)
           \/ dedupPc' = "digest" /\ dedupResult' = [dedupResult EXCEPT ![dest] = "skipped"]
    BY <1>3 DEF Dedup!Compare
  <2>2. /\ dedupPc = "equal" /\ bytes[dedupSource] = bytes[dest]
        /\ UNCHANGED <<bytes, stamp, owner, snapshot, todo, dedupSource, dest, dedupLate, clones>>
    BY <1>3 DEF Dedup!Compare
  <2>3. DedupTypes'
    BY <2>1, <2>2
  <2>4. DedupPairs'
    BY <2>1, <2>2 DEF DedupPairs, Dedup!SameDevice
  <2>5. DedupBytes'
    BY <2>1, <2>2 DEF DedupBytes
  <2> QED BY <2>3, <2>4, <2>5
<1>4. CASE Dedup!Open \/ Dedup!Clone \/ Dedup!Verify \/ Dedup!CheckSource \/ Dedup!CheckDest
  BY <1>4
     DEF Dedup!Open, Dedup!Clone, Dedup!Verify, Dedup!CheckSource, Dedup!CheckDest, Dedup!Check,
         Dedup!SameDevice, DedupPairs, DedupBytes
<1>5. CASE Dedup!Replace
  BY <1>5 DEF Dedup!Replace, Dedup!SameDevice, DedupPairs, DedupBytes
<1>6. CASE Dedup!Fail
  BY <1>6 DEF Dedup!Fail, Dedup!SameDevice, DedupPairs, DedupBytes
<1>7. ASSUME NEW f \in SharedFiles, Dedup!Write(f) PROVE DedupInv'
  <2>1. /\ stamp' = [stamp EXCEPT ![f] = stamp[f] + 1]
        /\ \E c \in Dedup!Contents :
             bytes' = [bytes EXCEPT ![f] = c] /\ owner' = [owner EXCEPT ![f] = c]
        /\ dedupLate' = (IF dedupPc = "replace" /\ f = dest THEN dedupLate \union {f}
                         ELSE dedupLate \ {f})
        /\ UNCHANGED <<snapshot, todo, firsts, dedupSource, dest, temp, dedupPc, dedupResult,
                       clones>>
    BY <1>7 DEF Dedup!Write
  <2>2. /\ \A g \in SharedFiles : g # f => stamp'[g] = stamp[g] /\ bytes'[g] = bytes[g]
                                           /\ owner'[g] = owner[g]
        /\ stamp'[f] = stamp[f] + 1 /\ bytes'[f] = owner'[f]
        /\ stamp' \in [SharedFiles -> Nat]
        /\ DOMAIN bytes' = SharedFiles /\ DOMAIN owner' = SharedFiles
    BY <2>1
  <2>3. \A g \in SharedFiles : snapshot[g] <= stamp'[g]
    BY <2>2 DEF DedupBytes
  <2>4. \A g \in SharedFiles : Unchanged(g)' => Unchanged(g) /\ g # f
    BY <2>1, <2>2 DEF DedupBytes
  <2>5. DedupTypes'
    BY <2>1, <2>2
  <2>6. DedupPairs'
    BY <2>1 DEF DedupPairs, Dedup!SameDevice
  <2>7. DedupBytes'
    <3> HIDE DEF Unchanged
    <3> QED BY <2>1, <2>2, <2>3, <2>4 DEF DedupBytes
  <2> QED BY <2>5, <2>6, <2>7
<1>8. CASE UNCHANGED Dedup!vars
  BY <1>8 DEF Dedup!vars, Dedup!SameDevice, DedupPairs, DedupBytes
<1> QED BY <1>1, <1>2, <1>3, <1>4, <1>5, <1>6, <1>7, <1>8 DEF Dedup!Next

(***************************************************************************)
(* Deduplication never changes what the owner of a file wrote last, unless *)
(* it was written between the last check of that file and the rename over  *)
(* it, wherever else its owners write; and it leaves hard links and other  *)
(* devices alone, for any files, links and writes.  (deduplicate)          *)
(***************************************************************************)
THEOREM Deduplicated == Spec => []BytesKept
<1>1. Init => (focus = "deduplication" => DedupInv)
  <2> SUFFICES ASSUME Init, focus = "deduplication" PROVE DedupInv
    OBVIOUS
  <2>1. Dedup!Init BY DEF Init
  <2> QED BY <2>1 DEF Dedup!Init, DedupInv, DedupTypes, DedupPairs, DedupBytes, DedupPair
<1>2. (focus = "deduplication" => DedupInv) /\ [Next]_vars => (focus = "deduplication" => DedupInv)'
  BY InFocus, DedupStep
<1>3. (focus = "deduplication" => DedupInv) => BytesKept
  BY DEF DedupInv, DedupPairs, DedupBytes, BytesKept, Dedup!BytesKept
<1> QED BY <1>1, <1>2, <1>3, PTL DEF Spec

-----------------------------------------------------------------------------
(* Preparation passes over the catalogue (CataloguePreparation) *)

CatalogueOwning == {"receipt", "pass", "convert", "publish"}

\* A receipt is of a pass that ended; whoever could change it has the lock.
CatalogueInv ==
  /\ DOMAIN cataloguePc = Procs /\ DOMAIN tried = Procs
  /\ catalogueReceipt # Catalogue!NoReceipt =>
       latest = "complete" /\ catalogueReceipt = Requests
  /\ \A p \in Procs :
       /\ cataloguePc[p] \in CatalogueOwning => catalogueLock = p
       /\ cataloguePc[p] = "pass" => catalogueReceipt = Catalogue!NoReceipt
       /\ cataloguePc[p] \in {"publish", "backbone"} => checkpoint = "expected"

LEMMA CatalogueStep ==
  ASSUME CatalogueInv, [Catalogue!Next]_(Catalogue!vars)
  PROVE  CatalogueInv'
<1> USE DEF Catalogue!files, Catalogue!At, Catalogue!Goto, Catalogue!Free
<1>0. Catalogue!Nobody \notin Procs BY HostAssumption DEF Catalogue!Nobody
<1>1. ASSUME NEW p \in Procs, Catalogue!Discover(p) \/ Catalogue!Acquire(p) \/ Catalogue!Unavailable(p)
      PROVE  CatalogueInv'
  BY <1>0, <1>1
     DEF Catalogue!Discover, Catalogue!Acquire, Catalogue!Unavailable, CatalogueInv, CatalogueOwning
<1>2. ASSUME NEW p \in Procs, Catalogue!Trust(p) \/ Catalogue!Own(p)
      PROVE  CatalogueInv'
  BY <1>0, <1>2
     DEF Catalogue!Trust, Catalogue!Own, Catalogue!Unlinked, CatalogueInv, CatalogueOwning
<1>3. ASSUME NEW p \in Procs, Catalogue!PrepareAsset(p) PROVE CatalogueInv'
  BY <1>0, <1>3 DEF Catalogue!PrepareAsset, CatalogueInv
<1>4. ASSUME NEW p \in Procs, Catalogue!WriteReceipt(p) PROVE CatalogueInv'
  BY <1>0, <1>4 DEF Catalogue!WriteReceipt, CatalogueInv, CatalogueOwning
<1>5. ASSUME NEW p \in Procs, Catalogue!Interrupt(p) PROVE CatalogueInv'
  BY <1>0, <1>5 DEF Catalogue!Interrupt, CatalogueInv, CatalogueOwning
<1>6. ASSUME NEW p \in Procs, Catalogue!Convert(p) \/ Catalogue!ConversionFails(p)
      PROVE  CatalogueInv'
  BY <1>0, <1>6
     DEF Catalogue!Convert, Catalogue!Cached, Catalogue!ConversionFails, CatalogueInv, CatalogueOwning
<1>7. ASSUME NEW p \in Procs, Catalogue!PublishCheckpoint(p) \/ Catalogue!PublishReceipt(p)
      PROVE  CatalogueInv'
  BY <1>0, <1>7
     DEF Catalogue!PublishCheckpoint, Catalogue!PublishReceipt, CatalogueInv, CatalogueOwning
<1>8. CASE UNCHANGED Catalogue!vars
  BY <1>8 DEF Catalogue!vars, CatalogueInv
<1> QED BY <1>1, <1>2, <1>3, <1>4, <1>5, <1>6, <1>7, <1>8 DEF Catalogue!Next

(***************************************************************************)
(* There is a receipt only while the latest pass is one that ended and     *)
(* tried everything, and a backbone that is handed over is the expected    *)
(* one, for any processes and requests and any interruptions.  (_prepare,  *)
(* resolve_backbone)                                                       *)
(***************************************************************************)
THEOREM Receipts == Spec => []ReceiptEarned
<1>1. Init => (focus = "catalogue" => CatalogueInv)
  <2> SUFFICES ASSUME Init, focus = "catalogue" PROVE CatalogueInv
    OBVIOUS
  <2>1. Catalogue!Init BY DEF Init
  <2> QED BY <2>1 DEF Catalogue!Init, CatalogueInv, CatalogueOwning
<1>2. (focus = "catalogue" => CatalogueInv) /\ [Next]_vars => (focus = "catalogue" => CatalogueInv)'
  BY InFocus, CatalogueStep
<1>3. (focus = "catalogue" => CatalogueInv) => ReceiptEarned
  BY DEF CatalogueInv, ReceiptEarned, Catalogue!ReceiptEarned, Catalogue!At
<1> QED BY <1>1, <1>2, <1>3, PTL DEF Spec

-----------------------------------------------------------------------------
(* Pretrained assets in shared caches (AssetStore) *)

\* Where a process is says what it wants, and that it alone holds the lock of the
\* repository.  A configuration is repaired of weights that load.  Nobody writes
\* weights while a snapshot handed over under the lock is in use.  What a look
\* without the lock has read still holds, unless something corrupt appeared since.
Retrieving == {"promote", "promoteRef", "retrieve", "configure", "confirm"}
Critical == Retrieving \union {"hub", "repair", "restoreWeights", "restoreRef"}
RouteOf == {"configured", "public"} \X Asset!Weights
InSnapshot(p) == assetPc[p] = "returned" /\ want[p] = "hub"
AssetPlaced(p) ==
  /\ assetPc[p] # "start" => want[p] \in {"flat", "hub"}
  /\ assetPc[p] \in {"flat", "fetch"} => want[p] = "flat"
  /\ assetPc[p] \in Critical => want[p] = "hub" /\ assetLock["hub"] = p
  /\ assetPc[p] = "repair" => Asset!Cached
  /\ assetPc[p] = "confirm" => Asset!Repaired
  /\ assetPc[p] \in Retrieving => \A q \in Procs : ~InSnapshot(q)
  /\ assetPc[p] \in Retrieving \ {"promote"} => routes[p] \in Seq(RouteOf) /\ Len(routes[p]) > 0
  /\ assetPc[p] = "returned" => Asset!Ready(want[p])
AssetRead(p) ==
  /\ assetPc[p] = "found" /\ p \notin hidden => Asset!Ready(want[p])
  /\ eye[p] # "safetensors" => want[p] = "hub" /\ assetPc[p] \in {"look", "seed", "again"}
  /\ eye[p] = "bin" /\ p \notin hidden => "safetensors" \notin Asset!Corrupt
  /\ eye[p] = "config" /\ p \notin hidden => Asset!Cached
AssetTypes ==
  /\ file \in [Asset!Files -> {"missing", "good", "bad"}] /\ ref \in BOOLEAN
  /\ DOMAIN assetLock = {"flat", "hub", "archive"} /\ DOMAIN assetPc = Procs
  /\ DOMAIN want = Procs /\ DOMAIN routes = Procs /\ eye \in [Procs -> {"safetensors", "bin", "config"}]
AssetInv ==
  /\ AssetTypes
  /\ \A p \in Procs : AssetPlaced(p) /\ AssetRead(p)

\* What a step of p does to the caches: what is good stays good, except weights;
\* and corrupt ones appear in a visible snapshot only while p retrieves, and over
\* no look.
Shows == ~(Asset!Corrupt' \subseteq Asset!Corrupt)
Overlooked == \A q \in Procs : eye[q] # "safetensors" \/ assetPc[q] = "found" => q \in hidden'
Improves(p) ==
  /\ \A f \in {"flat", "config"} : file[f] = "good" => file'[f] = "good"
  /\ \A f \in Asset!Weights : file'[f] = file[f] \/ file'[f] \in {"good", "bad"}
  /\ ref => ref'
  /\ Shows => (~ref \/ assetPc[p] = "retrieve") /\ Overlooked

LEMMA StaysUsable ==
  ASSUME AssetTypes, NEW p \in Procs, Improves(p), ~Shows
  PROVE  /\ Asset!Cached => Asset!Cached'
         /\ \A w \in {"flat", "hub"} : Asset!Ready(w) => Asset!Ready(w)'
<1>1. Asset!Cached => Asset!Cached'
  BY DEF AssetTypes, Improves, Shows, Asset!Cached, Asset!Corrupt, Asset!Weights,
     Asset!Preferred, Asset!Second
<1> QED BY <1>1 DEF Improves, Asset!Ready, Asset!Repaired

\* Every step of p leaves the others where they are, with the locks they hold, and
\* puts p in a place it has earned.
AssetMoves(p) ==
  /\ AssetTypes' /\ Improves(p)
  /\ \A q \in Procs : q # p =>
       /\ want'[q] = want[q] /\ assetPc'[q] = assetPc[q] /\ eye'[q] = eye[q]
       /\ routes'[q] = routes[q] /\ (q \in hidden => q \in hidden')
  /\ \A q \in Procs : q # p /\ assetLock["hub"] = q => assetLock'["hub"] = q
  /\ InSnapshot(p)' => InSnapshot(p) \/ assetLock["hub"] = p
  /\ AssetPlaced(p)' /\ AssetRead(p)'

LEMMA AssetMoved ==
  ASSUME AssetInv, NEW p \in Procs, AssetMoves(p)
  PROVE  AssetInv'
<1>1. ASSUME NEW q \in Procs PROVE AssetPlaced(q)' /\ AssetRead(q)'
  <2>1. CASE q = p BY <2>1 DEF AssetMoves
  <2>2. CASE q # p
    <3>1. /\ want'[q] = want[q] /\ assetPc'[q] = assetPc[q] /\ eye'[q] = eye[q]
          /\ routes'[q] = routes[q] /\ (q \in hidden => q \in hidden')
          /\ assetLock["hub"] = q => assetLock'["hub"] = q
      BY <2>2 DEF AssetMoves
    <3>2. AssetPlaced(q) /\ AssetRead(q) /\ AssetPlaced(p) BY DEF AssetInv
    <3>3. Improves(p) /\ AssetTypes BY DEF AssetMoves, AssetInv
    <3>4. ASSUME assetPc[q] \in {"repair", "returned"} PROVE Asset!Cached /\ Shows => want[q] # "hub"
      <4>1. SUFFICES ASSUME Asset!Cached, Shows, want[q] = "hub" PROVE FALSE
        OBVIOUS
      <4>2. ref BY <4>1 DEF Asset!Cached
      <4>3. assetPc[p] = "retrieve" BY <3>3, <4>1, <4>2 DEF Improves
      <4>4. assetLock["hub"] = p /\ ~InSnapshot(q)
        BY <3>2, <4>3 DEF AssetPlaced, Critical, Retrieving
      <4>5. assetPc[q] # "repair" BY <3>2, <4>4, <2>2 DEF AssetPlaced, Critical
      <4> QED BY <3>4, <4>1, <4>4, <4>5 DEF InSnapshot
    <3>5. assetPc[q] = "repair" => Asset!Cached'
      <4> SUFFICES ASSUME assetPc[q] = "repair" PROVE Asset!Cached'
        OBVIOUS
      <4>1. Asset!Cached /\ want[q] = "hub" BY <3>2 DEF AssetPlaced, Critical
      <4> QED BY <4>1, <3>4, <3>3, StaysUsable
    <3>6. assetPc[q] = "returned" => Asset!Ready(want[q])'
      <4> SUFFICES ASSUME assetPc[q] = "returned" PROVE Asset!Ready(want[q])'
        OBVIOUS
      <4>1. Asset!Ready(want[q]) /\ want[q] \in {"flat", "hub"} BY <3>2 DEF AssetPlaced
      <4>2. CASE want[q] = "hub"
        <5>1. Asset!Cached BY <4>1, <4>2 DEF Asset!Ready
        <5>2. ~Shows BY <5>1, <4>2, <3>4
        <5> QED BY <5>2, <4>1, <3>1, <3>3, <4>2, StaysUsable
      <4>3. CASE want[q] = "flat"
        BY <4>1, <4>3, <3>1, <3>3 DEF Improves, Asset!Ready
      <4> QED BY <4>1, <4>2, <4>3
    <3>7. assetPc[q] \in Retrieving => \A r \in Procs : ~InSnapshot(r)'
      <4> SUFFICES ASSUME assetPc[q] \in Retrieving, NEW r \in Procs PROVE ~InSnapshot(r)'
        OBVIOUS
      <4>1. assetLock["hub"] = q /\ ~InSnapshot(r) /\ ~InSnapshot(p)
        BY <3>2 DEF AssetPlaced, Critical
      <4>2. CASE r = p BY <4>1, <4>2, <2>2 DEF AssetMoves
      <4>3. CASE r # p BY <4>1, <4>3 DEF AssetMoves, InSnapshot
      <4> QED BY <4>2, <4>3
    <3>14. Asset!Repaired => Asset!Repaired'
      BY <3>3 DEF Improves, Asset!Repaired
    <3>8. AssetPlaced(q)'
      BY <3>1, <3>2, <3>5, <3>6, <3>7, <3>14 DEF AssetPlaced, InSnapshot
    <3>9. ASSUME assetPc[q] = "found" \/ eye[q] # "safetensors", q \notin hidden'
          PROVE  ~Shows /\ q \notin hidden
      BY <3>1, <3>3, <3>9 DEF Improves, Overlooked
    <3>10. assetPc[q] = "found" /\ q \notin hidden' => Asset!Ready(want[q])'
      <4> SUFFICES ASSUME assetPc[q] = "found", q \notin hidden' PROVE Asset!Ready(want[q])'
        OBVIOUS
      <4>1. Asset!Ready(want[q]) /\ want[q] \in {"flat", "hub"} /\ ~Shows
        BY <3>2, <3>9 DEF AssetPlaced, AssetRead
      <4> QED BY <4>1, <3>1, <3>3, StaysUsable
    <3>11. eye[q] = "bin" /\ q \notin hidden' => "safetensors" \notin Asset!Corrupt'
      BY <3>2, <3>9 DEF AssetRead, Shows
    <3>12. eye[q] = "config" /\ q \notin hidden' => Asset!Cached'
      BY <3>2, <3>3, <3>9, StaysUsable DEF AssetRead
    <3>13. AssetRead(q)' BY <3>1, <3>2, <3>10, <3>11, <3>12 DEF AssetRead
    <3> QED BY <3>8, <3>13
  <2> QED BY <2>1, <2>2
<1> QED BY <1>1 DEF AssetMoves, AssetInv

LEMMA AssetRoutes ==
  ASSUME NEW s \in Seq(RouteOf)
  PROVE  /\ Len(s) > 1 => Tail(s) \in Seq(RouteOf) /\ Len(Tail(s)) > 0
         /\ Len(s) > 0 => s[1][2] \in Asset!Weights
  BY DEF RouteOf

LEMMA AssetRoutesFirst == Asset!HubRoutes \in Seq(RouteOf) /\ Len(Asset!HubRoutes) > 0
  BY DEF Asset!HubRoutes, RouteOf, Asset!Weights, Asset!Preferred, Asset!Second

\* The next route, or failure.
LEMMA AssetGoesOn ==
  ASSUME AssetInv, NEW p \in Procs, assetPc[p] \in Retrieving \ {"promote"},
         Asset!NextRoute(p, "retrieve"), Improves(p), UNCHANGED <<want, eye>>,
         file' \in [Asset!Files -> {"missing", "good", "bad"}], ref' \in BOOLEAN,
         \A q \in hidden : q \in hidden'
  PROVE  AssetMoves(p)
<1>0. AssetTypes /\ AssetPlaced(p) /\ AssetRead(p) BY DEF AssetInv
<1>1. routes[p] \in Seq(RouteOf) /\ Len(routes[p]) > 0 /\ \A q \in Procs : ~InSnapshot(q)
  BY <1>0 DEF AssetPlaced
<1>2. CASE Asset!Leave(p, "failed")
  BY <1>0, <1>2 DEF Asset!Leave, Asset!Goto, Asset!Holding, AssetMoves, AssetTypes, AssetPlaced,
     AssetRead, InSnapshot, Critical, Retrieving
<1>3. CASE /\ Len(routes[p]) > 1 /\ Asset!Goto(p, "retrieve")
           /\ routes' = [routes EXCEPT ![p] = Tail(@)] /\ UNCHANGED assetLock
  <2>1. Tail(routes[p]) \in Seq(RouteOf) /\ Len(Tail(routes[p])) > 0
    BY <1>1, <1>3, AssetRoutes
  <2>2. assetPc' = [assetPc EXCEPT ![p] = "retrieve"] /\ routes'[p] = Tail(routes[p])
    BY <1>0, <1>3 DEF Asset!Goto, AssetTypes
  <2>3. AssetTypes' BY <1>0, <1>3, <2>2 DEF AssetTypes
  <2>4. AssetPlaced(p)'
    BY <1>0, <1>1, <1>3, <2>1, <2>2 DEF AssetTypes, AssetPlaced, InSnapshot, Critical, Retrieving
  <2>5. AssetRead(p)'
    BY <1>0, <2>2 DEF AssetTypes, AssetRead, Retrieving
  <2> QED BY <1>0, <1>3, <2>2, <2>3, <2>4, <2>5 DEF AssetTypes, AssetMoves, InSnapshot
<1> QED BY <1>2, <1>3 DEF Asset!NextRoute

LEMMA AssetStep ==
  ASSUME AssetInv, [Asset!Next]_(Asset!vars)
  PROVE  AssetInv'
<1> USE DEF Asset!At, Asset!Goto, Asset!Move, Asset!Leave, Asset!Holding, Asset!Put, Asset!Keeps,
            Asset!Still, Asset!Preferred, Asset!Second, Asset!Nobody
<1>0. AssetTypes /\ \A p \in Procs : AssetPlaced(p) /\ AssetRead(p)
  BY DEF AssetInv
<1>a. \A f \in {"safetensors", "bin", "config", "flat", "archive"} : f \in Asset!Files
  BY DEF Asset!Files, Asset!Weights
<1>1. ASSUME NEW p \in Procs, Asset!Begin(p) PROVE AssetMoves(p)
  BY <1>0, <1>1 DEF Asset!Begin, AssetMoves, AssetTypes, Improves, Shows, Asset!Corrupt, AssetPlaced,
     AssetRead, InSnapshot, Critical, Retrieving
<1>2. ASSUME NEW p \in Procs, Asset!Look(p) PROVE AssetMoves(p)
  <2>1. /\ UNCHANGED <<file, ref, assetLock, want, mode, routes, broken>>
        /\ assetPc[p] \in {"look", "seed", "again"}
    BY <1>2 DEF Asset!Look
  <2>2. CASE Asset!PassOver(p) /\ Asset!GoOn(p, "bin")
    BY <1>0, <2>1, <2>2 DEF Asset!PassOver, Asset!GoOn, Asset!Seen, AssetMoves, AssetTypes, Improves,
       Shows, Asset!Corrupt, AssetPlaced, AssetRead, InSnapshot, Critical, Retrieving
  <2>3. CASE /\ Asset!Seen(p) = "good" /\ want[p] = "hub" /\ eye[p] # "config"
             /\ Asset!GoOn(p, "config")
    <3>1. p \notin hidden => Asset!Cached
      BY <1>0, <1>a, <2>3 DEF Asset!Seen, AssetTypes, AssetRead, Asset!Cached, Asset!Corrupt,
         Asset!Weights
    <3> QED
      BY <1>0, <2>1, <2>3, <3>1 DEF Asset!GoOn, AssetMoves, AssetTypes, Improves, Shows,
         Asset!Corrupt, Asset!Cached, AssetPlaced, AssetRead, InSnapshot, Critical, Retrieving
  <2>4. CASE /\ Asset!Seen(p) = "good" /\ (want[p] = "flat" \/ eye[p] = "config")
             /\ Asset!Found(p)
    <3>1. p \notin hidden => Asset!Ready(want[p])
      BY <1>0, <2>4 DEF Asset!Seen, AssetTypes, AssetRead, Asset!Ready, Asset!Repaired
    <3> QED
      BY <1>0, <2>1, <2>4, <3>1 DEF Asset!Found, Asset!Answer, AssetMoves, AssetTypes, Improves,
         Shows, Asset!Corrupt, Asset!Cached, Asset!Ready, Asset!Repaired, AssetPlaced, AssetRead,
         InSnapshot, Critical, Retrieving
  <2>5. CASE Asset!NotFound(p)
    BY <1>0, <2>1, <2>5 DEF Asset!NotFound, Asset!Answer, AssetMoves, AssetTypes, Improves, Shows,
       Asset!Corrupt, AssetPlaced, AssetRead, InSnapshot, Critical, Retrieving
  <2> QED BY <1>2, <2>2, <2>3, <2>4, <2>5 DEF Asset!Look
<1>3. ASSUME NEW p \in Procs, Asset!Lock(p) PROVE AssetMoves(p)
  BY <1>0, <1>3, HostAssumption DEF Asset!Lock, AssetMoves, AssetTypes, Improves, Shows, Asset!Corrupt, AssetPlaced,
     AssetRead, InSnapshot, Critical, Retrieving
<1>4. ASSUME NEW p \in Procs, Asset!Flat(p) PROVE AssetMoves(p)
  BY <1>0, <1>a, <1>4 DEF Asset!Flat, Asset!Ready, AssetMoves, AssetTypes, Improves, Shows,
     Asset!Corrupt, Asset!Weights, AssetPlaced, AssetRead, InSnapshot, Critical, Retrieving
<1>5. ASSUME NEW p \in Procs, Asset!Fetch(p) PROVE AssetMoves(p)
  BY <1>0, <1>a, <1>5 DEF Asset!Fetch, Asset!Arrived, Asset!NextRoute, Asset!Ready, AssetMoves,
     AssetTypes, Improves, Shows, Asset!Corrupt, Asset!Weights, AssetPlaced, AssetRead, InSnapshot,
     Critical, Retrieving
<1>6. ASSUME NEW p \in Procs, Asset!Hub(p) PROVE AssetMoves(p)
  <2>1. ~Asset!Cached => \A q \in Procs : ~InSnapshot(q)
    BY <1>0 DEF AssetPlaced, InSnapshot, Asset!Ready
  <2> QED
    BY <1>0, <1>6, <2>1 DEF Asset!Hub, Asset!Ready, Asset!Cached, Asset!Repaired, AssetMoves,
       AssetTypes, Improves, Shows, Asset!Corrupt, AssetPlaced, AssetRead, InSnapshot, Critical,
       Retrieving
<1>7. ASSUME NEW p \in Procs, Asset!PromoteFile(p) PROVE AssetMoves(p)
  BY <1>0, <1>a, <1>7, AssetRoutesFirst DEF Asset!PromoteFile, AssetMoves, AssetTypes, Improves,
     Shows, Asset!Corrupt, Asset!Weights, AssetPlaced, AssetRead, InSnapshot, Critical, Retrieving
<1>8. ASSUME NEW p \in Procs, Asset!PromoteRef(p) PROVE AssetMoves(p)
  BY <1>0, <1>a, <1>8 DEF Asset!PromoteRef, Asset!Appears, Asset!Ready, Asset!Repaired, AssetMoves,
     AssetTypes, Improves, Shows, Overlooked, Asset!Corrupt, Asset!Weights, AssetPlaced, AssetRead,
     InSnapshot, Critical, Retrieving
<1>9. ASSUME NEW p \in Procs, Asset!Repair(p) PROVE AssetMoves(p)
  BY <1>0, <1>a, <1>9 DEF Asset!Repair, Asset!Configured, Asset!Ready, Asset!Cached, Asset!Repaired,
     AssetMoves, AssetTypes, Improves, Shows, Asset!Corrupt, Asset!Weights, AssetPlaced, AssetRead,
     InSnapshot, Critical, Retrieving
<1>10. ASSUME NEW p \in Procs, Asset!Retrieve(p) PROVE AssetMoves(p)
  <2>1. /\ assetPc[p] = "retrieve" /\ Asset!Appears /\ UNCHANGED <<want, mode, eye>>
        /\ routes[p] \in Seq(RouteOf) /\ Len(routes[p]) > 0
    BY <1>0, <1>10 DEF Asset!Retrieve, AssetPlaced, Retrieving
  <2>2. /\ ref' \in {ref, TRUE}
        /\ \/ UNCHANGED file
           \/ \E state \in {"good", "bad"} \union {file[routes[p][1][2]]} :
                file' = [file EXCEPT ![routes[p][1][2]] = state]
        /\ Asset!NextRoute(p, "retrieve") \/ Asset!Move(p, "configure")
    BY <1>10 DEF Asset!Retrieve, Asset!Downloaded
  <2>3. PICK f \in Asset!Weights : \/ UNCHANGED file
                                  \/ \E state \in {"good", "bad"} \union {file[f]} :
                                       file' = [file EXCEPT ![f] = state]
    BY <2>1, <2>2, AssetRoutes
  <2>4. file' \in [Asset!Files -> {"missing", "good", "bad"}] /\ ref' \in BOOLEAN /\ (ref => ref')
    <3>1. f \in Asset!Files BY <1>a, <2>3 DEF Asset!Weights
    <3>2. file' \in [Asset!Files -> {"missing", "good", "bad"}]
      BY <1>0, <2>3, <3>1 DEF AssetTypes
    <3>3. ref' = ref \/ ref' = TRUE BY <2>2
    <3>4. ref' \in BOOLEAN /\ (ref => ref')
      <4>1. CASE ref' = ref BY <1>0, <4>1 DEF AssetTypes
      <4>2. CASE ref' = TRUE BY <4>2
      <4> QED BY <3>3, <4>1, <4>2
    <3> QED BY <3>2, <3>4
  <2>5. Improves(p)
    <3>1. \A g \in {"flat", "config"} : file'[g] = file[g]
      BY <1>0, <1>a, <2>3 DEF AssetTypes, Asset!Weights
    <3>2. \A g \in Asset!Weights : file'[g] = file[g] \/ file'[g] \in {"good", "bad"}
      BY <1>0, <1>a, <2>3 DEF AssetTypes, Asset!Weights
    <3>3. Shows => Overlooked BY <1>0, <2>1 DEF Asset!Appears, Shows, Overlooked
    <3> QED BY <3>1, <3>2, <3>3, <2>1, <2>4 DEF Improves
  <2>6. \A q \in hidden : q \in hidden' BY <2>1 DEF Asset!Appears
  <2>7. CASE Asset!NextRoute(p, "retrieve")
    BY <2>1, <2>4, <2>5, <2>6, <2>7, AssetGoesOn DEF Retrieving
  <2>8. CASE Asset!Move(p, "configure")
    BY <1>0, <2>1, <2>4, <2>5, <2>6, <2>8 DEF AssetMoves, AssetTypes, AssetPlaced, AssetRead,
       InSnapshot, Critical, Retrieving
  <2> QED BY <2>2, <2>7, <2>8
<1>11. ASSUME NEW p \in Procs, Asset!Configure(p) PROVE AssetMoves(p)
  <2>1. PICK state \in Asset!Configured : file' = [file EXCEPT !["config"] = state]
    BY <1>11 DEF Asset!Configure
  <2>2. state \in {"missing", "good", "bad"} /\ (file["config"] = "good" => state = "good")
    BY <1>0, <1>a, <2>1 DEF Asset!Configured, Asset!Repaired, AssetTypes
  <2>3. file' \in [Asset!Files -> {"missing", "good", "bad"}] BY <1>0, <2>1, <2>2 DEF AssetTypes
  <2>4. Improves(p)
    BY <1>0, <1>a, <1>11, <2>1, <2>2 DEF Asset!Configure, AssetTypes, Improves, Shows, Asset!Corrupt,
       Asset!Weights
  <2>5. /\ assetPc[p] = "configure" /\ UNCHANGED <<ref, hidden, want, eye>>
        /\ \/ file'["config"] = "good" /\ Asset!Move(p, "confirm")
           \/ Asset!NextRoute(p, "retrieve")
    BY <1>0, <1>a, <1>11 DEF Asset!Configure, AssetTypes
  <2>6. ref' \in BOOLEAN BY <1>0, <2>5 DEF AssetTypes
  <2>7. CASE Asset!NextRoute(p, "retrieve")
    BY <2>3, <2>4, <2>5, <2>6, <2>7, AssetGoesOn DEF Retrieving
  <2>8. CASE file'["config"] = "good" /\ Asset!Move(p, "confirm")
    BY <1>0, <2>3, <2>4, <2>5, <2>6, <2>8 DEF Asset!Repaired, AssetMoves, AssetTypes, AssetPlaced,
       AssetRead, InSnapshot, Critical, Retrieving
  <2> QED BY <2>5, <2>7, <2>8
<1>12. ASSUME NEW p \in Procs, Asset!Confirm(p) PROVE AssetMoves(p)
  <2>1. Improves(p) BY <1>0, <1>12 DEF Asset!Confirm, Improves, Shows, Asset!Corrupt
  <2>2. CASE Asset!Cached /\ Asset!Leave(p, "returned")
    BY <1>0, <1>12, <2>1, <2>2 DEF Asset!Confirm, Asset!Ready, Asset!Cached, Asset!Repaired,
       AssetMoves, AssetTypes, AssetPlaced, AssetRead, InSnapshot, Critical, Retrieving
  <2>3. CASE Asset!NextRoute(p, "retrieve")
    BY <1>0, <1>12, <2>1, <2>3, AssetGoesOn DEF Asset!Confirm, AssetTypes, Retrieving
  <2> QED BY <1>12, <2>2, <2>3 DEF Asset!Confirm
<1>13. ASSUME NEW p \in Procs, Asset!Seed(p) \/ Asset!Archive(p) PROVE AssetMoves(p)
  BY <1>0, <1>a, <1>13 DEF Asset!Seed, Asset!Archive, Asset!NextRoute, AssetMoves, AssetTypes,
     Improves, Shows, Asset!Corrupt, Asset!Weights, AssetPlaced, AssetRead, InSnapshot, Critical,
     Retrieving
<1>14. ASSUME NEW p \in Procs, Asset!Restore(p) PROVE AssetMoves(p)
  BY <1>0, <1>a, <1>14, HostAssumption DEF Asset!Restore, AssetMoves, AssetTypes, Improves, Shows, Asset!Corrupt,
     Asset!Weights, AssetPlaced, AssetRead, InSnapshot, Critical, Retrieving
<1>15. ASSUME NEW p \in Procs, Asset!RestoreWeights(p) PROVE AssetMoves(p)
  BY <1>0, <1>a, <1>15 DEF Asset!RestoreWeights, AssetMoves, AssetTypes, Improves, Shows,
     Asset!Corrupt, Asset!Weights, AssetPlaced, AssetRead, InSnapshot, Critical, Retrieving
<1>16. ASSUME NEW p \in Procs, Asset!RestoreRef(p) \/ Asset!Restored(p) PROVE AssetMoves(p)
  <2>1. CASE Asset!RestoreRef(p)
    <3>1. (ref => ref') /\ ref' \in BOOLEAN BY <2>1 DEF Asset!RestoreRef
    <3>2. Improves(p)
      <4>1. ref => ~Shows BY <1>0, <2>1, <3>1 DEF Asset!RestoreRef, AssetTypes, Shows, Asset!Corrupt
      <4> QED
        BY <1>0, <2>1, <3>1, <4>1 DEF Asset!RestoreRef, Asset!Appears, AssetTypes, Improves, Shows,
           Overlooked
    <3> QED
      BY <1>0, <2>1, <3>1, <3>2 DEF Asset!RestoreRef, Asset!Appears, AssetMoves, AssetTypes,
         AssetPlaced, AssetRead, InSnapshot, Critical, Retrieving
  <2>2. CASE Asset!Restored(p)
    BY <1>0, <2>2 DEF Asset!Restored, AssetMoves, AssetTypes, Improves, Shows, Asset!Corrupt,
       AssetPlaced, AssetRead, InSnapshot, Critical, Retrieving
  <2> QED BY <1>16, <2>1, <2>2
<1>17. ASSUME NEW p \in Procs, Asset!Fail(p) \/ Asset!Kill(p) PROVE AssetMoves(p)
  BY <1>0, <1>17 DEF Asset!Fail, Asset!Kill, AssetMoves, AssetTypes, Improves, Shows,
     Asset!Corrupt, AssetPlaced, AssetRead, InSnapshot, Critical, Retrieving
<1>18. CASE UNCHANGED Asset!vars
  BY <1>0, <1>18 DEF Asset!vars, AssetInv, AssetTypes, AssetPlaced, AssetRead, InSnapshot,
     Asset!Cached, Asset!Ready, Asset!Repaired, Asset!Corrupt
<1> QED
  BY <1>1, <1>2, <1>3, <1>4, <1>5, <1>6, <1>7, <1>8, <1>9, <1>10, <1>11, <1>12, <1>13, <1>14,
     <1>15, <1>16, <1>17, <1>18, AssetMoved
     DEF Asset!Next, Asset!Step

(***************************************************************************)
(* Whatever other processes leave or do to the caches, killed or not, an   *)
(* asset handed over under its lock is and stays the one native loading    *)
(* will choose, valid and with its configuration; one found without the    *)
(* lock is too, unless a corrupt representation appeared after the look    *)
(* began, as a refused download does.  (resolve_asset, _resolve_hub_asset) *)
(***************************************************************************)
THEOREM Assets == Spec => []Usable
<1>1. Init => (focus = "assets" => AssetInv)
  <2> SUFFICES ASSUME Init, focus = "assets" PROVE AssetInv
    OBVIOUS
  <2>1. Asset!Init BY DEF Init
  <2> QED
    BY <2>1 DEF Asset!Init, AssetInv, AssetTypes, AssetPlaced, AssetRead, InSnapshot, Critical,
       Retrieving, Asset!Preferred
<1>2. (focus = "assets" => AssetInv) /\ [Next]_vars => (focus = "assets" => AssetInv)'
  BY InFocus, AssetStep
<1>3. (focus = "assets" => AssetInv) => Usable
  <2> SUFFICES ASSUME focus = "assets", AssetInv, NEW p \in Procs,
                      assetPc[p] = "returned" \/ (assetPc[p] = "found" /\ p \notin hidden)
               PROVE  IF want[p] = "hub"
                      THEN ref /\ file[Asset!Chosen] = "good" /\ file["config"] = "good"
                      ELSE file["flat"] = "good"
    BY DEF Usable, Asset!Usable, Asset!At
  <2>1. Asset!Ready(want[p]) BY DEF AssetInv, AssetPlaced, AssetRead
  <2> QED
    BY <2>1 DEF Asset!Ready, Asset!Cached, Asset!Repaired, Asset!Chosen, Asset!Preferred,
                Asset!Second
<1> QED BY <1>1, <1>2, <1>3, PTL DEF Spec

-----------------------------------------------------------------------------
(* The shared dataset of one ground truth (ViewerDataset) *)

ViewerSeeing  == {"samples", "start", "clean", "overlay", "evaluate", "release"}
ViewerHolding == {"open", "describe"} \union ViewerSeeing
ViewerComplete == ViewerSeeing \ {"samples"}

\* A description is a record of three parts, a run in it of three.
ViewerTyped(description) ==
  /\ DOMAIN description = {"identity", "complete", "runs"}
  /\ description.complete \in BOOLEAN
  /\ DOMAIN description.runs = Runs
  /\ \A r \in Runs : /\ DOMAIN description.runs[r] = {"by", "complete", "keys"}
                     /\ description.runs[r].complete \in BOOLEAN
ViewerTypes ==
  /\ DOMAIN viewerPc = Publications /\ DOMAIN info = Publications /\ DOMAIN overlays = Runs
  /\ exists \in BOOLEAN /\ ViewerTyped(saved)

\* What a publication has locked, and what it may rely on at its place.
ViewerOwn(p) ==
  /\ viewerPc[p] \in ViewerHolding => viewerLock = p
  /\ viewerPc[p] \in ViewerSeeing => info[p] = saved
ViewerPlaced(p) ==
  /\ viewerPc[p] = "describe" => exists /\ saved = Viewer!Blank /\ samples = {}
  /\ viewerPc[p] = "samples" => exists /\ ~saved.complete /\ samples \subseteq Viewer!Images(p)
  /\ viewerPc[p] \in ViewerComplete => exists /\ saved.complete /\ samples = Viewer!Images(p)
ViewerWriting(p) ==
  /\ viewerPc[p] \in {"clean", "overlay", "evaluate"} =>
       saved.runs[Viewer!Run(p)] = Viewer!Begun(p)
  /\ viewerPc[p] = "overlay" => \A e \in evals : e.run # Viewer!Run(p)
  /\ viewerPc[p] = "evaluate" =>
       /\ \A n \in samples : overlays[Viewer!Run(p)][n] = p
       /\ \A k \in evals : k.run = Viewer!Run(p) =>
            \E e \in Viewer!Evaluations(p) : k = Viewer!Key(p, e)
\* The run is there, complete unless another publication took it over.
ViewerTaken(p) ==
  viewerPc[p] \in {"release", "published"} =>
    /\ saved.runs[Viewer!Run(p)].by # None
    /\ saved.runs[Viewer!Run(p)].by = p => saved.runs[Viewer!Run(p)].complete
ViewerRuns ==
  /\ ~exists => saved = Viewer!Blank /\ samples = {}
  /\ \A r \in Runs : saved.runs[r].complete => saved.complete /\ Viewer!Whole(r)
ViewerInv ==
  /\ ViewerTypes /\ ViewerRuns
  /\ \A p \in Publications :
       ViewerOwn(p) /\ ViewerPlaced(p) /\ ViewerWriting(p) /\ ViewerTaken(p)

LEMMA ViewerStep ==
  ASSUME ViewerInv, [Viewer!Next]_(Viewer!vars)
  PROVE  ViewerInv'
<1> USE DEF Viewer!Move, Viewer!Save, Viewer!own, Viewer!stored
<1>0. /\ DOMAIN viewerPc = Publications /\ DOMAIN info = Publications /\ DOMAIN overlays = Runs
      /\ exists \in BOOLEAN /\ ViewerTyped(saved) /\ ViewerRuns
      /\ None \notin Publications /\ \A p \in Publications : Viewer!Run(p) \in Runs
      /\ \A p \in Publications :
           ViewerOwn(p) /\ ViewerPlaced(p) /\ ViewerWriting(p) /\ ViewerTaken(p)
  BY HostAssumption DEF ViewerInv, ViewerTypes, Viewer!Run
<1>blank. /\ ViewerTyped(Viewer!Blank)
          /\ \A r \in Runs : ~Viewer!Blank.runs[r].complete /\ Viewer!Blank.runs[r].by = None
  BY DEF ViewerTyped, Viewer!Blank, Viewer!Unstarted
\* Who writes holds the lock, and nobody else relies on what is saved.
<1>alone. ASSUME NEW p \in Publications, viewerPc[p] \in ViewerHolding,
                 NEW q \in Publications, q # p
          PROVE  viewerPc[q] \notin ViewerHolding
  BY <1>0, <1>alone DEF ViewerOwn
\* A step that writes nothing keeps what is said of the dataset.
<1>still. ASSUME UNCHANGED <<exists, saved, samples, overlays, evals>>,
                 DOMAIN viewerPc' = Publications, DOMAIN info' = Publications
          PROVE  ViewerTypes' /\ ViewerRuns'
  <2>1. \A r \in Runs : Viewer!Whole(r)' = Viewer!Whole(r)
    BY <1>still DEF Viewer!Whole
  <2>2. ViewerTyped(saved)'
    BY <1>0, <1>still
  <2> QED
    BY <1>0, <1>still, <2>1, <2>2 DEF ViewerTypes, ViewerRuns
<1>1. ASSUME NEW p \in Publications, Viewer!Read(p) \/ Viewer!LockTimeout(p) PROVE ViewerInv'
  <2>1. /\ viewerPc'[p] \in {"lock", "failed"}
        /\ viewerPc' = [viewerPc EXCEPT ![p] = viewerPc'[p]]
        /\ UNCHANGED <<info, exists, saved, samples, overlays, evals, viewerLock>>
    BY <1>0, <1>1 DEF Viewer!Read, Viewer!LockTimeout
  <2>2. ViewerTypes' /\ ViewerRuns'
    BY <1>0, <1>still, <2>1
  <2>3. ASSUME NEW q \in Publications
        PROVE  ViewerOwn(q)' /\ ViewerPlaced(q)' /\ ViewerWriting(q)' /\ ViewerTaken(q)'
    <3>1. viewerPc'[q] = IF q = p THEN viewerPc'[p] ELSE viewerPc[q]
      BY <1>0, <2>1
    <3>2. CASE q = p
      BY <2>1, <3>2
         DEF ViewerOwn, ViewerPlaced, ViewerWriting, ViewerTaken, ViewerHolding, ViewerSeeing,
             ViewerComplete
    <3>3. CASE q # p
      BY <1>0, <2>1, <3>1, <3>3
         DEF ViewerOwn, ViewerPlaced, ViewerWriting, ViewerTaken, ViewerHolding, ViewerSeeing,
             ViewerComplete
    <3> QED BY <3>2, <3>3
  <2> QED BY <2>2, <2>3 DEF ViewerInv
<1>2. ASSUME NEW p \in Publications, Viewer!Acquire(p) PROVE ViewerInv'
  <2>1. /\ viewerPc' = [viewerPc EXCEPT ![p] = "open"] /\ viewerPc'[p] = "open"
        /\ viewerLock = None /\ viewerLock' = p
        /\ UNCHANGED <<info, exists, saved, samples, overlays, evals>>
    BY <1>0, <1>2 DEF Viewer!Acquire, Viewer!Free
  <2>2. ViewerTypes' /\ ViewerRuns'
    BY <1>0, <1>still, <2>1
  <2>3. ASSUME NEW q \in Publications
        PROVE  ViewerOwn(q)' /\ ViewerPlaced(q)' /\ ViewerWriting(q)' /\ ViewerTaken(q)'
    <3>1. viewerPc'[q] = IF q = p THEN viewerPc'[p] ELSE viewerPc[q]
      BY <1>0, <2>1
    <3>2. CASE q = p
      BY <2>1, <3>2
         DEF ViewerOwn, ViewerPlaced, ViewerWriting, ViewerTaken, ViewerHolding, ViewerSeeing,
             ViewerComplete
    <3>3. CASE q # p
      BY <1>0, <2>1, <3>1, <3>3
         DEF ViewerOwn, ViewerPlaced, ViewerWriting, ViewerTaken, ViewerHolding, ViewerSeeing,
             ViewerComplete
    <3> QED BY <3>2, <3>3
  <2> QED BY <2>2, <2>3 DEF ViewerInv
<1>3. ASSUME NEW p \in Publications, Viewer!Create(p) PROVE ViewerInv'
  <2>1. /\ viewerPc' = [viewerPc EXCEPT ![p] = "describe"] /\ viewerPc'[p] = "describe"
        /\ viewerPc[p] = "open" /\ viewerPc[p] \in ViewerHolding /\ viewerLock = p
        /\ ~exists /\ exists' /\ exists' \in BOOLEAN /\ saved = Viewer!Blank /\ samples = {}
        /\ UNCHANGED <<info, saved, samples, overlays, evals, viewerLock>>
    BY <1>0, <1>3 DEF Viewer!Create, ViewerOwn, ViewerHolding, ViewerRuns
  <2>2. ViewerTypes' /\ ViewerRuns'
    <3>1. \A r \in Runs : Viewer!Whole(r)' = Viewer!Whole(r)
      BY <2>1 DEF Viewer!Whole
    <3>2. ViewerTyped(saved)'
      BY <1>0, <2>1
    <3> QED
      BY <1>0, <2>1, <3>1, <3>2 DEF ViewerTypes, ViewerRuns
  <2>3. ASSUME NEW q \in Publications
        PROVE  ViewerOwn(q)' /\ ViewerPlaced(q)' /\ ViewerWriting(q)' /\ ViewerTaken(q)'
    <3>1. viewerPc'[q] = IF q = p THEN viewerPc'[p] ELSE viewerPc[q]
      BY <1>0, <2>1
    <3>2. CASE q = p
      BY <2>1, <3>2
         DEF ViewerOwn, ViewerPlaced, ViewerWriting, ViewerTaken, ViewerHolding, ViewerSeeing,
             ViewerComplete
    <3>3. CASE q # p
      BY <1>0, <1>alone, <2>1, <3>1, <3>3
         DEF ViewerOwn, ViewerPlaced, ViewerWriting, ViewerTaken, ViewerHolding, ViewerSeeing,
             ViewerComplete
    <3> QED BY <3>2, <3>3
  <2> QED BY <2>2, <2>3 DEF ViewerInv
<1>4. ASSUME NEW p \in Publications, Viewer!Describe(p) PROVE ViewerInv'
  BY <1>0, <1>alone, <1>blank, <1>4
     DEF Viewer!Describe, ViewerInv, ViewerTypes, ViewerOwn, ViewerPlaced,
         ViewerWriting, ViewerTaken, ViewerRuns, ViewerTyped, Viewer!Whole, ViewerHolding,
         ViewerSeeing, ViewerComplete, Viewer!Blank
<1>5. ASSUME NEW p \in Publications, Viewer!Load(p) PROVE ViewerInv'
  <2>1. /\ viewerPc'[p] = (IF saved.complete THEN "start" ELSE "samples")
        /\ viewerPc' = [viewerPc EXCEPT ![p] = viewerPc'[p]]
        /\ viewerLock = p /\ info' = [info EXCEPT ![p] = saved] /\ exists
        /\ samples \subseteq Viewer!Images(p)
        /\ saved.complete => samples = Viewer!Images(p)
        /\ UNCHANGED <<exists, saved, samples, overlays, evals, viewerLock>>
    BY <1>0, <1>5 DEF Viewer!Load, Viewer!Compatible, ViewerOwn, ViewerHolding
  <2>2. ViewerTypes' /\ ViewerRuns'
    BY <1>0, <1>still, <2>1
  <2>3. ASSUME NEW q \in Publications
        PROVE  ViewerOwn(q)' /\ ViewerPlaced(q)' /\ ViewerWriting(q)' /\ ViewerTaken(q)'
    <3>1. viewerPc'[q] = IF q = p THEN viewerPc'[p] ELSE viewerPc[q]
      BY <1>0, <2>1
    <3>2. CASE q = p
      BY <1>0, <2>1, <3>2
         DEF ViewerOwn, ViewerPlaced, ViewerWriting, ViewerTaken, ViewerHolding, ViewerSeeing,
             ViewerComplete
    <3>3. CASE q # p
      BY <1>0, <2>1, <3>1, <3>3
         DEF ViewerOwn, ViewerPlaced, ViewerWriting, ViewerTaken, ViewerHolding, ViewerSeeing,
             ViewerComplete
    <3> QED BY <3>2, <3>3
  <2> QED BY <2>2, <2>3 DEF ViewerInv
<1>others. ASSUME NEW p \in Publications, viewerPc[p] \in ViewerHolding,
                  \A q \in Publications : q # p => viewerPc'[q] = viewerPc[q]
           PROVE  \A q \in Publications \ {p} :
                    ViewerOwn(q)' /\ ViewerPlaced(q)' /\ ViewerWriting(q)'
  BY <1>alone, <1>others
     DEF ViewerOwn, ViewerPlaced, ViewerWriting, ViewerHolding, ViewerSeeing, ViewerComplete
<1>6. ASSUME NEW p \in Publications, Viewer!Incompatible(p) PROVE ViewerInv'
  <2>1. /\ viewerPc' = [viewerPc EXCEPT ![p] = "failed"] /\ viewerPc'[p] = "failed"
        /\ viewerPc[p] \in ViewerHolding /\ viewerLock' = None
        /\ UNCHANGED <<exists, info, saved, samples, overlays, evals>>
    BY <1>0, <1>6 DEF Viewer!Incompatible, ViewerHolding
  <2>2. ViewerTypes' /\ ViewerRuns' BY <1>0, <1>still, <2>1
  <2>3. ASSUME NEW q \in Publications
        PROVE  ViewerOwn(q)' /\ ViewerPlaced(q)' /\ ViewerWriting(q)' /\ ViewerTaken(q)'
    <3>1. viewerPc'[q] = IF q = p THEN "failed" ELSE viewerPc[q] BY <1>0, <2>1
    <3> QED
      BY <1>0, <1>alone, <2>1, <3>1
         DEF ViewerOwn, ViewerPlaced, ViewerWriting, ViewerTaken, ViewerHolding, ViewerSeeing,
             ViewerComplete
  <2> QED BY <2>2, <2>3 DEF ViewerInv
<1>7. ASSUME NEW p \in Publications, Viewer!AddSample(p) PROVE ViewerInv'
  BY <1>0, <1>alone, <1>7
     DEF Viewer!AddSample, ViewerInv, ViewerTypes, ViewerOwn, ViewerPlaced,
         ViewerWriting, ViewerTaken, ViewerRuns, ViewerTyped, Viewer!Whole, ViewerHolding,
         ViewerSeeing, ViewerComplete
<1>8. ASSUME NEW p \in Publications, Viewer!CompleteDataset(p) PROVE ViewerInv'
  <2>1. /\ viewerPc[p] = "samples" /\ viewerPc' = [viewerPc EXCEPT ![p] = "start"]
        /\ info[p] = saved /\ viewerLock = p /\ exists /\ ~saved.complete
        /\ saved' = [saved EXCEPT !.complete = TRUE] /\ info' = [info EXCEPT ![p] = saved']
        /\ samples = Viewer!Images(p)
        /\ UNCHANGED <<exists, samples, overlays, evals, viewerLock>>
    BY <1>0, <1>8
       DEF Viewer!CompleteDataset, ViewerOwn, ViewerPlaced, ViewerHolding, ViewerSeeing
  <2>2. /\ saved'.complete /\ saved'.runs = saved.runs /\ DOMAIN saved' = DOMAIN saved
    BY <1>0, <2>1 DEF ViewerTyped
  <2>3. ViewerTypes' BY <1>0, <2>1, <2>2 DEF ViewerTypes, ViewerTyped
  <2>4. ViewerRuns' BY <1>0, <2>1, <2>2 DEF ViewerRuns
  <2>5. ViewerOwn(p)' /\ ViewerPlaced(p)' /\ ViewerWriting(p)'
    BY <1>0, <2>1, <2>2
       DEF ViewerOwn, ViewerPlaced, ViewerWriting, ViewerHolding, ViewerSeeing, ViewerComplete
  <2>6. \A q \in Publications : ViewerTaken(q)' BY <1>0, <2>1, <2>2 DEF ViewerTaken
  <2>7. viewerPc[p] \in ViewerHolding BY <2>1 DEF ViewerHolding, ViewerSeeing
  <2>8. \A q \in Publications \ {p} : ViewerOwn(q)' /\ ViewerPlaced(q)' /\ ViewerWriting(q)'
    BY <1>0, <1>others, <2>1, <2>7
  <2> QED BY <2>3, <2>4, <2>5, <2>6, <2>8 DEF ViewerInv
<1>9. ASSUME NEW p \in Publications, Viewer!StartRun(p) PROVE ViewerInv'
  <2>1. /\ viewerPc[p] = "start" /\ viewerPc' = [viewerPc EXCEPT ![p] = "clean"]
        /\ info[p] = saved /\ viewerLock = p /\ exists /\ saved.complete
        /\ saved' = [saved EXCEPT !.runs[Viewer!Run(p)] = Viewer!Begun(p)]
        /\ info' = [info EXCEPT ![p] = saved'] /\ samples = Viewer!Images(p)
        /\ UNCHANGED <<exists, samples, overlays, evals, viewerLock>>
    BY <1>0, <1>9
       DEF Viewer!StartRun, ViewerOwn, ViewerPlaced, ViewerHolding, ViewerSeeing, ViewerComplete
  <2>2. /\ saved'.complete /\ DOMAIN saved' = DOMAIN saved /\ DOMAIN saved'.runs = Runs
        /\ saved'.runs[Viewer!Run(p)] = Viewer!Begun(p)
        /\ \A r \in Runs : r # Viewer!Run(p) => saved'.runs[r] = saved.runs[r]
    BY <1>0, <2>1 DEF ViewerTyped
  <2>3. /\ DOMAIN Viewer!Begun(p) = {"by", "complete", "keys"}
        /\ Viewer!Begun(p).complete = FALSE /\ Viewer!Begun(p).by = p
    BY DEF Viewer!Begun
  <2>4. ViewerTypes' BY <1>0, <2>1, <2>2, <2>3 DEF ViewerTypes, ViewerTyped
  <2>5. ViewerRuns'
    <3>1. ASSUME NEW r \in Runs, saved'.runs[r].complete PROVE Viewer!Whole(r)'
      <4>1. saved'.runs[r] = saved.runs[r] BY <2>2, <2>3, <3>1
      <4>2. Viewer!Whole(r) BY <1>0, <3>1, <4>1 DEF ViewerRuns
      <4> QED BY <2>1, <4>1, <4>2 DEF Viewer!Whole
    <3> QED BY <2>1, <2>2, <3>1 DEF ViewerRuns
  <2>6. ViewerOwn(p)' /\ ViewerPlaced(p)' /\ ViewerWriting(p)'
    BY <1>0, <2>1, <2>2
       DEF ViewerOwn, ViewerPlaced, ViewerWriting, ViewerHolding, ViewerSeeing, ViewerComplete
  <2>7. \A q \in Publications : ViewerTaken(q)'
    BY <1>0, <2>1, <2>2, <2>3 DEF ViewerTaken
  <2>8. viewerPc[p] \in ViewerHolding BY <2>1 DEF ViewerHolding, ViewerSeeing
  <2>9. \A q \in Publications \ {p} : ViewerOwn(q)' /\ ViewerPlaced(q)' /\ ViewerWriting(q)'
    BY <1>0, <1>others, <2>1, <2>8
  <2> QED BY <2>4, <2>5, <2>6, <2>7, <2>9 DEF ViewerInv
\* What is removed or written of a run that is declared incomplete is not of a
\* complete one.
<1>10. ASSUME NEW p \in Publications,
              \/ Viewer!RemoveEvaluation(p) \/ Viewer!Cleaned(p)
              \/ Viewer!WriteOverlay(p) \/ Viewer!Overlaid(p) \/ Viewer!Register(p)
       PROVE  ViewerInv'
  <2>1. /\ viewerPc[p] \in {"clean", "overlay", "evaluate"}
        /\ viewerPc'[p] \in {"clean", "overlay", "evaluate"}
        /\ DOMAIN viewerPc' = Publications
        /\ \A q \in Publications : q # p => viewerPc'[q] = viewerPc[q]
        /\ UNCHANGED <<info, exists, saved, samples, viewerLock>>
    BY <1>0, <1>10
       DEF Viewer!RemoveEvaluation, Viewer!Cleaned, Viewer!WriteOverlay, Viewer!Overlaid,
           Viewer!Register
  <2>2. /\ saved.runs[Viewer!Run(p)] = Viewer!Begun(p) /\ ~saved.runs[Viewer!Run(p)].complete
    BY <1>0, <2>1 DEF ViewerWriting, Viewer!Begun
  <2>3. /\ DOMAIN overlays' = Runs
        /\ \A r \in Runs \ {Viewer!Run(p)} :
             overlays'[r] = overlays[r] /\ {e \in evals' : e.run = r} = {e \in evals : e.run = r}
    <3>1. CASE Viewer!RemoveEvaluation(p)
      BY <1>0, <3>1 DEF Viewer!RemoveEvaluation, Viewer!Mine
    <3>2. CASE Viewer!Cleaned(p) \/ Viewer!Overlaid(p)
      BY <1>0, <3>2 DEF Viewer!Cleaned, Viewer!Overlaid
    <3>3. CASE Viewer!WriteOverlay(p)
      BY <1>0, <3>3 DEF Viewer!WriteOverlay
    <3>4. CASE Viewer!Register(p)
      <4>1. PICK e \in Viewer!Evaluations(p) : evals' = evals \union {Viewer!Key(p, e)}
        BY <3>4 DEF Viewer!Register
      <4>2. Viewer!Key(p, e).run = Viewer!Run(p) BY DEF Viewer!Key
      <4>3. UNCHANGED overlays BY <3>4 DEF Viewer!Register
      <4> QED BY <1>0, <4>1, <4>2, <4>3
    <3> QED BY <1>10, <3>1, <3>2, <3>3, <3>4
  <2>4. ViewerTypes' BY <1>0, <2>1, <2>3 DEF ViewerTypes, ViewerTyped
  <2>5. ViewerRuns' BY <1>0, <2>1, <2>2, <2>3 DEF ViewerRuns, Viewer!Whole
  <2>6. ViewerWriting(p)'
    <3>1. CASE Viewer!RemoveEvaluation(p) \/ Viewer!Cleaned(p)
      BY <1>0, <2>1, <2>2, <3>1
         DEF Viewer!RemoveEvaluation, Viewer!Cleaned, Viewer!Mine, ViewerWriting
    <3>2. CASE Viewer!WriteOverlay(p)
      BY <1>0, <2>1, <2>2, <3>2 DEF Viewer!WriteOverlay, ViewerWriting
    <3>3. CASE Viewer!Overlaid(p)
      BY <1>0, <2>1, <2>2, <3>3 DEF Viewer!Overlaid, ViewerWriting
    <3>4. CASE Viewer!Register(p)
      BY <1>0, <2>1, <2>2, <3>4 DEF Viewer!Register, ViewerWriting
    <3> QED BY <1>10, <3>1, <3>2, <3>3, <3>4
  <2>7. ViewerOwn(p)' /\ ViewerPlaced(p)'
    BY <1>0, <2>1 DEF ViewerOwn, ViewerPlaced, ViewerHolding, ViewerSeeing, ViewerComplete
  <2>8. \A q \in Publications : ViewerTaken(q)' BY <1>0, <2>1 DEF ViewerTaken
  <2>9. viewerPc[p] \in ViewerHolding BY <2>1 DEF ViewerHolding, ViewerSeeing
  <2>10. \A q \in Publications \ {p} : ViewerOwn(q)' /\ ViewerPlaced(q)' /\ ViewerWriting(q)'
    BY <1>0, <1>others, <2>1, <2>9
  <2> QED BY <2>4, <2>5, <2>6, <2>7, <2>8, <2>10 DEF ViewerInv
<1>11. ASSUME NEW p \in Publications, Viewer!FinishRun(p) PROVE ViewerInv'
  <2> DEFINE run == Viewer!Run(p)
             keys == {Viewer!Key(p, e) : e \in Viewer!Evaluations(p)}
  <2> HIDE DEF keys
  <2>0. /\ viewerPc[p] = "evaluate" /\ viewerPc' = [viewerPc EXCEPT ![p] = "release"]
        /\ saved' = [info[p] EXCEPT !.runs[run].complete = TRUE, !.runs[run].keys = keys]
        /\ info' = [info EXCEPT ![p] = saved']
        /\ \A e \in Viewer!Evaluations(p) : Viewer!Key(p, e) \in evals
        /\ UNCHANGED <<exists, samples, overlays, evals, viewerLock>>
    BY <1>11 DEF Viewer!FinishRun, keys
  <2>1. /\ info[p] = saved /\ viewerLock = p /\ exists /\ saved.complete
        /\ samples = Viewer!Images(p) /\ saved.runs[run] = Viewer!Begun(p)
    BY <1>0, <2>0
       DEF ViewerOwn, ViewerPlaced, ViewerWriting, ViewerHolding, ViewerSeeing, ViewerComplete
  <2>2. /\ saved'.complete /\ DOMAIN saved' = DOMAIN saved /\ DOMAIN saved'.runs = Runs
        /\ saved'.runs[run] = [by |-> p, complete |-> TRUE, keys |-> keys]
        /\ \A r \in Runs : r # run => saved'.runs[r] = saved.runs[r]
    <3>1. saved' = [saved EXCEPT !.runs[run].complete = TRUE, !.runs[run].keys = keys]
      BY <2>0, <2>1
    <3>2. /\ saved'.complete /\ DOMAIN saved' = DOMAIN saved /\ DOMAIN saved'.runs = Runs
          /\ saved'.runs[run] = [saved.runs[run] EXCEPT !.complete = TRUE, !.keys = keys]
          /\ \A r \in Runs : r # run => saved'.runs[r] = saved.runs[r]
      BY <1>0, <2>1, <3>1 DEF ViewerTyped
    <3>3. saved'.runs[run] = [[by |-> p, complete |-> FALSE, keys |-> {}]
                                EXCEPT !.complete = TRUE, !.keys = keys]
      BY <2>1, <3>2 DEF Viewer!Begun
    <3>4. saved'.runs[run] = [by |-> p, complete |-> TRUE, keys |-> keys] BY <3>3
    <3> QED BY <3>2, <3>4
  <2>3. /\ \A n \in samples : overlays[run][n] = p
        /\ {e \in evals : e.run = run} = keys
    <3>1. \A e \in Viewer!Evaluations(p) : Viewer!Key(p, e).run = run BY DEF Viewer!Key
    <3> QED BY <1>0, <2>0, <2>1, <3>1 DEF ViewerWriting, keys
  <2>4. ViewerTypes'
    <3>1. /\ DOMAIN saved'.runs[run] = {"by", "complete", "keys"}
          /\ saved'.runs[run].complete = TRUE
      BY <2>2
    <3>2. ViewerTyped(saved)' BY <1>0, <2>2, <3>1 DEF ViewerTyped
    <3> QED BY <1>0, <2>0, <3>2 DEF ViewerTypes
  <2>5. ViewerRuns'
    <3>1. Viewer!Whole(run)' BY <1>0, <2>0, <2>1, <2>2, <2>3 DEF Viewer!Whole, keys
    <3>2. ASSUME NEW r \in Runs, r # run, saved'.runs[r].complete PROVE Viewer!Whole(r)'
      <4>1. saved'.runs[r] = saved.runs[r] BY <2>2, <3>2
      <4>2. Viewer!Whole(r) BY <1>0, <3>2, <4>1 DEF ViewerRuns
      <4> QED BY <2>0, <4>1, <4>2 DEF Viewer!Whole
    <3> QED BY <2>0, <2>1, <2>2, <3>1, <3>2 DEF ViewerRuns
  <2>6. ViewerOwn(p)' /\ ViewerPlaced(p)' /\ ViewerWriting(p)'
    BY <1>0, <2>0, <2>1, <2>2
       DEF ViewerOwn, ViewerPlaced, ViewerWriting, ViewerHolding, ViewerSeeing, ViewerComplete
  <2>7. \A q \in Publications : ViewerTaken(q)' BY <1>0, <2>0, <2>1, <2>2 DEF ViewerTaken
  <2>8. viewerPc[p] \in ViewerHolding BY <2>0 DEF ViewerHolding, ViewerSeeing
  <2>9. \A q \in Publications \ {p} : ViewerOwn(q)' /\ ViewerPlaced(q)' /\ ViewerWriting(q)'
    BY <1>0, <1>others, <2>0, <2>1, <2>8
  <2> QED BY <2>4, <2>5, <2>6, <2>7, <2>9 DEF ViewerInv
\* The lock goes with its holder, who is done or dead.
<1>12. ASSUME NEW p \in Publications, Viewer!Release(p) \/ Viewer!Kill(p) PROVE ViewerInv'
  <2>1. /\ viewerPc'[p] \in {"published", "killed"}
        /\ viewerPc' = [viewerPc EXCEPT ![p] = viewerPc'[p]]
        /\ viewerPc'[p] = "published" => viewerPc[p] = "release"
        /\ viewerLock' = IF viewerLock = p THEN None ELSE viewerLock
        /\ UNCHANGED <<info, exists, saved, samples, overlays, evals>>
    BY <1>0, <1>12 DEF Viewer!Release, Viewer!Kill
  <2>2. ViewerTypes' /\ ViewerRuns'
    BY <1>0, <1>still, <2>1
  <2>3. ASSUME NEW q \in Publications
        PROVE  ViewerOwn(q)' /\ ViewerPlaced(q)' /\ ViewerWriting(q)' /\ ViewerTaken(q)'
    BY <1>0, <2>1
       DEF ViewerOwn, ViewerPlaced, ViewerWriting, ViewerTaken, ViewerHolding, ViewerSeeing,
           ViewerComplete
  <2> QED BY <2>2, <2>3 DEF ViewerInv
<1>13. CASE UNCHANGED Viewer!vars
  BY <1>13
     DEF Viewer!vars, ViewerInv, ViewerTypes, ViewerOwn, ViewerPlaced,
         ViewerWriting, ViewerTaken, ViewerRuns, ViewerTyped, Viewer!Whole
<1>14. CASE Viewer!Done BY <1>13, <1>14 DEF Viewer!Done
<1> QED
  BY <1>1, <1>2, <1>3, <1>4, <1>5, <1>6, <1>7, <1>8, <1>9, <1>10, <1>11, <1>12, <1>13, <1>14
     DEF Viewer!Next, Viewer!Step

(***************************************************************************)
(* A run the dataset calls complete shows one publication and all of it,   *)
(* and a publication that returned its receipt is still there or was taken *)
(* over, for any publications, runs and kills.  (publish, _dataset,        *)
(* _write_run, publish_evaluation)                                         *)
(***************************************************************************)
THEOREM Published == Spec => []RunWhole
<1>1. Init => (focus = "viewer" => ViewerInv)
  <2> SUFFICES ASSUME Init, focus = "viewer" PROVE ViewerInv
    OBVIOUS
  <2>1. Viewer!Init BY DEF Init
  <2> QED
    BY <2>1
       DEF Viewer!Init, Viewer!Blank, Viewer!Unstarted, ViewerInv, ViewerTypes, ViewerTyped,
           ViewerRuns, ViewerOwn, ViewerPlaced, ViewerWriting, ViewerTaken, ViewerHolding,
           ViewerSeeing, ViewerComplete
<1>2. (focus = "viewer" => ViewerInv) /\ [Next]_vars => (focus = "viewer" => ViewerInv)'
  BY InFocus, ViewerStep
<1>3. (focus = "viewer" => ViewerInv) => RunWhole
  BY DEF ViewerInv, ViewerRuns, ViewerTaken, RunWhole, Viewer!RunWhole
<1> QED BY <1>1, <1>2, <1>3, PTL DEF Spec

-----------------------------------------------------------------------------
(* The worker of a viewer operation and its supervisor (ViewerWorker) *)

\* Before the worker is spawned there is nothing; it works only through the gate,
\* which opens once it is accounted for.
HelperStarted ==
  /\ helperPc \in {"mark", "spawn"} =>
       phase = "none" /\ alive = {} /\ scratch = "made" /\ error = "none"
  /\ gate => attached
  /\ phase \notin {"none", "gate"} => attached
\* The cleanup knows everything that lives, and leaves the directory only when
\* nothing does.
HelperOwned ==
  /\ helperPc \in {"settle", "reap"} => alive \subseteq known
  /\ helperPc = "close" /\ (scratch # "retained" \/ error = "none") => alive = {}
  /\ scratch = "removed" => helperPc = "end" /\ alive = {}
\* No error by then means a worker that exited well and answered.
HelperAnswered ==
  /\ helperPc \in {"terminate", "settle", "reap", "close", "end"} /\ error = "none"
       /\ outcome # "raised" =>
       Worker \notin alive /\ helperStatus = "zero" /\ helperResult = "mine"
  /\ outcome # "none" => helperPc = "end"
  /\ outcome = "returned" => ~helperLate /\ error = "none" /\ alive = {}
HelperInv == HelperStarted /\ HelperOwned /\ HelperAnswered

LEMMA HelperStep ==
  ASSUME HelperInv, [Helper!Next]_(Helper!vars)
  PROVE  HelperInv'
<1> USE DEF Helper!Go, Helper!process, HelperInv, HelperStarted, HelperOwned, HelperAnswered
<1>1. CASE Helper!Mark BY <1>1 DEF Helper!Mark
<1>2. CASE Helper!Spawn BY <1>2 DEF Helper!Spawn
<1>3. CASE Helper!Attach BY <1>3 DEF Helper!Attach
<1>4. CASE Helper!Refresh BY <1>4 DEF Helper!Refresh, Helper!Seen
<1>5. CASE Helper!Expire BY <1>5 DEF Helper!Expire
<1>6. CASE Helper!Exited BY <1>6 DEF Helper!Exited, Helper!Acceptable
<1>7. CASE Helper!Terminate
  BY <1>7 DEF Helper!Terminate, Helper!Signal, Helper!Gone, Helper!Seen
<1>8. CASE Helper!LookAgain BY <1>8 DEF Helper!LookAgain, Helper!Seen
<1>9. CASE Helper!Destroy
  BY <1>9 DEF Helper!Destroy, Helper!Signal, Helper!Gone, Helper!Seen
<1>10. CASE Helper!Reap
  BY <1>10 DEF Helper!Reap, Helper!Unproved, Helper!Living, Helper!Retained
<1>11. CASE Helper!Close BY <1>11 DEF Helper!Close, Helper!KeepsScratch
<1>12. CASE Helper!Interrupt BY <1>12 DEF Helper!Interrupt
<1>13. CASE Helper!Pass BY <1>13 DEF Helper!Pass, Helper!Work
<1>14. CASE Helper!Fork BY <1>14 DEF Helper!Fork
<1>15. CASE Helper!Answer BY <1>15 DEF Helper!Answer, Helper!Work
<1>16. CASE Helper!Exit BY <1>16 DEF Helper!Exit
<1>17. CASE Helper!HelperEnds BY <1>17 DEF Helper!HelperEnds
<1>18. CASE Helper!Deadline BY <1>18 DEF Helper!Deadline
<1>19. CASE UNCHANGED Helper!vars BY <1>19 DEF Helper!vars
<1>20. CASE Helper!Done BY <1>19, <1>20 DEF Helper!Done
<1> QED
  BY <1>1, <1>2, <1>3, <1>4, <1>5, <1>6, <1>7, <1>8, <1>9, <1>10, <1>11, <1>12, <1>13, <1>14,
     <1>15, <1>16, <1>17, <1>18, <1>19, <1>20
     DEF Helper!Next

(***************************************************************************)
(* The scratch directory of an operation is removed only when no process   *)
(* of it is left, an answer is of a worker that exited well and in time,   *)
(* and no worker works before it is owned: for any helpers, any of which   *)
(* may ignore signals, and an interruption at any step of ViewerWorker.    *)
(* Two windows of the code are not among its steps and not claimed: an     *)
(* interruption between Popen and the try that follows it, and a helper    *)
(* forked after the last look.  (bounded.py _operation_scratch,            *)
(* _OwnedProcesses, _validated_result)                                     *)
(***************************************************************************)
THEOREM Scratches == Spec => []ScratchSafe
<1>1. Init => (focus = "viewer worker" => HelperInv)
  <2> SUFFICES ASSUME Init, focus = "viewer worker" PROVE HelperInv
    OBVIOUS
  <2>1. Helper!Init BY DEF Init
  <2> QED BY <2>1 DEF Helper!Init, HelperInv, HelperStarted, HelperOwned, HelperAnswered
<1>2. (focus = "viewer worker" => HelperInv) /\ [Next]_vars
        => (focus = "viewer worker" => HelperInv)'
  BY InFocus, HelperStep
<1>3. (focus = "viewer worker" => HelperInv) => ScratchSafe
  BY DEF HelperInv, HelperStarted, HelperOwned, HelperAnswered, ScratchSafe,
         Helper!ScratchSafe, Helper!Acceptable
<1> QED BY <1>1, <1>2, <1>3, PTL DEF Spec

-----------------------------------------------------------------------------
(* The documentation server and its previews (DocumentationServer) *)

DocsTypes ==
  /\ DOMAIN docsThread = Clients /\ DOMAIN leader = Clients /\ processes \subseteq Clients
  /\ children \subseteq Clients /\ strays = {}
\* A worker whose number is still taken is in the pool's table, which the
\* request's thread and the closing main thread both take it from once it is reaped.
DocsGroups(r) ==
  /\ leader[r] \in {"none", "alive", "exited", "reaped"}
  /\ docsThread[r] \in {"none", "open", "asked", "slot"} =>
       leader[r] = "none" /\ r \notin processes \union docsPending
  /\ r \in children => leader[r] \in {"alive", "exited"}
  /\ leader[r] \in {"alive", "exited"} => r \in processes
  /\ docsThread[r] = "clean" \/ r \in stopped => leader[r] = "reaped"
  /\ docsThread[r] \in {"freed", "answered", "shut", "gone"} =>
       leader[r] \in {"none", "reaped"} /\ r \notin directories
DocsClosing ==
  /\ directories \subseteq processes
  /\ main \in {"release", "ended"} => closed /\ processes \subseteq docsPending
  /\ main = "ended" => docsPending = {}
DocsInv == DocsTypes /\ DocsClosing /\ \A r \in Clients : DocsGroups(r)

LEMMA DocsStep ==
  ASSUME DocsInv, [Docs!Next]_(Docs!vars)
  PROVE  DocsInv'
<1> USE DEF Docs!Goes, Docs!Step, Docs!pool, Docs!group, Docs!held, Docs!ending, DocsInv,
            DocsTypes, DocsClosing, DocsGroups
<1>1. CASE Docs!Interrupt \/ Docs!ServerClose \/ Docs!Close \/ Docs!End
  BY <1>1 DEF Docs!Interrupt, Docs!ServerClose, Docs!Close, Docs!End
<1>2. ASSUME NEW r \in Clients, Docs!GetRequest(r) PROVE DocsInv'
  BY <1>2 DEF Docs!GetRequest
<1>3. ASSUME NEW r \in Clients, Docs!ProcessRequest(r) PROVE DocsInv'
  BY <1>3 DEF Docs!ProcessRequest
<1>4. ASSUME NEW r \in Clients, Docs!Parse(r) \/ Docs!Acquire(r) PROVE DocsInv'
  BY <1>4 DEF Docs!Parse, Docs!Acquire
<1>5. ASSUME NEW r \in Clients, Docs!StartWorker(r) PROVE DocsInv'
  BY <1>5 DEF Docs!StartWorker, Docs!MayStart, Docs!Opened
<1>6. ASSUME NEW r \in Clients, Docs!StartFails(r) PROVE DocsInv'
  BY <1>6 DEF Docs!StartFails
<1>7. ASSUME NEW r \in Clients, Docs!WorkerForks(r) \/ Docs!WorkerExits(r) PROVE DocsInv'
  BY <1>7 DEF Docs!WorkerForks, Docs!WorkerExits
<1>8. ASSUME NEW r \in Clients, Docs!Communicate(r) PROVE DocsInv'
  BY <1>8 DEF Docs!Communicate
<1>9. ASSUME NEW r \in Clients, Docs!WaitWorker(r) PROVE DocsInv'
  BY <1>9 DEF Docs!WaitWorker, Docs!EndExited, Docs!KillGroup
<1>10. ASSUME NEW r \in Clients, Docs!ThreadStops(r) PROVE DocsInv'
  BY <1>10 DEF Docs!ThreadStops, Docs!Stop, Docs!KillGroup
<1>11. ASSUME NEW r \in Clients, Docs!ThreadCleans(r) PROVE DocsInv'
  BY <1>11 DEF Docs!ThreadCleans, Docs!CleanUp
<1>12. ASSUME NEW r \in Clients,
              Docs!FreeSlot(r) \/ Docs!ShutdownRequest(r) \/ Docs!Return(r)
       PROVE  DocsInv'
  BY <1>12 DEF Docs!FreeSlot, Docs!ShutdownRequest, Docs!Return
<1>13. ASSUME NEW r \in Clients, Docs!Release(r) PROVE DocsInv'
  <2>1. CASE stopped = {r}
    BY <1>13, <2>1 DEF Docs!Release, Docs!CleanUp
  <2>2. CASE stopped # {r} /\ leader[r] = "reaped"
    BY <1>13, <2>2 DEF Docs!Release, Docs!Stop
  <2>3. CASE stopped # {r} /\ leader[r] # "reaped"
    <3>1. /\ main = "release" /\ r \in docsPending /\ stopped' = {r}
          /\ leader' = [leader EXCEPT ![r] = "reaped"] /\ children' = children \ {r}
          /\ main' = main /\ docsThread' = docsThread /\ processes' = processes
          /\ directories' = directories /\ closed' = closed /\ docsPending' = docsPending
          /\ strays' = strays
      BY <1>13, <2>3 DEF Docs!Release, Docs!Stop, Docs!KillGroup
    <3>2. \A q \in Clients : DocsGroups(q)' BY <3>1
    <3>3. DocsTypes' /\ DocsClosing' BY <3>1
    <3> QED BY <3>2, <3>3
  <2> QED BY <2>1, <2>2, <2>3
<1>14. CASE UNCHANGED Docs!vars BY <1>14 DEF Docs!vars
<1> QED
  BY <1>1, <1>2, <1>3, <1>4, <1>5, <1>6, <1>7, <1>8, <1>9, <1>10, <1>11, <1>12, <1>13, <1>14
     DEF Docs!Next

(***************************************************************************)
(* A group is never signalled once its number was given up, a request that *)
(* is done leaves no child and no directory, and a server that has closed  *)
(* leaves nothing, for any clients and permits and however the threads and *)
(* the main thread interleave.  (_run, _release, _stop, close)             *)
(***************************************************************************)
THEOREM Previews == Spec => []Disposable
<1>1. Init => (focus = "documentation" => DocsInv)
  <2> SUFFICES ASSUME Init, focus = "documentation" PROVE DocsInv
    OBVIOUS
  <2>1. Docs!Init BY DEF Init
  <2> QED BY <2>1 DEF Docs!Init, DocsInv, DocsTypes, DocsClosing, DocsGroups
<1>2. (focus = "documentation" => DocsInv) /\ [Next]_vars
        => (focus = "documentation" => DocsInv)'
  BY InFocus, DocsStep
<1>3. (focus = "documentation" => DocsInv) => Disposable
  <2> SUFFICES ASSUME focus = "documentation", DocsInv PROVE Docs!Disposable
    BY DEF Disposable
  <2>1. main = "ended" => processes = {} /\ directories = {} /\ children = {}
    BY DEF DocsInv, DocsTypes, DocsClosing, DocsGroups
  <2> QED BY <2>1 DEF DocsInv, DocsTypes, DocsGroups, Docs!Disposable
<1> QED BY <1>1, <1>2, <1>3, PTL DEF Spec

-----------------------------------------------------------------------------
(* The ranks of a distributed training (TrainingRanks) *)

RanksTypes ==
  /\ DOMAIN rank = Ranks!Ranks /\ DOMAIN ranksReceipt = Ranks!Ranks
  /\ DOMAIN codes = Ranks!Ranks /\ child \subseteq Ranks!Ranks
  /\ written \in 0..(2 * Lines)
\* What was relayed are the first complete lines.
RanksRelayed ==
  \E n \in Nat : 2 * n <= written /\ relayed = [i \in 1..n |-> i]
\* Rank zero succeeds with all lines written, and what the owner has seen succeed
\* exited with zero.
RanksSeen ==
  /\ ranksReceipt[0] = "success" => written = 2 * Lines
  /\ \A r \in Ranks!Ranks : codes[r] = "zero" \/ ranksStatus = "success" => rank[r] = "zero"
RanksEnded ==
  /\ ranksPc \in {"finish", "returned", "raised"} /\ ~unverified =>
       child = {} /\ \A r \in Ranks!Ranks : rank[r] # "running"
  /\ ranksPc = "returned" =>
       /\ \A r \in Ranks!Ranks : rank[r] = "zero" /\ ranksReceipt[r] = "success"
       /\ relayed = [i \in 1..Lines |-> i]
\* A tree the cleanup has been at is gone or failed; once it is over it has been
\* at all of them, and a failure is on its way to the caller.
RanksStopped ==
  /\ \A r \in handled \ unstopped : rank[r] \notin {"unborn", "running"} /\ r \notin child
  /\ handled \subseteq trees /\ trees \subseteq {r \in Ranks!Ranks : rank[r] # "unborn"}
  /\ ranksPc \in {"spawn", "poll", "decide", "monitor"} => unstopped = {}
  /\ ranksPc \in {"scope", "finish", "returned", "raised"} /\ ranksInterrupted # "stopping" =>
       trees \subseteq handled
  /\ ranksPc \in {"scope", "finish"} => unstopped = {} \/ ranksStatus = "raised"
  /\ ranksPc = "returned" => unstopped = {}
RanksInv == RanksTypes /\ RanksRelayed /\ RanksSeen /\ RanksEnded /\ RanksStopped

\* Relaying takes over every complete line, and those already relayed stay.
LEMMA RelayedLines ==
  ASSUME RanksTypes, RanksRelayed, Ranks!Relay, written' = written
  PROVE  /\ RanksRelayed'
         /\ relayed' = [i \in 1..(written \div 2) |-> i]
<1>1. PICK n \in Nat : 2 * n <= written /\ relayed = [i \in 1..n |-> i]
  BY DEF RanksRelayed
<1> DEFINE w == written \div 2
<1>2. /\ w \in Nat /\ n <= w /\ 2 * w <= written /\ written \in Nat
  BY <1>1, HostAssumption DEF RanksTypes
<1>3. relayed \in Seq(Nat) /\ Len(relayed) = n
  BY <1>1
<1>4. relayed' = relayed \o [i \in 1..(w - n) |-> n + i]
  BY <1>3 DEF Ranks!Relay, Ranks!Offset
<1> HIDE DEF w
<1>5. /\ [i \in 1..(w - n) |-> n + i] \in Seq(Nat) /\ Len([i \in 1..(w - n) |-> n + i]) = w - n
  BY <1>2
<1>6. /\ relayed' \in Seq(Nat) /\ Len(relayed') = w
      /\ \A i \in 1..w : relayed'[i] = i
  BY <1>1, <1>2, <1>3, <1>4, <1>5
<1>7. relayed' = [i \in 1..w |-> i] BY <1>2, <1>6
<1> QED BY <1>2, <1>7 DEF RanksRelayed, w

LEMMA RanksStep ==
  ASSUME RanksInv, [Ranks!Next]_(Ranks!vars)
  PROVE  RanksInv'
<1> USE DEF Ranks!work, Ranks!stops, Ranks!Still, Ranks!Owned, Ranks!Running
<1>0. /\ World \in Nat \ {0} /\ Lines \in Nat /\ RanksInv
      /\ Ranks!Ranks = 0..(World - 1) /\ 0 \in Ranks!Ranks
  BY HostAssumption DEF Ranks!Ranks
<1>1. CASE Ranks!Report
  <2>1. RanksTypes' /\ RanksRelayed'
    BY <1>0, <1>1 DEF RanksInv, Ranks!Report, RanksTypes, RanksRelayed
  <2> QED BY <1>0, <1>1, <2>1 DEF RanksInv, Ranks!Report, RanksTypes, RanksSeen, RanksEnded, RanksStopped
<1>2. ASSUME NEW r \in Ranks!Ranks, Ranks!Fork(r) PROVE RanksInv'
  BY <1>0, <1>2 DEF RanksInv, Ranks!Fork, RanksTypes, RanksRelayed, RanksSeen, RanksEnded, RanksStopped
<1>3. ASSUME NEW r \in Ranks!Ranks, Ranks!WriteReceipt(r) PROVE RanksInv'
  BY <1>0, <1>3 DEF RanksInv, Ranks!WriteReceipt, RanksTypes, RanksRelayed, RanksSeen, RanksEnded, RanksStopped
<1>4. ASSUME NEW r \in Ranks!Ranks, Ranks!Exit(r) PROVE RanksInv'
  BY <1>0, <1>4 DEF RanksInv, Ranks!Exit, RanksTypes, RanksRelayed, RanksSeen, RanksEnded, RanksStopped
<1>5. ASSUME NEW r \in Ranks!Ranks, Ranks!Spawn(r) PROVE RanksInv'
  BY <1>0, <1>5 DEF RanksInv, Ranks!Spawn, RanksTypes, RanksRelayed, RanksSeen, RanksEnded, RanksStopped
<1>6. CASE Ranks!SpawnFails
  BY <1>0, <1>6 DEF RanksInv, Ranks!SpawnFails, RanksTypes, RanksRelayed, RanksSeen, RanksEnded, RanksStopped
<1>7. ASSUME NEW r \in Ranks!Ranks, Ranks!Poll(r) PROVE RanksInv'
  BY <1>0, <1>7
     DEF RanksInv, Ranks!Poll, Ranks!Code, RanksTypes, RanksRelayed, RanksSeen, RanksEnded, RanksStopped
<1>8. CASE Ranks!Decide
  BY <1>0, <1>8
     DEF RanksInv, Ranks!Decide, Ranks!Succeeded, Ranks!Unknown, RanksTypes, RanksRelayed,
         RanksSeen, RanksEnded, RanksStopped
<1>9. CASE Ranks!Monitor
  BY <1>0, <1>9, RelayedLines DEF RanksInv, Ranks!Monitor, RanksTypes, RanksSeen, RanksEnded, RanksStopped
<1>10. CASE Ranks!Interrupt
  BY <1>0, <1>10 DEF RanksInv, Ranks!Interrupt, RanksTypes, RanksRelayed, RanksSeen, RanksEnded, RanksStopped
<1>11. CASE Ranks!StopWorkers
  BY <1>0, <1>11
     DEF RanksInv, Ranks!StopWorkers, Ranks!Handled, RanksTypes, RanksRelayed, RanksSeen, RanksEnded, RanksStopped
<1>12. CASE Ranks!LeaveScope
  BY <1>0, <1>12
     DEF RanksInv, Ranks!LeaveScope, Ranks!Scoped, Ranks!Kill, RanksTypes, RanksRelayed,
         RanksSeen, RanksEnded, RanksStopped
<1>13. CASE Ranks!Finish
  <2>1. RanksRelayed' /\ relayed' = [i \in 1..(written \div 2) |-> i]
    BY <1>0, <1>13, RelayedLines DEF RanksInv, Ranks!Finish
  <2>2. (2 * Lines) \div 2 = Lines BY <1>0
  <2> QED
    BY <1>0, <1>13, <2>1, <2>2 DEF RanksInv, Ranks!Finish, RanksTypes, RanksSeen, RanksEnded, RanksStopped
<1>14. CASE UNCHANGED Ranks!vars
  BY <1>14 DEF Ranks!vars, RanksInv, RanksTypes, RanksRelayed, RanksSeen, RanksEnded, RanksStopped
<1>15. ASSUME NEW r \in Ranks!Ranks, Ranks!StopTree(r) PROVE RanksInv'
  <2>1. /\ ranksPc = "stop" /\ ranksPc' = "stop" /\ r \in trees /\ handled' = handled \union {r}
        /\ rank' \in {rank, Ranks!Kill({r})} /\ child' \in {child, child \ {r}}
        /\ unstopped' \in {unstopped, unstopped \union {r}}
        /\ r \in unstopped' \/ (rank' = Ranks!Kill({r}) /\ child' = child \ {r})
        /\ UNCHANGED <<ranksReceipt, written, relayed, trees, codes, ranksStatus,
                        ranksInterrupted, unverified>>
    BY <1>15 DEF Ranks!StopTree, Ranks!Goes
  <2>2. /\ DOMAIN rank' = Ranks!Ranks
        /\ \A q \in Ranks!Ranks : rank'[q] = rank[q] \/ (rank[q] = "running" /\ rank'[q] = "killed")
        /\ rank' = Ranks!Kill({r}) => rank'[r] # "running"
    BY <1>0, <2>1 DEF RanksInv, RanksTypes, Ranks!Kill
  <2>3. RanksTypes' BY <1>0, <2>1, <2>2 DEF RanksInv, RanksTypes
  <2>4. RanksRelayed' BY <1>0, <2>1 DEF RanksInv, RanksRelayed
  <2>5. RanksSeen' /\ RanksEnded' BY <1>0, <2>1, <2>2 DEF RanksInv, RanksSeen, RanksEnded
  <2>6. RanksStopped'
    <3>1. \A q \in handled \ unstopped : q # r =>
            rank'[q] \notin {"unborn", "running"} /\ q \notin child'
      BY <1>0, <2>1, <2>2 DEF RanksInv, RanksStopped
    <3>2. r \notin unstopped' => rank'[r] \notin {"unborn", "running"} /\ r \notin child'
      BY <1>0, <2>1, <2>2 DEF RanksInv, RanksStopped
    <3>3. \A q \in handled' \ unstopped' : q = r \/ q \in handled \ unstopped BY <2>1
    <3>4. \A q \in handled' \ unstopped' : rank'[q] \notin {"unborn", "running"} /\ q \notin child'
      BY <3>1, <3>2, <3>3
    <3>5. handled' \subseteq trees' BY <1>0, <2>1 DEF RanksInv, RanksStopped
    <3>6. trees' \subseteq {q \in Ranks!Ranks : rank'[q] # "unborn"}
      BY <1>0, <2>1, <2>2 DEF RanksInv, RanksStopped
    <3> QED BY <2>1, <3>4, <3>5, <3>6 DEF RanksStopped
  <2> QED BY <2>3, <2>4, <2>5, <2>6 DEF RanksInv
<1> QED
  BY <1>1, <1>2, <1>3, <1>4, <1>5, <1>6, <1>7, <1>8, <1>9, <1>10, <1>11, <1>12, <1>13, <1>14, <1>15
     DEF Ranks!Next

(***************************************************************************)
(* A training that has ended, returned or interrupted, leaves no rank and  *)
(* no child of one unless its cleanup was reported; one that returned has  *)
(* the success of every rank and every scalar, once and in order: for any  *)
(* number of ranks and lines.  (run_workers)                               *)
(***************************************************************************)
THEOREM Grouped == Spec => []GroupWhole
<1>1. Init => (focus = "ranks" => RanksInv)
  <2> SUFFICES ASSUME Init, focus = "ranks" PROVE RanksInv
    OBVIOUS
  <2>1. Ranks!Init /\ 0 \in Ranks!Ranks /\ Lines \in Nat
    BY HostAssumption DEF Init, Ranks!Ranks
  <2>2. RanksRelayed
    <3>1. relayed = [i \in 1..0 |-> i] BY <2>1 DEF Ranks!Init
    <3> QED BY <2>1, <3>1 DEF Ranks!Init, RanksRelayed
  <2> QED
    BY <2>1, <2>2 DEF Ranks!Init, Ranks!Unknown, RanksInv, RanksTypes, RanksSeen, RanksEnded, RanksStopped
<1>2. (focus = "ranks" => RanksInv) /\ [Next]_vars => (focus = "ranks" => RanksInv)'
  BY InFocus, RanksStep
<1>3. (focus = "ranks" => RanksInv) => GroupWhole
  <2> SUFFICES ASSUME focus = "ranks", RanksInv PROVE Ranks!GroupWhole
    BY DEF GroupWhole
  <2>1. PICK n \in Nat : relayed = [i \in 1..n |-> i] BY DEF RanksInv, RanksRelayed
  <2>2. relayed = [i \in DOMAIN relayed |-> i] BY <2>1
  <2>3. ranksPc = "returned" => Len(relayed) = Lines
    BY HostAssumption DEF RanksInv, RanksEnded
  <2> QED
    BY <2>2, <2>3 DEF RanksInv, RanksTypes, RanksEnded, RanksStopped, Ranks!GroupWhole, Ranks!Alive, Ranks!Running
<1> QED BY <1>1, <1>2, <1>3, PTL DEF Spec

-----------------------------------------------------------------------------
(* The journal of the ranks and its replay (TrainingRelay) *)

\* The halves of the journal after the first and up to the last.
Between(first, last) == [i \in 1..(last - first) |-> first + i]
FirstEvents(n) == [k \in 1..n |-> k]

LEMMA BetweenFacts ==
  ASSUME NEW a \in Nat, NEW b \in Nat, a <= b
  PROVE  /\ Between(a, b) \in Seq(Nat) /\ Len(Between(a, b)) = b - a
         /\ \A i \in 1..(b - a) : Between(a, b)[i] = a + i
BY DEF Between

LEMMA Joint ==
  ASSUME NEW s \in Seq(Nat), NEW t \in Seq(Nat)
  PROVE  /\ s \o t \in Seq(Nat) /\ Len(s \o t) = Len(s) + Len(t)
         /\ \A i \in 1..(Len(s) + Len(t)) :
              (s \o t)[i] = IF i <= Len(s) THEN s[i] ELSE t[i - Len(s)]
OBVIOUS

LEMMA BetweenJoined ==
  ASSUME NEW a \in Nat, NEW b \in Nat, NEW c \in Nat, a <= b, b <= c
  PROVE  Between(a, b) \o Between(b, c) = Between(a, c)
<1> DEFINE both == Between(a, b) \o Between(b, c)
<1>1. /\ Between(a, b) \in Seq(Nat) /\ Len(Between(a, b)) = b - a
      /\ \A i \in 1..(b - a) : Between(a, b)[i] = a + i
  BY BetweenFacts
<1>2. /\ Between(b, c) \in Seq(Nat) /\ Len(Between(b, c)) = c - b
      /\ \A i \in 1..(c - b) : Between(b, c)[i] = b + i
  BY BetweenFacts
<1>3. /\ Between(a, c) \in Seq(Nat) /\ Len(Between(a, c)) = c - a
      /\ \A i \in 1..(c - a) : Between(a, c)[i] = a + i
  BY BetweenFacts
<1>4. /\ both \in Seq(Nat) /\ Len(both) = c - a /\ \A i \in 1..(c - a) : both[i] = a + i
  <2>1. /\ both \in Seq(Nat) /\ Len(both) = (b - a) + (c - b)
        /\ \A i \in 1..((b - a) + (c - b)) :
             both[i] = IF i <= b - a THEN Between(a, b)[i] ELSE Between(b, c)[i - (b - a)]
    <3>1. Between(a, b) \in Seq(Nat) /\ Between(b, c) \in Seq(Nat)
      BY <1>1, <1>2
    <3>2. /\ both \in Seq(Nat) /\ Len(both) = Len(Between(a, b)) + Len(Between(b, c))
          /\ \A i \in 1..(Len(Between(a, b)) + Len(Between(b, c))) :
               both[i] = IF i <= Len(Between(a, b)) THEN Between(a, b)[i]
                         ELSE Between(b, c)[i - Len(Between(a, b))]
      BY <3>1, Joint
    <3> HIDE DEF both
    <3>3. Len(Between(a, b)) = b - a /\ Len(Between(b, c)) = c - b
      BY <1>1, <1>2
    <3> QED
      BY <3>2, <3>3
  <2> HIDE DEF both
  <2>2. (b - a) + (c - b) = c - a
    OBVIOUS
  <2>3. ASSUME NEW i \in 1..(c - a), i <= b - a PROVE both[i] = a + i
    BY <1>1, <2>1, <2>2, <2>3
  <2>4. ASSUME NEW i \in 1..(c - a), i > b - a PROVE both[i] = a + i
    <3>1. i - (b - a) \in 1..(c - b) /\ b + (i - (b - a)) = a + i
      BY <2>4
    <3>2. both[i] = Between(b, c)[i - (b - a)]
      BY <2>1, <2>2, <2>4
    <3> QED
      BY <1>2, <3>1, <3>2
  <2>5. \A i \in 1..(c - a) : i <= b - a \/ i > b - a
    OBVIOUS
  <2> QED
    BY <2>1, <2>2, <2>3, <2>4, <2>5
<1> HIDE DEF both
<1>5. both = Between(a, c) BY <1>3, <1>4
<1> QED BY <1>5 DEF both

LEMMA BetweenCut ==
  ASSUME NEW a \in Nat, NEW b \in Nat, a + 2 <= b
  PROVE  SubSeq(Between(a, b), 3, Len(Between(a, b))) = Between(a + 2, b)
<1>1. /\ Between(a, b) \in Seq(Nat) /\ Len(Between(a, b)) = b - a
      /\ \A i \in 1..(b - a) : Between(a, b)[i] = a + i
  BY BetweenFacts
<1>2. /\ Between(a + 2, b) \in Seq(Nat) /\ Len(Between(a + 2, b)) = b - a - 2
      /\ \A i \in 1..(b - a - 2) : Between(a + 2, b)[i] = a + 2 + i
  BY BetweenFacts
<1> DEFINE cut == SubSeq(Between(a, b), 3, Len(Between(a, b)))
<1>3. /\ cut \in Seq(Nat) /\ Len(cut) = b - a - 2
      /\ \A i \in 1..(b - a - 2) : cut[i] = a + 2 + i
  BY <1>1
<1> HIDE DEF cut
<1>4. cut = Between(a + 2, b) BY <1>2, <1>3
<1> QED BY <1>4 DEF cut

LEMMA FirstAppended ==
  ASSUME NEW n \in Nat
  PROVE  /\ Append(FirstEvents(n), n + 1) = FirstEvents(n + 1)
         /\ Len(Append(FirstEvents(n), n + 1)) = n + 1
         /\ FirstEvents(n) \in Seq(Nat) /\ Len(FirstEvents(n)) = n
<1>1. FirstEvents(n) \in Seq(Nat) /\ Len(FirstEvents(n)) = n BY DEF FirstEvents
<1>2. Append(FirstEvents(n), n + 1) = FirstEvents(n + 1) BY DEF FirstEvents
<1>3. Len(Append(FirstEvents(n), n + 1)) = n + 1 BY <1>1
<1> QED BY <1>1, <1>2, <1>3

RelayTypes ==
  /\ journal \in 0..(2 * Relay!Last) /\ DOMAIN scalars = Relay!Events
  /\ ddp \in BOOLEAN /\ captured \in BOOLEAN /\ pipeline \in BOOLEAN
  /\ kept \in BOOLEAN /\ warned \in BOOLEAN
\* What the thread took over are the first events, and what it still holds are the
\* halves after them: between the append of a record and the cut of its line the
\* line is still there, so the thread may not be dead then.
RelayTaken ==
  /\ offset \in Nat /\ offset <= journal
  /\ Len(consumed) \in Nat /\ consumed = FirstEvents(Len(consumed))
  /\ 2 * Len(consumed) <= offset
  /\ relayThread # "cut" => relayPending = Between(2 * Len(consumed), offset)
  /\ relayThread = "append" => payload = relayPending /\ 2 * Len(consumed) + 2 <= offset
  /\ relayThread = "cut" =>
       1 <= Len(consumed) /\ payload = Between(2 * (Len(consumed) - 1), offset)
  /\ relayThread \in {"store", "keep"} =>
       \E m \in Nat : offset <= m /\ m <= journal /\ payload = Between(offset, m)
\* What the owner dispatched are the first events as well, all of them by the end.
RelayDispatched ==
  LET n == Len(dispatched) IN
  /\ n \in 0..Relay!Last /\ dispatched = FirstEvents(n)
  /\ ddp /\ relayPc \in {"train", "returned", "joining", "consume"} => n = 0
  /\ relayPc = "replay" => n < Relay!Last
  /\ relayPc = "final" => n = Relay!Last - 1
  /\ relayPc = "finalize" \/ (relayPc = "done" /\ ~warned) => n = Relay!Last
  /\ ranks = "done" /\ ~ddp => n = Relay!Last
  /\ relayPc = "raised" /\ pipeline => ranks = "crashed" \/ (~ddp /\ n < Relay!Last)
RelayOwner ==
  /\ ranks = "done" /\ ddp => journal = 2 * Relay!Last
  /\ relayPc \in {"returned", "joining", "consume", "replay", "final", "finalize"} =>
       ranks = "done" /\ kept = pipeline
  /\ relayPc = "done" => ranks = "done"
  /\ relayPc \in {"consume", "replay", "final"} => ddp /\ relayThread = "dead"
  /\ relayPc \in {"replay", "final"} => consumed = FirstEvents(Relay!Last)
\* Values are reported by whoever the mode says, with the event they belong to.
RelayReported ==
  \A k \in Relay!Events :
    /\ scalars[k] \in {0, 1}
    /\ ddp /\ captured => (scalars[k] = 1 <=> k \in Scalars /\ 2 * k - 1 <= journal)
    /\ ddp /\ ~captured => (scalars[k] = 1 <=> k \in Scalars /\ k <= Len(dispatched))
    /\ ~ddp /\ scalars[k] = 1 => k <= Len(dispatched)
    /\ ~ddp /\ ~warned /\ relayPc # "raised" /\ k \in Scalars /\ k <= Len(dispatched) =>
         scalars[k] = 1
RelayInv == RelayTypes /\ RelayTaken /\ RelayDispatched /\ RelayOwner /\ RelayReported

LEMMA RelayStep ==
  ASSUME RelayInv, [Relay!Next]_(Relay!vars)
  PROVE  RelayInv'
<1> USE DEF Relay!reading, Relay!modes, Relay!Idle, Relay!Owner
<1>0. /\ RelayTypes /\ RelayTaken /\ RelayDispatched /\ RelayOwner /\ RelayReported
      /\ Relay!Last \in Nat \ {0} /\ Relay!Events = 1..Relay!Last
      /\ Scalars \subseteq 1..Relay!Last
  BY HostAssumption DEF RelayInv, Relay!Last, Relay!Events
\* The ranks and their journal.
<1>1. CASE Relay!Capture
  <2>1. /\ ddp /\ ranks = "running" /\ journal < 2 * Relay!Last /\ journal' = journal + 1
        /\ scalars' = IF captured /\ journal % 2 = 0
                      THEN [scalars EXCEPT ![(journal \div 2) + 1] =
                              IF (journal \div 2) + 1 \in Scalars THEN @ + 1 ELSE @]
                      ELSE scalars
        /\ UNCHANGED <<ranks, ddp, captured, pipeline, relayThread, payload, offset,
                       relayPending, consumed, dispatched, kept, relayPc, warned>>
    BY <1>1 DEF Relay!Capture, Relay!Reported
  <2>2. journal \in Nat /\ journal' \in Nat /\ journal <= journal' /\ journal' <= 2 * Relay!Last
    BY <1>0, <2>1 DEF RelayTypes
  <2>3. RelayTypes' BY <1>0, <2>1, <2>2 DEF RelayTypes
  <2>4. RelayTaken' BY <1>0, <2>1, <2>2 DEF RelayTaken
  <2>5. RelayDispatched' /\ RelayOwner' BY <1>0, <2>1 DEF RelayDispatched, RelayOwner
  <2>6. RelayReported'
    <3>1. CASE captured /\ journal % 2 = 0
      <4> DEFINE k == (journal \div 2) + 1
      <4>1. k \in Relay!Events /\ 2 * k - 1 = journal' BY <1>0, <2>1, <2>2, <3>1
      <4>2. ~(2 * k - 1 <= journal) BY <2>1, <2>2, <4>1
      <4>3. scalars[k] = 0 BY <1>0, <2>1, <3>1, <4>1, <4>2 DEF RelayReported
      <4> HIDE DEF k
      <4>4. scalars' = [scalars EXCEPT ![k] = IF k \in Scalars THEN @ + 1 ELSE @]
        BY <2>1, <3>1 DEF k
      <4>5. \A j \in Relay!Events : j # k => (2 * j - 1 <= journal' <=> 2 * j - 1 <= journal)
        BY <1>0, <2>1, <2>2, <4>1
      <4> QED BY <1>0, <2>1, <3>1, <4>1, <4>3, <4>4, <4>5 DEF RelayReported, RelayTypes
    <3>2. CASE captured /\ journal % 2 # 0
      <4>1. \A j \in Relay!Events : 2 * j - 1 <= journal' <=> 2 * j - 1 <= journal
        BY <1>0, <2>1, <2>2, <3>2
      <4> QED BY <1>0, <2>1, <3>2, <4>1 DEF RelayReported
    <3>3. CASE ~captured
      BY <1>0, <2>1, <3>3 DEF RelayReported
    <3> QED BY <3>1, <3>2, <3>3
  <2> QED BY <2>3, <2>4, <2>5, <2>6 DEF RelayInv
<1>2. CASE Relay!RanksExit
  BY <1>0, <1>2
     DEF Relay!RanksExit, RelayInv, RelayTypes, RelayTaken, RelayDispatched, RelayOwner,
         RelayReported
\* Without ranks.
<1>3. CASE Relay!Callback
  <2> DEFINE n == Len(dispatched)
  <2>1. /\ ~ddp /\ relayPc = "train" /\ ranks = "running" /\ n < Relay!Last
        /\ kept' = (kept \/ (pipeline /\ n + 1 = Relay!Last))
        /\ UNCHANGED <<journal, ranks, ddp, captured, pipeline, relayThread, payload, offset,
                       relayPending, consumed>>
    BY <1>3 DEF Relay!Callback
  <2>2. \/ /\ dispatched' = Append(dispatched, n + 1) /\ UNCHANGED <<relayPc, warned>>
           /\ scalars' = [scalars EXCEPT ![n + 1] = IF n + 1 \in Scalars THEN @ + 1 ELSE @]
        \/ n + 1 < Relay!Last /\ relayPc' = "raised" /\ UNCHANGED <<dispatched, scalars, warned>>
        \/ /\ n + 1 = Relay!Last /\ dispatched' = Append(dispatched, n + 1) /\ scalars' = scalars
           /\ IF pipeline THEN warned' = TRUE /\ relayPc' = relayPc
              ELSE relayPc' = "raised" /\ warned' = warned
    BY <1>3 DEF Relay!Callback, Relay!Reported
  <2>3. n \in Nat /\ dispatched = FirstEvents(n) BY <1>0 DEF RelayDispatched
  <2> HIDE DEF n
  <2>4. /\ Append(dispatched, n + 1) = FirstEvents(n + 1)
        /\ Len(Append(dispatched, n + 1)) = n + 1
    BY <2>3, FirstAppended
  <2>5. dispatched' = dispatched \/ (dispatched' = FirstEvents(n + 1) /\ Len(dispatched') = n + 1)
    BY <2>2, <2>4
  <2>6. RelayTypes' BY <1>0, <2>1, <2>2 DEF RelayTypes
  <2>7. RelayTaken' BY <1>0, <2>1 DEF RelayTaken
  <2>8. RelayDispatched'
    BY <1>0, <2>1, <2>2, <2>3, <2>4, <2>5 DEF RelayDispatched, n
  <2>9. RelayOwner' BY <1>0, <2>1, <2>2 DEF RelayOwner
  <2>10. RelayReported'
    <3>1. n + 1 \in Relay!Events BY <1>0, <2>1, <2>3
    <3>2. n + 1 \in Scalars => scalars[n + 1] = 0
      BY <1>0, <2>1, <2>3, <3>1 DEF RelayReported, n
    <3>3. \A k \in Relay!Events : k \in Nat BY <1>0
    <3>4. CASE /\ dispatched' = Append(dispatched, n + 1) /\ UNCHANGED <<relayPc, warned>>
               /\ scalars' = [scalars EXCEPT ![n + 1] = IF n + 1 \in Scalars THEN @ + 1 ELSE @]
      BY <1>0, <2>1, <2>3, <2>4, <3>1, <3>2, <3>3, <3>4 DEF RelayReported, RelayTypes, n
    <3>5. CASE UNCHANGED <<dispatched, scalars, warned>> /\ relayPc' = "raised"
      BY <1>0, <2>1, <3>5 DEF RelayReported
    <3>6. CASE /\ dispatched' = Append(dispatched, n + 1) /\ scalars' = scalars
               /\ warned' = TRUE \/ relayPc' = "raised"
      BY <1>0, <2>1, <2>3, <2>4, <3>3, <3>6 DEF RelayReported, n
    <3> QED BY <2>2, <3>4, <3>5, <3>6
  <2> QED BY <2>6, <2>7, <2>8, <2>9, <2>10 DEF RelayInv
\* The thread.
<1>4. ASSUME UNCHANGED <<journal, ranks, ddp, captured, pipeline, scalars, dispatched, kept,
                         relayPc, warned>>,
             relayThread # "dead", RelayTaken', relayPc \in {"replay", "final"} => FALSE
      PROVE  RelayInv'
  BY <1>0, <1>4 DEF RelayInv, RelayTypes, RelayDispatched, RelayOwner, RelayReported
<1>5. relayThread # "dead" => relayPc \notin {"consume", "replay", "final"}
  BY <1>0 DEF RelayOwner
<1>6. CASE Relay!Wait \/ Relay!CheckRead
  <2>1. RelayTaken'
    BY <1>0, <1>6 DEF Relay!Wait, Relay!CheckRead, Relay!Continues, RelayTaken
  <2> QED BY <1>4, <1>5, <1>6, <2>1 DEF Relay!Wait, Relay!CheckRead
<1>7. CASE Relay!ReadJournal
  <2>1. /\ relayThread = "read" /\ relayThread' = "store" /\ payload' = Between(offset, journal)
        /\ UNCHANGED <<journal, offset, relayPending, consumed>>
    BY <1>7 DEF Relay!ReadJournal, Relay!Halves, Between
  <2>2. journal \in Nat BY <1>0 DEF RelayTypes
  <2>3. RelayTaken' BY <1>0, <2>1, <2>2 DEF RelayTaken
  <2> QED BY <1>4, <1>5, <1>7, <2>3 DEF Relay!ReadJournal
<1>8. CASE Relay!Keep
  <2>1. /\ relayThread = "keep" /\ relayThread' = "accept" /\ offset' = offset + Len(payload)
        /\ relayPending' = relayPending \o payload
        /\ UNCHANGED <<journal, consumed>>
    BY <1>8 DEF Relay!Keep
  <2>2. PICK m \in Nat : offset <= m /\ m <= journal /\ payload = Between(offset, m)
    BY <1>0, <2>1 DEF RelayTaken
  <2>3. /\ offset \in Nat /\ 2 * Len(consumed) \in Nat /\ 2 * Len(consumed) <= offset
        /\ relayPending = Between(2 * Len(consumed), offset)
    BY <1>0, <2>1 DEF RelayTaken
  <2>4. offset' = m
    <3>1. Len(Between(offset, m)) = m - offset BY <2>2, <2>3, BetweenFacts
    <3>2. offset' = offset + (m - offset) BY <2>1, <2>2, <3>1
    <3> QED BY <2>2, <2>3, <3>2
  <2>5. relayPending' = Between(2 * Len(consumed), m)
    BY <2>1, <2>2, <2>3, BetweenJoined
  <2>6. /\ offset' \in Nat /\ offset' <= journal' /\ 2 * Len(consumed') <= offset'
        /\ Len(consumed') \in Nat /\ consumed' = FirstEvents(Len(consumed'))
        /\ relayPending' = Between(2 * Len(consumed'), offset')
    <3>1. consumed' = consumed /\ journal' = journal BY <2>1
    <3>2. Len(consumed) \in Nat /\ consumed = FirstEvents(Len(consumed))
      BY <1>0 DEF RelayTaken
    <3>3. 2 * Len(consumed) <= m BY <2>2, <2>3
    <3> QED BY <2>2, <2>4, <2>5, <3>1, <3>2, <3>3
  <2>7. RelayTaken' BY <2>1, <2>6 DEF RelayTaken
  <2> QED BY <1>4, <1>5, <1>8, <2>7 DEF Relay!Keep
<1>9. CASE Relay!CheckLine
  <2>1. /\ relayThread = "accept" /\ relayThread' \in {"append", "dead", "wait"}
        /\ relayThread' = "append" => Relay!HasLine /\ payload' = relayPending
        /\ UNCHANGED <<journal, offset, relayPending, consumed>>
    BY <1>9 DEF Relay!CheckLine, Relay!Continues
  <2>2. /\ offset \in Nat /\ Len(consumed) \in Nat /\ 2 * Len(consumed) <= offset
        /\ relayPending = Between(2 * Len(consumed), offset)
    BY <1>0, <2>1 DEF RelayTaken
  <2>3. Relay!HasLine => 2 * Len(consumed) + 2 <= offset
    <3>1. SUFFICES ASSUME NEW i \in DOMAIN relayPending, relayPending[i] % 2 = 0
                   PROVE  2 * Len(consumed) + 2 <= offset
      BY DEF Relay!HasLine
    <3>2. /\ i \in 1..(offset - 2 * Len(consumed)) /\ relayPending[i] = 2 * Len(consumed) + i
      BY <2>2 DEF Between
    <3>3. i # 1 BY <2>2, <3>1, <3>2
    <3> QED BY <2>2, <3>2, <3>3
  <2>4. RelayTaken' BY <1>0, <2>1, <2>2, <2>3 DEF RelayTaken
  <2> QED BY <1>4, <1>5, <1>9, <2>4 DEF Relay!CheckLine
<1>10. CASE Relay!AcceptRecord
  <2> DEFINE c == Len(consumed)
  <2>1. /\ relayThread = "append" /\ relayThread' = "cut"
        /\ consumed' = Append(consumed, payload[2] \div 2)
        /\ UNCHANGED <<journal, offset, relayPending, payload>>
    BY <1>10 DEF Relay!AcceptRecord
  <2>2. /\ offset \in Nat /\ c \in Nat /\ 2 * c + 2 <= offset /\ payload = Between(2 * c, offset)
        /\ consumed = FirstEvents(c) /\ offset <= journal
    BY <1>0, <2>1 DEF RelayTaken
  <2> HIDE DEF c
  <2>3. payload[2] = 2 * c + 2
    <3>1. 2 * c \in Nat /\ 2 * c <= offset /\ 2 \in 1..(offset - 2 * c) BY <2>2
    <3> QED BY <2>2, <3>1, BetweenFacts
  <2>4. payload[2] \div 2 = c + 1 BY <2>2, <2>3
  <2>5. consumed' = FirstEvents(c + 1) /\ Len(consumed') = c + 1
    BY <2>1, <2>2, <2>4, FirstAppended
  <2>6. (c + 1) - 1 = c BY <2>2
  <2>7. RelayTaken' BY <2>1, <2>2, <2>5, <2>6 DEF RelayTaken
  <2> QED BY <1>4, <1>5, <1>10, <2>7 DEF Relay!AcceptRecord
<1>11. CASE Relay!Cut
  <2> DEFINE c == Len(consumed)
  <2>1. /\ relayThread = "cut" /\ relayThread' = "accept"
        /\ relayPending' = SubSeq(payload, 3, Len(payload))
        /\ UNCHANGED <<journal, offset, consumed>>
    BY <1>11 DEF Relay!Cut
  <2>2. /\ offset \in Nat /\ c \in Nat /\ 1 <= c /\ 2 * c <= offset
        /\ payload = Between(2 * (c - 1), offset)
    BY <1>0, <2>1 DEF RelayTaken
  <2> HIDE DEF c
  <2>3. 2 * (c - 1) \in Nat /\ 2 * (c - 1) + 2 = 2 * c /\ 2 * (c - 1) + 2 <= offset BY <2>2
  <2>4. relayPending' = Between(2 * c, offset) BY <2>1, <2>2, <2>3, BetweenCut
  <2>5. RelayTaken' BY <1>0, <2>1, <2>4 DEF RelayTaken, c
  <2> QED BY <1>4, <1>5, <1>11, <2>5 DEF Relay!Cut
\* The owner.
<1>12. CASE \/ Relay!NativeRaises \/ Relay!NativeReturns \/ Relay!Failure
            \/ Relay!StopConsumer \/ Relay!Join \/ Relay!FinalizeModel
  <2>1. /\ UNCHANGED <<journal, ranks, ddp, captured, pipeline, relayThread, payload, offset,
                       relayPending, consumed, scalars, dispatched>>
    BY <1>12
       DEF Relay!NativeRaises, Relay!NativeReturns, Relay!Failure, Relay!StopConsumer,
           Relay!Join, Relay!FinalizeModel
  <2>2. RelayTaken' BY <1>0, <2>1 DEF RelayTaken
  <2>3. RelayTypes'
    BY <1>0, <1>12, <2>1
       DEF Relay!NativeRaises, Relay!NativeReturns, Relay!Failure, Relay!StopConsumer,
           Relay!Join, Relay!FinalizeModel, RelayTypes
  <2>4. RelayDispatched'
    BY <1>0, <1>12, <2>1
       DEF Relay!NativeRaises, Relay!NativeReturns, Relay!Failure, Relay!StopConsumer,
           Relay!Join, Relay!FinalizeModel, RelayTypes, RelayDispatched, RelayOwner
  <2>5. RelayOwner'
    BY <1>0, <1>12, <2>1
       DEF Relay!NativeRaises, Relay!NativeReturns, Relay!Failure, Relay!StopConsumer,
           Relay!Join, Relay!Joined, Relay!FinalizeModel, RelayOwner
  <2>6. RelayReported'
    BY <1>0, <1>12, <2>1
       DEF Relay!NativeRaises, Relay!NativeReturns, Relay!Failure, Relay!StopConsumer,
           Relay!Join, Relay!FinalizeModel, RelayReported
  <2> QED BY <2>2, <2>3, <2>4, <2>5, <2>6 DEF RelayInv
<1>13. CASE Relay!ConsumeRest
  <2> DEFINE c == Len(consumed)
             rest == relayPending \o Relay!Halves(offset)
  <2>1. /\ relayPc = "consume" /\ relayPc' = "replay" /\ offset' = journal
        /\ consumed' = consumed \o [i \in 1..(Len(rest) \div 2) |-> rest[2 * i] \div 2]
        /\ relayPending' = SubSeq(rest, 2 * (Len(rest) \div 2) + 1, Len(rest))
        /\ UNCHANGED <<journal, ranks, ddp, captured, pipeline, relayThread, payload, scalars,
                       dispatched, kept, warned>>
    BY <1>13 DEF Relay!ConsumeRest
  <2>2. ranks = "done" /\ ddp /\ relayThread = "dead" /\ journal = 2 * Relay!Last
    BY <1>0, <2>1 DEF RelayOwner
  <2>3. /\ c \in Nat /\ offset \in Nat /\ 2 * c <= offset /\ offset <= 2 * Relay!Last
        /\ consumed = FirstEvents(c) /\ relayPending = Between(2 * c, offset)
    BY <1>0, <2>2 DEF RelayTaken
  <2> HIDE DEF c
  <2>4. rest = Between(2 * c, 2 * Relay!Last)
    BY <1>0, <2>2, <2>3, BetweenJoined DEF Relay!Halves, Between
  <2> HIDE DEF rest
  <2>5. /\ rest \in Seq(Nat) /\ Len(rest) = 2 * (Relay!Last - c)
        /\ \A i \in 1..(2 * (Relay!Last - c)) : rest[i] = 2 * c + i
    <3>1. 2 * c \in Nat /\ 2 * Relay!Last \in Nat /\ 2 * c <= 2 * Relay!Last BY <1>0, <2>3
    <3>2. 2 * Relay!Last - 2 * c = 2 * (Relay!Last - c) BY <1>0, <2>3
    <3> QED BY <2>4, <3>1, <3>2, BetweenFacts
  <2>6. Len(rest) \div 2 = Relay!Last - c BY <1>0, <2>3, <2>5
  <2>7. \A i \in 1..(Relay!Last - c) : rest[2 * i] \div 2 = c + i
    <3> TAKE i \in 1..(Relay!Last - c)
    <3>1. rest[2 * i] = 2 * (c + i) /\ c + i \in Nat BY <1>0, <2>3, <2>5
    <3> QED BY <3>1
  <2>8. consumed' = consumed \o [i \in 1..(Relay!Last - c) |-> c + i]
    BY <2>1, <2>6, <2>7
  <2>9. consumed' = FirstEvents(Relay!Last) /\ Len(consumed') = Relay!Last
    <3>1. /\ [i \in 1..(Relay!Last - c) |-> c + i] \in Seq(Nat)
          /\ Len([i \in 1..(Relay!Last - c) |-> c + i]) = Relay!Last - c
      BY <1>0, <2>3
    <3>2. /\ consumed' \in Seq(Nat) /\ Len(consumed') = Relay!Last
          /\ \A i \in 1..Relay!Last : consumed'[i] = i
      BY <1>0, <2>3, <2>8, <3>1, FirstAppended DEF FirstEvents
    <3>3. consumed' = [i \in 1..Relay!Last |-> i] BY <1>0, <3>2
    <3> QED BY <3>2, <3>3 DEF FirstEvents
  <2>10. relayPending' = Between(2 * Relay!Last, 2 * Relay!Last)
    <3>1. relayPending' = SubSeq(rest, Len(rest) + 1, Len(rest)) BY <1>0, <2>1, <2>3, <2>5, <2>6
    <3>2. relayPending' = <<>> BY <2>5, <3>1
    <3>3. Between(2 * Relay!Last, 2 * Relay!Last) = <<>> BY <1>0 DEF Between
    <3> QED BY <3>2, <3>3
  <2>11. RelayTypes' BY <1>0, <2>1 DEF RelayTypes
  <2>12. RelayTaken'
    <3>1. /\ offset' = 2 * Relay!Last /\ offset' \in Nat /\ journal' = offset'
          /\ Len(consumed') = Relay!Last /\ Len(consumed') \in Nat /\ relayThread' = "dead"
      BY <1>0, <2>1, <2>2, <2>9
    <3> QED BY <2>9, <2>10, <3>1 DEF RelayTaken
  <2>13. RelayDispatched' BY <1>0, <2>1, <2>2 DEF RelayDispatched
  <2>14. RelayOwner' BY <1>0, <2>1, <2>2, <2>9 DEF RelayOwner
  <2>15. RelayReported' BY <1>0, <2>1, <2>2 DEF RelayReported
  <2> QED BY <2>11, <2>12, <2>13, <2>14, <2>15 DEF RelayInv
<1>14. CASE Relay!Replay \/ Relay!ReplayEnd
  <2> DEFINE n == Len(dispatched)
  <2>1. /\ relayPc \in {"replay", "final"} /\ ddp /\ relayThread = "dead" /\ ranks = "done"
        /\ consumed = FirstEvents(Relay!Last) /\ kept = pipeline
    BY <1>0, <1>14 DEF Relay!Replay, Relay!ReplayEnd, RelayOwner
  <2>2. n \in Nat /\ n < Relay!Last /\ dispatched = FirstEvents(n)
    BY <1>0, <2>1 DEF RelayDispatched
  <2>3. Len(Relay!Ahead) = Relay!Last - 1 /\ \A i \in 1..(Relay!Last - 1) : Relay!Ahead[i] = i
    <3>1. consumed \in Seq(Nat) /\ Len(consumed) = Relay!Last /\ consumed[Relay!Last] = Relay!Last
      BY <1>0, <2>1, FirstAppended DEF FirstEvents
    <3>2. Relay!Ahead = SubSeq(consumed, 1, Relay!Last - 1)
      BY <1>0, <3>1 DEF Relay!Ahead, Relay!Ended
    <3> QED BY <1>0, <2>1, <3>1, <3>2 DEF FirstEvents
  <2> HIDE DEF n
  <2>4. \/ /\ relayPc' = "final" /\ dispatched' = dispatched /\ scalars' = scalars
           /\ n = Relay!Last - 1
        \/ /\ relayPc' = (IF relayPc = "replay" THEN "replay" ELSE "finalize")
           /\ relayPc = "replay" => n + 1 < Relay!Last
           /\ relayPc = "final" => n + 1 = Relay!Last
           /\ dispatched' = Append(dispatched, n + 1)
           /\ scalars' = IF captured THEN scalars
                         ELSE [scalars EXCEPT ![n + 1] = IF n + 1 \in Scalars THEN @ + 1 ELSE @]
    <3>1. CASE Relay!Replay /\ n < Len(Relay!Ahead)
      <4>1. Relay!Ahead[n + 1] = n + 1 BY <1>0, <2>2, <2>3, <3>1
      <4>2. n + 1 < Relay!Last BY <1>0, <2>2, <2>3, <3>1
      <4> QED
        BY <3>1, <4>1, <4>2
           DEF Relay!Replay, Relay!Dispatch, Relay!Suppressed, Relay!Reported, n
    <3>2. CASE Relay!Replay /\ ~(n < Len(Relay!Ahead))
      BY <1>0, <2>2, <2>3, <3>2 DEF Relay!Replay, n
    <3>3. CASE Relay!ReplayEnd
      <4>1. n + 1 = Relay!Last BY <1>0, <2>2, <3>3 DEF Relay!ReplayEnd, RelayDispatched, n
      <4> QED
        BY <3>3, <4>1
           DEF Relay!ReplayEnd, Relay!Dispatch, Relay!Suppressed, Relay!Reported
    <3> QED BY <1>14, <3>1, <3>2, <3>3
  <2>5. UNCHANGED <<journal, ranks, ddp, captured, pipeline, relayThread, payload, offset,
                    relayPending, consumed, kept, warned>>
    BY <1>14 DEF Relay!Replay, Relay!ReplayEnd, Relay!Dispatch
  <2>6. /\ Append(dispatched, n + 1) = FirstEvents(n + 1)
        /\ Len(Append(dispatched, n + 1)) = n + 1
    BY <2>2, FirstAppended
  <2>7. RelayTypes' BY <1>0, <2>4, <2>5 DEF RelayTypes
  <2>8. RelayTaken' BY <1>0, <2>5 DEF RelayTaken
  <2>9. RelayDispatched'
    BY <1>0, <2>1, <2>2, <2>4, <2>5, <2>6 DEF RelayDispatched, n
  <2>10. RelayOwner' BY <1>0, <2>1, <2>4, <2>5 DEF RelayOwner
  <2>11. RelayReported'
    <3>1. n + 1 \in Relay!Events BY <1>0, <2>2
    <3>2. ~captured => scalars[n + 1] = 0
      BY <1>0, <2>1, <2>2, <3>1 DEF RelayReported, n
    <3>3. \A k \in Relay!Events : k \in Nat BY <1>0
    <3>4. CASE dispatched' = dispatched /\ scalars' = scalars
      BY <1>0, <2>1, <2>5, <3>4 DEF RelayReported
    <3>5. CASE dispatched' = Append(dispatched, n + 1) /\ captured /\ scalars' = scalars
      BY <1>0, <2>1, <2>5, <3>5 DEF RelayReported
    <3>6. CASE /\ dispatched' = Append(dispatched, n + 1) /\ ~captured
               /\ scalars' = [scalars EXCEPT ![n + 1] = IF n + 1 \in Scalars THEN @ + 1 ELSE @]
      BY <1>0, <2>1, <2>2, <2>5, <2>6, <3>1, <3>2, <3>3, <3>6 DEF RelayReported, RelayTypes, n
    <3> QED BY <2>4, <3>4, <3>5, <3>6
  <2> QED BY <2>7, <2>8, <2>9, <2>10, <2>11 DEF RelayInv
<1>15. CASE UNCHANGED Relay!vars
  BY <1>15
     DEF Relay!vars, RelayInv, RelayTypes, RelayTaken, RelayDispatched, RelayOwner, RelayReported
<1> QED
  BY <1>1, <1>2, <1>3, <1>6, <1>7, <1>8, <1>9, <1>10, <1>11, <1>12, <1>13, <1>14, <1>15
     DEF Relay!Next

(***************************************************************************)
(* The owner runs the callbacks of a training in its order and each once,  *)
(* wherever its thread was when it was stopped, values are reported once,  *)
(* and a pipeline never loses a training that returned to its publication: *)
(* for any number of events and any of them with values.  (NativeDDPRelay) *)
(***************************************************************************)
THEOREM Replayed == Spec => []ReplayedOnce
<1>1. Init => (focus = "relay" => RelayInv)
  <2> SUFFICES ASSUME Init, focus = "relay" PROVE RelayInv
    OBVIOUS
  <2>1. Relay!Init BY DEF Init
  <2>2. Relay!Last \in Nat \ {0} /\ Relay!Events = 1..Relay!Last
    BY HostAssumption DEF Relay!Last, Relay!Events
  <2>3. /\ consumed = FirstEvents(0) /\ Len(consumed) = 0 /\ relayPending = Between(0, 0)
        /\ dispatched = FirstEvents(0) /\ Len(dispatched) = 0
    BY <2>1 DEF Relay!Init, FirstEvents, Between
  <2>4. RelayTypes
    <3>1. 0 \in 0..(2 * Relay!Last) BY <2>2
    <3> QED BY <2>1, <3>1 DEF Relay!Init, RelayTypes
  <2>5. RelayTaken BY <2>1, <2>3 DEF Relay!Init, RelayTaken
  <2>6. RelayDispatched /\ RelayOwner
    BY <2>1, <2>2, <2>3 DEF Relay!Init, RelayDispatched, RelayOwner
  <2>7. RelayReported BY <2>1, <2>2, <2>3 DEF Relay!Init, RelayReported
  <2> QED BY <2>4, <2>5, <2>6, <2>7 DEF RelayInv
<1>2. (focus = "relay" => RelayInv) /\ [Next]_vars => (focus = "relay" => RelayInv)'
  BY InFocus, RelayStep
<1>3. (focus = "relay" => RelayInv) => ReplayedOnce
  <2> SUFFICES ASSUME focus = "relay", RelayInv PROVE Relay!ReplayedOnce
    BY DEF ReplayedOnce
  <2> DEFINE n == Len(dispatched)
  <2>1. n \in Nat /\ dispatched = FirstEvents(n) BY DEF RelayInv, RelayDispatched
  <2> HIDE DEF n
  <2>2. dispatched = [k \in DOMAIN dispatched |-> k] BY <2>1 DEF FirstEvents
  <2>3. Relay!Last \in Nat \ {0} /\ Relay!Events = 1..Relay!Last /\ Scalars \subseteq Relay!Events
    BY HostAssumption DEF Relay!Last, Relay!Events
  <2>4. \A k \in Relay!Events : scalars[k] <= 1 BY DEF RelayInv, RelayReported
  <2>5. ASSUME relayPc = "done", ~warned
        PROVE  n = Relay!Last /\ \A k \in Scalars : scalars[k] = 1
    <3>1. n = Relay!Last /\ ranks = "done" /\ (ddp => journal = 2 * Relay!Last)
      BY <2>5 DEF RelayInv, RelayDispatched, RelayOwner, n
    <3>2. \A k \in Scalars : k <= Relay!Last /\ 2 * k - 1 <= 2 * Relay!Last BY <2>3
    <3> QED
      BY <2>3, <2>5, <3>1, <3>2 DEF RelayInv, RelayReported, RelayTypes, n
  <2>6. relayPc = "raised" => ~(pipeline /\ ranks = "done")
    BY <2>3 DEF RelayInv, RelayDispatched
  <2> QED BY <2>2, <2>4, <2>5, <2>6 DEF Relay!ReplayedOnce, n
<1> QED BY <1>1, <1>2, <1>3, PTL DEF Spec

=============================================================================
