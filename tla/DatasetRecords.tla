--------------------------- MODULE DatasetRecords ---------------------------
(***************************************************************************)
(* A ground-truth CSV becomes a native dataset: validation row by row      *)
(* (dataset_records.py, core/datasets.py) and export to ndjson, flat or    *)
(* coco (dataset_export.py).  Any failure rejects the whole CSV.           *)
(*                                                                         *)
(* A row names a path (Base gives its basename, which image_name repeats), *)
(* a box and a split.  A box is a model value: NoBox (background row), a   *)
(* valid one, or one that is dropped and reported (Unusable).  Fold gives  *)
(* the case-folded stem of a name.  MaxRows bounds the CSV.                *)
(***************************************************************************)
EXTENDS Naturals, FiniteSets, Sequences

CONSTANTS Paths, Base, Fold, Boxes, Unusable, NoBox, Splits, Formats, MaxRows

VARIABLES
  rows,    \* the rows accepted so far
  stage,   \* "read", "grouped", "valid", "exported" or "rejected"
  format,  \* dataset_format
  files    \* what the export wrote: file -> the image it is about

vars == <<rows, stage, format, files>>

Row == [path : Paths, box : Boxes \union {NoBox}, split : Splits]
Name(row) == Base[row.path]
Background(row) == row.box = NoBox
Names(rs) == {Name(rs[i]) : i \in DOMAIN rs}
RowsOf(n) == {i \in DOMAIN rows : Name(rows[i]) = n}

Init == rows = <<>> /\ stage = "read" /\ format = "none" /\ files = <<>>

\* _claim_identity: one path and one split for a name, one name and one split for a path.
ClaimByName(row) == \A i \in DOMAIN rows : Name(rows[i]) = Name(row) => rows[i].path = row.path
Claim(row) ==
  \A i \in DOMAIN rows :
    /\ Name(rows[i]) = Name(row) => rows[i].path = row.path /\ rows[i].split = row.split
    /\ rows[i].path = row.path => Name(rows[i]) = Name(row) /\ rows[i].split = row.split

\* _read_rows: a background row is not repeated.
Repeated(row) == Background(row) /\ \E i \in DOMAIN rows : rows[i] = row

ReadRow ==
  /\ stage = "read" /\ Len(rows) < MaxRows
  /\ \E row \in Row :
       IF Claim(row) /\ ~Repeated(row)
       THEN rows' = Append(rows, row) /\ stage' = stage
       ELSE stage' = "rejected" /\ rows' = rows
  /\ UNCHANGED <<format, files>>

\* A header, a name or a cell that is not what it must be.
Malformed ==
  /\ stage = "read" /\ stage' = "rejected" /\ UNCHANGED <<rows, format, files>>

\* _group_rows: an image is a background or it has boxes.
Mixed(n) == \E i, j \in RowsOf(n) : Background(rows[i]) /\ ~Background(rows[j])
GroupRows ==
  /\ stage = "read"
  /\ stage' = IF rows = <<>> \/ \E n \in Names(rows) : Mixed(n) THEN "rejected" ELSE "grouped"
  /\ UNCHANGED <<rows, format, files>>

---------------------------------------------------------------------------
\* validate_training_box drops a box and reports its row.
Errors == {i \in DOMAIN rows : rows[i].box \in Unusable}
BoxesOf(n) == {rows[i].box : i \in RowsOf(n)} \ (Unusable \union {NoBox})
ImageSplit(n) == (CHOOSE row \in {rows[i] : i \in RowsOf(n)} : TRUE).split

\* Two valid rows of an image never repeat a box.
Duplicated(n) ==
  \E i, j \in RowsOf(n) : i # j /\ rows[i].box = rows[j].box /\ rows[i].box \in BoxesOf(n)

\* The splits that were asked for hold images, and the training split holds a box.
Populated(required) ==
  /\ \A s \in required : \E n \in Names(rows) : ImageSplit(n) = s
  /\ \E n \in Names(rows) : ImageSplit(n) = "train" /\ BoxesOf(n) # {}

ValidateGroundTruth ==
  /\ stage = "grouped"
  /\ \E required \in {{"train"}, {"train", "val"}} :
       stage' = IF \/ \E n \in Names(rows) : Duplicated(n)
                   \/ ~Populated(required)
                THEN "rejected" ELSE "valid"
  /\ UNCHANGED <<rows, format, files>>

\* _read_image_size: an image that cannot be read, or is too small.
UnreadableImage ==
  /\ stage = "grouped" /\ stage' = "rejected" /\ UNCHANGED <<rows, format, files>>

---------------------------------------------------------------------------
Images == Names(rows)
Index == CHOOSE f \in [Images -> 1 .. Cardinality(Images)] : \A m, n \in Images : m # n => f[m] # f[n]

\* exported_image_filename: flat and coco count, ndjson keeps the name.
ImageFile(n) == <<"image", ImageSplit(n), IF format' = "ndjson" THEN n ELSE Index[n]>>

\* Labels are files of their own, named by the stem; coco keeps one file per split.
LabelFile(n) ==
  CASE format' = "ndjson" -> {<<"label", ImageSplit(n), Fold[n]>>}
    [] format' = "flat" -> {<<"label", ImageSplit(n), Index[n]>>}
    [] format' = "coco" -> {}

\* _export_images: two names of a split may not share a stem.
Collides ==
  /\ format' = "ndjson"
  /\ \E m, n \in Images : m # n /\ ImageSplit(m) = ImageSplit(n) /\ Fold[m] = Fold[n]

\* _materialize, image after image: a file that is written again is replaced.
Owner(f, n) == f = ImageFile(n) \/ f \in LabelFile(n)
Written ==
  LET all == UNION {{ImageFile(n)} \union LabelFile(n) : n \in Images}
  IN [f \in all |-> CHOOSE n \in Images : Owner(f, n)]

ExportDataset ==
  /\ stage = "valid" /\ format' \in Formats
  /\ IF Collides
     THEN stage' = "rejected" /\ files' = files
     ELSE stage' = "exported" /\ files' = Written
  /\ UNCHANGED rows

Next ==
  \/ ReadRow \/ Malformed \/ GroupRows \/ ValidateGroundTruth \/ UnreadableImage \/ ExportDataset

Spec == Init /\ [][Next]_vars

---------------------------------------------------------------------------
(***************************************************************************)
(* What is exported keeps the CSV's membership: an image stands for one    *)
(* path and one split, it is one background row or rows whose boxes differ *)
(* unless they are reported, and every image has an image file and a label *)
(* file that no other image shares.                                        *)
(***************************************************************************)
Membership ==
  stage = "exported" =>
    /\ \A i, j \in DOMAIN rows :
         rows[i].path = rows[j].path \/ Name(rows[i]) = Name(rows[j]) =>
           rows[i].path = rows[j].path /\ rows[i].split = rows[j].split
    /\ \A i, j \in DOMAIN rows : i # j /\ Name(rows[i]) = Name(rows[j]) =>
         ~Background(rows[i]) /\ (rows[i].box # rows[j].box \/ i \in Errors)
    /\ \A n \in Images : \E f \in DOMAIN files : f[1] = "image" /\ files[f] = n
    /\ format # "coco" =>
         \A n \in Images : \E f \in DOMAIN files : f[1] = "label" /\ files[f] = n
=============================================================================
