---------------------------- MODULE DatasetCache ----------------------------
(***************************************************************************)
(* The shared cache of prepared datasets: adapters/storage/dataset_cache.py*)
(* and prepare_dataset.  A CSV is read once; its bytes, the media it       *)
(* refers to and the format name an entry.  An entry is prepared in a      *)
(* staging directory of the preparing process and renamed into place, and  *)
(* is used under its lock, which the kernel releases with the process.     *)
(*                                                                         *)
(* Somebody edits the CSV, retargets a link on the way to the images, or   *)
(* damages an entry that nobody uses; a process is killed anywhere.        *)
(***************************************************************************)
EXTENDS Naturals, FiniteSets

CONSTANTS Procs, Formats, MaxEdits

VARIABLES
  csv,      \* the source file: its version
  links,    \* where its image paths lead
  entries,  \* entry directories, by identity
  staging,  \* staging directories, by the process that made them
  holder,   \* the process that holds the lock of an identity
  pc,
  request,  \* dataset_format and required_splits of a command
  source,   \* source_bytes
  identity, \* the identity computed from them
  served    \* the dataset a command was given

vars == <<csv, links, entries, staging, holder, pc, request, source, identity, served>>
ofProc == <<request, source, identity, served>>

Identity == [csv : 1 .. MaxEdits, links : 1 .. MaxEdits, format : Formats]
Nobody == "nobody"
Nothing == [made |-> "nothing"]
NoStaging == {}
Steps == {"files", "paths", "completion"}

\* An image of every split is in the first version of the CSV, "test" has none in later ones.
SplitsOf(version) == IF version = 1 THEN {"train", "val", "test"} ELSE {"train", "val"}

Init ==
  /\ csv = 1 /\ links = 1
  /\ entries = [i \in Identity |-> Nothing]
  /\ staging = [p \in Procs |-> NoStaging]
  /\ holder = [i \in Identity |-> Nobody]
  /\ pc = [p \in Procs |-> "start"]
  /\ request = [p \in Procs |-> Nothing] /\ source = [p \in Procs |-> 0]
  /\ identity = [p \in Procs |-> Nothing] /\ served = [p \in Procs |-> Nothing]

Goto(p, place) == pc' = [pc EXCEPT ![p] = place]
At(p, place) == pc[p] = place

\* cached_dataset: the bytes are read and hashed once.
ReadSource(p) ==
  /\ At(p, "start") /\ Goto(p, "read")
  /\ \E f \in Formats, s \in {{"train", "val"}, {"train", "val", "test"}} :
       request' = [request EXCEPT ![p] = [format |-> f, splits |-> s]]
  /\ source' = [source EXCEPT ![p] = csv]
  /\ UNCHANGED <<csv, links, entries, staging, holder, identity, served>>

\* _identity, over resolved_image_references.
Identify(p) ==
  /\ At(p, "read") /\ Goto(p, "lock")
  /\ identity' = [identity EXCEPT ![p] =
                    [csv |-> source[p], links |-> links, format |-> request[p].format]]
  /\ UNCHANGED <<csv, links, entries, staging, holder, request, source, served>>

Lock(p) ==
  /\ At(p, "lock") /\ holder[identity[p]] = Nobody /\ Goto(p, "load")
  /\ holder' = [holder EXCEPT ![identity[p]] = p]
  /\ UNCHANGED <<csv, links, entries, staging, ofProc>>

(***************************************************************************)
(* _load_completed: completion.json is that of this identity, every file   *)
(* it lists is there, the manifest and data.yaml agree with it.            *)
(***************************************************************************)
Entry(p) == entries[identity[p]]
Holds(p) == [made |-> Steps, csv |-> source[p]]
CompletedIfAny(p) == "completion" \in Entry(p).made
Completed(p) == Entry(p) # Nothing /\ Entry(p).made = Steps /\ Entry(p).csv = source[p]

\* A complete entry without a required split raises; any other existing entry is kept.
LoadEntry(p) ==
  /\ At(p, "load")
  /\ \/ /\ Entry(p) = Nothing /\ Goto(p, "stage") /\ UNCHANGED served
     \/ /\ Entry(p) # Nothing /\ Completed(p) /\ request[p].splits \subseteq SplitsOf(source[p])
        /\ served' = [served EXCEPT ![p] = Entry(p)] /\ Goto(p, "use")
     \/ /\ Entry(p) # Nothing
        /\ ~Completed(p) \/ ~(request[p].splits \subseteq SplitsOf(source[p]))
        /\ Goto(p, "raised") /\ UNCHANGED served
  /\ UNCHANGED <<csv, links, entries, staging, holder, request, source, identity>>

Stage(p) ==
  /\ At(p, "stage") /\ Goto(p, "prepare")
  /\ staging' = [staging EXCEPT ![p] = {"directory"}]
  /\ UNCHANGED <<csv, links, entries, holder, ofProc>>

(***************************************************************************)
(* prepare_dataset works on the captured bytes and resolves their images   *)
(* anew; a missing split is found before anything is exported.  "files"    *)
(* are the truth, the manifest, the export and the labels archive, then    *)
(* the final paths are written into them, then the completion.             *)
(***************************************************************************)
PrepareStep(p) ==
  CASE "files" \notin staging[p] -> "files"
    [] "paths" \notin staging[p] -> "paths"
    [] OTHER -> "completion"

Prepare(p) ==
  /\ At(p, "prepare") /\ ~(Steps \subseteq staging[p])
  /\ request[p].splits \subseteq SplitsOf(source[p])
  /\ staging' = [staging EXCEPT ![p] = @ \union {PrepareStep(p)}]
  /\ UNCHANGED <<csv, links, entries, holder, pc, ofProc>>

\* A validation, a copy or a write fails; the staging directory is removed.
PrepareFails(p) ==
  /\ At(p, "prepare") /\ ~(Steps \subseteq staging[p])
  /\ staging' = [staging EXCEPT ![p] = NoStaging] /\ Goto(p, "raised")
  /\ UNCHANGED <<csv, links, entries, holder, ofProc>>

\* staging.rename(entry), once everything in it is written.
Ready(p) == Steps \subseteq staging[p]
PublishEntry(p) ==
  /\ At(p, "prepare") /\ Ready(p)
  /\ entries' = [entries EXCEPT ![identity[p]] = [made |-> staging[p] \ {"directory"}, csv |-> source[p]]]
  /\ staging' = [staging EXCEPT ![p] = NoStaging]
  /\ Goto(p, "load")
  /\ UNCHANGED <<csv, links, holder, ofProc>>

\* The consumer is done, or the exception leaves the context.
Release(p) ==
  /\ pc[p] \in {"use", "raised"} /\ holder[identity[p]] = p
  /\ holder' = [holder EXCEPT ![identity[p]] = Nobody]
  /\ Goto(p, IF At(p, "use") THEN "done" ELSE "failed")
  /\ UNCHANGED <<csv, links, entries, staging, ofProc>>

---------------------------------------------------------------------------
\* The process dies: its lock is free again, its staging directory stays.
Kill(p) ==
  /\ pc[p] \in {"load", "stage", "prepare", "use"} /\ Goto(p, "killed")
  /\ holder' = [holder EXCEPT ![identity[p]] = Nobody]
  /\ UNCHANGED <<csv, links, entries, staging, ofProc>>

Edit ==
  /\ csv < MaxEdits /\ csv' = csv + 1
  /\ UNCHANGED <<links, entries, staging, holder, pc, ofProc>>

Retarget ==
  /\ links < MaxEdits /\ links' = links + 1
  /\ UNCHANGED <<csv, entries, staging, holder, pc, ofProc>>

\* A file of an idle entry is lost.
Damage ==
  /\ \E i \in Identity :
       /\ holder[i] = Nobody /\ entries[i] # Nothing
       /\ \E f \in entries[i].made : entries' = [entries EXCEPT ![i].made = @ \ {f}]
  /\ UNCHANGED <<csv, links, staging, holder, pc, ofProc>>

Next ==
  \/ Edit \/ Retarget \/ Damage
  \/ \E p \in Procs :
       \/ ReadSource(p) \/ Identify(p) \/ Lock(p) \/ LoadEntry(p) \/ Stage(p) \/ Prepare(p)
       \/ PrepareFails(p) \/ PublishEntry(p) \/ Release(p) \/ Kill(p)

Spec == Init /\ [][Next]_vars

---------------------------------------------------------------------------
(***************************************************************************)
(* A command trains on a whole dataset made from the bytes it has hashed,  *)
(* with the splits it asked for, and nothing changes the entry under it:   *)
(* whatever was left there by a killed or a damaged preparation is refused.*)
(***************************************************************************)
ServedWhole ==
  \A p \in Procs : At(p, "use") =>
    /\ served[p] = Holds(p) /\ Entry(p) = served[p]
    /\ request[p].splits \subseteq SplitsOf(source[p])

=============================================================================
