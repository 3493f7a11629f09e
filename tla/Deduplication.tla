--------------------------- MODULE Deduplication ---------------------------
(***************************************************************************)
(* cy-dedup, adapters/storage/dedup.py: images of one basename and size    *)
(* that are byte-identical become reflinks of the first one.  Files are    *)
(* scanned once; whenever one is opened or about to be replaced, its       *)
(* identity must still be the scanned one.  Their owners go on writing.    *)
(*                                                                         *)
(* A file is its bytes and a stamp for what stat reports (every write      *)
(* changes it).  Linked files have other hard links, Foreign ones are on   *)
(* another device, when they are scanned.  MaxWrites bounds the owners'    *)
(* writes.  Equal digests mean equal bytes.                                *)
(***************************************************************************)
EXTENDS Naturals, FiniteSets, Sequences

CONSTANTS Files, Linked, Foreign, MaxWrites

VARIABLES
  bytes, stamp,  \* the files as they are
  owner,         \* what the owner of a file wrote last
  snapshot,      \* the stamps of the scan
  todo,          \* files whose digest is not known yet
  firsts,        \* by_digest: digest and file
  source, dest,  \* the pair under way
  temp,          \* the bytes of the temporary clone
  pc, result,
  clones,        \* the pairs that were reflinked: source and destination
  writes,
  late           \* files last written between the last check and the rename

world == <<bytes, stamp, owner, writes, late>>
vars == <<world, snapshot, todo, firsts, source, dest, temp, pc, result, clones>>

Contents == {"same", "other"}
NoFile == "none"

Init ==
  /\ bytes \in [Files -> Contents] /\ stamp = [f \in Files |-> 0] /\ owner = bytes
  /\ snapshot = stamp /\ todo = Files /\ firsts = {}
  /\ source = NoFile /\ dest = NoFile /\ temp = NoFile
  /\ pc = "scan" /\ result = [f \in Files |-> "none"] /\ clones = {}
  /\ writes = 0 /\ late = {}

Scan ==
  /\ pc = "scan" /\ pc' = "digest" /\ snapshot' = stamp
  /\ UNCHANGED <<world, todo, firsts, source, dest, temp, result, clones>>

\* _check.
Check(f) == stamp[f] = snapshot[f]
SameDevice(f, g) == (f \in Foreign) = (g \in Foreign)
Keep(outcome) == pc' = "digest" /\ result' = [result EXCEPT ![dest] = outcome]

\* _digest of the next file, read between two checks: new contents are kept as
\* sources, sources of the same device come first.
Digest ==
  /\ pc = "digest"
  /\ \E f \in todo :
       /\ todo' = todo \ {f} /\ dest' = f
       /\ LET same == {e \in firsts : e[1] = bytes[f]}
              near == {e \in same : SameDevice(e[2], f)}
          IN \/ result' = [result EXCEPT ![f] = "failed"] /\ UNCHANGED <<pc, firsts, source>>
             \/ /\ Check(f) /\ same = {}
                /\ firsts' = firsts \union {<<bytes[f], f>>} /\ UNCHANGED <<pc, source, result>>
             \/ /\ Check(f)
                /\ \E e \in IF near = {} THEN same ELSE near : source' = e[2]
                /\ pc' = "equal" /\ UNCHANGED <<firsts, result>>
  /\ UNCHANGED <<world, snapshot, temp, clones>>

At(place) == pc = place /\ UNCHANGED <<world, snapshot, todo, source, dest, clones>>

\* _equal, and what deduplicate leaves alone by what the scan saw.
Compare ==
  /\ At("equal") /\ Check(source) /\ Check(dest) /\ bytes[source] = bytes[dest]
  /\ UNCHANGED temp
  /\ IF dest \in Linked \/ ~SameDevice(source, dest) THEN Keep("skipped")
     ELSE pc' = "open" /\ UNCHANGED result
  /\ firsts' = IF SameDevice(source, dest) THEN firsts ELSE firsts \union {<<bytes[dest], dest>>}

---------------------------------------------------------------------------
(* _replace, between any two steps of which owners may write. *)

\* _open of both files.
Open ==
  /\ At("open") /\ Check(source) /\ Check(dest) /\ pc' = "clone"
  /\ UNCHANGED <<firsts, temp, result>>

\* FICLONE of what the source is by now; a filesystem without reflinks skips the pair.
Clone ==
  /\ At("clone") /\ UNCHANGED firsts
  /\ \/ temp' = bytes[source] /\ pc' = "verify" /\ UNCHANGED result
     \/ Keep("skipped") /\ UNCHANGED temp

\* _verify_clone reads the source again.
Verify ==
  /\ At("verify") /\ temp = bytes[source] /\ pc' = "source"
  /\ UNCHANGED <<firsts, temp, result>>

\* The last look at the source, then at the destination.
\* Faulty variant: bytes that were verified need no further look.
SourceVerified == At("source") /\ pc' = "dest" /\ UNCHANGED <<firsts, temp, result>>
CheckSource ==
  /\ At("source") /\ Check(source) /\ pc' = "dest"
  /\ UNCHANGED <<firsts, temp, result>>
CheckDest ==
  /\ At("dest") /\ Check(dest) /\ pc' = "replace"
  /\ UNCHANGED <<firsts, temp, result>>

Replace ==
  /\ pc = "replace" /\ Keep("reflinked")
  /\ bytes' = [bytes EXCEPT ![dest] = temp] /\ stamp' = [stamp EXCEPT ![dest] = @ + 1]
  /\ clones' = clones \union {<<source, dest>>}
  /\ UNCHANGED <<owner, writes, late, snapshot, todo, firsts, source, dest, temp>>

\* A check that fails, or any other OSError of a step: the original is retained.
Fail ==
  /\ \E place \in {"equal", "open", "clone", "verify", "source", "dest", "replace"} : At(place)
  /\ Keep("failed") /\ UNCHANGED <<firsts, temp>>

\* The owner of a file writes it; too late if only the rename of a clone over
\* this file is left.
Write(f) ==
  /\ writes < MaxWrites /\ writes' = writes + 1
  /\ \E c \in Contents :
       bytes' = [bytes EXCEPT ![f] = c] /\ owner' = [owner EXCEPT ![f] = c]
  /\ stamp' = [stamp EXCEPT ![f] = @ + 1]
  /\ late' = IF pc = "replace" /\ f = dest THEN late \union {f} ELSE late \ {f}
  /\ UNCHANGED <<snapshot, todo, firsts, source, dest, temp, pc, result, clones>>

Next ==
  \/ Scan \/ Digest \/ Compare \/ Open \/ Clone \/ Verify \/ CheckSource \/ CheckDest
  \/ Replace \/ Fail
  \/ \E f \in Files : Write(f)

Spec == Init /\ [][Next]_vars

---------------------------------------------------------------------------
(***************************************************************************)
(* No file ever loses what its owner wrote last, unless that was written   *)
(* between the last check of this very file and the rename over it.  Hard  *)
(* links and files on another device than the source stay alone, and what  *)
(* failed or was skipped was not replaced.  (dedup.py:216)                 *)
(***************************************************************************)
BytesKept ==
  /\ \A f \in Files \ late : bytes[f] = owner[f]
  /\ \A e \in clones :
       /\ e[2] \notin Linked /\ SameDevice(e[1], e[2]) /\ e[1] # e[2]
       /\ result[e[2]] = "reflinked"
=============================================================================
