----------------------------- MODULE RunTables -----------------------------
(***************************************************************************)
(* The tables of a run (publish_table in adapters/clearml/session.py): one *)
(* upload per distinct content, under a name the server may already hold.  *)
(*                                                                         *)
(* A table's content stands for its bytes and their digest.  A remote name *)
(* is <<name, n>>: the name itself is <<name, 1>>, and name_2 <<name, 2>>. *)
(* Other artifacts have names of their own (core/artifact_names.py); their *)
(* uploads, and the check at the end, are in TaskSession.                  *)
(***************************************************************************)
EXTENDS Naturals, FiniteSetsExt

CONSTANTS Names, Contents, None

VARIABLES
  record,     \* the owner's manifest: "none", "expected", "uploaded"
  byDigest,   \* table_by_digest
  byKey,      \* table_remote_by_key
  taken,      \* table_remote_names
  remote,     \* what the server holds under a remote name
  promised    \* the calls that returned

vars == <<record, byDigest, byKey, taken, remote, promised>>

Remotes == Names \X (1 .. Cardinality(Contents))

Init ==
  /\ record = [n \in Names |-> "none"]
  /\ byDigest = [c \in Contents |-> None]
  /\ byKey = [key \in Names \X Contents |-> None]
  /\ taken = {} /\ remote = [r \in Remotes |-> None] /\ promised = {}

ExpectArtifact(n) ==
  /\ record[n] = "none" /\ record' = [record EXCEPT ![n] = "expected"]
  /\ UNCHANGED <<byDigest, byKey, taken, remote, promised>>

\* The first of name, name_2, name_3 ... that no table has.
FreeName(n) == <<n, Min({k \in 1 .. Cardinality(Contents) : <<n, k>> \notin taken})>>
NameItself(n) == <<n, 1>>
RemoteName(n) == FreeName(n)

Known(n, c) == byDigest[c] # None
SameBytes(n, c) == Known(n, c)

\* The bytes are there already: the name becomes another alias of them.
Alias(n, c) ==
  /\ SameBytes(n, c)
  /\ record' = [record EXCEPT ![n] = "uploaded"]
  /\ byKey' = [byKey EXCEPT ![<<n, c>>] = byDigest[c]]
  /\ promised' = promised \union {<<n, c>>}
  /\ UNCHANGED <<byDigest, taken, remote>>

Upload(n, c) ==
  /\ ~SameBytes(n, c)
  /\ remote' = [remote EXCEPT ![RemoteName(n)] = c]
  /\ byDigest' = [byDigest EXCEPT ![c] = RemoteName(n)]
  /\ byKey' = [byKey EXCEPT ![<<n, c>>] = RemoteName(n)]
  /\ taken' = taken \union {RemoteName(n)}
  /\ record' = [record EXCEPT ![n] = "uploaded"]
  /\ promised' = promised \union {<<n, c>>}

\* _sync_upload raises, whether or not the bytes arrived; the name stays free.
UploadFails(n, c) ==
  /\ ~SameBytes(n, c)
  /\ remote' \in {remote, [remote EXCEPT ![RemoteName(n)] = c]}
  /\ record' = [record EXCEPT ![n] = IF @ = "none" THEN "expected" ELSE @]
  /\ UNCHANGED <<byDigest, byKey, taken, promised>>

PublishTable(n, c) == Alias(n, c) \/ Upload(n, c) \/ UploadFails(n, c)

Next == \E n \in Names : ExpectArtifact(n) \/ \E c \in Contents : PublishTable(n, c)

Spec == Init /\ [][Next]_vars

---------------------------------------------------------------------------
\* Every call that returned keeps its promise for the rest of the run: the
\* remote its name and bytes lead to holds exactly those bytes, equal bytes
\* of all names are one remote, and a name counts as delivered only when a
\* call for it returned, whatever failed, was retried or came again under
\* the same name (publish_table).
TablesKept ==
  /\ \A key \in promised : byKey[key] # None /\ remote[byKey[key]] = key[2]
  /\ \A key, other \in promised : (key[2] = other[2]) = (byKey[key] = byKey[other])
  /\ \A n \in Names : record[n] = "uploaded" => \E c \in Contents : <<n, c>> \in promised
===========================================================================
