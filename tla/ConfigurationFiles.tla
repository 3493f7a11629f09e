------------------------ MODULE ConfigurationFiles ------------------------
(***************************************************************************)
(* A configuration file a run consumes (clearml/session.py                 *)
(* connect_config_file, hydra/config_resolution.py): its references are    *)
(* resolved against the command, the run reads the resolved values, and    *)
(* the task keeps a copy without credentials, which a clone reads instead  *)
(* of the file of its own machine.                                         *)
(*                                                                         *)
(* A file, or a command, gives some of the Keys a text: a word <<w>>, a    *)
(* reference <<"refers", k>> to a key, ${k} in the file, or an escaped one *)
(* <<"escaped", k>>, with an "in" before it for every text around it.      *)
(* Documents are the files a machine may hold, Contexts what its command   *)
(* gives, Edits what users write over a key of a clone, MaxClones the      *)
(* clones of clones.                                                       *)
(***************************************************************************)
EXTENDS Naturals, Sequences, FiniteSets, SequencesExt

CONSTANTS Keys, Sensitive, Documents, Contexts, Edits, NoFile, MaxClones

VARIABLES
  override,             \* allow_remote_override
  context, file,        \* the command and the file of this machine
  attached,             \* the task's configuration object
  execution, sanitized, \* _prepared_config_file
  original,             \* what the run that was cloned read
  edited,               \* keys that users have changed since
  clones, pc

machine == <<context, file>>
prepared == <<execution, sanitized>>
vars == <<override, machine, attached, prepared, original, edited, clones, pc>>

\* The last but one of its marks says how a text is read.
Sign(text) == IF Len(text) > 1 THEN text[Len(text) - 1] ELSE "in"
Reference(text) == Sign(text) = "refers"
Escaped(text) == Sign(text) = "escaped"
\* An escaped reference is read as the text of a reference.
Reads(text) == IF Escaped(text) THEN [text EXCEPT ![Len(text) - 1] = "refers"] ELSE text
Redacted == <<"redacted">>
Unresolved == <<"???">>

Init ==
  /\ override \in BOOLEAN
  /\ context \in Contexts /\ file \in Documents
  /\ attached = NoFile /\ execution = NoFile /\ sanitized = NoFile /\ original = NoFile
  /\ edited = {} /\ clones = 0 /\ pc = "start"

\* _resolve_file: the fields of the document over those of the command.
Root(fields) == [k \in DOMAIN fields \union DOMAIN context |->
                   IF k \in DOMAIN fields THEN fields[k] ELSE context[k]]

\* A field is read along a chain of keys, its own first: _follow_reference and
\* _source_provenance.
Target(root, k) ==
  IF k \in DOMAIN root /\ Reference(root[k]) THEN {Last(root[k])} ELSE {}
Chains(root, key) ==
  {c \in UNION {[1..n -> Keys] : n \in 1..Cardinality(Keys)} :
     c[1] = key /\ \A i \in 1..(Len(c) - 1) : c[i + 1] \in Target(root, c[i])}
Through(root, key) == {c[Len(c)] : c \in Chains(root, key)}

\* A reference to nothing, or in a circle, has no value.
Literal(root, k) == k \in DOMAIN root /\ ~Reference(root[k])
Ends(root, key) == {c \in Chains(root, key) : Literal(root, c[Len(c)])}
Around(root, chain) ==
  UNION {{i} \X (1..(Len(root[chain[i]]) - 2)) : i \in 1..(Len(chain) - 1)}
ValueOf(root, key) ==
  LET chain == CHOOSE c \in Ends(root, key) : TRUE
  IN  IF Ends(root, key) = {} THEN Unresolved
      ELSE [i \in 1..Cardinality(Around(root, chain)) |-> "in"] \o Reads(root[Last(chain)])

Resolved(fields) == [k \in DOMAIN fields |-> ValueOf(Root(fields), k)]
Resolvable(fields) ==
  \A k \in DOMAIN fields : ~IsSuffix(Unresolved, Resolved(fields)[k])

\* A credential of the command: its text, or the text that bare references lead to.
SecretsOfCommand ==
  {context[Last(c)] : c \in
     {c \in UNION {Ends(context, k) : k \in DOMAIN context \intersect Sensitive} :
        ~Escaped(context[Last(c)]) /\ \A i \in 1..(Len(c) - 1) : Len(context[c[i]]) = 2}}

\* configuration_secrets, with the provenance of every field.
SecretsOfFile(fields) == {Resolved(fields)[k] : k \in DOMAIN fields \intersect Sensitive}
Secrets(fields) ==
  (SecretsOfFile(fields)
     \union {Resolved(fields)[k] : k \in {f \in DOMAIN fields :
               Through(Root(fields), f) \intersect Sensitive # {}}}
     \union SecretsOfCommand)
    \ {Redacted}

\* _sanitize_config_scalar: the longest secret in a value goes first.
Clean(value, secrets) ==
  LET inside == {s \in secrets : IsSuffix(s, value)}
  IN  IF inside = {} THEN value
      ELSE LET s == CHOOSE s \in inside : \A other \in inside : Len(other) <= Len(s)
           IN  SubSeq(value, 1, Len(value) - Len(s)) \o Redacted

\* _sanitize_yaml_configuration: the resolved values as texts, so what was an
\* escaped reference is a reference to whoever reads the copy.
Sanitized(fields) ==
  [k \in DOMAIN fields |->
     IF k \in Sensitive THEN Redacted ELSE Clean(Resolved(fields)[k], Secrets(fields))]

Prepare(fields) ==
  IF Resolvable(fields)
  THEN execution' = Resolved(fields) /\ sanitized' = Sanitized(fields)
  ELSE UNCHANGED prepared

\* A clone on a machine without the file starts from what is attached.
PrepareFile ==
  /\ pc = "start"
  /\ IF file # NoFile
     THEN /\ Prepare(file)
          /\ pc' = IF Resolvable(file) THEN "prepared" ELSE "failed"
     ELSE /\ UNCHANGED prepared
          /\ pc' = IF override /\ clones > 0 THEN "prepared" ELSE "failed"
  /\ UNCHANGED <<override, machine, attached, original, edited, clones>>

\* connect_configuration hands a clone the attached copy, unless the caller
\* says the file is this machine's; what is read is prepared in turn.
Replaced == clones > 0 /\ override /\ attached # NoFile
Reread == Replaced

ConnectConfigFile ==
  /\ pc = "prepared"
  /\ IF Reread
     THEN /\ Prepare(attached)
          /\ pc' = IF Resolvable(attached) THEN "connected" ELSE "failed"
     ELSE /\ pc' = IF file = NoFile THEN "failed" ELSE "connected"
          /\ UNCHANGED prepared
  /\ UNCHANGED <<override, machine, attached, original, edited, clones>>

\* The task keeps the sanitized form of what the run reads.
Attach ==
  /\ pc = "connected"
  /\ attached' = sanitized /\ pc' = "running"
  /\ UNCHANGED <<override, machine, prepared, original, edited, clones>>

Clone ==
  /\ pc \in {"running", "failed"} /\ clones < MaxClones /\ clones' = clones + 1
  /\ original' = IF pc = "running" THEN execution ELSE original
  /\ edited' = IF pc = "running" THEN {} ELSE edited
  /\ context' \in Contexts /\ file' \in Documents \union {NoFile}
  /\ execution' = NoFile /\ sanitized' = NoFile /\ pc' = "start"
  /\ UNCHANGED <<override, attached>>

\* A user changes the copy of a clone, with a reference at times.
Edit(k, s) ==
  /\ pc = "start" /\ clones > 0 /\ attached # NoFile /\ k \in DOMAIN attached
  /\ k \notin edited
  /\ attached' = [attached EXCEPT ![k] = s] /\ edited' = edited \union {k}
  /\ UNCHANGED <<override, machine, prepared, original, clones, pc>>

Next ==
  \/ PrepareFile \/ ConnectConfigFile \/ Attach \/ Clone
  \/ \E k \in Keys, s \in Edits : Edit(k, s)

Spec == Init /\ [][Next]_vars

---------------------------------------------------------------------------
(***************************************************************************)
(* What a run reads and what its task keeps differ by credentials alone: a *)
(* field that was read through one is kept redacted, and any other is kept *)
(* as it was read, or without the secret it repeats.  A clone reads what   *)
(* was kept, on whatever machine and command it runs, but for the fields   *)
(* that users changed and those that held an escaped reference: the copy   *)
(* keeps them without the escape, and the clone follows them.              *)
(* (connect_config_file)                                                   *)
(***************************************************************************)
Portable ==
  pc = "running" =>
    /\ DOMAIN attached = DOMAIN execution
    /\ \A k \in DOMAIN attached :
         /\ k \in Sensitive => attached[k] = Redacted
         /\ attached[k] = execution[k] \/ IsSuffix(Redacted, attached[k])
    /\ (clones = 0 \/ ~override) =>
         \A k \in DOMAIN file :
           Through(Root(file), k) \intersect Sensitive # {} => attached[k] = Redacted
    /\ (clones > 0 /\ override /\ original # NoFile) =>
         \A k \in DOMAIN execution \ edited :
           \/ execution[k] = original[k] \/ IsSuffix(Redacted, execution[k])
           \/ Reference(original[k])
===========================================================================
