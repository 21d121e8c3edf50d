------------------------------- MODULE Registry -------------------------------
(***************************************************************************)
(* ~/.ldm/registry.json, which says where the projects are: every command  *)
(* reads it, and those that change it write the whole file back from what  *)
(* they have read (handlers/base.py, find_dxp_roots).  There is no lock,   *)
(* and safe_write_text has one temporary file for all writers.             *)
(***************************************************************************)
EXTENDS Naturals

CONSTANTS
  Projects,
  Found,      \* projects in directories that are searched; the registry has the rest
  Actors, Nobody

ASSUME FoundAssumption == Found \subseteq Projects
ASSUME NobodyAssumption == Nobody \notin Actors

VARIABLES
  dirs,      \* projects whose directory and metadata exist
  registry,  \* the file: whether it is torn, and the projects it names
  saver      \* what each actor is about to write

File == [torn : BOOLEAN, names : SUBSET Projects]

\* aim: history, what the writer wants to change; quiet: history, nobody else
\* has written, and no directory has come or gone, since it read the file.
NoSave == [busy |-> FALSE, names |-> {}, quiet |-> TRUE, aim |-> {}]

RegistryTypeOK ==
  /\ dirs \in SUBSET Projects
  /\ registry \in File
  /\ saver \in [Actors -> [busy : BOOLEAN, names : SUBSET Projects, quiet : BOOLEAN,
                           aim : SUBSET Projects]]

Others(a) == {b \in Actors \ {a} : saver[b].busy}

\* A file that cannot be parsed is an empty registry.
Read == IF registry.torn THEN {} ELSE registry.names

Disturbed == saver' = [b \in Actors |-> [saver[b] EXCEPT !.quiet = ~saver[b].busy]]

\* From here to the rename, one writer overlaps with the others.
LoadTo(a, names, aim) ==
  saver' = [b \in Actors |->
    IF b = a
    THEN [busy |-> TRUE, names |-> names, quiet |-> Others(a) = {} /\ ~registry.torn,
          aim |-> aim]
    ELSE [saver[b] EXCEPT !.quiet = ~saver[b].busy]]

\* Mutant: only the new entry is written.
LoadToAddAlone(a, p) == LoadTo(a, {p}, Read \cup {p})

LoadToAdd(a, p) == LoadTo(a, Read \cup {p}, Read \cup {p})

LoadToRemove(a, p) == LoadTo(a, Read \ {p}, Read \ {p})

\* find_dxp_roots: entries without a directory go, projects found are added.
Roots == dirs \cap (Read \cup Found)

Current == IF registry.torn THEN Roots = {} ELSE registry.names = Roots

LoadToList(a) == LoadTo(a, Roots, Roots)

AbandonSave(a) == saver' = [saver EXCEPT ![a] = NoSave]

\* Another writer may have just truncated the temporary file.
Save(a) ==
  /\ registry' \in {[torn |-> FALSE, names |-> saver[a].names]}
                     \cup {[torn |-> TRUE, names |-> {}] : b \in Others(a)}
  /\ saver' = [saver EXCEPT ![a] = NoSave]
=============================================================================
