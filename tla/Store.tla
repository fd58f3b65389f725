------------------------------- MODULE Store --------------------------------
(***************************************************************************)
(* The file store (store.py): one yaml file per instance, and the updater's *)
(* <name>.prev note beside it (updater.py).  Path.write_text truncates the  *)
(* file before it writes, so a put is two steps with an unreadable file     *)
(* between them; list() and get() skip an unreadable file.  The .prev file  *)
(* is one word and its write is taken as one step.  The git change log has  *)
(* a module of its own (ChangeLog): it changes no result of a request.      *)
(***************************************************************************)
EXTENDS Engine

CONSTANT Torn  \* a truncated file

ASSUME TornAssumption == Torn # None /\ Torn \notin Def

VARIABLES
  yaml,  \* each instance's file: a definition, Torn, or None
  prev   \* each instance's rollback note: an image, or None

storeVars == <<yaml, prev>>

StoreTypeOK ==
  /\ yaml \in [Instances -> Def \cup {Torn, None}]
  /\ prev \in [Instances -> Images \cup {None}]

\* What a reader of the file gets: the definition, or None.
Get(i) == IF yaml[i] \in Def THEN yaml[i] ELSE None
\* The snapshot a batch iterates over.
List == [i \in Instances |-> Get(i)]

Truncate(i) == yaml' = [yaml EXCEPT ![i] = Torn]
\* What is written to a file that was unlinked meanwhile is gone with it.
Write(i, d) == yaml' = [yaml EXCEPT ![i] = IF @ = None THEN None ELSE d]
Unlink(i) == yaml' = [yaml EXCEPT ![i] = None]
\* Mutant: the note takes the definition instead of its image.
NotePreviousWhole(i, image) == prev' = [prev EXCEPT ![i] = yaml[i]]
NotePrevious(i, image) == prev' = [prev EXCEPT ![i] = image]
UnlinkPrevious(i) == prev' = [prev EXCEPT ![i] = None]
=============================================================================
