---------------------------- MODULE Definitions ----------------------------
(***************************************************************************)
(* Instance definitions from the request to the container and back: what   *)
(* models.py accepts and rewrites, the name it derives, what store.py puts *)
(* and reads, and what spec_for makes a container from.  A request is one  *)
(* step here; ControlPlane has its parts and what runs between them, and   *)
(* Store the updater's note.                                               *)
(*                                                                         *)
(* A school, a role and a name are sequences of words joined by hyphens.   *)
(* school_subnets and internet_group are lists in a string, tidy when they *)
(* are written as the validator writes them.  The image stands for the     *)
(* fields that are tested and kept as they are.  YAML gives back what was  *)
(* dumped.                                                                 *)
(***************************************************************************)
EXTENDS Naturals, Sequences, FiniteSets, Functions

CONSTANTS
  Length,    \* the characters of each word
  Parts,     \* what the lists may have between separators
  BadParts,  \* parts that are no CIDR, or no group name
  Images,
  Untagged,  \* images without a tag or digest
  Names,     \* names that definitions may have
  Creates,   \* bodies of POST /v1/instances
  Patches,   \* bodies of PATCH
  Updates,   \* images of POST update
  Backups,   \* what a restore copies: a body for some of the names
  None

Text == [parts : Seq(Parts), tidy : BOOLEAN]
Body ==
  [school : Seq(DOMAIN Length), role : Seq(DOMAIN Length),
   subnets : Text, group : Text \cup {None}, image : Images]

ASSUME BodiesAssumption ==
  /\ None \notin Text \cup Body
  /\ \A w \in DOMAIN Length : Length[w] \in Nat
  /\ Creates \subseteq Body /\ Updates \subseteq Images
  /\ \A b \in Backups : b \in [Names -> Body \cup {None}]
  /\ \A b \in Backups, n \in Names : b[n] # None => b[n].school \o b[n].role = n
  /\ \A p \in Patches :
       /\ "subnets" \in DOMAIN p => p["subnets"] \in Text
       /\ "group" \in DOMAIN p => p["group"] \in Text \cup {None}
       /\ "image" \in DOMAIN p => p["image"] \in Images

VARIABLES
  file,  \* file[n]: what is in n.yaml
  made,  \* made[n]: what n's container was created from
  met    \* history: the last to write n.yaml was a request that got n's container up

vars == <<file, made, met>>

\* The characters of the words, and the hyphens between them.
Letters(s) == UNION {{k} \X (1..Length[s[k]]) : k \in DOMAIN s}
NameLength(s) == Cardinality(Letters(s)) + Len(s) - 1

Accepted(t) == t.parts # <<>> /\ Range(t.parts) \cap BadParts = {}
Tidied(t) == [t EXCEPT !.tidy = TRUE]

Valid(r) ==
  /\ NameLength(r.school) \in 1..31 /\ NameLength(r.role) \in 1..31
  /\ Accepted(r.subnets) /\ (r.group # None => Accepted(r.group))
  /\ r.image \notin Untagged

Instance(r) ==
  [school |-> r.school, role |-> r.role, subnets |-> Tidied(r.subnets),
   group |-> IF r.group = None THEN None ELSE Tidied(r.group), image |-> r.image]

Name(i) == i.school \o i.role
\* Mutant: what a container is made of is named after the school alone.
SpecOfSchool(i) ==
  [name |-> i.school, image |-> i.image, subnets |-> i.subnets, group |-> i.group]
SpecFor(i) == [name |-> Name(i), image |-> i.image, subnets |-> i.subnets, group |-> i.group]

TypeOK ==
  /\ file \in [Names -> Body \cup {None}] /\ met \in [Names -> BOOLEAN]
  /\ DOMAIN made = Names
  /\ \A n \in Names : /\ file[n] # None => Name(file[n]) = n
                      /\ made[n] # None => made[n].name = n

Init ==
  /\ file = [n \in Names |-> None] /\ made = [n \in Names |-> None]
  /\ met = [n \in Names |-> TRUE]

-----------------------------------------------------------------------------
(* Requests.  "up": the container comes up; if not, the one before is put  *)
(* back and the request fails with the definition written.                 *)

Apply(i, up) ==
  LET n == Name(i)
      done == up \/ made[n] = SpecFor(i) IN
  /\ file' = [file EXCEPT ![n] = i]
  /\ made' = [made EXCEPT ![n] = IF done THEN SpecFor(i) ELSE @]
  /\ met' = [met EXCEPT ![n] = done]

\* Mutant: the longest names cannot be asked for.
RequireShorter(n) == NameLength(n) \in 2..62 /\ file[n] # None
\* 422 or 404 if not.
Require(n) == NameLength(n) \in 2..63 /\ file[n] # None
\* get() raises for a body that is not valid (any more).
Stored(n) == Require(n) /\ Valid(file[n])

Create(r, up) == Valid(r) /\ Apply(Instance(r), up)

Patchable == {"subnets", "group", "image"}

\* Fields that InstancePatch does not have are ignored.
Merged(n, p) ==
  LET i == Instance(file[n])
      field(f) == IF f \in DOMAIN p \cap Patchable THEN p[f] ELSE i[f] IN
  [school |-> field("school"), role |-> field("role"), subnets |-> field("subnets"),
   group |-> field("group"), image |-> field("image")]

\* Mutant: the patch goes into a copy of the definition, unread.
PatchCopied(n, p, up) == Stored(n) /\ Apply(Merged(n, p), up)

Patch(n, p, up) == Stored(n) /\ Valid(Merged(n, p)) /\ Apply(Instance(Merged(n, p)), up)

\* The image comes up; or it does not, or not for the updater's own gate,
\* and the definition before is applied again.
Update(n, image, back) ==
  /\ Stored(n) /\ image \notin Untagged
  /\ LET i == Instance(file[n])
         new == [i EXCEPT !.image = image] IN
     \/ Apply(new, TRUE)
     \/ Apply(i, back)
     \/ /\ file' = [file EXCEPT ![n] = i]
        /\ made' = [made EXCEPT ![n] = SpecFor(IF back THEN i ELSE new)]
        /\ met' = [met EXCEPT ![n] = back \/ new = i]

Delete(n) ==
  /\ Stored(n)
  /\ file' = [file EXCEPT ![n] = None] /\ made' = [made EXCEPT ![n] = None]
  /\ met' = [met EXCEPT ![n] = TRUE]

\* list() leaves out what is not valid.
Listed == {n \in Names : file[n] # None /\ Valid(file[n])}

Reconcile(up) ==
  LET want(n) == SpecFor(Instance(file[n]))
      done == {n \in Listed : n \in up \/ made[n] = want(n)} IN
  /\ made' = [n \in Names |-> IF n \in done THEN want(n) ELSE made[n]]
  /\ met' = [n \in Names |-> met[n] \/ n \in done]
  /\ UNCHANGED file

\* cp -a <backup>/instances/*.yaml: files of any age.
Restore(b) ==
  /\ file' = [n \in Names |-> IF b[n] = None THEN file[n] ELSE b[n]]
  /\ met' = [n \in Names |-> met[n] /\ b[n] = None]
  /\ UNCHANGED made

Next ==
  \/ \E up \in BOOLEAN :
       \/ \E r \in Creates : Create(r, up)
       \/ \E n \in Names : \/ \E p \in Patches : Patch(n, p, up)
                           \/ \E image \in Updates : Update(n, image, up)
  \/ \E n \in Names : Delete(n)
  \/ \E up \in SUBSET Names : Reconcile(up)
  \/ \E b \in Backups : Restore(b)

Spec == Init /\ [][Next]_vars

-----------------------------------------------------------------------------
(* Properties.                                                             *)

\* What a request wrote reads back as what its container was created from, in
\* whatever form the client or an older file had it: reconcile, an edit that
\* changes nothing and the lift of an upgrade leave that container alone.
ReadsBack ==
  \A n \in Names : met[n] =>
    IF file[n] = None THEN made[n] = None
    ELSE Valid(file[n]) /\ made[n] = SpecFor(Instance(file[n]))

\* No instance gets a name that the other requests refuse.
AllAddressable == \A n \in Names : file[n] # None => Require(n)

\* "A single Squid deployment, identified by school x role" (models.py:60):
\* no request turns the definition of one school and role into another's.
NamesIdentify ==
  [][\A n \in Names : file[n] # None /\ file'[n] # None =>
       file'[n].school = file[n].school /\ file'[n].role = file[n].role]_vars
=============================================================================
