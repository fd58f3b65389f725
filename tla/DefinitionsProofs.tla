------------------------- MODULE DefinitionsProofs -------------------------
(***************************************************************************)
(* For any bodies, patches and backups: what a request wrote reads back as *)
(* what its container was made of, and no instance gets a name that the    *)
(* other requests refuse.                                                  *)
(***************************************************************************)
EXTENDS Definitions, FiniteSetTheorems, SequenceTheorems, TLAPS

USE BodiesAssumption DEF BodiesAssumption

IInv == TypeOK /\ ReadsBack

Read(i) == i \in Body /\ Valid(i) /\ Instance(i) = i

\* The validators change the form of a body and nothing else, and only once.
LEMMA Validators ==
  ASSUME NEW r \in Body
  PROVE  /\ Instance(r) \in Body /\ Instance(Instance(r)) = Instance(r)
         /\ Name(Instance(r)) = Name(r)
         /\ Valid(r) => Read(Instance(r))
<1>1. ASSUME NEW t \in Text
      PROVE  /\ Tidied(t) \in Text /\ Tidied(Tidied(t)) = Tidied(t)
             /\ Accepted(t) = Accepted(Tidied(t)) /\ Tidied(t) # None
  BY DEF Tidied, Text, Accepted
<1> DEFINE g == IF r.group = None THEN None ELSE Tidied(r.group)
           s == [school |-> r.school, role |-> r.role, subnets |-> Tidied(r.subnets),
                 group |-> g, image |-> r.image]
<1>2. Instance(r) = s
  BY DEF Instance
<1>3. /\ r.subnets \in Text /\ r.group \in Text \cup {None} /\ r.image \in Images
      /\ r.school \in Seq(DOMAIN Length) /\ r.role \in Seq(DOMAIN Length)
  BY DEF Body
<1>4. g \in Text \cup {None} /\ (g = None <=> r.group = None)
  BY <1>1, <1>3
<1>5. s \in Body
  BY <1>1, <1>3, <1>4 DEF Body
<1>6. Instance(s) = s
  <2>1. (IF g = None THEN None ELSE Tidied(g)) = g
    BY <1>1, <1>3
  <2>2. Instance(s) = [school |-> r.school, role |-> r.role, subnets |-> Tidied(Tidied(r.subnets)),
                       group |-> IF g = None THEN None ELSE Tidied(g), image |-> r.image]
    BY DEF Instance
  <2> QED BY <1>1, <1>3, <2>1, <2>2
<1>7. Valid(r) => Valid(s)
  <2>1. g # None /\ Accepted(r.group) => Accepted(g)
    BY <1>1, <1>3, <1>4
  <2>2. Accepted(r.subnets) => Accepted(Tidied(r.subnets))
    BY <1>1, <1>3
  <2> QED BY <1>4, <2>1, <2>2 DEF Valid
<1>8. Name(s) = Name(r)
  BY DEF Name
<1> QED BY <1>2, <1>5, <1>6, <1>7, <1>8 DEF Read

LEMMA OtherImage ==
  ASSUME NEW i, Read(i), NEW m \in Images \ Untagged
  PROVE  Read([i EXCEPT !.image = m]) /\ Name([i EXCEPT !.image = m]) = Name(i)
<1> DEFINE new == [i EXCEPT !.image = m]
<1>1. new = [school |-> i.school, role |-> i.role, subnets |-> i.subnets,
             group |-> i.group, image |-> m]
  BY DEF Read, Body
<1>2. new \in Body
  BY <1>1 DEF Read, Body
<1>3. Valid(new)
  BY <1>1 DEF Read, Valid
<1>4. Instance(new) = new
  <2>1. Tidied(i.subnets) = i.subnets /\ (IF i.group = None THEN None ELSE Tidied(i.group)) = i.group
    <3>1. Instance(i) = i /\ i \in Body
      BY DEF Read
    <3>2. Instance(i).subnets = Tidied(i.subnets)
          /\ Instance(i).group = IF i.group = None THEN None ELSE Tidied(i.group)
      BY <3>1 DEF Instance, Body
    <3> QED BY <3>1, <3>2
  <2>2. Instance(new) = [school |-> i.school, role |-> i.role, subnets |-> Tidied(i.subnets),
                         group |-> IF i.group = None THEN None ELSE Tidied(i.group), image |-> m]
    BY <1>1 DEF Instance
  <2> QED BY <1>1, <2>1, <2>2
<1> HIDE DEF new
<1>5. Name(new) = Name(i)
  BY <1>1 DEF Name
<1> QED BY <1>2, <1>3, <1>4, <1>5 DEF Read, new

\* What the requests read of a file.
LEMMA FileRead ==
  ASSUME TypeOK, NEW n \in Names, Stored(n)
  PROVE  Read(Instance(file[n])) /\ Name(Instance(file[n])) = n
<1>1. file[n] \in Body /\ Valid(file[n]) /\ Name(file[n]) = n
  BY DEF TypeOK, Stored, Require
<1> QED BY <1>1, Validators

\* One file and its container change together.
LEMMA OneChanges ==
  ASSUME IInv, NEW n \in Names, NEW i, Read(i), Name(i) = n, NEW s, NEW b \in BOOLEAN,
         file' = [file EXCEPT ![n] = i], made' = [made EXCEPT ![n] = s],
         met' = [met EXCEPT ![n] = b],
         s # None => s.name = n, b => s = SpecFor(i)
  PROVE  IInv'
<1>0. i \in Body /\ i # None /\ Valid(i) /\ Instance(i) = i
  BY DEF Read
<1>1. /\ file'[n] = i /\ made'[n] = s /\ met'[n] = b
      /\ \A k \in Names \ {n} : file'[k] = file[k] /\ made'[k] = made[k] /\ met'[k] = met[k]
  BY DEF IInv, TypeOK
<1>2. TypeOK'
  <2>1. /\ file' \in [Names -> Body \cup {None}] /\ met' \in [Names -> BOOLEAN]
        /\ DOMAIN made' = Names
    BY <1>0 DEF IInv, TypeOK
  <2> QED BY <1>1, <2>1 DEF IInv, TypeOK
<1>3. ASSUME NEW k \in Names, met'[k]
      PROVE  IF file'[k] = None THEN made'[k] = None
             ELSE Valid(file'[k]) /\ made'[k] = SpecFor(Instance(file'[k]))
  <2>1. CASE k = n
    BY <1>0, <1>1, <1>3, <2>1
  <2>2. CASE k # n
    BY <1>1, <1>3, <2>2 DEF IInv, ReadsBack
  <2> QED BY <2>1, <2>2
<1> QED BY <1>2, <1>3 DEF IInv, ReadsBack

LEMMA ApplyKeeps ==
  ASSUME IInv, NEW i, Read(i), NEW up \in BOOLEAN, Apply(i, up) PROVE IInv'
<1> DEFINE n == Name(i)
           done == up \/ made[n] = SpecFor(i)
           s == IF done THEN SpecFor(i) ELSE made[n]
<1>1. /\ file' = [file EXCEPT ![n] = i] /\ made' = [made EXCEPT ![n] = s]
      /\ met' = [met EXCEPT ![n] = done]
  BY DEF Apply
<1>2. CASE n \in Names
  <2>1. s # None => s.name = n
    BY <1>2 DEF IInv, TypeOK, SpecFor
  <2>2. done \in BOOLEAN /\ (done => s = SpecFor(i))
    OBVIOUS
  <2> HIDE DEF done, s, n
  <2>3. Name(i) = n
    BY DEF n
  <2> QED BY <1>1, <1>2, <2>1, <2>2, <2>3, OneChanges
<1>3. CASE n \notin Names
  <2>1. /\ \A k \in Names : file'[k] = file[k] /\ made'[k] = made[k] /\ met'[k] = met[k]
        /\ file' \in [Names -> Body \cup {None}] /\ met' \in [Names -> BOOLEAN]
        /\ DOMAIN made' = Names
    BY <1>1, <1>3 DEF IInv, TypeOK
  <2>2. TypeOK'
    BY <2>1 DEF IInv, TypeOK
  <2>3. ReadsBack'
    BY <2>1 DEF IInv, ReadsBack
  <2> QED BY <2>2, <2>3 DEF IInv
<1> QED BY <1>2, <1>3

LEMMA PatchKeeps ==
  ASSUME IInv, NEW n \in Names, NEW p \in Patches, NEW up \in BOOLEAN, Patch(n, p, up)
  PROVE  IInv'
<1> DEFINE i == Instance(file[n])
           m == Merged(n, p)
<1>1. i \in Body
  BY FileRead DEF Patch, IInv, Read
<1>2. m \in Body
  <2>1. /\ i.school \in Seq(DOMAIN Length) /\ i.role \in Seq(DOMAIN Length)
        /\ i.subnets \in Text /\ i.group \in Text \cup {None} /\ i.image \in Images
        /\ i.school = i["school"] /\ i.role = i["role"] /\ i.subnets = i["subnets"]
        /\ i.group = i["group"] /\ i.image = i["image"]
    BY <1>1 DEF Body
  <2> HIDE DEF i
  <2>2. Merged(n, p) =
          [school |-> i["school"], role |-> i["role"],
           subnets |-> IF "subnets" \in DOMAIN p THEN p["subnets"] ELSE i["subnets"],
           group |-> IF "group" \in DOMAIN p THEN p["group"] ELSE i["group"],
           image |-> IF "image" \in DOMAIN p THEN p["image"] ELSE i["image"]]
    BY DEF Merged, Patchable, i
  <2>3. /\ (IF "subnets" \in DOMAIN p THEN p["subnets"] ELSE i["subnets"]) \in Text
        /\ (IF "group" \in DOMAIN p THEN p["group"] ELSE i["group"]) \in Text \cup {None}
        /\ (IF "image" \in DOMAIN p THEN p["image"] ELSE i["image"]) \in Images
    BY <2>1
  <2> QED BY <2>1, <2>2, <2>3 DEF Body
<1>3. Read(Instance(m))
  BY <1>2, Validators DEF Patch
<1> QED BY <1>3, ApplyKeeps DEF Patch

LEMMA UpdateKeeps ==
  ASSUME IInv, NEW n \in Names, NEW image \in Updates, NEW back \in BOOLEAN,
         Update(n, image, back)
  PROVE  IInv'
<1> DEFINE i == Instance(file[n])
           new == [i EXCEPT !.image = image]
<1>1. Read(i) /\ Name(i) = n
  BY FileRead DEF Update, IInv
<1>2. Read(new) /\ Name(new) = n
  BY <1>1, OtherImage DEF Update
<1>3. CASE Apply(new, TRUE)
  BY <1>2, <1>3, ApplyKeeps
<1>4. CASE Apply(i, back)
  BY <1>1, <1>4, ApplyKeeps
<1>5. CASE /\ file' = [file EXCEPT ![n] = i]
           /\ made' = [made EXCEPT ![n] = SpecFor(IF back THEN i ELSE new)]
           /\ met' = [met EXCEPT ![n] = back \/ new = i]
  <2> DEFINE s == SpecFor(IF back THEN i ELSE new)
             b == back \/ new = i
  <2> HIDE DEF i, new
  <2>1. s.name = n
    BY <1>1, <1>2 DEF SpecFor
  <2>2. b \in BOOLEAN /\ (b => s = SpecFor(i))
    OBVIOUS
  <2> HIDE DEF s, b
  <2>3. /\ file' = [file EXCEPT ![n] = i] /\ made' = [made EXCEPT ![n] = s]
        /\ met' = [met EXCEPT ![n] = b]
    BY <1>5 DEF s, b
  <2> QED BY <1>1, <2>1, <2>2, <2>3, OneChanges
<1> QED BY <1>3, <1>4, <1>5 DEF Update

LEMMA DeleteKeeps ==
  ASSUME IInv, NEW n \in Names, Delete(n) PROVE IInv'
<1>1. /\ file'[n] = None /\ made'[n] = None
      /\ \A k \in Names \ {n} : file'[k] = file[k] /\ made'[k] = made[k] /\ met'[k] = met[k]
      /\ file' \in [Names -> Body \cup {None}] /\ met' \in [Names -> BOOLEAN] /\ DOMAIN made' = Names
  BY DEF IInv, TypeOK, Delete
<1>2. TypeOK'
  BY <1>1 DEF IInv, TypeOK
<1>3. ASSUME NEW k \in Names, met'[k]
      PROVE  IF file'[k] = None THEN made'[k] = None
             ELSE Valid(file'[k]) /\ made'[k] = SpecFor(Instance(file'[k]))
  BY <1>1, <1>3 DEF IInv, ReadsBack
<1> QED BY <1>2, <1>3 DEF IInv, ReadsBack

LEMMA ReconcileKeeps ==
  ASSUME IInv, NEW up \in SUBSET Names, Reconcile(up) PROVE IInv'
<1> DEFINE want(n) == SpecFor(Instance(file[n]))
           done == {n \in Listed : n \in up \/ made[n] = want(n)}
<1>1. /\ made' = [n \in Names |-> IF n \in done THEN want(n) ELSE made[n]]
      /\ met' = [n \in Names |-> met[n] \/ n \in done]
      /\ file' = file
  BY DEF Reconcile
<1>2. ASSUME NEW n \in done
      PROVE  file[n] # None /\ Valid(file[n]) /\ want(n).name = n
  <2>1. n \in Names /\ file[n] # None /\ Valid(file[n])
    BY DEF Listed
  <2>2. Name(Instance(file[n])) = n
    BY <2>1, Validators DEF IInv, TypeOK
  <2> QED BY <2>1, <2>2 DEF SpecFor
<1> HIDE DEF done
<1>3. TypeOK'
  <2>1. ASSUME NEW n \in Names, made'[n] # None PROVE made'[n].name = n
    BY <1>1, <1>2, <2>1 DEF IInv, TypeOK
  <2>2. met' \in [Names -> BOOLEAN]
    <3>1. ASSUME NEW n \in Names PROVE (met[n] \/ n \in done) \in BOOLEAN
      OBVIOUS
    <3> QED BY <1>1, <3>1
  <2> QED BY <1>1, <2>1, <2>2 DEF IInv, TypeOK
<1>4. ASSUME NEW n \in Names, met'[n]
      PROVE  IF file'[n] = None THEN made'[n] = None
             ELSE Valid(file'[n]) /\ made'[n] = SpecFor(Instance(file'[n]))
  <2>1. met[n] \/ n \in done
    BY <1>1, <1>4
  <2>2. CASE n \in done
    BY <1>1, <1>2, <2>2
  <2>3. CASE n \notin done
    BY <1>1, <2>1, <2>3 DEF IInv, ReadsBack
  <2> QED BY <2>2, <2>3
<1> QED BY <1>3, <1>4 DEF IInv, ReadsBack

LEMMA RestoreKeeps ==
  ASSUME IInv, NEW b \in Backups, Restore(b) PROVE IInv'
<1>0. b \in [Names -> Body \cup {None}] /\ \A n \in Names : b[n] # None => Name(b[n]) = n
  BY DEF Name
<1>1. /\ file' = [n \in Names |-> IF b[n] = None THEN file[n] ELSE b[n]]
      /\ met' = [n \in Names |-> met[n] /\ b[n] = None] /\ made' = made
  BY DEF Restore
<1>2. TypeOK'
  <2>1. met' \in [Names -> BOOLEAN]
    <3>1. ASSUME NEW n \in Names PROVE (met[n] /\ b[n] = None) \in BOOLEAN
      OBVIOUS
    <3> QED BY <1>1, <3>1
  <2>2. file' \in [Names -> Body \cup {None}]
    BY <1>0, <1>1 DEF IInv, TypeOK
  <2>3. \A n \in Names : file'[n] # None => Name(file'[n]) = n
    BY <1>0, <1>1 DEF IInv, TypeOK
  <2> QED BY <1>1, <2>1, <2>2, <2>3 DEF IInv, TypeOK
<1>3. ASSUME NEW n \in Names, met'[n]
      PROVE  IF file'[n] = None THEN made'[n] = None
             ELSE Valid(file'[n]) /\ made'[n] = SpecFor(Instance(file'[n]))
  <2>1. met[n] /\ b[n] = None
    BY <1>1, <1>3
  <2> QED BY <1>1, <2>1 DEF IInv, ReadsBack
<1> QED BY <1>2, <1>3 DEF IInv, ReadsBack

LEMMA InitInv == Init => IInv
BY DEF Init, IInv, TypeOK, ReadsBack

LEMMA NextInv == IInv /\ [Next]_vars => IInv'
<1> SUFFICES ASSUME IInv, [Next]_vars PROVE IInv'
  OBVIOUS
<1>1. ASSUME NEW up \in BOOLEAN, NEW r \in Creates, Create(r, up) PROVE IInv'
  <2>1. Read(Instance(r))
    BY <1>1, Validators DEF Create
  <2> QED BY <1>1, <2>1, ApplyKeeps DEF Create
<1>2. CASE UNCHANGED vars
  BY <1>2 DEF vars, IInv, TypeOK, ReadsBack
<1> QED BY <1>1, <1>2, PatchKeeps, UpdateKeeps, DeleteKeeps, ReconcileKeeps, RestoreKeeps DEF Next

\* For any bodies, patches, images and backups: every file is named after the
\* school and role in it, and every container is made under the name of its file.
THEOREM DefinitionsTypeCorrect == Spec => []TypeOK
<1>1. IInv => TypeOK
  BY DEF IInv
<1> QED BY <1>1, InitInv, NextInv, PTL DEF Spec

\* Whatever form the lists of a body or a patch have, what a request wrote
\* reads back as exactly what its container was made of.
THEOREM WritesReadBack == Spec => []ReadsBack
<1>1. IInv => ReadsBack
  BY DEF IInv
<1> QED BY <1>1, InitInv, NextInv, PTL DEF Spec

-----------------------------------------------------------------------------
(* Names: how long two joined parts are.                                   *)

Words == Seq(DOMAIN Length)

LEMMA LetterOf ==
  ASSUME NEW s, NEW l
  PROVE  l \in Letters(s) <=> \E k \in DOMAIN s : \E c \in 1..Length[s[k]] : l = <<k, c>>
BY DEF Letters

LEMMA LettersFinite ==
  ASSUME NEW s \in Words
  PROVE  IsFiniteSet(Letters(s)) /\ Cardinality(Letters(s)) \in Nat
<1> DEFINE f == [k \in DOMAIN s |-> {k} \X (1..Length[s[k]])]
           parts == {f[k] : k \in DOMAIN s}
<1>1. /\ DOMAIN s = 1..Len(s) /\ Len(s) \in Nat
      /\ \A k \in DOMAIN s : s[k] \in DOMAIN Length /\ Length[s[k]] \in Nat
  BY LenProperties, ElementOfSeq DEF Words
<1>2. IsFiniteSet(DOMAIN s)
  BY <1>1, FS_Interval
<1>3. ASSUME NEW k \in DOMAIN s PROVE IsFiniteSet(f[k])
  <2>1. IsFiniteSet({k})
    BY FS_Singleton
  <2>2. IsFiniteSet(1..Length[s[k]])
    <3>1. 1 \in Int /\ Length[s[k]] \in Int
      BY <1>1
    <3> HIDE BodiesAssumption DEF BodiesAssumption
    <3> QED BY <3>1, FS_Interval
  <2> QED BY <2>1, <2>2, FS_Product
<1>4. Letters(s) = UNION parts
  BY DEF Letters
<1>5. f \in Surjection(DOMAIN s, parts)
  <2> HIDE DEF f
  <2>1. DOMAIN f = DOMAIN s
    BY DEF f
  <2>2. f = [k \in DOMAIN s |-> f[k]]
    BY DEF f
  <2> QED BY <2>2 DEF Surjection
<1>6. IsFiniteSet(parts)
  BY <1>2, <1>5, FS_Surjection
<1>7. IsFiniteSet(UNION parts)
  <2> HIDE DEF f
  <2>1. \A T \in parts : IsFiniteSet(T)
    BY <1>3
  <2> HIDE DEF parts
  <2> QED BY <1>6, <2>1, FS_UNION
<1> QED BY <1>4, <1>7, FS_CardinalityType

\* A joined name is as long as its two parts and the hyphen between them.
LEMMA JoinedLength ==
  ASSUME NEW s \in Words, NEW r \in Words
  PROVE  /\ NameLength(s \o r) = NameLength(s) + 1 + NameLength(r)
         /\ NameLength(s) \in Int /\ NameLength(r) \in Int
<1> DEFINE shift == [l \in Letters(r) |-> <<l[1] + Len(s), l[2]>>]
           moved == {shift[l] : l \in Letters(r)}
<1>1. /\ Len(s) \in Nat /\ DOMAIN s = 1..Len(s) /\ Len(r) \in Nat /\ DOMAIN r = 1..Len(r)
      /\ Len(s \o r) = Len(s) + Len(r) /\ DOMAIN (s \o r) = 1..(Len(s) + Len(r))
      /\ \A k \in 1..Len(s) : (s \o r)[k] = s[k]
      /\ \A k \in 1..Len(r) : (s \o r)[k + Len(s)] = r[k]
  <2>1. s \o r \in Words
    BY ConcatProperties DEF Words
  <2> QED BY <2>1, LenProperties, ConcatProperties DEF Words
<1>2. ASSUME NEW l \in Letters(s \o r) PROVE l \in Letters(s) \cup moved
  <2>0. PICK k \in DOMAIN (s \o r) : \E c \in 1..Length[(s \o r)[k]] : l = <<k, c>>
    BY LetterOf, Zenon
  <2>1. PICK c \in 1..Length[(s \o r)[k]] : l = <<k, c>>
    BY <2>0
  <2>2. CASE k \in 1..Len(s)
    BY <1>1, <2>1, <2>2, LetterOf
  <2>3. CASE k \notin 1..Len(s)
    <3>1. k - Len(s) \in 1..Len(r) /\ (k - Len(s)) + Len(s) = k
      BY <1>1, <2>3
    <3>2. c \in 1..Length[r[k - Len(s)]]
      BY <1>1, <3>1
    <3>3. <<k - Len(s), c>> \in Letters(r)
      BY <1>1, <3>1, <3>2, LetterOf
    <3>4. shift[<<k - Len(s), c>>] = <<k, c>>
      BY <3>1, <3>3
    <3> QED BY <2>1, <3>3, <3>4
  <2> QED BY <2>2, <2>3
<1>3. ASSUME NEW l \in Letters(s) PROVE l \in Letters(s \o r)
  <2>0. PICK k \in DOMAIN s : \E c \in 1..Length[s[k]] : l = <<k, c>>
    BY LetterOf
  <2>1. PICK c \in 1..Length[s[k]] : l = <<k, c>>
    BY <2>0
  <2>2. k \in DOMAIN (s \o r) /\ c \in 1..Length[(s \o r)[k]]
    BY <1>1
  <2> QED BY <2>1, <2>2, LetterOf
<1>4. ASSUME NEW l \in Letters(r)
      PROVE  /\ shift[l] \in Letters(s \o r)
             /\ shift[l] = <<l[1] + Len(s), l[2]>> /\ l = <<l[1], l[2]>> /\ l[1] \in 1..Len(r)
  <2>0. PICK k \in DOMAIN r : \E c \in 1..Length[r[k]] : l = <<k, c>>
    BY LetterOf
  <2>1. PICK c \in 1..Length[r[k]] : l = <<k, c>>
    BY <2>0
  <2>2. l[1] = k /\ l[2] = c
    BY <2>1
  <2>3. k + Len(s) \in DOMAIN (s \o r) /\ c \in 1..Length[(s \o r)[k + Len(s)]]
    BY <1>1
  <2>4. shift[l] = <<k + Len(s), c>>
    BY <2>2
  <2> QED BY <1>1, <2>1, <2>2, <2>3, <2>4, LetterOf
<1>5. Letters(s \o r) = Letters(s) \cup moved
  BY <1>2, <1>3, <1>4
<1>6. Letters(s) \cap moved = {}
  <2> SUFFICES ASSUME NEW l \in Letters(r), shift[l] \in Letters(s) PROVE FALSE
    OBVIOUS
  <2>0. PICK k \in DOMAIN s : \E c \in 1..Length[s[k]] : shift[l] = <<k, c>>
    BY LetterOf
  <2>1. PICK c \in 1..Length[s[k]] : shift[l] = <<k, c>>
    BY <2>0
  <2>2. l[1] + Len(s) = k
    BY <1>4, <2>1
  <2> QED BY <1>1, <1>4, <2>2
<1>7. shift \in Bijection(Letters(r), moved)
  <2>1. ASSUME NEW l \in Letters(r), NEW m \in Letters(r), shift[l] = shift[m] PROVE l = m
    <3>0. /\ shift[l][1] = l[1] + Len(s) /\ shift[l][2] = l[2]
          /\ shift[m][1] = m[1] + Len(s) /\ shift[m][2] = m[2]
      OBVIOUS
    <3>1. l[1] + Len(s) = m[1] + Len(s) /\ l[2] = m[2]
      BY <2>1, <3>0
    <3>2. /\ l = <<l[1], l[2]>> /\ l[1] \in 1..Len(r)
          /\ m = <<m[1], m[2]>> /\ m[1] \in 1..Len(r)
      BY <1>4
    <3>3. l[1] = m[1]
      <4> HIDE DEF shift
      <4> QED BY <1>1, <3>1, <3>2
    <3> QED BY <3>1, <3>2, <3>3
  <2>2. shift = [l \in Letters(r) |-> shift[l]]
    OBVIOUS
  <2>3. \A l \in Letters(r) : shift[l] \in moved
    OBVIOUS
  <2>4. \A x \in moved : \E l \in Letters(r) : shift[l] = x
    OBVIOUS
  <2> HIDE DEF shift, moved
  <2>5. shift \in [Letters(r) -> moved]
    BY <2>2, <2>3
  <2> QED BY <2>1, <2>4, <2>5 DEF Bijection, Injection, Surjection, IsInjective
<1> HIDE DEF shift, moved
<1>8. IsFiniteSet(moved) /\ Cardinality(moved) = Cardinality(Letters(r))
  BY <1>7, LettersFinite, FS_Bijection DEF ExistsBijection
<1>9. Cardinality(Letters(s \o r)) = Cardinality(Letters(s)) + Cardinality(Letters(r))
  <2>1. Cardinality(Letters(s) \cap moved) = 0
    BY <1>6, FS_EmptySet
  <2>2. Cardinality(Letters(s) \cup moved)
          = Cardinality(Letters(s)) + Cardinality(moved) - Cardinality(Letters(s) \cap moved)
    BY <1>8, LettersFinite, FS_Union
  <2> QED BY <1>5, <1>8, <2>1, <2>2, LettersFinite
<1> QED BY <1>1, <1>9, LettersFinite DEF NameLength

\* What the validators take a school and a role to be.
Sized(r) == NameLength(r.school) \in 1..31 /\ NameLength(r.role) \in 1..31
SizedFiles == \A n \in Names : file[n] # None => Sized(file[n])

\* Backups hold definitions this control plane wrote, at whatever age.
SizedBackups == \A b \in Backups, n \in Names : b[n] # None => Sized(b[n])

LEMMA SizedName ==
  ASSUME NEW r \in Body, Sized(r)
  PROVE  NameLength(Name(r)) \in 2..63
<1>1. r.school \in Words /\ r.role \in Words
  BY DEF Body, Words
<1>2. NameLength(r.school \o r.role) = NameLength(r.school) + 1 + NameLength(r.role)
  <2> HIDE BodiesAssumption DEF BodiesAssumption
  <2> QED BY <1>1, JoinedLength
<1>3. NameLength(r.school) \in 1..31 /\ NameLength(r.role) \in 1..31
  BY DEF Sized
<1>4. NameLength(r.school \o r.role) \in 2..63
  <2> DEFINE a == NameLength(r.school)
             b == NameLength(r.role)
             c == NameLength(r.school \o r.role)
  <2>1. a \in 1..31 /\ b \in 1..31 /\ c = a + 1 + b
    BY <1>2, <1>3
  <2> HIDE DEF a, b, c
  <2>2. c \in 2..63
    BY <2>1
  <2> QED BY <2>2 DEF c
<1> QED BY <1>4 DEF Name

LEMMA SizedInstance == ASSUME NEW r, Sized(r) PROVE Sized(Instance(r))
<1>1. Instance(r).school = r.school /\ Instance(r).role = r.role
  BY DEF Instance
<1> QED BY <1>1 DEF Sized

LEMMA ValidSized == ASSUME NEW r, Valid(r) PROVE Sized(Instance(r))
BY SizedInstance DEF Valid, Sized

LEMMA SizedApply ==
  ASSUME TypeOK, SizedFiles, NEW i, Sized(i), NEW n, file' = [file EXCEPT ![n] = i]
  PROVE  SizedFiles'
<1>1. \A k \in Names : file'[k] = file[k] \/ file'[k] = i
  BY DEF TypeOK
<1> QED BY <1>1 DEF SizedFiles

LEMMA SizedNext ==
  ASSUME SizedBackups, TypeOK, SizedFiles, [Next]_vars PROVE SizedFiles'
<1>1. CASE UNCHANGED vars
  BY <1>1 DEF vars, SizedFiles
<1>2. ASSUME NEW i, NEW up, Sized(i), Apply(i, up) PROVE SizedFiles'
  BY <1>2, SizedApply DEF Apply
<1>3. ASSUME NEW up \in BOOLEAN, NEW r \in Creates, Create(r, up) PROVE SizedFiles'
  BY <1>2, <1>3, ValidSized DEF Create
<1>4. ASSUME NEW up \in BOOLEAN, NEW n \in Names, NEW p \in Patches, Patch(n, p, up)
      PROVE  SizedFiles'
  BY <1>2, <1>4, ValidSized DEF Patch
<1>5. ASSUME NEW up \in BOOLEAN, NEW n \in Names, NEW image \in Updates, Update(n, image, up)
      PROVE  SizedFiles'
  <2> DEFINE i == Instance(file[n])
             new == [i EXCEPT !.image = image]
  <2>1. Sized(i)
    BY <1>5, ValidSized DEF Update, Stored
  <2>2. Sized(new)
    <3>1. new.school = i.school /\ new.role = i.role
      BY DEF Instance
    <3> QED BY <2>1, <3>1 DEF Sized
  <2>3. \/ Apply(new, TRUE) \/ Apply(i, up)
        \/ file' = [file EXCEPT ![n] = i]
    BY <1>5 DEF Update
  <2> HIDE DEF i, new
  <2> QED BY <1>2, <2>1, <2>2, <2>3, SizedApply
<1>6. ASSUME NEW n \in Names, Delete(n) PROVE SizedFiles'
  BY <1>6 DEF Delete, SizedFiles, TypeOK
<1>7. ASSUME NEW b \in Backups, Restore(b) PROVE SizedFiles'
  BY <1>7 DEF Restore, SizedFiles, SizedBackups
<1>8. ASSUME NEW up \in SUBSET Names, Reconcile(up) PROVE SizedFiles'
  BY <1>8 DEF Reconcile, SizedFiles
<1> QED BY <1>1, <1>3, <1>4, <1>5, <1>6, <1>7, <1>8 DEF Next

\* No definition gets a name the other requests refuse: two parts the
\* validators take make a name _require takes.
THEOREM NamesAreAddressable == SizedBackups => (Spec => []AllAddressable)
<1> SUFFICES ASSUME SizedBackups PROVE Spec => []AllAddressable
  OBVIOUS
<1>1. Init => SizedFiles
  BY DEF Init, SizedFiles
<1>2. TypeOK /\ SizedFiles /\ [Next]_vars => SizedFiles'
  BY SizedNext
<1>3. TypeOK /\ SizedFiles => AllAddressable
  <2> SUFFICES ASSUME TypeOK, SizedFiles, NEW n \in Names, file[n] # None
               PROVE  NameLength(n) \in 2..63
    BY DEF AllAddressable, Require
  <2>1. file[n] \in Body /\ Name(file[n]) = n /\ Sized(file[n])
    BY DEF TypeOK, SizedFiles
  <2> QED BY <2>1, SizedName
<1> QED BY <1>1, <1>2, <1>3, DefinitionsTypeCorrect, PTL DEF Spec
=============================================================================
