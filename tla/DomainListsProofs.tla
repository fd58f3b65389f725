-------------------------- MODULE DomainListsProofs --------------------------
(***************************************************************************)
(* What reaches squid, for any names, any number of reloads at once and    *)
(* whatever editors write: lists squid 6 loads, and a noauth list of       *)
(* domain names only.  The invariant follows the lists from the pipeline   *)
(* of lists-sync.sh (the worker's `seen`) through the two files to squid.  *)
(* Then, of the steps in any order: nothing but an ensure() that found no  *)
(* list loses an answered add (Kept), and a reload that ran alone takes    *)
(* effect (Followed).                                                      *)
(***************************************************************************)
EXTENDS DomainLists, FiniteSetTheorems, SequenceTheorems, TLAPS

CleanList(l, list) ==
  /\ list \subseteq Entry
  /\ Loads(list)
  /\ l = "noauth" => \A e \in list : SyncKeepsNoauth(e)

TaskOK(t) ==
  /\ t \in Task
  /\ t.pc \in PcOf(t.op)
  /\ t.op = "add" => t.name \in Names
  /\ t.pc = "fill" => CleanList(t.list, t.seen)

FilesOK(f) ==
  /\ f \in [Lists -> File]
  /\ \A l \in Lists : f[l] # NoFile => CleanList(l, f[l].data)

WorkInv == work \in [Workers -> Task] /\ \A w \in Workers : TaskOK(work[w])
HostInv ==
  /\ src \in [Lists -> {NoFile} \cup SUBSET Entry]
  /\ promised \in [Lists -> SUBSET Names]
  /\ told \in BOOLEAN /\ since \subseteq Workers
SquidInv == squid \in Squid /\ \A l \in Lists : CleanList(l, squid.loaded[l])

Inv == WorkInv /\ HostInv /\ FilesOK(tmp) /\ FilesOK(out) /\ SquidInv

-----------------------------------------------------------------------------
(* uncovered.                                                              *)

\* uncovered only drops entries, and what it leaves is a list squid 6 loads.
LEMMA UncoveredLoads ==
  ASSUME NEW list \in SUBSET Entry
  PROVE  Uncovered(list) \subseteq list /\ Loads(Uncovered(list))
<1>1. Uncovered(list) \subseteq list
  BY DEF Uncovered
<1>2. ASSUME NEW e \in Uncovered(list), NEW f \in Uncovered(list), e # f, f.dot
      PROVE  e.labels # f.labels /\ f.labels \notin Parents(e.labels)
  <2> DEFINE dotted == {g.labels : g \in {h \in list : h.dot}}
  <2>1. f.labels \in dotted
    BY <1>1, <1>2
  <2>2. f.labels \notin Parents(e.labels)
    BY <2>1, <1>2 DEF Uncovered
  <2>3. CASE e.dot
    <3>1. e \in Entry /\ f \in Entry
      BY <1>1
    <3>2. e = [dot |-> e.dot, labels |-> e.labels] /\ f = [dot |-> f.dot, labels |-> f.labels]
      BY <3>1 DEF Entry
    <3>3. e.dot = TRUE /\ f.dot = TRUE
      BY <1>2, <2>3, <3>1 DEF Entry
    <3> QED BY <1>2, <2>2, <3>2, <3>3
  <2>4. CASE ~e.dot
    BY <2>1, <2>2, <2>4, <1>2 DEF Uncovered
  <2> QED BY <2>3, <2>4
<1> QED BY <1>1, <1>2 DEF Loads

\* A nonempty set of natural numbers has a smallest one.  The library's
\* induction theorems cannot be instantiated by the installed provers; the
\* numbers below every member of T would be closed under successor, and
\* finite sets have no injection into themselves without one of their members.
LEMMA Smallest ==
  ASSUME NEW T \in SUBSET Nat, T # {}
  PROVE  \E x \in T : \A y \in T : x <= y
<1> SUFFICES ASSUME \A x \in T : \E y \in T : ~ x <= y PROVE FALSE
  OBVIOUS
<1>1. PICK N : N \in T
  OBVIOUS
<1> DEFINE U == {n \in 0..N : \A y \in T : n < y}
           f == [n \in U |-> n + 1]
<1>2. N \in Nat /\ N \in Int /\ 0 \in Int
  BY <1>1
<1>3. IsFiniteSet(U)
  BY <1>2, FS_Interval, FS_Subset
<1>4. 0 \in U
  <2>1. ASSUME NEW y \in T PROVE 0 < y
    BY <2>1
  <2> QED BY <1>2, <2>1
<1>5. ASSUME NEW n \in U PROVE n + 1 \in U \ {0}
  <2>1. n < N /\ n \in Nat
    BY <1>1, <1>2
  <2>2. ASSUME NEW y \in T PROVE n + 1 < y
    <3>1. PICK z \in T : ~ y <= z
      OBVIOUS
    <3>2. n < z /\ z \in Nat /\ y \in Nat
      OBVIOUS
    <3> QED BY <2>1, <3>1, <3>2
  <2> QED BY <1>2, <2>1, <2>2
<1>6. IsFiniteSet(U \ {0}) /\ Cardinality(U \ {0}) < Cardinality(U)
  <2>1. Cardinality(U) \in Nat
    BY <1>3, FS_CardinalityType
  <2>2. /\ IsFiniteSet(U \ {0})
        /\ Cardinality(U \ {0}) = IF 0 \in U THEN Cardinality(U) - 1 ELSE Cardinality(U)
    <3> HIDE DEF U
    <3> QED BY <1>3, FS_RemoveElement, Zenon
  <2> HIDE DEF U
  <2> QED BY <1>4, <2>1, <2>2
<1>7. f \in [U -> U \ {0}]
  BY <1>5
<1>8. PICK x \in U, y \in U : x # y /\ f[x] = f[y]
  <2> HIDE DEF U, f
  <2> QED BY <1>3, <1>6, <1>7, FS_PigeonHole
<1> QED BY <1>2, <1>8

\* A parent of a parent of a name is a parent of the name, and a shorter one.
LEMMA ParentOfParent ==
  ASSUME NEW n \in Seq(STRING), NEW m \in Parents(n), NEW k \in Parents(m)
  PROVE  k \in Parents(n)
<1>1. PICK i \in 2..Len(n) : m = SubSeq(n, i, Len(n))
  BY DEF Parents
<1>2. Len(n) \in Nat /\ \A j \in 1..Len(n) : n[j] \in STRING
  BY LenProperties, ElementOfSeq
<1>3. m \in Seq(STRING) /\ Len(m) = Len(n) - i + 1
  BY <1>1, <1>2, SubSeqProperties
<1>4. PICK j \in 2..Len(m) : k = SubSeq(m, j, Len(m))
  BY DEF Parents
<1>5. k = SubSeq(n, i + j - 1, Len(n))
  <2>1. /\ i \in 1..Len(n) /\ Len(n) \in 1..Len(n)
        /\ j \in 1..Len(n)-i+1 /\ Len(m) \in 1..Len(n)-i+1
    BY <1>2, <1>3
  <2>2. k = SubSeq(n, i + j - 1, i + Len(m) - 1)
    BY <1>1, <1>4, <2>1, SubSeqOfSubSeq, SMTT(30)
  <2> QED BY <1>2, <1>3, <2>2
<1>6. i + j - 1 \in 2..Len(n)
  BY <1>2, <1>3
<1> QED BY <1>5, <1>6 DEF Parents

LEMMA ParentShorter ==
  ASSUME NEW n \in Seq(STRING), NEW m \in Parents(n)
  PROVE  m \in Seq(STRING) /\ Len(m) \in Nat /\ Len(m) < Len(n)
<1>1. PICK i \in 2..Len(n) : m = SubSeq(n, i, Len(n))
  BY DEF Parents
<1>2. Len(n) \in Nat /\ \A j \in 1..Len(n) : n[j] \in STRING
  BY LenProperties, ElementOfSeq
<1>3. m \in Seq(STRING) /\ Len(m) = Len(n) - i + 1
  BY <1>1, <1>2, SubSeqProperties
<1> QED BY <1>2, <1>3

\* The entries uncovered drops match no host the others do not: of the dotted
\* entries that match a host, the shortest has no parent among them.
LEMMA UncoveredMatches ==
  ASSUME NEW list \in SUBSET Entry, NEW host \in Names
  PROVE  Matches(Uncovered(list), host) <=> Matches(list, host)
<1> DEFINE dotted == {e.labels : e \in {f \in list : f.dot}}
           covers == {f \in list : f.dot /\ (f.labels = host \/ f.labels \in Parents(host))}
           lengths == {Len(f.labels) : f \in covers}
<1>1. Matches(Uncovered(list), host) => Matches(list, host)
  BY DEF Uncovered, Matches
<1>2. ASSUME NEW e \in list, e.labels = host \/ (e.dot /\ e.labels \in Parents(host))
      PROVE  Matches(Uncovered(list), host)
  <2>0. host \in Seq(STRING) /\ \A f \in list : f.labels \in Seq(STRING) /\ f.labels \in Names
    BY NamesAssumption DEF Entry
  <2>1. CASE covers = {}
    <3>1. ~e.dot /\ e.labels = host
      BY <1>2, <2>1
    <3>2. host \notin dotted /\ Parents(host) \cap dotted = {}
      BY <2>1
    <3>3. e \in Uncovered(list)
      BY <3>1, <3>2 DEF Uncovered
    <3> QED BY <3>1, <3>3 DEF Matches
  <2>2. CASE covers # {}
    <3>0. \A f \in covers : Len(f.labels) \in Nat
      BY <2>0, LenProperties
    <3>1. lengths \in SUBSET Nat /\ lengths # {}
      BY <2>2, <3>0
    <3>2. PICK x \in lengths : \A y \in lengths : x <= y
      BY <3>1, Smallest
    <3>3. PICK f \in covers : x = Len(f.labels)
      OBVIOUS
    <3>4. ASSUME NEW g \in list, g.dot, g.labels \in Parents(f.labels) PROVE FALSE
      <4>1. g.labels \in Parents(host)
        BY <2>0, <3>4, ParentOfParent
      <4>2. Len(g.labels) \in lengths
        BY <3>4, <4>1
      <4>3. Len(g.labels) < Len(f.labels) /\ Len(g.labels) \in Nat /\ Len(f.labels) \in Nat
        BY <2>0, <3>4, ParentShorter, LenProperties
      <4> QED BY <3>2, <3>3, <4>2, <4>3
    <3>5. Parents(f.labels) \cap dotted = {}
      BY <3>4
    <3>6. f \in Uncovered(list)
      BY <3>5 DEF Uncovered
    <3> QED BY <3>6 DEF Matches
  <2> QED BY <2>1, <2>2
<1> QED BY <1>1, <1>2 DEF Matches

\* lists-sync.sh makes a clean list of whatever the file on the host holds.
LEMMA SyncedClean ==
  ASSUME NEW l \in Lists, NEW list \in SUBSET Entry
  PROVE  CleanList(l, Synced(l, list))
<1> DEFINE kept == IF l = "noauth" THEN {e \in list : SyncKeepsNoauth(e)} ELSE list
<1>1. kept \in SUBSET Entry
  OBVIOUS
<1>2. Synced(l, list) = Uncovered(kept)
  BY DEF Synced
<1>3. Uncovered(kept) \subseteq kept /\ Loads(Uncovered(kept))
  BY <1>1, UncoveredLoads
<1>4. l = "noauth" => \A e \in kept : SyncKeepsNoauth(e)
  OBVIOUS
<1> QED BY <1>1, <1>2, <1>3, <1>4 DEF CleanList

LEMMA EmptyClean == ASSUME NEW l PROVE CleanList(l, {})
BY DEF CleanList, Loads
-----------------------------------------------------------------------------
(* Steps.                                                                  *)

LEMMA WorkStep ==
  ASSUME WorkInv, NEW w \in Workers, NEW t, TaskOK(t), work' = [work EXCEPT ![w] = t]
  PROVE  WorkInv'
BY DEF WorkInv, TaskOK

LEMMA IdleOK == TaskOK(Idle)
BY DEF TaskOK, Idle, Task, PcOf, Labels, Lists

LEMMA ExitStep == ASSUME Inv, Exit, UNCHANGED files PROVE Inv'
<1>1. WorkInv'
  BY IdleOK DEF Inv, WorkInv, Exit, TaskOK
<1>2. HostInv'
  BY DEF Inv, HostInv, Exit, files
<1>3. FilesOK(tmp)' /\ FilesOK(out)'
  BY DEF Exit, FilesOK, File
<1>4. SquidInv'
  BY EmptyClean DEF Exit, Down, SquidInv, Squid
<1> QED BY <1>1, <1>2, <1>3, <1>4 DEF Inv

LEMMA EntriesTyped == ASSUME Inv, NEW l \in Lists PROVE Entries(l) \in SUBSET Entry
BY DEF Inv, HostInv, Entries

LEMMA ReplaceStep ==
  ASSUME Inv, NEW l \in Lists, NEW list \in SUBSET Entry, Replace(l, list),
         promised' \in [Lists -> SUBSET Names]
  PROVE  HostInv'
BY DEF Inv, HostInv, Replace

LEMMA AddStep ==
  ASSUME Inv, NEW l \in Lists, NEW n \in Edited[l], Add(l, n) \/ Remove(l, n)
  PROVE  Inv'
<1> n \in Names
  BY ListsAssumption
<1>1. Loop \in Workers
  BY DEF Workers
<1>2. CASE Add(l, n)
  <2> DEFINE t == [Idle EXCEPT !.op = "add", !.pc = "check", !.list = l, !.name = n]
  <2>1. TaskOK(t)
    BY DEF TaskOK, Idle, Task, PcOf, Labels
  <2>2. work' = [work EXCEPT ![Loop] = t]
    BY <1>2 DEF Add, Begin
  <2> QED BY <1>1, <1>2, <2>1, <2>2, WorkStep
          DEF Inv, Add, files, run, HostInv, FilesOK, SquidInv
<1>3. CASE Remove(l, n)
  <2> DEFINE t == [Idle EXCEPT !.op = "remove", !.pc = "read", !.list = l, !.name = n]
  <2>1. TaskOK(t)
    BY DEF TaskOK, Idle, Task, PcOf, Labels
  <2>2. work' = [work EXCEPT ![Loop] = t]
    BY <1>3 DEF Remove, Begin
  <2> QED BY <1>1, <1>3, <2>1, <2>2, WorkStep
          DEF Inv, Remove, files, run, HostInv, FilesOK, SquidInv
<1> QED BY <1>2, <1>3

LEMMA EnsuredOK ==
  ASSUME WorkInv, NEW w \in Workers, work[w].op \in {"add", "apply"}, Ensured(w)
  PROVE  WorkInv'
<1> DEFINE t == IF work[w].op = "add" THEN [work[w] EXCEPT !.pc = "read"]
                ELSE IF work[w].list = "blocked"
                THEN [work[w] EXCEPT !.pc = "check", !.list = "noauth"] ELSE Idle
<1>1. TaskOK(t)
  BY IdleOK DEF WorkInv, TaskOK, Task, PcOf, Labels, Lists
<1>2. work' = [work EXCEPT ![w] = t]
  BY DEF Ensured, WorkInv
<1> QED BY <1>1, <1>2, WorkStep

LEMMA EnsureStep ==
  ASSUME Inv, NEW w \in Workers, Apply(w) \/ Check(w) \/ Create(w)
  PROVE  Inv'
<1>1. CASE Apply(w)
  <2> DEFINE t == [Idle EXCEPT !.op = "apply", !.pc = "check"]
  <2>1. TaskOK(t)
    BY DEF TaskOK, Idle, Task, PcOf, Labels, Lists
  <2>2. work' = [work EXCEPT ![w] = t]
    BY <1>1 DEF Apply, Begin
  <2> QED BY <1>1, <2>1, <2>2, WorkStep
          DEF Inv, Apply, files, run, HostInv, FilesOK, SquidInv
<1>2. ASSUME At(w, "check") \/ At(w, "create")
      PROVE  work[w].op \in {"add", "apply"} /\ L(w) \in Lists
  BY <1>2 DEF Inv, WorkInv, TaskOK, Task, PcOf, At, L
<1>3. CASE Check(w)
  <2>1. WorkInv'
    <3>1. CASE Ensured(w)
      BY <1>2, <1>3, <3>1, EnsuredOK DEF Check, Inv
    <3>2. CASE Goto(w, "create")
      <4> DEFINE t == [work[w] EXCEPT !.pc = "create"]
      <4>1. TaskOK(t)
        BY <1>2, <1>3 DEF Check, Inv, WorkInv, TaskOK, Task, PcOf, Labels
      <4>2. work' = [work EXCEPT ![w] = t]
        BY <3>2 DEF Goto
      <4> QED BY <4>1, <4>2, WorkStep DEF Inv
    <3> QED BY <1>3, <3>1, <3>2 DEF Check
  <2> QED BY <1>3, <2>1 DEF Inv, Check, files, run, HostInv, FilesOK, SquidInv
<1>4. CASE Create(w)
  <2>1. WorkInv'
    BY <1>2, <1>4, EnsuredOK DEF Create, Inv
  <2>2. HostInv'
    BY <1>2, <1>4, ReplaceStep DEF Create, Inv, HostInv
  <2> QED BY <1>4, <2>1, <2>2 DEF Inv, Create, run, FilesOK, SquidInv
<1> QED BY <1>1, <1>3, <1>4

LEMMA ReadStep == ASSUME Inv, ReadList PROVE Inv'
<1>1. Loop \in Workers
  BY DEF Workers
<1>2. work[Loop].list \in Lists /\ work[Loop].op \in {"add", "remove"}
  BY <1>1 DEF Inv, WorkInv, TaskOK, Task, PcOf, ReadList, At
<1>3. Entries(work[Loop].list) \in SUBSET Entry
  BY <1>2, EntriesTyped
<1>4. CASE Done(Loop)
  BY <1>1, <1>4, IdleOK, WorkStep
     DEF Done, ReadList, Inv, files, run, HostInv, FilesOK, SquidInv
<1>5. CASE work' = [work EXCEPT ![Loop].pc = "replace",
                                ![Loop].seen = Entries(work[Loop].list)]
  <2> DEFINE t == [work[Loop] EXCEPT !.pc = "replace", !.seen = Entries(work[Loop].list)]
  <2>1. TaskOK(t)
    BY <1>1, <1>2, <1>3 DEF Inv, WorkInv, TaskOK, Task, PcOf, Labels
  <2>2. work' = [work EXCEPT ![Loop] = t]
    BY <1>1, <1>5 DEF Inv, WorkInv
  <2> QED BY <1>1, <2>1, <2>2, WorkStep
          DEF ReadList, Inv, files, run, HostInv, FilesOK, SquidInv
<1> QED BY <1>4, <1>5 DEF ReadList

LEMMA WriteStep == ASSUME Inv, WriteList PROVE Inv'
<1> DEFINE t == work[Loop]
<1>1. Loop \in Workers
  BY DEF Workers
<1>2. t \in Task /\ t.list \in Lists /\ t.op \in {"add", "remove"} /\ t.seen \in SUBSET Entry
  BY <1>1 DEF Inv, WorkInv, TaskOK, Task, PcOf, WriteList, At
<1>3. Uncovered(t.seen \ {Dotted(t.name), Bare(t.name)}) \in SUBSET Entry
  BY <1>2 DEF Uncovered
<1>4. t.op = "add" => t.name \in Names /\ Dotted(t.name) \in Entry
  BY <1>1 DEF Inv, WorkInv, TaskOK, Dotted, Entry
<1>5. t.op = "add" => Uncovered(t.seen \cup {Dotted(t.name)}) \in SUBSET Entry
  BY <1>2, <1>4, UncoveredLoads
<1>6. promised' \in [Lists -> SUBSET Names]
  BY <1>2, <1>4 DEF WriteList, Inv, HostInv
<1>7. HostInv'
  BY <1>2, <1>3, <1>5, <1>6, ReplaceStep DEF WriteList
<1> QED BY <1>1, <1>7, IdleOK, WorkStep DEF WriteList, Done, Inv, run, FilesOK, SquidInv

LEMMA OutsideStep ==
  ASSUME Inv,
         \/ \E l \in Lists : \E list \in ByHand[l] : HandEdit(l, list)
         \/ \E names \in Fetched : Refresh(names)
  PROVE  Inv'
<1>1. ASSUME NEW l \in Lists, NEW list \in SUBSET Entry, Replace(l, list),
             promised' = [promised EXCEPT ![l] = {}], UNCHANGED <<work, run>>
      PROVE  Inv'
  <2>1. HostInv'
    BY <1>1, ReplaceStep DEF Inv, HostInv
  <2> QED BY <1>1, <2>1 DEF Inv, WorkInv, run, FilesOK, SquidInv
<1>2. ASSUME NEW l \in Lists, NEW list \in ByHand[l], HandEdit(l, list) PROVE Inv'
  BY <1>1, <1>2, ListsAssumption DEF HandEdit
<1>3. ASSUME NEW names \in Fetched, Refresh(names) PROVE Inv'
  <2>1. {Dotted(n) : n \in names} \in SUBSET Entry
    <3>1. names \subseteq Names
      BY ListsAssumption
    <3>2. \A n \in Names : Dotted(n) \in Entry
      BY DEF Dotted, Entry
    <3> QED BY <3>1, <3>2
  <2>2. Uncovered({Dotted(n) : n \in names}) \in SUBSET Entry
    BY <2>1 DEF Uncovered
  <2> QED BY <1>1, <1>3, <2>2 DEF Refresh, Lists
<1> QED BY <1>2, <1>3

LEMMA StartOK ==
  ASSUME Inv, NEW w \in Workers, NEW op \in {"reload", "start"}, StartSync(w, op, "open")
  PROVE  WorkInv' /\ since' \subseteq Workers /\ told' \in BOOLEAN
<1> DEFINE t == [Idle EXCEPT !.op = op, !.pc = "open"]
<1>1. TaskOK(t)
  BY DEF TaskOK, Idle, Task, PcOf, Labels, Lists
<1> QED BY <1>1, WorkStep DEF StartSync, Begin, Inv, HostInv

LEMMA ReloadStep == ASSUME Inv, NEW w \in Workers, Reload(w) PROVE Inv'
BY StartOK DEF Reload, Inv, files, run, HostInv, FilesOK, SquidInv

LEMMA OpenStep == ASSUME Inv, NEW w \in Workers, OpenTmp(w) PROVE Inv'
<1>1. L(w) \in Lists /\ work[w].op \in {"reload", "start"}
  BY DEF Inv, WorkInv, TaskOK, Task, PcOf, OpenTmp, At, L
<1>2. CleanList(L(w), Synced(L(w), Entries(L(w))))
  BY <1>1, EntriesTyped, SyncedClean
<1>3. WorkInv'
  <2> DEFINE t == [work[w] EXCEPT !.pc = "fill", !.seen = Synced(L(w), Entries(L(w)))]
  <2>1. t \in Task
    BY <1>2 DEF Inv, WorkInv, TaskOK, Task, Labels, CleanList
  <2>2. TaskOK(t)
    BY <1>1, <1>2, <2>1 DEF TaskOK, PcOf, L, Task
  <2>3. work' = [work EXCEPT ![w] = t]
    BY DEF OpenTmp, Inv, WorkInv
  <2> QED BY <2>2, <2>3, WorkStep DEF Inv
<1>4. FilesOK(tmp')
  <2> DEFINE by == {w} \cup (IF tmp[L(w)] = NoFile THEN {} ELSE tmp[L(w)].by)
             f == [data |-> {}, whole |-> FALSE, by |-> by]
  <2>1. tmp' = [tmp EXCEPT ![L(w)] = f]
    BY DEF OpenTmp
  <2>2. f \in File
    BY <1>1 DEF Inv, FilesOK, File
  <2> QED BY <1>1, <2>1, <2>2, EmptyClean DEF Inv, FilesOK
<1> QED BY <1>3, <1>4 DEF OpenTmp, Inv, files, HostInv, FilesOK, SquidInv

LEMMA FilledOK ==
  ASSUME Inv, NEW w \in Workers, At(w, "fill"), NEW f, FilesOK(f)
  PROVE  FilesOK([f EXCEPT ![L(w)] = Filled(w, @)])
<1>1. L(w) \in Lists /\ CleanList(L(w), work[w].seen)
  BY DEF Inv, WorkInv, TaskOK, Task, At, L
<1>2. f[L(w)] \in File
  BY <1>1 DEF FilesOK
<1>3. Filled(w, f[L(w)]) \in File
  BY <1>1, <1>2 DEF Filled, File, CleanList
<1>4. Filled(w, f[L(w)]) # NoFile => CleanList(L(w), Filled(w, f[L(w)]).data)
  BY <1>1 DEF Filled, FilesOK
<1> QED BY <1>1, <1>3, <1>4 DEF FilesOK

LEMMA FillStep == ASSUME Inv, NEW w \in Workers, FillTmp(w) PROVE Inv'
<1>1. FilesOK(tmp') /\ FilesOK(out')
  BY FilledOK DEF FillTmp, Inv
<1>2. WorkInv'
  <2> DEFINE t == [work[w] EXCEPT !.pc = "move"]
  <2>1. TaskOK(t)
    BY DEF Inv, WorkInv, TaskOK, Task, PcOf, Labels, FillTmp, At
  <2>2. work' = [work EXCEPT ![w] = t]
    BY DEF FillTmp, Goto
  <2> QED BY <2>1, <2>2, WorkStep DEF Inv
<1> QED BY <1>1, <1>2 DEF FillTmp, Inv, files, HostInv, FilesOK, SquidInv

LEMMA MoveStep == ASSUME Inv, NEW w \in Workers, MoveTmp(w) PROVE Inv'
<1>1. L(w) \in Lists /\ work[w].op \in {"reload", "start"}
  BY DEF Inv, WorkInv, TaskOK, Task, PcOf, MoveTmp, At, L
<1>2. CASE tmp[L(w)] # NoFile
  <2>1. FilesOK(out')
    BY <1>1, <1>2 DEF MoveTmp, Inv, FilesOK
  <2>2. FilesOK(tmp')
    BY <1>1, <1>2 DEF MoveTmp, Inv, FilesOK, File
  <2>3. WorkInv'
    <3> DEFINE t == [work[w] EXCEPT !.list = "noauth", !.seen = {},
                       !.pc = IF L(w) = "blocked" THEN "open" ELSE "parse"]
    <3>1. TaskOK(t)
      BY <1>1 DEF Inv, WorkInv, TaskOK, Task, PcOf, Labels, Lists
    <3>2. work' = [work EXCEPT ![w] = t]
      BY <1>2 DEF MoveTmp, NextList, Inv, WorkInv
    <3> QED BY <3>1, <3>2, WorkStep DEF Inv
  <2> QED BY <1>2, <2>1, <2>2, <2>3 DEF MoveTmp, Inv, files, HostInv, SquidInv
<1>3. CASE tmp[L(w)] = NoFile /\ w # Entrypoint
  BY <1>3, IdleOK, WorkStep DEF MoveTmp, Done, Inv, files, run, HostInv, FilesOK, SquidInv
<1>4. CASE tmp[L(w)] = NoFile /\ w = Entrypoint
  BY <1>4, ExitStep DEF MoveTmp
<1> QED BY <1>2, <1>3, <1>4

LEMMA ReconfigureStep == ASSUME Inv, NEW w \in Workers, Reconfigure(w) PROVE Inv'
<1>1. WorkInv'
  BY IdleOK, WorkStep DEF Reconfigure, Done, Inv
<1>2. SquidInv' /\ told' \in BOOLEAN
  BY DEF Reconfigure, Inv, HostInv, SquidInv, Squid
<1> QED BY <1>1, <1>2 DEF Reconfigure, Inv, files, HostInv, FilesOK

\* What squid reads when it parses is clean.
LEMMA ReadClean ==
  ASSUME Inv, Parses
  PROVE  Read \in [Lists -> SUBSET Entry] /\ \A l \in Lists : CleanList(l, Read[l])
BY DEF Inv, FilesOK, Parses, Read, CleanList

LEMMA SquidStep ==
  ASSUME Inv, TakeSignal \/ ContainerStart \/ ExecSquid \/ ContainerStop
  PROVE  Inv'
<1>1. CASE TakeSignal
  <2>1. CASE Parses
    <3>1. SquidInv'
      BY <1>1, <2>1, ReadClean DEF TakeSignal, Inv, SquidInv, Squid
    <3> QED BY <1>1, <2>1, <3>1 DEF TakeSignal, Inv, files, WorkInv, HostInv, FilesOK
  <2>2. CASE ~Parses
    BY <1>1, <2>2, ExitStep DEF TakeSignal
  <2> QED BY <2>1, <2>2
<1>2. CASE ContainerStart
  <2>1. WorkInv' /\ since' \subseteq Workers /\ told' \in BOOLEAN
    BY <1>2, StartOK DEF ContainerStart, Workers
  <2>2. SquidInv'
    BY <1>2, EmptyClean DEF ContainerStart, Down, SquidInv, Squid
  <2>3. UNCHANGED <<src, promised, tmp, out>>
    BY <1>2 DEF ContainerStart, files
  <2>4. HostInv'
    BY <2>1, <2>3 DEF Inv, HostInv
  <2>5. FilesOK(tmp)' /\ FilesOK(out)'
    BY <2>3 DEF Inv, FilesOK
  <2> QED BY <2>1, <2>2, <2>4, <2>5 DEF Inv
<1>3. CASE ExecSquid
  <2>1. CASE Parses
    <3>1. SquidInv'
      BY <1>3, <2>1, ReadClean DEF ExecSquid, Inv, SquidInv, Squid
    <3>2. WorkInv'
      BY <1>3, <2>1, IdleOK, WorkStep DEF ExecSquid, Done, Inv, Workers
    <3> QED BY <1>3, <2>1, <3>1, <3>2 DEF ExecSquid, Inv, files, HostInv, FilesOK
  <2>2. CASE ~Parses
    BY <1>3, <2>2, ExitStep DEF ExecSquid
  <2> QED BY <2>1, <2>2
<1>4. CASE ContainerStop
  BY <1>4, ExitStep DEF ContainerStop
<1> QED BY <1>1, <1>2, <1>3, <1>4

-----------------------------------------------------------------------------

LEMMA InitOK == ASSUME Init PROVE Inv
<1>1. WorkInv
  BY IdleOK DEF Init, WorkInv, TaskOK
<1>2. HostInv
  <2>1. PICK b \in ByHand["blocked"], n \in ByHand["noauth"] \cup {NoFile} :
          src = [l \in Lists |-> IF l = "blocked" THEN b ELSE n]
    BY DEF Init
  <2>2. b \in SUBSET Entry /\ n \in {NoFile} \cup SUBSET Entry
    BY ListsAssumption DEF Lists
  <2> QED BY <2>1, <2>2 DEF Init, HostInv
<1>3. FilesOK(tmp) /\ FilesOK(out)
  BY DEF Init, FilesOK, File
<1>4. SquidInv
  BY EmptyClean DEF Init, Down, SquidInv, Squid
<1> QED BY <1>1, <1>2, <1>3, <1>4 DEF Inv

\* The invariant, whatever is requested, edited, reloaded or stopped.
THEOREM ListsInductive == Spec => []Inv
<1>1. Init => Inv
  BY InitOK
<1>2. ASSUME Inv, [Next]_vars PROVE Inv'
  <2>1. CASE UNCHANGED vars
    BY <1>2, <2>1 DEF Inv, vars, WorkInv, HostInv, FilesOK, SquidInv
  <2>2. CASE Next
    <3>1. ASSUME NEW w \in Workers, Step(w) PROVE Inv'
      BY <1>2, <3>1, EnsureStep, OpenStep, FillStep, MoveStep, ReconfigureStep DEF Step
    <3>2. ASSUME NEW w \in Threads, Apply(w) \/ Reload(w) PROVE Inv'
      BY <1>2, <3>2, EnsureStep, ReloadStep DEF Workers
    <3> QED BY <1>2, <2>2, <3>1, <3>2, AddStep, ReadStep, WriteStep, OutsideStep,
               SquidStep DEF Next
  <2> QED BY <1>2, <2>1, <2>2
<1> QED BY <1>1, <1>2, PTL DEF Spec

\* The types of DomainLists, for every value of its constants.
THEOREM ListsTypeCorrect == Spec => []TypeOK
<1>1. Inv => TypeOK
  BY DEF Inv, WorkInv, HostInv, FilesOK, SquidInv, TaskOK, TypeOK
<1> QED BY <1>1, ListsInductive, PTL

\* No list squid cannot load is ever put where it reads its lists, even by
\* reloads that overlap ("a list squid cannot load never reaches it").
THEOREM SquidAlwaysLoads == Spec => []NothingBungled
<1>1. Inv => NothingBungled
  BY DEF Inv, FilesOK, CleanList, NothingBungled
<1> QED BY <1>1, ListsInductive, PTL

\* The noauth list squid applies never holds an address or a top-level
\* domain, whoever wrote the file on the host.
THEOREM NoauthStaysNarrow == Spec => []NoauthNamesDomains
<1>1. Inv => NoauthNamesDomains
  BY DEF Inv, SquidInv, CleanList, SyncKeepsNoauth, NoauthNamesDomains, Lists
<1> QED BY <1>1, ListsInductive, PTL

-----------------------------------------------------------------------------
(* What an ensure() may lose, and nothing else.                            *)

\* Add and Remove belong to the event loop, and no edit begins before the last
\* one is written: what the loop read of a list still names all that is
\* promised and named on it, and a list it is about to create names nothing.
Kept ==
  /\ \A w \in Workers : /\ work[w].op \in {"add", "remove"} => w = Loop
                        /\ work[w].op = "apply" => w \in Threads
  /\ At(Loop, "replace") =>
       \A n \in promised[L(Loop)] : Matches(Entries(L(Loop)), n) => Matches(work[Loop].seen, n)
  /\ At(Loop, "create") => \A n \in promised[L(Loop)] : ~Matches(Entries(L(Loop)), n)

\* Steps that leave the files on the host alone, and do not end at a label that
\* writes them.
LEMMA KeptFrame ==
  ASSUME Kept, UNCHANGED files,
         \A v \in Workers : \/ work'[v] = work[v]
                            \/ /\ work'[v].pc \notin {"create", "replace"}
                               /\ work'[v].op \in {"add", "remove"} => v = Loop
                               /\ work'[v].op = "apply" => v \in Threads
  PROVE  Kept'
<1>1. Loop \in Workers
  BY DEF Workers
<1> QED BY <1>1 DEF Kept, Entries, files, At, L

LEMMA KeptRequests ==
  ASSUME Inv, Kept,
         \/ \E l \in Lists : \E n \in Edited[l] : Add(l, n) \/ Remove(l, n)
         \/ \E w \in Threads : Apply(w) \/ Reload(w)
         \/ \E w \in Workers : OpenTmp(w) \/ FillTmp(w) \/ MoveTmp(w) \/ Reconfigure(w)
         \/ TakeSignal \/ ContainerStart \/ ExecSquid \/ ContainerStop
  PROVE  Kept' /\ UNCHANGED files
<1>0. work \in [Workers -> Task]
  BY DEF Inv, WorkInv
<1>1. ASSUME NEW l \in Lists, NEW n \in Edited[l], Add(l, n) \/ Remove(l, n)
      PROVE Kept' /\ UNCHANGED files
  BY <1>0, <1>1, KeptFrame DEF Add, Remove, Begin, Idle
<1>2. ASSUME NEW w \in Threads, Apply(w) \/ Reload(w) PROVE Kept' /\ UNCHANGED files
  BY <1>0, <1>2, KeptFrame DEF Apply, Reload, StartSync, Begin, Idle
<1>3. ASSUME Exit, UNCHANGED files PROVE Kept'
  BY <1>0, <1>3, KeptFrame DEF Exit, Idle
<1>4. ASSUME NEW w \in Workers, OpenTmp(w) \/ FillTmp(w) \/ MoveTmp(w) \/ Reconfigure(w)
      PROVE  Kept' /\ UNCHANGED files
  <2>1. UNCHANGED files
    BY <1>4 DEF OpenTmp, FillTmp, MoveTmp, Reconfigure
  <2>2. work[w].op \notin {"add", "remove", "apply"}
    BY <1>4 DEF Inv, WorkInv, TaskOK, PcOf, Task, OpenTmp, FillTmp, MoveTmp, Reconfigure, At
  <2>3. CASE OpenTmp(w)
    BY <1>0, <2>1, <2>2, <2>3, KeptFrame DEF OpenTmp
  <2>4. CASE FillTmp(w)
    BY <1>0, <2>1, <2>2, <2>4, KeptFrame DEF FillTmp, Goto
  <2>5. CASE MoveTmp(w)
    <3>1. CASE NextList(w)
      BY <1>0, <2>1, <2>2, <3>1, KeptFrame DEF NextList
    <3>2. CASE Done(w)
      BY <1>0, <2>1, <3>2, KeptFrame DEF Done, Idle
    <3> QED BY <1>3, <2>1, <2>5, <3>1, <3>2 DEF MoveTmp
  <2>6. CASE Reconfigure(w)
    BY <1>0, <2>1, <2>6, KeptFrame DEF Reconfigure, Done, Idle
  <2> QED BY <1>4, <2>1, <2>3, <2>4, <2>5, <2>6
<1>5. CASE TakeSignal
  BY <1>3, <1>5, KeptFrame DEF TakeSignal
<1>6. CASE ContainerStart
  BY <1>0, <1>6, KeptFrame DEF ContainerStart, StartSync, Begin, Idle
<1>7. CASE ExecSquid
  BY <1>0, <1>3, <1>7, KeptFrame DEF ExecSquid, Done, Idle
<1>8. CASE ContainerStop
  BY <1>3, <1>8 DEF ContainerStop
<1> QED BY <1>1, <1>2, <1>4, <1>5, <1>6, <1>7, <1>8

\* The worker that writes its empty list, and a name that a step loses.
LoseBy(w, l) == L(w) = l /\ At(w, "create") /\ ~At(w, "create")'
Lost(l, n) == n \in promised[l] \cap promised'[l] /\ Matches(Entries(l), n) /\ ~Matches(Entries(l), n)'

\* ensure(): the list a thread found missing may name what was added since.
LEMMA KeptEnsure ==
  ASSUME Inv, Kept, NEW w \in Workers, Check(w) \/ Create(w)
  PROVE  /\ Kept'
         /\ \A l \in Lists : \A n \in promised[l] : Lost(l, n) => w \in Threads /\ LoseBy(w, l)
<1>0. work \in [Workers -> Task] /\ Loop \in Workers
  BY DEF Inv, WorkInv, Workers
<1>1. work[w].op \in {"add", "apply"} /\ L(w) \in Lists
  BY DEF Inv, WorkInv, TaskOK, PcOf, Task, Check, Create, At, L
<1>2. ASSUME Ensured(w)
      PROVE  \A v \in Workers : \/ work'[v] = work[v]
                                \/ /\ work'[v].pc \notin {"create", "replace"}
                                   /\ work'[v].op \in {"add", "remove"} => v = Loop
                                   /\ work'[v].op = "apply" => v \in Threads
  <2> SUFFICES ASSUME NEW v \in Workers, v = w
               PROVE  /\ work'[v].pc \notin {"create", "replace"}
                      /\ work'[v].op \in {"add", "remove"} => v = Loop
                      /\ work'[v].op = "apply" => v \in Threads
    BY <1>0, <1>2 DEF Ensured
  <2>1. CASE work[w].op = "add"
    BY <1>0, <1>2, <2>1 DEF Ensured, Kept
  <2>2. CASE work[w].op = "apply"
    BY <1>0, <1>2, <2>2 DEF Ensured, Idle, Kept
  <2> QED BY <1>1, <2>1, <2>2
<1>3. ASSUME Ensured(w) PROVE work'[w].pc # "create"
  <2>1. CASE work[w].op = "add"
    BY <1>0, <1>3, <2>1 DEF Ensured
  <2>2. CASE work[w].op = "apply"
    BY <1>0, <1>3, <2>2 DEF Ensured, Idle
  <2> QED BY <1>1, <2>1, <2>2
<1>4. CASE Check(w)
  <2>0. UNCHANGED files
    BY <1>4 DEF Check
  <2>1. CASE src[L(w)] = NoFile
    <3>1. \A n : ~Matches(Entries(L(w)), n)
      BY <2>1 DEF Entries, Matches
    <3>2. /\ work' = [work EXCEPT ![w].pc = "create"] /\ At(w, "check")
      BY <1>4, <2>1 DEF Check, Goto
    <3>3. \A v \in Workers : v # w => work'[v] = work[v]
      BY <1>0, <3>2
    <3>4. work'[w].list = work[w].list /\ work'[w].op = work[w].op /\ work'[w].pc = "create"
      BY <1>0, <3>2 DEF Task
    <3>5. Kept'
      BY <1>0, <2>0, <3>1, <3>2, <3>3, <3>4 DEF Kept, Entries, files, At, L
    <3> QED BY <2>0, <3>5 DEF Lost, Entries, files
  <2>2. CASE src[L(w)] # NoFile
    <3>1. Kept'
      BY <1>2, <1>4, <2>0, <2>2, KeptFrame DEF Check
    <3> QED BY <2>0, <3>1 DEF Lost, Entries, files
  <2> QED BY <2>1, <2>2
<1>5. CASE Create(w)
  <2>1. Ensured(w) /\ promised' = promised /\ src' = [src EXCEPT ![L(w)] = {}] /\ At(w, "create")
    BY <1>5 DEF Create, Replace
  <2>2. src'[L(w)] = {} /\ \A l \in Lists : l # L(w) => src'[l] = src[l]
    BY <1>1, <2>1 DEF Inv, HostInv
  <2>4. ASSUME NEW l \in Lists, NEW n \in promised[l], Matches(Entries(l)', n)
        PROVE  Matches(Entries(l), n)
    <3>1. CASE l = L(w)
      BY <2>2, <2>4, <3>1 DEF Entries, Matches
    <3>2. CASE l # L(w)
      BY <2>2, <2>4, <3>2 DEF Entries
    <3> QED BY <3>1, <3>2
  <2>5. Kept'
    <3>1. \A v \in Workers : \/ work'[v] = work[v]
                             \/ /\ work'[v].pc \notin {"create", "replace"}
                                /\ work'[v].op \in {"add", "remove"} => v = Loop
                                /\ work'[v].op = "apply" => v \in Threads
      BY <1>2, <2>1
    <3>2. L(Loop) \in Lists
      BY <1>0 DEF Task, L
    <3>3. CASE work'[Loop] = work[Loop]
      <4>1. L(Loop)' = L(Loop) /\ (At(Loop, "replace")' <=> At(Loop, "replace"))
            /\ (At(Loop, "create")' <=> At(Loop, "create"))
        BY <3>3 DEF L, At
      <4>2. \A n \in promised[L(Loop)] : Matches(Entries(L(Loop))', n) => Matches(Entries(L(Loop)), n)
        BY <2>4, <3>2, <4>1 DEF Entries
      <4> QED BY <1>0, <2>1, <3>1, <3>3, <4>1, <4>2 DEF Kept
    <3>4. CASE work'[Loop] # work[Loop]
      BY <1>0, <3>1, <3>4 DEF Kept, At
    <3> QED BY <3>3, <3>4
  <2>6. ASSUME NEW l \in Lists, NEW n \in promised[l], Lost(l, n)
        PROVE  w \in Threads /\ LoseBy(w, l)
    <3>1. l = L(w)
      BY <2>2, <2>6 DEF Lost, Entries
    <3>2. w # Loop
      BY <2>1, <2>6, <3>1 DEF Kept, Lost
    <3>3. w \in Threads
      BY <1>1, <3>2 DEF Kept
    <3> QED BY <1>3, <2>1, <3>1, <3>3 DEF LoseBy, At
  <2> QED BY <2>5, <2>6
<1> QED BY <1>4, <1>5

LEMMA KeptRead == ASSUME Inv, Kept, ReadList PROVE Kept' /\ UNCHANGED files
<1>0. work \in [Workers -> Task] /\ Loop \in Workers
  BY DEF Inv, WorkInv, Workers
<1>1. L(Loop) \in Lists /\ UNCHANGED files
  BY <1>0 DEF Task, L, ReadList
<1>2. CASE Done(Loop)
  BY <1>0, <1>1, <1>2, KeptFrame DEF Done, Idle
<1>3. CASE work' = [work EXCEPT ![Loop].pc = "replace", ![Loop].seen = Entries(L(Loop))]
  <2>1. work'[Loop] = [work[Loop] EXCEPT !.pc = "replace", !.seen = Entries(L(Loop))]
        /\ \A v \in Workers : v # Loop => work'[v] = work[v]
    BY <1>0, <1>3
  <2>2. work'[Loop].pc = "replace" /\ work'[Loop].seen = Entries(L(Loop))
        /\ work'[Loop].list = L(Loop)
    BY <1>0, <2>1 DEF Task, L
  <2>3. work'[Loop].op = work[Loop].op
    BY <1>0, <2>1 DEF Task
  <2> QED BY <1>0, <1>1, <2>1, <2>2, <2>3 DEF Kept, Entries, files, At, L
<1> QED BY <1>1, <1>2, <1>3 DEF ReadList, L

\* The answer: what the loop read, and the name; or without it and all below it.
LEMMA KeptWrite ==
  ASSUME Inv, Kept, WriteList
  PROVE  Kept' /\ \A l \in Lists : \A n \in promised[l] : ~Lost(l, n)
<1> DEFINE t == work[Loop]
           new == IF t.op = "add" THEN Uncovered(t.seen \cup {Dotted(t.name)})
                  ELSE Uncovered(t.seen \ {Dotted(t.name), Bare(t.name)})
           left == IF t.op = "add" THEN promised[t.list] \cup {t.name}
                   ELSE {n \in promised[t.list] : n # t.name /\ t.name \notin Parents(n)}
<1>0. work \in [Workers -> Task] /\ Loop \in Workers
  BY DEF Inv, WorkInv, Workers
<1>1. /\ t \in Task /\ t.list \in Lists /\ t.op \in {"add", "remove"} /\ t.seen \in SUBSET Entry
      /\ t.op = "add" => t.name \in Names /\ Dotted(t.name) \in Entry
  BY <1>0 DEF Inv, WorkInv, TaskOK, Task, PcOf, WriteList, At, Dotted, Entry
<1>2. /\ promised[t.list] \subseteq Names
      /\ \A n \in promised[t.list] : Matches(Entries(t.list), n) => Matches(t.seen, n)
  BY <1>1 DEF Inv, HostInv, WriteList, Kept, L
<1>3. ASSUME NEW n \in promised[t.list], n \in left, Matches(t.seen, n) PROVE Matches(new, n)
  <2>1. CASE t.op = "add"
    <3>1. n \in Names /\ t.seen \cup {Dotted(t.name)} \in SUBSET Entry
      BY <1>1, <1>2, <2>1
    <3>2. Matches(t.seen \cup {Dotted(t.name)}, n)
      BY <1>3 DEF Matches
    <3> QED BY <2>1, <3>1, <3>2, UncoveredMatches
  <2>2. CASE t.op = "remove"
    <3>1. n # t.name /\ t.name \notin Parents(n)
      BY <1>3, <2>2
    <3>2. PICK e \in t.seen : n = e.labels \/ (e.dot /\ e.labels \in Parents(n))
      BY <1>3 DEF Matches
    <3>3. e \notin {Dotted(t.name), Bare(t.name)}
      BY <3>1, <3>2 DEF Dotted, Bare
    <3>4. Matches(t.seen \ {Dotted(t.name), Bare(t.name)}, n)
      BY <3>2, <3>3 DEF Matches
    <3>5. n \in Names /\ t.seen \ {Dotted(t.name), Bare(t.name)} \in SUBSET Entry
      BY <1>1, <1>2
    <3> QED BY <2>2, <3>4, <3>5, UncoveredMatches
  <2> QED BY <1>1, <2>1, <2>2
<1>4. /\ src' = [src EXCEPT ![t.list] = new]
      /\ promised' = [promised EXCEPT ![t.list] = left]
      /\ work' = [work EXCEPT ![Loop] = Idle]
  BY DEF WriteList, Replace, Done
<1>5. new \in SUBSET Entry
  BY <1>1 DEF Uncovered
<1> HIDE DEF new, left
<1>6. ASSUME NEW l \in Lists, NEW n \in promised[l], Lost(l, n) PROVE FALSE
  <2>1. CASE l = t.list
    <3>1. src'[l] = new /\ promised'[l] = left
      BY <1>1, <1>4, <2>1 DEF Inv, HostInv
    <3>2. new # NoFile
      BY <1>5, ListsAssumption
    <3>3. n \in left /\ Matches(Entries(t.list), n) /\ ~Matches(new, n)
      BY <1>6, <2>1, <3>1, <3>2 DEF Lost, Entries
    <3> QED BY <1>2, <1>3, <1>6, <2>1, <3>3
  <2>2. CASE l # t.list
    <3>1. src'[l] = src[l]
      BY <1>1, <1>4, <2>2 DEF Inv, HostInv
    <3> QED BY <1>6, <3>1 DEF Lost, Entries
  <2> QED BY <2>1, <2>2
<1>7. work'[Loop] = Idle /\ \A v \in Workers : v # Loop => work'[v] = work[v]
  BY <1>0, <1>4
<1> QED BY <1>0, <1>6, <1>7 DEF Kept, At, Idle

LEMMA KeptOutside ==
  ASSUME Inv, Kept,
         \/ \E l \in Lists : \E list \in ByHand[l] : HandEdit(l, list)
         \/ \E names \in Fetched : Refresh(names)
  PROVE  Kept' /\ \A l \in Lists : \A n \in promised[l] : ~Lost(l, n)
<1>1. ASSUME NEW l \in Lists, NEW list, src' = [src EXCEPT ![l] = list],
             promised' = [promised EXCEPT ![l] = {}], UNCHANGED work
      PROVE  Kept' /\ \A m \in Lists : \A n \in promised[m] : ~Lost(m, n)
  <2>0. Loop \in Workers /\ L(Loop) \in Lists
    BY DEF Inv, WorkInv, Workers, Task, L
  <2>1. promised'[l] = {} /\ \A m \in Lists : m # l => promised'[m] = promised[m] /\ src'[m] = src[m]
    BY <1>1 DEF Inv, HostInv
  <2> QED BY <1>1, <2>0, <2>1 DEF Kept, Entries, At, L, Lost
<1> QED BY <1>1 DEF HandEdit, Refresh, Replace, Lists

LEMMA KeptNext ==
  ASSUME Inv, Kept, [Next]_vars
  PROVE  /\ Kept'
         /\ \A l \in Lists : \A n \in promised[l] :
              Lost(l, n) => \E w \in Threads : LoseBy(w, l)
<1>0. UNCHANGED files => \A l \in Lists : \A n \in promised[l] : ~Lost(l, n)
  BY DEF files, Lost, Entries
<1>1. CASE UNCHANGED vars
  BY <1>0, <1>1 DEF vars, files, Kept, Entries, At, L
<1>2. CASE Next
  BY <1>0, <1>2, KeptRequests, KeptEnsure, KeptRead, KeptWrite, KeptOutside DEF Next, Step
<1> QED BY <1>1, <1>2

\* An answered add is lost to nothing but an ensure() in a thread that found
\* the list missing before the add made it: not to another edit, to a reload,
\* to the container's start or stop, or to what another writer does elsewhere.
THEOREM OnlyEnsureLoses == Spec => OnlyEnsureLosesAdds
<1>1. Init => Kept
  <2>1. ASSUME Init PROVE Loop \in Workers /\ \A w \in Workers : work[w].op = "none" /\ work[w].pc = "idle"
    BY <2>1 DEF Init, Idle, Workers
  <2> QED BY <2>1 DEF Kept, At
<1>2. Inv /\ Kept /\ [Next]_vars => Kept'
  BY KeptNext
<1>3. Inv /\ Kept /\ [Next]_vars =>
        [\A l \in Lists : \A n \in promised[l] \cap promised'[l] :
           Matches(Entries(l), n) /\ ~Matches(Entries(l), n)' =>
             \E w \in Threads : L(w) = l /\ At(w, "create") /\ ~At(w, "create")']_vars
  BY KeptNext DEF Lost, LoseBy
<1> QED BY <1>1, <1>2, <1>3, ListsInductive, PTL DEF Spec, OnlyEnsureLosesAdds

-----------------------------------------------------------------------------
(* Reloads that take effect.                                               *)

Ops == {"reload", "start"}
InSync(w) == work[w].op \in Ops

\* A file in the container is open for the pipelines that still write it.
Writers(f, l) == f # NoFile => \A v \in f.by : At(v, "fill") /\ L(v) = l
Owned == \A l \in Lists : Writers(tmp[l], l) /\ Writers(out[l], l)

\* No other sync runs beside one that is waited for.
Lone ==
  /\ \A w \in since : \A v \in Workers : InSync(v) => v = w
  /\ told => \A v \in Workers : InSync(v) => v \in since

Settled(l) == out[l].data = Synced(l, Entries(l))

\* What a lone reload begun after the last change has copied.
Copied(w) ==
  /\ At(w, "fill") \/ At(w, "move") => work[w].seen = Synced(L(w), Entries(L(w)))
  /\ At(w, "fill") /\ tmp[L(w)] # NoFile => w \in tmp[L(w)].by
  /\ At(w, "move") /\ tmp[L(w)] # NoFile => tmp[L(w)].data = work[w].seen
  /\ L(w) = "noauth" => Settled("blocked")
  /\ At(w, "parse") => \A l \in Lists : Settled(l)

\* What an answered one has told squid to read.
Told ==
  /\ squid.state = "up"
  /\ \A l \in Lists : Settled(l)
  /\ squid.hup \/ \A l \in Lists : squid.loaded[l] = Synced(l, Entries(l))

Followed ==
  /\ Owned
  /\ Lone
  /\ \A w \in since : InSync(w) => Copied(w)
  /\ told => Told

SyncLabels == {"open", "fill", "move", "parse"}

LEMMA LabelSyncs ==
  ASSUME Inv, NEW w \in Workers
  PROVE  /\ work[w].pc \in SyncLabels <=> InSync(w)
         /\ L(w) \in Lists
BY DEF Inv, WorkInv, TaskOK, PcOf, Task, InSync, SyncLabels, Ops, L

LEMMA Typed ==
  ASSUME Inv
  PROVE  /\ work \in [Workers -> Task] /\ since \subseteq Workers /\ squid \in Squid
         /\ tmp \in [Lists -> File] /\ out \in [Lists -> File]
         /\ Loop \in Workers /\ Entrypoint \in Workers /\ Threads \subseteq Workers
         /\ \A l \in Lists : /\ tmp[l] # NoFile => tmp[l].by \subseteq Workers
                           /\ out[l] # NoFile => out[l].by \subseteq Workers
BY DEF Inv, WorkInv, HostInv, FilesOK, SquidInv, File, Workers

LEMMA Writing ==
  ASSUME Inv, Owned, NEW l \in Lists, NEW f, f = tmp[l] \/ f = out[l], f # NoFile,
         NEW v \in f.by
  PROVE  v \in Workers /\ At(v, "fill") /\ L(v) = l
<1>1. f.by \subseteq Workers
  BY DEF Inv, FilesOK, File
<1>2. Writers(f, l)
  BY DEF Owned
<1> QED BY <1>1, <1>2 DEF Writers

\* The files stay owned while no pipeline that has one open moves.
LEMMA OwnedFrame ==
  ASSUME Inv, Owned, UNCHANGED <<tmp, out>>,
         \A v \in Workers : At(v, "fill") => work'[v] = work[v]
  PROVE  Owned'
<1>1. \A v \in Workers : At(v, "fill") => At(v, "fill")' /\ L(v)' = L(v)
  BY DEF At, L
<1>2. ASSUME NEW l \in Lists, NEW f, f = tmp[l] \/ f = out[l], f # NoFile, NEW v \in f.by
      PROVE  At(v, "fill")' /\ L(v)' = l
  BY <1>1, <1>2, Writing
<1> QED BY <1>2 DEF Owned, Writers

\* A step beside the copies: it changes no file, and no task that copies.
LEMMA FollowedBeside ==
  ASSUME Inv, Followed, UNCHANGED <<src, tmp, out, squid, told, since>>,
         NEW w \in Workers, ~InSync(w), ~InSync(w)',
         \A v \in Workers : v # w => work'[v] = work[v]
  PROVE  Followed'
<1>1. \A v \in Workers : InSync(v) \/ InSync(v)' => work'[v] = work[v]
  OBVIOUS
<1>2. Owned'
  <2>1. \A v \in Workers : At(v, "fill") => work'[v] = work[v]
    BY <1>1, LabelSyncs DEF At, SyncLabels
  <2> QED BY <2>1, OwnedFrame DEF Followed
<1>3. \A l : Settled(l)' = Settled(l) /\ Entries(l)' = Entries(l)
  BY DEF Settled, Entries
<1>4. ASSUME NEW v \in since, InSync(v)' PROVE Copied(v)'
  <2>1. work'[v] = work[v] /\ Copied(v)
    BY <1>1, <1>4, Typed DEF Followed, InSync
  <2> QED BY <1>3, <2>1 DEF Copied, At, L
<1>5. Lone'
  BY <1>1, Typed DEF Followed, Lone, InSync
<1>6. told' => Told'
  BY <1>3 DEF Followed, Told
<1> QED BY <1>2, <1>4, <1>5, <1>6 DEF Followed

\* A change of the files on the host: nothing that began before it is fresh.
LEMMA FollowedChange ==
  ASSUME Inv, Followed, UNCHANGED <<tmp, out>>, told' = FALSE, since' = {},
         \A v \in Workers : InSync(v) => work'[v] = work[v]
  PROVE  Followed'
<1>1. \A v \in Workers : At(v, "fill") => work'[v] = work[v]
  BY LabelSyncs DEF At, SyncLabels
<1>2. Owned'
  BY <1>1, OwnedFrame DEF Followed
<1> QED BY <1>2 DEF Followed, Lone

LEMMA FollowedExit == ASSUME Exit PROVE Followed'
BY DEF Exit, Followed, Owned, Writers, Lone

LEMMA FollowedHost ==
  ASSUME Inv, Followed, ReadList \/ WriteList
           \/ (\E l \in Lists : \E n \in Edited[l] : Add(l, n) \/ Remove(l, n))
           \/ (\E w \in Threads : Apply(w))
           \/ (\E w \in Workers : Check(w) \/ Create(w))
           \/ (\E l \in Lists : \E list \in ByHand[l] : HandEdit(l, list))
           \/ (\E names \in Fetched : Refresh(names))
  PROVE  Followed'
<1>0. work \in [Workers -> Task] /\ Loop \in Workers
  BY DEF Inv, WorkInv, Workers
<1>1. ASSUME NEW w \in Workers, Ensured(w), work[w].op \in {"add", "apply"}
      PROVE  /\ ~InSync(w) /\ ~InSync(w)'
             /\ \A v \in Workers : v # w => work'[v] = work[v]
  <2>1. work'[w].op \in {"add", "apply", "none"}
    <3>1. CASE work[w].op = "add"
      BY <1>0, <1>1, <3>1 DEF Ensured, Task
    <3>2. CASE work[w].op = "apply"
      BY <1>0, <1>1, <3>2 DEF Ensured, Task, Idle
    <3> QED BY <1>1, <3>1, <3>2
  <2> QED BY <1>0, <1>1, <2>1 DEF Ensured, InSync, Ops
<1>2. ASSUME NEW w \in Workers, work[w].pc \in {"check", "create"}
      PROVE  work[w].op \in {"add", "apply"}
  BY <1>2 DEF Inv, WorkInv, TaskOK, PcOf, Task
<1>3. ASSUME NEW w \in Workers, Check(w) PROVE Followed'
  <2>1. UNCHANGED <<src, tmp, out, squid, told, since>> /\ work[w].op \in {"add", "apply"}
    BY <1>2, <1>3 DEF Check, files, run, At
  <2>2. CASE Ensured(w)
    BY <1>1, <2>1, <2>2, FollowedBeside
  <2>3. CASE work' = [work EXCEPT ![w].pc = "create"]
    <3>1. work'[w].op = work[w].op /\ \A v \in Workers : v # w => work'[v] = work[v]
      BY <1>0, <2>3 DEF Task
    <3>2. ~InSync(w) /\ ~InSync(w)'
      BY <2>1, <3>1 DEF InSync, Ops
    <3> QED BY <2>1, <3>1, <3>2, FollowedBeside
  <2> QED BY <1>3, <2>2, <2>3 DEF Check, Goto
<1>4. ASSUME NEW w \in Workers, Create(w) PROVE Followed'
  <2>1. ~InSync(w) /\ \A v \in Workers : v # w => work'[v] = work[v]
    BY <1>1, <1>2, <1>4 DEF Create, At
  <2>2. UNCHANGED <<tmp, out>> /\ told' = FALSE /\ since' = {}
    BY <1>4 DEF Create, Replace, run
  <2>3. \A v \in Workers : InSync(v) => work'[v] = work[v]
    BY <2>1
  <2> QED BY <2>2, <2>3, FollowedChange
<1>5. ASSUME NEW w \in Workers, NEW t, t.op \in {"add", "remove", "apply"}, Begin(w, t),
             UNCHANGED <<src, tmp, out, squid, told, since>>
      PROVE  Followed'
  <2>1. work'[w] = t /\ \A v \in Workers : v # w => work'[v] = work[v]
    BY <1>0, <1>5 DEF Begin
  <2>2. ~InSync(w)'
    BY <1>5, <2>1 DEF InSync, Ops
  <2>3. ~InSync(w)
    BY <1>5, LabelSyncs DEF Begin, At, SyncLabels
  <2> QED BY <1>5, <2>1, <2>2, <2>3, FollowedBeside
<1>6. ASSUME NEW l \in Lists, NEW n \in Edited[l], Add(l, n) PROVE Followed'
  <2> DEFINE t == [Idle EXCEPT !.op = "add", !.pc = "check", !.list = l, !.name = n]
  <2>1. t.op = "add"
    BY DEF Idle
  <2>2. Begin(Loop, t) /\ UNCHANGED <<src, tmp, out, squid, told, since>>
    BY <1>6 DEF Add, files, run
  <2> HIDE DEF t
  <2> QED BY <1>0, <1>5, <2>1, <2>2
<1>7. ASSUME NEW l \in Lists, NEW n \in Edited[l], Remove(l, n) PROVE Followed'
  <2> DEFINE t == [Idle EXCEPT !.op = "remove", !.pc = "read", !.list = l, !.name = n]
  <2>1. t.op = "remove"
    BY DEF Idle
  <2>2. Begin(Loop, t) /\ UNCHANGED <<src, tmp, out, squid, told, since>>
    BY <1>7 DEF Remove, files, run
  <2> HIDE DEF t
  <2> QED BY <1>0, <1>5, <2>1, <2>2
<1>8. ASSUME NEW w \in Threads, Apply(w) PROVE Followed'
  <2> DEFINE t == [Idle EXCEPT !.op = "apply", !.pc = "check"]
  <2>1. t.op = "apply"
    BY DEF Idle
  <2>2. Begin(w, t) /\ UNCHANGED <<src, tmp, out, squid, told, since>> /\ w \in Workers
    BY <1>8 DEF Apply, files, run, Workers
  <2> HIDE DEF t
  <2> QED BY <1>5, <2>1, <2>2
<1>9. ASSUME ReadList \/ WriteList
      PROVE ~InSync(Loop) /\ ~InSync(Loop)' /\ \A v \in Workers : v # Loop => work'[v] = work[v]
  <2>1. ~InSync(Loop)
    BY <1>0, <1>9, LabelSyncs DEF ReadList, WriteList, At, SyncLabels
  <2>2. ~InSync(Loop)'
    <3>1. CASE Done(Loop)
      BY <1>0, <3>1 DEF Done, Idle, InSync, Ops
    <3>2. CASE work' = [work EXCEPT ![Loop].pc = "replace",
                          ![Loop].seen = Entries(work[Loop].list)]
      <4>1. work'[Loop].op = work[Loop].op
        BY <1>0, <3>2 DEF Task
      <4> QED BY <2>1, <4>1 DEF InSync
    <3> QED BY <1>9, <3>1, <3>2 DEF ReadList, WriteList
  <2> QED BY <1>0, <1>9, <2>1, <2>2 DEF ReadList, WriteList, Done
<1>10. CASE ReadList
  BY <1>0, <1>9, <1>10, FollowedBeside DEF ReadList, files, run
<1>11. CASE WriteList
  <2>1. UNCHANGED <<tmp, out>> /\ told' = FALSE /\ since' = {}
    BY <1>11 DEF WriteList, Replace, run
  <2>2. \A v \in Workers : InSync(v) => work'[v] = work[v]
    BY <1>9, <1>11
  <2> QED BY <2>1, <2>2, FollowedChange
<1>12. ASSUME UNCHANGED <<work, run>>, told' = FALSE, since' = {} PROVE Followed'
  BY <1>12, FollowedChange DEF run
<1> QED BY <1>3, <1>4, <1>6, <1>7, <1>8, <1>10, <1>11, <1>12 DEF HandEdit, Refresh, Replace

LEMMA FollowedStart ==
  ASSUME Inv, Followed, NEW w \in Workers, NEW op \in Ops, StartSync(w, op, "open"),
         UNCHANGED <<src, tmp, out>>,
         squid' = squid \/ squid.state # "up"
  PROVE  Followed'
<1> DEFINE t == [Idle EXCEPT !.op = op, !.pc = "open"]
<1>1. /\ work[w].pc = "idle" /\ work'[w] = t
      /\ \A v \in Workers : v # w => work'[v] = work[v]
      /\ since' = (IF Syncing = {} THEN {w} ELSE {}) /\ told' = (told /\ Syncing = {})
  BY Typed DEF StartSync, Begin, At
<1>2. t.pc = "open" /\ t.list = "blocked"
  BY DEF Idle
<1> HIDE DEF t
<1>3. Owned'
  <2>1. \A v \in Workers : At(v, "fill") => work'[v] = work[v]
    BY <1>1 DEF At
  <2> QED BY <2>1, OwnedFrame DEF Followed
<1>4. Syncing = {} => \A v \in Workers : InSync(v)' => v = w
  BY <1>1 DEF Syncing, InSync, Ops
<1>5. Lone'
  BY <1>1, <1>4, Typed DEF Lone
<1>6. ASSUME NEW v \in since' PROVE Copied(v)'
  <2>1. v = w
    BY <1>1, <1>6
  <2> QED BY <1>1, <1>2, <2>1 DEF Copied, At, L
<1>7. told' => Told'
  <2>1. \A l : Settled(l)' = Settled(l) /\ Entries(l)' = Entries(l)
    BY DEF Settled, Entries
  <2> QED BY <1>1, <2>1 DEF Followed, Told
<1> QED BY <1>3, <1>5, <1>6, <1>7 DEF Followed

\* A worker that goes on in its sync: what must be shown of its step.
LEMMA FollowedStep ==
  ASSUME Inv, Followed, NEW w \in Workers, InSync(w), InSync(w)',
         \A v \in Workers : v # w => work'[v] = work[v],
         UNCHANGED <<src, squid, told, since>>,
         Owned', w \in since => Copied(w)',
         w \in since \/ out' = out => \A l \in Lists : Settled(l) => Settled(l)'
  PROVE  Followed'
<1>1. \A v \in Workers : InSync(v)' <=> InSync(v)
  BY DEF InSync
<1>2. Lone'
  BY <1>1, Typed DEF Followed, Lone
<1>3. ASSUME NEW v \in since, InSync(v)' PROVE Copied(v)'
  <2>1. v = w
    BY <1>3, Typed DEF Followed, Lone
  <2> QED BY <1>3, <2>1
<1>4. ASSUME told PROVE Told'
  <2>1. w \in since /\ Told
    BY <1>4 DEF Followed, Lone
  <2>2. \A l : Entries(l)' = Entries(l)
    BY DEF Entries
  <2> QED BY <2>1, <2>2 DEF Told
<1> QED BY <1>2, <1>3, <1>4 DEF Followed

\* lists-sync.sh opens its temporary file: a lone one has it to itself.
LEMMA FollowedOpen ==
  ASSUME Inv, Followed, NEW w \in Workers, OpenTmp(w)
  PROVE  Followed'
<1>0. InSync(w) /\ L(w) \in Lists /\ At(w, "open")
  BY LabelSyncs DEF OpenTmp, At, SyncLabels
<1> DEFINE t == [work[w] EXCEPT !.pc = "fill", !.seen = Synced(L(w), Entries(L(w)))]
           f == [data |-> {}, whole |-> FALSE,
                 by |-> {w} \cup (IF tmp[L(w)] = NoFile THEN {} ELSE tmp[L(w)].by)]
<1>1. /\ work'[w] = t /\ \A v \in Workers : v # w => work'[v] = work[v]
      /\ tmp' = [tmp EXCEPT ![L(w)] = f]
      /\ UNCHANGED <<src, out, squid, told, since>>
  BY Typed DEF OpenTmp, files
<1>2. t.pc = "fill" /\ t.op = work[w].op /\ t.list = L(w) /\ t.seen = Synced(L(w), Entries(L(w)))
  BY Typed DEF Task, L
<1>3. w \in f.by /\ \A v \in f.by : v = w \/ (tmp[L(w)] # NoFile /\ v \in tmp[L(w)].by)
  OBVIOUS
<1> HIDE DEF t, f
<1>6. tmp'[L(w)] = f /\ \A l \in Lists : l # L(w) => tmp'[l] = tmp[l]
  BY <1>0, <1>1, Typed
<1>7. \A v \in Workers : At(v, "fill") => v # w /\ At(v, "fill")' /\ L(v)' = L(v)
  BY <1>0, <1>1 DEF At, L
<1>8. Owned'
  <2>1. ASSUME NEW l \in Lists, tmp'[l] # NoFile, NEW v \in tmp'[l].by
        PROVE  At(v, "fill")' /\ L(v)' = l
    <3>1. CASE v = w /\ l = L(w)
      BY <1>1, <1>2, <3>1 DEF At, L
    <3>2. CASE ~(v = w /\ l = L(w))
      <4>1. tmp[l] # NoFile /\ v \in tmp[l].by
        BY <1>3, <1>6, <2>1, <3>2
      <4> QED BY <1>7, <4>1, Writing DEF Followed
    <3> QED BY <3>1, <3>2
  <2>2. ASSUME NEW l \in Lists, out'[l] # NoFile, NEW v \in out'[l].by
        PROVE  At(v, "fill")' /\ L(v)' = l
    BY <1>1, <1>7, <2>2, Writing DEF Followed
  <2> QED BY <2>1, <2>2 DEF Owned, Writers
<1>9. w \in since => Copied(w)'
  <2>1. \A l : Settled(l)' = Settled(l) /\ Entries(l)' = Entries(l)
    BY <1>1 DEF Settled, Entries
  <2> QED BY <1>0, <1>1, <1>2, <1>3, <1>6, <2>1 DEF Followed, Copied, At, L
<1>10. InSync(w)' /\ (\A l \in Lists : Settled(l) => Settled(l)')
  BY <1>0, <1>1, <1>2 DEF InSync, Settled, Entries
<1> QED BY <1>0, <1>1, <1>8, <1>9, <1>10, FollowedStep

\* sort fills the file its worker opened.
LEMMA FollowedFill ==
  ASSUME Inv, Followed, NEW w \in Workers, FillTmp(w)
  PROVE  Followed'
<1>0. InSync(w) /\ L(w) \in Lists /\ At(w, "fill")
  BY LabelSyncs DEF FillTmp, At, SyncLabels
<1> DEFINE t == [work[w] EXCEPT !.pc = "move"]
<1>1. /\ work'[w] = t /\ \A v \in Workers : v # w => work'[v] = work[v]
      /\ tmp' = [tmp EXCEPT ![L(w)] = Filled(w, tmp[L(w)])]
      /\ out' = [out EXCEPT ![L(w)] = Filled(w, out[L(w)])]
      /\ UNCHANGED <<src, squid, told, since>>
  BY Typed DEF FillTmp, Goto, files
<1>2. t.pc = "move" /\ t.op = work[w].op /\ t.list = L(w) /\ t.seen = work[w].seen
  BY Typed DEF Task, L
<1> HIDE DEF t
<1>3. /\ tmp'[L(w)] = Filled(w, tmp[L(w)]) /\ out'[L(w)] = Filled(w, out[L(w)])
      /\ \A l \in Lists : l # L(w) => tmp'[l] = tmp[l] /\ out'[l] = out[l]
  BY <1>0, <1>1, Typed
<1>4. ASSUME NEW f, f # NoFile
      PROVE  /\ \A v \in Filled(w, f).by : v \in f.by /\ v # w
             /\ w \in f.by => Filled(w, f).data = work[w].seen
             /\ w \notin f.by => Filled(w, f) = f
  <2>1. CASE w \in f.by
    BY <1>4, <2>1 DEF Filled
  <2>2. CASE w \notin f.by
    BY <1>4, <2>2 DEF Filled
  <2> QED BY <2>1, <2>2
<1>5. Filled(w, NoFile) = NoFile
  BY DEF Filled
<1>6. \A v \in Workers : At(v, "fill") /\ v # w => At(v, "fill")' /\ L(v)' = L(v)
  BY <1>1 DEF At, L
<1>7. Owned'
  <2>1. ASSUME NEW l \in Lists, NEW f, f = tmp[l] \/ f = out[l], f # NoFile,
               NEW g, g = IF l = L(w) THEN Filled(w, f) ELSE f, NEW v \in g.by
        PROVE  At(v, "fill")' /\ L(v)' = l
    <3>1. v \in f.by /\ At(v, "fill") /\ L(v) = l /\ v \in Workers
      BY <1>4, <2>1, Writing DEF Followed
    <3>2. v # w
      BY <1>4, <2>1, <3>1
    <3> QED BY <1>6, <3>1, <3>2
  <2>2. ASSUME NEW l \in Lists
        PROVE  /\ tmp'[l] = IF l = L(w) THEN Filled(w, tmp[l]) ELSE tmp[l]
               /\ out'[l] = IF l = L(w) THEN Filled(w, out[l]) ELSE out[l]
               /\ tmp'[l] # NoFile => tmp[l] # NoFile
               /\ out'[l] # NoFile => out[l] # NoFile
    BY <1>3, <1>5
  <2> QED BY <2>1, <2>2 DEF Owned, Writers
<1>8. \A l : Entries(l)' = Entries(l)
  BY <1>1 DEF Entries
<1>9. ASSUME w \in since \/ out' = out, NEW l \in Lists, Settled(l) PROVE Settled(l)'
  <2>1. CASE out'[l] = out[l]
    BY <1>8, <1>9, <2>1 DEF Settled
  <2>2. CASE out'[l] # out[l]
    <3>1. w \in since /\ l = L(w) /\ out'[l] = Filled(w, out[l])
      BY <1>3, <1>9, <2>2
    <3>2. work[w].seen = Synced(l, Entries(l))
      BY <1>0, <3>1 DEF Followed, Copied
    <3>3. out'[l].data = Synced(l, Entries(l))
      BY <1>4, <1>5, <2>2, <3>1, <3>2
    <3> QED BY <1>8, <3>3 DEF Settled
  <2> QED BY <2>1, <2>2
<1>10. ASSUME w \in since PROVE Copied(w)'
  <2>1. /\ work[w].seen = Synced(L(w), Entries(L(w)))
        /\ tmp[L(w)] # NoFile => w \in tmp[L(w)].by
        /\ L(w) = "noauth" => Settled("blocked")
    BY <1>0, <1>10 DEF Followed, Copied
  <2>2. tmp'[L(w)] # NoFile => tmp'[L(w)].data = work[w].seen
    BY <1>3, <1>4, <1>5, <2>1
  <2>3. L(w) = "noauth" => Settled("blocked")'
    BY <1>9, <1>10, <2>1 DEF Lists
  <2> QED BY <1>1, <1>2, <1>8, <2>1, <2>2, <2>3 DEF Copied, At, L
<1>11. InSync(w)'
  BY <1>0, <1>1, <1>2 DEF InSync
<1> QED BY <1>0, <1>1, <1>7, <1>9, <1>10, <1>11, FollowedStep

\* The end of a sync: nothing is waited for then, and no file stays open for it.
LEMMA SyncEnds ==
  ASSUME Inv, Followed, NEW w \in Workers, InSync(w), ~At(w, "fill"), Done(w),
         since' = since \ {w}, UNCHANGED <<src, tmp, out>>
  PROVE  /\ Owned' /\ since' = {}
         /\ told \/ w \in since => w \in since /\ \A v \in Workers : ~InSync(v)'
         /\ \A l : Settled(l)' = Settled(l) /\ Entries(l)' = Entries(l)
<1>1. work'[w] = Idle /\ \A v \in Workers : v # w => work'[v] = work[v]
  BY Typed DEF Done
<1>2. Owned'
  <2>1. \A v \in Workers : At(v, "fill") => work'[v] = work[v]
    BY <1>1
  <2> QED BY <2>1, OwnedFrame DEF Followed
<1>3. \A v \in since : v = w
  BY Typed DEF Followed, Lone
<1>4. told => w \in since
  BY DEF Followed, Lone
<1>5. ASSUME w \in since, NEW v \in Workers PROVE ~InSync(v)'
  <2>1. CASE v = w
    BY <1>1, <2>1 DEF InSync, Idle, Ops
  <2>2. CASE v # w
    BY <1>1, <1>5, <2>2 DEF InSync, Followed, Lone
  <2> QED BY <2>1, <2>2
<1> QED BY <1>2, <1>3, <1>4, <1>5 DEF Settled, Entries

\* mv puts the copy where squid reads it.
LEMMA FollowedMove ==
  ASSUME Inv, Followed, NEW w \in Workers, MoveTmp(w)
  PROVE  Followed'
<1>0. InSync(w) /\ L(w) \in Lists /\ At(w, "move")
  BY LabelSyncs DEF MoveTmp, At, SyncLabels
<1>1. CASE tmp[L(w)] = NoFile /\ w = Entrypoint
  BY <1>1, FollowedExit DEF MoveTmp
<1>2. CASE tmp[L(w)] = NoFile /\ w # Entrypoint
  <2>1. Done(w) /\ since' = since \ {w} /\ UNCHANGED <<src, tmp, out, squid, told>>
    BY <1>2 DEF MoveTmp, files, run
  <2>2. /\ Owned' /\ since' = {}
        /\ told => \A v \in Workers : ~InSync(v)'
        /\ \A l : Settled(l)' = Settled(l) /\ Entries(l)' = Entries(l)
    BY <1>0, <2>1, SyncEnds DEF At
  <2> QED BY <2>1, <2>2 DEF Followed, Lone, Told
<1>3. CASE tmp[L(w)] # NoFile
  <2> DEFINE t == [work[w] EXCEPT !.list = "noauth", !.seen = {},
                     !.pc = IF L(w) = "blocked" THEN "open" ELSE "parse"]
  <2>1. /\ work'[w] = t /\ \A v \in Workers : v # w => work'[v] = work[v]
        /\ UNCHANGED <<src, squid, told, since>>
        /\ out' = [out EXCEPT ![L(w)] = tmp[L(w)]] /\ tmp' = [tmp EXCEPT ![L(w)] = NoFile]
    BY <1>3, Typed DEF MoveTmp, NextList, files
  <2>2. /\ t.pc = (IF L(w) = "blocked" THEN "open" ELSE "parse")
        /\ t.op = work[w].op /\ t.list = "noauth"
    BY Typed DEF Task
  <2> HIDE DEF t
  <2>3. /\ out'[L(w)] = tmp[L(w)] /\ tmp'[L(w)] = NoFile
        /\ \A l \in Lists : l # L(w) => tmp'[l] = tmp[l] /\ out'[l] = out[l]
    BY <1>0, <2>1, Typed
  <2>4. Owned'
    <3>1. \A v \in Workers : At(v, "fill") => At(v, "fill")' /\ L(v)' = L(v)
      BY <1>0, <2>1 DEF At, L
    <3>2. ASSUME NEW l \in Lists, NEW f, f = tmp'[l] \/ f = out'[l], f # NoFile, NEW v \in f.by
          PROVE  At(v, "fill")' /\ L(v)' = l
      <4>1. f = tmp[l] \/ f = out[l]
        BY <2>3, <3>2
      <4>2. v \in Workers /\ At(v, "fill") /\ L(v) = l
        BY <3>2, <4>1, Writing DEF Followed
      <4> QED BY <3>1, <4>2
    <3> QED BY <3>2 DEF Owned, Writers
  <2>5. \A l : Entries(l)' = Entries(l)
    BY <2>1 DEF Entries
  <2>6. ASSUME w \in since, NEW l \in Lists, l = L(w) PROVE Settled(l)'
    <3>1. Copied(w)
      BY <1>0, <2>6 DEF Followed
    <3>2. tmp[l].data = Synced(l, Entries(l))
      BY <1>0, <1>3, <2>6, <3>1 DEF Copied
    <3> QED BY <2>3, <2>5, <2>6, <3>2 DEF Settled
  <2>7. ASSUME NEW l \in Lists, l # L(w), Settled(l) PROVE Settled(l)'
    BY <2>3, <2>5, <2>7 DEF Settled
  <2>8. ASSUME w \in since \/ out' = out, NEW l \in Lists, Settled(l) PROVE Settled(l)'
    <3>1. CASE w \in since
      BY <2>6, <2>7, <2>8, <3>1
    <3>2. CASE out' = out
      BY <2>5, <2>8, <3>2 DEF Settled
    <3> QED BY <2>8, <3>1, <3>2
  <2>9. ASSUME w \in since PROVE Copied(w)'
    <3>1. CASE L(w) = "blocked"
      <4>1. t.pc = "open"
        BY <2>2, <3>1
      <4> QED BY <2>1, <2>6, <2>9, <3>1, <4>1 DEF Copied, At, Lists
    <3>2. CASE L(w) = "noauth"
      <4>1. Settled("blocked")
        BY <1>0, <2>9, <3>2 DEF Followed, Copied
      <4>2. \A l \in Lists : Settled(l)'
        BY <2>6, <2>7, <2>9, <3>2, <4>1 DEF Lists
      <4>3. t.pc = "parse"
        BY <2>2, <3>2
      <4> QED BY <2>1, <4>2, <4>3 DEF Copied, At, Lists
    <3> QED BY <1>0, <3>1, <3>2 DEF Lists
  <2>10. InSync(w)'
    BY <1>0, <2>1, <2>2 DEF InSync
  <2> QED BY <1>0, <2>1, <2>4, <2>8, <2>9, <2>10, FollowedStep
<1> QED BY <1>1, <1>2, <1>3

LEMMA FollowedReconfigure ==
  ASSUME Inv, Followed, NEW w \in Workers, Reconfigure(w)
  PROVE  Followed'
<1>1. /\ At(w, "parse") /\ Done(w) /\ since' = since \ {w} /\ UNCHANGED <<src, tmp, out>>
  BY DEF Reconfigure, files
<1>0. InSync(w) /\ ~At(w, "fill")
  BY <1>1, LabelSyncs DEF At, SyncLabels
<1>2. /\ Owned' /\ since' = {}
      /\ told \/ w \in since => w \in since /\ \A v \in Workers : ~InSync(v)'
      /\ \A l : Settled(l)' = Settled(l) /\ Entries(l)' = Entries(l)
  BY <1>0, <1>1, SyncEnds
<1>5. told \/ w \in since => \A l \in Lists : Settled(l)
  BY <1>0, <1>1, <1>2 DEF Followed, Copied
<1>3. CASE squid.state = "up" /\ Parses
  <2>1. squid' = [squid EXCEPT !.hup = TRUE] /\ told' = (told \/ w \in since)
    BY <1>3 DEF Reconfigure
  <2>2. squid'.hup /\ squid'.state = "up"
    BY <1>3, <2>1, Typed DEF Squid
  <2> QED BY <1>2, <1>5, <2>1, <2>2 DEF Followed, Lone, Told
<1>4. CASE UNCHANGED <<squid, told>>
  BY <1>2, <1>4 DEF Followed, Lone, Told
<1> QED BY <1>3, <1>4 DEF Reconfigure

LEMMA FollowedSquid ==
  ASSUME Inv, Followed, TakeSignal \/ ExecSquid \/ ContainerStart \/ ContainerStop
  PROVE  Followed'
<1>1. ASSUME \A l \in Lists : Settled(l)
      PROVE  \A l \in Lists : Read[l] = Synced(l, Entries(l))
  BY <1>1 DEF Settled, Read
<1>2. CASE TakeSignal /\ Parses
  <2>1. /\ squid' = [squid EXCEPT !.hup = FALSE, !.loaded = Read]
        /\ UNCHANGED <<src, work, tmp, out, told, since>>
    BY <1>2 DEF TakeSignal, files
  <2>2. squid'.state = squid.state /\ squid'.loaded = Read
    BY <2>1, Typed DEF Squid
  <2>3. \A l : Settled(l)' = Settled(l) /\ Entries(l)' = Entries(l)
    BY <2>1 DEF Settled, Entries
  <2>4. Owned'
    BY <2>1, OwnedFrame DEF Followed
  <2>5. told' => Told'
    BY <1>1, <2>1, <2>2, <2>3 DEF Followed, Told
  <2>6. Lone' /\ \A w \in since' : InSync(w)' => Copied(w)'
    BY <2>1, <2>3 DEF Followed, Lone, InSync, Copied, At, L
  <2> QED BY <2>4, <2>5, <2>6 DEF Followed
<1>3. CASE ExecSquid /\ Parses
  <2>1. /\ squid' = [squid EXCEPT !.state = "up", !.loaded = Read]
        /\ told' = (Entrypoint \in since) /\ since' = since \ {Entrypoint}
        /\ Done(Entrypoint) /\ At(Entrypoint, "parse") /\ UNCHANGED <<src, tmp, out>>
    BY <1>3 DEF ExecSquid, files
  <2>2. squid'.state = "up" /\ squid'.loaded = Read
    BY <2>1, Typed DEF Squid
  <2>3. InSync(Entrypoint) /\ ~At(Entrypoint, "fill")
    BY <2>1, Typed, LabelSyncs DEF At, SyncLabels
  <2>4. /\ Owned' /\ since' = {}
        /\ Entrypoint \in since => \A v \in Workers : ~InSync(v)'
        /\ \A l : Settled(l)' = Settled(l) /\ Entries(l)' = Entries(l)
    BY <2>1, <2>3, SyncEnds, Typed
  <2>5. Entrypoint \in since => \A l \in Lists : Settled(l)
    BY <2>1, <2>3 DEF Followed, Copied
  <2> QED BY <1>1, <2>1, <2>2, <2>4, <2>5 DEF Followed, Lone, Told
<1>4. CASE (TakeSignal \/ ExecSquid) /\ ~Parses
  BY <1>4, FollowedExit DEF TakeSignal, ExecSquid
<1>5. CASE ContainerStart
  <2>1. UNCHANGED <<src, tmp, out>> /\ StartSync(Entrypoint, "start", "open") /\ squid.state # "up"
    BY <1>5 DEF ContainerStart, files
  <2> QED BY <2>1, FollowedStart, Typed DEF Ops
<1>6. CASE ContainerStop
  BY <1>6, FollowedExit DEF ContainerStop
<1> QED BY <1>2, <1>3, <1>4, <1>5, <1>6

LEMMA FollowedNext == ASSUME Inv, Followed, [Next]_vars PROVE Followed'
<1>1. CASE UNCHANGED vars
  <2>1. UNCHANGED <<src, work, tmp, out, squid, told, since>>
    BY <1>1 DEF vars
  <2>2. Owned'
    BY <2>1, OwnedFrame DEF Followed
  <2>3. \A l : Settled(l)' = Settled(l) /\ Entries(l)' = Entries(l)
    BY <2>1 DEF Settled, Entries
  <2>4. Lone' /\ (\A w \in since' : InSync(w)' => Copied(w)') /\ (told' => Told')
    BY <2>1, <2>3 DEF Followed, Lone, InSync, Copied, Told, At, L
  <2> QED BY <2>2, <2>4 DEF Followed
<1>2. ASSUME NEW w \in Threads, Reload(w) PROVE Followed'
  <2>1. UNCHANGED <<src, tmp, out, squid>> /\ StartSync(w, "reload", "open") /\ w \in Workers
    BY <1>2, Typed DEF Reload, files, run
  <2> QED BY <2>1, FollowedStart DEF Ops
<1>3. ASSUME NEW w \in Workers, Step(w) PROVE Followed'
  BY <1>3, FollowedHost, FollowedOpen, FollowedFill, FollowedMove, FollowedReconfigure DEF Step
<1>4. CASE Next
  BY <1>2, <1>3, <1>4, FollowedHost, FollowedSquid DEF Next
<1> QED BY <1>1, <1>4

\* What a lone sync has written, and that what it told squid to read is what
\* the files on the host say now, whatever overlapped before it.
THEOREM CopiesFollow == Spec => []Followed
<1>1. Init => Followed
  BY DEF Init, Followed, Owned, Writers, Lone
<1>2. Inv /\ Followed /\ [Next]_vars => Followed'
  BY FollowedNext
<1> QED BY <1>1, <1>2, ListsInductive, PTL DEF Spec

\* "takes effect after reload": squid blocks and exempts exactly the hosts the
\* files name once a reload that ran alone and began after their last change is
\* answered and the signal taken.
THEOREM ReloadsTakeEffect == Spec => []ReloadTakesEffect
<1>1. Inv /\ Followed => ReloadTakesEffect
  <2> SUFFICES ASSUME Inv, Followed, told, ~squid.hup, NEW host \in Names
               PROVE  /\ Matches(squid.loaded["blocked"], host) <=> Matches(Entries("blocked"), host)
                      /\ Matches(squid.loaded["noauth"], host) <=>
                           Matches({e \in Entries("noauth") : SyncKeepsNoauth(e)}, host)
    BY DEF ReloadTakesEffect
  <2>1. \A l \in Lists : squid.loaded[l] = Synced(l, Entries(l)) /\ Entries(l) \in SUBSET Entry
    BY EntriesTyped DEF Followed, Told
  <2>2. squid.loaded["blocked"] = Uncovered(Entries("blocked"))
    BY <2>1 DEF Synced, Lists
  <2>3. squid.loaded["noauth"] = Uncovered({e \in Entries("noauth") : SyncKeepsNoauth(e)})
    BY <2>1 DEF Synced, Lists
  <2>4. /\ Entries("blocked") \in SUBSET Entry
        /\ {e \in Entries("noauth") : SyncKeepsNoauth(e)} \in SUBSET Entry
    BY <2>1 DEF Lists
  <2> QED BY <2>2, <2>3, <2>4, UncoveredMatches
<1> QED BY <1>1, CopiesFollow, ListsInductive, PTL
=============================================================================
