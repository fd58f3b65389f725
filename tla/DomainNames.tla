---------------------------- MODULE DomainNames ----------------------------
(***************************************************************************)
(* The entries of a domain list and the rules blocklist.py, lists-sync.sh  *)
(* and squid apply to them.  A name is a sequence of labels, lower-cased;  *)
(* of a label only what it is made of matters.                             *)
(***************************************************************************)
EXTENDS Naturals, Sequences, FiniteSets

CONSTANTS
  Names,   \* the names admins write and clients ask for
  Digits,  \* labels of digits only
  Hexes,   \* labels 0x and hex digits
  Dashed   \* labels of digits and hyphens, like 1-2

ASSUME NamesAssumption ==
  /\ Digits \cap Hexes = {} /\ Dashed \cap (Digits \cup Hexes) = {}
  /\ \A n \in Names : n \in Seq(STRING) /\ n # <<>>

Entry == [dot : BOOLEAN, labels : Names]
Dotted(n) == [dot |-> TRUE, labels |-> n]
Bare(n) == [dot |-> FALSE, labels |-> n]

Last(n) == n[Len(n)]
Parents(n) == {SubSeq(n, k, Len(n)) : k \in 2..Len(n)}

\* inet_aton reads every label as a number.
Address(n) == \A k \in DOMAIN n : n[k] \in Digits \cup Hexes

\* normalize_noauth_domain.
AcceptsNoauth(n) == Len(n) >= 2 /\ Last(n) \notin Digits /\ ~Address(n)

\* The awk filter of lists-sync.sh: its last label needs a letter.
SyncKeepsNoauth(e) ==
  LET n == e.labels IN
  Len(n) >= 2 /\ Last(n) \notin Digits \cup Dashed /\ ~Address(n)

\* Mutant: the bare name beside its own dotted form is not looked for.
UncoveredKeepsBare(list) ==
  LET dotted == {e.labels : e \in {f \in list : f.dot}} IN
  {e \in list : Parents(e.labels) \cap dotted = {}}

\* The entries no other, dotted entry covers.
Uncovered(list) ==
  LET dotted == {e.labels : e \in {f \in list : f.dot}} IN
  {e \in list : /\ e.dot \/ e.labels \notin dotted
                /\ Parents(e.labels) \cap dotted = {}}

\* dstdomain and ssl::server_name: a leading dot means every subdomain too.
Matches(list, host) ==
  \E e \in list : host = e.labels \/ (e.dot /\ e.labels \in Parents(host))

\* "FATAL: Bungled": squid 6 does not load a list with a covered entry.
Loads(list) ==
  \A e, f \in list :
    e # f /\ f.dot => e.labels # f.labels /\ f.labels \notin Parents(e.labels)
=============================================================================
