---------------------------- MODULE AccessChain ----------------------------
(***************************************************************************)
(* The policy of one instance: http_access and ssl_bump of                 *)
(* squid.conf.template, the external group ACLs with squid's cache of      *)
(* their answers, and the AD groups behind them.  A request passes the     *)
(* chain up to its first group in one step and goes on as the helper's     *)
(* answers come in; meanwhile time passes, groups change and the lists are *)
(* reloaded.                                                               *)
(*                                                                         *)
(* A site stands for a domain with its subdomains; DomainNames has the     *)
(* matching of names.  Time is counted in ticks.                           *)
(***************************************************************************)
EXTENDS Naturals, FiniteSets

CONSTANTS
  Conns,     \* client connections
  Users,     \* users that may present a ticket
  Sites,     \* domains
  Literals,  \* IP literals, v4 and v6
  None,      \* no ticket, no SNI, no PTR record
  Ptr,       \* the site a literal's PTR record names, or None
  Requests,  \* the requests clients make
  Ttl,       \* Ttl[g][a]: ticks squid keeps answer a of group g
  Refresh,   \* Refresh[g][a]: the age from which it asks again beside it
  HelperTime,  \* ticks within which a helper answers
  BlockLists, NoauthLists  \* the lists that are loaded

Groups == {"role", "internet"}
Hosts == Sites \cup Literals

Request ==
  [connect : BOOLEAN,
   manager : BOOLEAN,                   \* a cache manager URL
   host : Hosts,                        \* of the URL, or of the CONNECT
   port : {"443", "safe", "unsafe"},
   src : {"school", "localhost", "elsewhere"},
   user : Users \cup {None},            \* the ticket
   sni : Sites \cup {None}]             \* the ClientHello inside the tunnel

ASSUME ChainAssumption ==
  /\ Sites \cap Literals = {} /\ None \notin Users \cup Hosts
  /\ Ptr \in [Literals -> Sites \cup {None}]
  /\ Requests \subseteq Request
  /\ Ttl \in [Groups -> [BOOLEAN -> Nat]] /\ Refresh \in [Groups -> [BOOLEAN -> Nat]]
  /\ HelperTime \in Nat
  /\ BlockLists \subseteq SUBSET Sites /\ NoauthLists \subseteq SUBSET Sites

VARIABLES
  internetGroup,    \* INTERNET_GROUP is set
  blocked, noauth,  \* the lists squid has loaded
  member,   \* member[g]: the users in group g
  changed,  \* history: ticks since changed[g][u], u's membership of g, changed
  cache,    \* cache[g][u]: an answer and its age, or nothing
  lookup,   \* lookup[g][u]: a pending question: its age, and what u was since
  conn      \* each connection: its request and how far it got

lists == <<blocked, noauth>>
helpers == <<cache, lookup>>
vars == <<internetGroup, lists, member, changed, helpers, conn>>

Allowed == {"served", "tunnelled"}
Refused == {"terminated", "denied", "challenged", "failed"}
Conn ==
  [stage : Groups \cup {"peek"} \cup Allowed, req : Requests,
   reloaded : BOOLEAN]  \* history: the lists changed since the request came
Gone == [stage : {"free"} \cup Refused]  \* no request under way
Free == [stage |-> "free"]

Span(g) == Ttl[g][TRUE] + 2 * HelperTime + 1  \* more than a property looks back
Oldest == CHOOSE n \in {Ttl[g][a] : g \in Groups, a \in BOOLEAN} :
            \A g \in Groups, a \in BOOLEAN : Ttl[g][a] <= n
Entry == [answer : BOOLEAN, age : 0..Oldest]
Question == [seen : SUBSET BOOLEAN, age : 0..HelperTime]
OneOrNone(S) == {{}} \cup {{x} : x \in S}

Stage(c) == conn[c].stage
Req(c) == conn[c].req

TypeOK ==
  /\ internetGroup \in BOOLEAN
  /\ blocked \subseteq Sites /\ noauth \subseteq Sites
  /\ member \in [Groups -> SUBSET Users]
  /\ changed \in [Groups -> [Users -> Nat]]
  /\ \A g \in Groups, u \in Users : changed[g][u] <= Span(g)
  /\ cache \in [Groups -> [Users -> OneOrNone(Entry)]]
  /\ lookup \in [Groups -> [Users -> OneOrNone(Question)]]
  /\ conn \in [Conns -> Conn \cup Gone]
  /\ \A c \in Conns :
       /\ Stage(c) \in Groups => Req(c).user # None
       /\ Stage(c) = "internet" => internetGroup

Init ==
  /\ internetGroup \in BOOLEAN
  /\ blocked = {} /\ noauth = {}
  /\ member \in [Groups -> SUBSET Users]
  /\ changed = [g \in Groups |-> [u \in Users |-> Span(g)]]
  /\ cache = [g \in Groups |-> [u \in Users |-> {}]]
  /\ lookup = [g \in Groups |-> [u \in Users |-> {}]]
  /\ conn = [c \in Conns |-> Free]

-----------------------------------------------------------------------------
(* http_access.                                                            *)

\* Mutant: dstdomain without -n asks the literal's owner for its name.
NoauthByPtr(h) == h \in noauth \/ (h \in Literals /\ Ptr[h] \in noauth)

\* acl noauth_domains, with -n, and acl blocked_domains, without.
Noauth(h) == h \in noauth
Blocked(h) == h \in blocked \/ (h \in Literals /\ Ptr[h] \in blocked)

\* The rules in order: the outcome of each, and when it applies.  Those that
\* allow a CONNECT lead to the peek at its ClientHello.
Pass(r) == IF r.connect THEN "peek" ELSE "served"

\* Mutants: the noauth line comes before the line that lets the blocklist
\* win; nobody is challenged.
RulesNoauthFirst(r) ==
  << <<"denied", r.port = "unsafe">>,
     <<"denied", r.connect /\ r.port # "443">>,
     <<"denied", r.connect /\ r.host \in Literals>>,
     <<"served", r.manager /\ r.src = "localhost">>,
     <<"denied", r.manager>>,
     <<Pass(r), Noauth(r.host) /\ r.src = "school">>,
     <<"challenged", r.user = None>>,
     <<"denied", Blocked(r.host)>>,
     <<"role", TRUE>> >>
RulesUnchallenged(r) ==
  << <<"denied", r.port = "unsafe" \/ (r.connect /\ r.port # "443")>>,
     <<"denied", r.connect /\ r.host \in Literals>>,
     <<"denied", Blocked(r.host)>>,
     <<Pass(r), Noauth(r.host) /\ r.src = "school">>,
     <<"role", TRUE>> >>

Rules(r) ==
  << <<"denied", r.port = "unsafe">>,
     <<"denied", r.connect /\ r.port # "443">>,
     <<"denied", r.connect /\ r.host \in Literals>>,
     <<"served", r.manager /\ r.src = "localhost">>,
     <<"denied", r.manager>>,
     <<"denied", Noauth(r.host) /\ Blocked(r.host)>>,
     <<Pass(r), Noauth(r.host) /\ r.src = "school">>,
     <<"challenged", r.user = None>>,
     <<"denied", Blocked(r.host)>>,
     <<"role", TRUE>> >>

FirstRule(r) ==
  LET hits == {k \in DOMAIN Rules(r) : Rules(r)[k][2]} IN
  Rules(r)[CHOOSE k \in hits : \A j \in hits : k <= j][1]

Arrive(c, r) ==
  /\ conn[c] = Free
  /\ LET s == FirstRule(r) IN
     conn' = [conn EXCEPT ![c] =
                IF s \in Refused THEN [stage |-> s]
                ELSE [stage |-> s, req |-> r, reloaded |-> FALSE]]
  /\ UNCHANGED <<internetGroup, lists, member, changed, helpers>>

Goto(c, s) ==
  conn' = [conn EXCEPT ![c] =
             IF s \in Refused THEN [stage |-> s] ELSE [@ EXCEPT !.stage = s]]

-----------------------------------------------------------------------------
(* allow authenticated role_group [internet_group] school_net.             *)

\* Mutants: the Internetsperre is cached like the role; a refusal is cached
\* as long as a grant.
FreshLikeRole(g, u) == \E e \in cache[g][u] : e.age <= Ttl["role"][e.answer]
FreshLikeGrant(g, u) == \E e \in cache[g][u] : e.age <= Ttl[g][TRUE]

\* ttl and negative_ttl of the external ACL.
Fresh(g, u) == \E e \in cache[g][u] : e.age <= Ttl[g][e.answer]

\* The rest of the line once u's answer for g is known; school_net is last.
After(c, g) ==
  IF g = "role" /\ internetGroup THEN "internet"
  ELSE IF Req(c).src = "school" THEN Pass(Req(c)) ELSE "denied"

Ask(g, u) == lookup' = [lookup EXCEPT ![g][u] = {[seen |-> {u \in member[g]}, age |-> 0]}]

\* A usable answer; beside an old one squid asks again (grace).
Hit(c, g) ==
  LET u == Req(c).user IN
  /\ Stage(c) = g /\ Fresh(g, u)
  /\ \E e \in cache[g][u] :
       /\ Goto(c, IF e.answer THEN After(c, g) ELSE "denied")
       /\ IF e.age >= Refresh[g][e.answer] /\ lookup[g][u] = {}
          THEN Ask(g, u) ELSE UNCHANGED lookup
  /\ UNCHANGED <<internetGroup, lists, member, changed, cache>>

Miss(c, g) ==
  LET u == Req(c).user IN
  /\ Stage(c) = g /\ ~Fresh(g, u) /\ lookup[g][u] = {}
  /\ Ask(g, u)
  /\ UNCHANGED <<internetGroup, lists, member, changed, cache, conn>>

\* The helper found u in the group or not at some time since it was asked.
Answer(g, u) ==
  /\ \E q \in lookup[g][u] : \E a \in q.seen :
       cache' = [cache EXCEPT ![g][u] = {[answer |-> a, age |-> 0]}]
  /\ lookup' = [lookup EXCEPT ![g][u] = {}]
  /\ UNCHANGED <<internetGroup, lists, member, changed, conn>>

\* Mutant: who waited goes on waiting, and the helper is asked again.
HelperFailsAgain(g, u) ==
  /\ lookup[g][u] # {}
  /\ lookup' = [lookup EXCEPT ![g][u] = {}]
  /\ UNCHANGED <<internetGroup, lists, member, changed, cache, conn>>

\* BH: no DC answered.  Nothing is cached, and nobody who waited gets in.
HelperFails(g, u) ==
  /\ lookup[g][u] # {}
  /\ lookup' = [lookup EXCEPT ![g][u] = {}]
  /\ conn' = [c \in Conns |->
                IF Stage(c) = g /\ Req(c).user = u /\ ~Fresh(g, u)
                THEN [stage |-> "failed"] ELSE conn[c]]
  /\ UNCHANGED <<internetGroup, lists, member, changed, cache>>

-----------------------------------------------------------------------------
(* ssl_bump: peek at step 1, then terminate or splice.                     *)

\* ssl::server_name: the SNI, or the CONNECT host when there is none.
ServerName(r) == IF r.sni = None THEN r.host ELSE r.sni

\* Mutant: no look at whether an SNI was sent.
TerminatesButSent(r) ==
  \/ ServerName(r) \in blocked
  \/ Noauth(r.host) /\ ServerName(r) \notin noauth

Terminates(r) ==
  \/ ServerName(r) \in blocked
  \/ Noauth(r.host) /\ ServerName(r) \notin noauth
  \/ Noauth(r.host) /\ r.sni = None  \* sni-sent.sh answers ERR

Peek(c) ==
  /\ Stage(c) = "peek"
  /\ Goto(c, IF Terminates(Req(c)) THEN "terminated" ELSE "tunnelled")
  /\ UNCHANGED <<internetGroup, lists, member, changed, helpers>>

Close(c) ==
  /\ Stage(c) \in Allowed \cup Refused
  /\ conn' = [conn EXCEPT ![c] = Free]
  /\ UNCHANGED <<internetGroup, lists, member, changed, helpers>>

-----------------------------------------------------------------------------
(* Around squid.                                                           *)

\* lmnsquid blocklist / noauth reload.
Reload(b, n) ==
  /\ b # blocked \/ n # noauth
  /\ blocked' = b /\ noauth' = n
  /\ conn' = [c \in Conns |->
                IF conn[c] \in Gone THEN conn[c] ELSE [conn[c] EXCEPT !.reloaded = TRUE]]
  /\ UNCHANGED <<internetGroup, member, changed, helpers>>

\* An admin or the Internetsperre puts u into group g or takes u out.
ChangeGroup(g, u) ==
  LET now == u \notin member[g] IN
  /\ member' = [member EXCEPT ![g] = IF now THEN @ \cup {u} ELSE @ \ {u}]
  /\ changed' = [changed EXCEPT ![g][u] = 0]
  /\ lookup' = [lookup EXCEPT ![g][u] = {[q EXCEPT !.seen = @ \cup {now}] : q \in @}]
  /\ UNCHANGED <<internetGroup, lists, cache, conn>>

\* Squid goes on at once with what it knows; a helper answers in time.
Tick ==
  /\ \A c \in Conns, g \in Groups :
       Stage(c) = g => ~Fresh(g, Req(c).user) /\ lookup[g][Req(c).user] # {}
  /\ \A g \in Groups, u \in Users : \A q \in lookup[g][u] : q.age < HelperTime
  /\ cache' = [g \in Groups |-> [u \in Users |->
                 {[e EXCEPT !.age = @ + 1] : e \in {f \in cache[g][u] : f.age < Oldest}}]]
  /\ lookup' = [g \in Groups |-> [u \in Users |->
                  {[q EXCEPT !.age = @ + 1] : q \in lookup[g][u]}]]
  /\ changed' = [g \in Groups |-> [u \in Users |->
                    IF changed[g][u] < Span(g) THEN changed[g][u] + 1 ELSE Span(g)]]
  /\ UNCHANGED <<internetGroup, lists, member, conn>>

Next ==
  \/ \E c \in Conns :
       \/ \E r \in Requests : Arrive(c, r)
       \/ \E g \in Groups : Hit(c, g) \/ Miss(c, g)
       \/ Peek(c) \/ Close(c)
  \/ \E g \in Groups, u \in Users : Answer(g, u) \/ HelperFails(g, u) \/ ChangeGroup(g, u)
  \/ \E b \in BlockLists, n \in NoauthLists : Reload(b, n)
  \/ Tick

Spec == Init /\ [][Next]_vars

\* Squid takes up what it can decide, and the helper answers or fails.  That
\* clients come, or that time passes, nobody promises.
Fairness ==
  /\ \A c \in Conns : WF_vars(\E g \in Groups : Hit(c, g) \/ Miss(c, g)) /\ WF_vars(Peek(c))
  /\ \A g \in Groups, u \in Users : WF_vars(Answer(g, u) \/ HelperFails(g, u))

FairSpec == Spec /\ Fairness

-----------------------------------------------------------------------------
(* Properties.  A reload while a request is under way may judge its steps  *)
(* by different lists; the properties of the lists are about the others.   *)

Settled(c) == conn[c] \notin Gone /\ ~conn[c].reloaded
Manages(r) == r.manager /\ r.src = "localhost"

\* Without a ticket nothing gets through but the cache manager's own host
\* and, from the school's subnets, a domain that is on the noauth list and
\* not blocked; never an address, whatever its PTR record says (ADR-016).
TicketOrListed ==
  \A c \in Conns : Settled(c) /\ Stage(c) \in Allowed \cup {"peek"} /\ Req(c).user = None =>
    \/ Manages(Req(c))
    \/ Req(c).src = "school" /\ Req(c).host \in noauth \ blocked

\* The blocklist wins: no list, ticket or group opens a blocked site, under
\* its own name or as the server a tunnel to another site asks for.
BlocklistWins ==
  \A c \in Conns : Settled(c) /\ Stage(c) \in Allowed =>
    \/ Manages(Req(c))
    \/ /\ Req(c).host \notin blocked
       /\ Stage(c) = "tunnelled" =>
            Req(c).host \in Sites /\ ServerName(Req(c)) \notin blocked

\* A tunnel opened through the noauth list is never handed to a name that
\* is not on it, nor left without a name.
NoauthTunnelKeepsName ==
  \A c \in Conns : Settled(c) /\ Stage(c) = "tunnelled" /\ Req(c).host \in noauth =>
    Req(c).sni \in noauth

LeftWithin(g, u, n) == u \in member[g] \/ changed[g][u] <= n
JoinedWithin(g, u, n) == u \notin member[g] \/ changed[g][u] <= n

\* Removing a user from a group takes effect within the group's ttl and the
\* time of one lookup: after that no request of the user passes the group's
\* line, although squid refreshes answers in the background and answers from
\* its cache meanwhile (Internetsperre: "within ~10s WITHOUT a re-login").
RemovalTakesEffect ==
  [][\A c \in Conns : Stage(c) \in Groups /\ conn'[c].stage \in {"served", "peek"} =>
       \A g \in {"role"} \cup (IF internetGroup THEN {"internet"} ELSE {}) :
         LeftWithin(g, Req(c).user,
                    IF g = Stage(c) THEN Ttl[g][TRUE] + HelperTime
                    ELSE Ttl[g][TRUE] + 2 * HelperTime)]_vars

\* A user put into a group is refused for it only as long as negative_ttl
\* and one lookup last.
JoiningTakesEffect ==
  [][\A c \in Conns : Stage(c) \in Groups /\ conn'[c].stage = "denied" =>
       \/ JoinedWithin(Stage(c), Req(c).user, Ttl[Stage(c)][FALSE] + HelperTime)
       \/ Req(c).src # "school"]_vars

\* Every request comes to an end, whatever the helpers answer, groups and lists
\* change: nobody waits for a DC that does not answer (fail-closed).
EveryRequestAnswered ==
  \A c \in Conns : Stage(c) \in Groups \cup {"peek"} ~> Stage(c) \in Allowed \cup Refused
=============================================================================
