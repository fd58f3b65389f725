------------------------- MODULE AccessChainProofs -------------------------
(***************************************************************************)
(* For any users, sites, lists, requests, ttls and helper times: what the  *)
(* chain lets through, and how long an old group membership counts.        *)
(***************************************************************************)
EXTENDS AccessChain, TLAPS

\* What a request has shown by the time it has come this far.
Passed(c) ==
  \/ Stage(c) = "served" /\ Manages(Req(c))
  \/ /\ Req(c).host \notin blocked
     /\ Req(c).connect => Req(c).host \in Sites
     /\ Req(c).user = None => Req(c).src = "school" /\ Req(c).host \in noauth
     /\ Stage(c) \in {"peek", "tunnelled"} => Req(c).connect
     /\ Stage(c) = "tunnelled" =>
          /\ ServerName(Req(c)) \notin blocked
          /\ Req(c).host \in noauth => Req(c).sni \in noauth

Policy == \A c \in Conns : Settled(c) => Passed(c)

\* How old the membership may be that an answer, or a question, is about.
AnswersTimed ==
  \A g \in Groups, u \in Users : \A e \in cache[g][u] :
    IF e.answer THEN LeftWithin(g, u, e.age + HelperTime)
    ELSE JoinedWithin(g, u, e.age + HelperTime)
QuestionsTimed ==
  \A g \in Groups, u \in Users : \A q \in lookup[g][u] :
    /\ TRUE \in q.seen => LeftWithin(g, u, q.age)
    /\ FALSE \in q.seen => JoinedWithin(g, u, q.age)

\* A request that passed the role waits for one lookup of the second group at
\* most.
RoleTime == Ttl["role"][TRUE] + HelperTime
Waited(u) ==
  \/ LeftWithin("role", u, RoleTime)
  \/ \E q \in lookup["internet"][u] : LeftWithin("role", u, RoleTime + q.age)
  \/ Fresh("internet", u) /\ LeftWithin("role", u, RoleTime + HelperTime)
WaitsTimed == \A c \in Conns : Stage(c) = "internet" => Waited(Req(c).user)

IInv == TypeOK /\ Policy /\ AnswersTimed /\ QuestionsTimed /\ WaitsTimed

USE ChainAssumption DEF ChainAssumption

-----------------------------------------------------------------------------
(* The rules.                                                              *)

\* The first rule that applies is one of the ten, and none before it applies.
LEMMA FirstApplies ==
  ASSUME NEW r \in Request
  PROVE  \E k \in 1..10 :
           /\ FirstRule(r) = Rules(r)[k][1] /\ Rules(r)[k][2]
           /\ \A j \in 1..(k - 1) : ~Rules(r)[j][2]
<1> DEFINE hits == {k \in DOMAIN Rules(r) : Rules(r)[k][2]}
           least(k) == \A j \in hits : k <= j
<1>1. DOMAIN Rules(r) = 1..10 /\ Rules(r)[10][2]
  BY DEF Rules
<1>2. hits \subseteq 1..10 /\ 10 \in hits
  BY <1>1
<1>3. \E k \in hits : least(k)
  <2> HIDE DEF hits
  <2>1. CASE 1 \in hits
    BY <1>2, <2>1
  <2>2. CASE 1 \notin hits /\ 2 \in hits
    BY <1>2, <2>2
  <2>3. CASE 1 \notin hits /\ 2 \notin hits /\ 3 \in hits
    BY <1>2, <2>3
  <2>4. CASE hits \cap 1..3 = {} /\ 4 \in hits
    BY <1>2, <2>4
  <2>5. CASE hits \cap 1..4 = {} /\ 5 \in hits
    BY <1>2, <2>5
  <2>6. CASE hits \cap 1..5 = {} /\ 6 \in hits
    BY <1>2, <2>6
  <2>7. CASE hits \cap 1..6 = {} /\ 7 \in hits
    BY <1>2, <2>7
  <2>8. CASE hits \cap 1..7 = {} /\ 8 \in hits
    BY <1>2, <2>8
  <2>9. CASE hits \cap 1..8 = {} /\ 9 \in hits
    BY <1>2, <2>9
  <2>10. CASE hits \cap 1..9 = {}
    BY <1>2, <2>10
  <2> QED BY <2>1, <2>2, <2>3, <2>4, <2>5, <2>6, <2>7, <2>8, <2>9, <2>10
<1> DEFINE k == CHOOSE n \in hits : least(n)
<1>4. k \in hits /\ least(k)
  BY <1>3
<1>5. FirstRule(r) = Rules(r)[k][1]
  BY DEF FirstRule
<1> HIDE DEF k
<1>6. k \in 1..10 /\ Rules(r)[k][2]
  BY <1>2, <1>4
<1>7. ASSUME NEW j \in 1..(k - 1) PROVE ~Rules(r)[j][2]
  BY <1>1, <1>4, <1>6, <1>7
<1> QED BY <1>5, <1>6, <1>7

\* What the chain decides at once, and what a request that goes on has shown.
LEMMA Outcome ==
  ASSUME NEW r \in Request
  PROVE  \/ FirstRule(r) \in Refused
         \/ FirstRule(r) = "served" /\ Manages(r)
         \/ /\ FirstRule(r) = "role" /\ r.user # None
            /\ r.host \notin blocked /\ (r.connect => r.host \in Sites)
         \/ /\ FirstRule(r) = Pass(r) /\ r.src = "school" /\ r.host \in noauth
            /\ r.host \notin blocked /\ (r.connect => r.host \in Sites)
<1>1. PICK k \in 1..10 :
        /\ FirstRule(r) = Rules(r)[k][1] /\ Rules(r)[k][2]
        /\ \A j \in 1..(k - 1) : ~Rules(r)[j][2]
  BY FirstApplies
<1>2. r.host \in Sites \cup Literals
  BY DEF Request, Hosts
<1>3. CASE k \in {1, 2, 3, 5, 6, 8, 9}
  BY <1>1, <1>3 DEF Rules, Refused
<1>4. CASE k = 4
  <2>1. Rules(r)[4][1] = "served" /\ Rules(r)[4][2] = (r.manager /\ r.src = "localhost")
    BY DEF Rules
  <2> QED BY <1>1, <1>4, <2>1 DEF Manages
<1>5. CASE k = 7
  <2>1. ~(r.connect /\ r.host \in Literals)
    BY <1>1, <1>5 DEF Rules
  <2>2. ~(Noauth(r.host) /\ Blocked(r.host))
    BY <1>1, <1>5 DEF Rules
  <2>3. FirstRule(r) = Pass(r) /\ Noauth(r.host) /\ r.src = "school"
    BY <1>1, <1>5 DEF Rules
  <2> QED BY <1>2, <2>1, <2>2, <2>3 DEF Noauth, Blocked
<1>6. CASE k = 10
  <2>1. /\ Rules(r)[3][2] = (r.connect /\ r.host \in Literals)
        /\ Rules(r)[8][2] = (r.user = None) /\ Rules(r)[9][2] = Blocked(r.host)
        /\ Rules(r)[10][1] = "role"
    BY DEF Rules
  <2>2. ~Rules(r)[3][2] /\ ~Rules(r)[8][2] /\ ~Rules(r)[9][2]
    BY <1>1, <1>6
  <2> QED BY <1>1, <1>2, <1>6, <2>1, <2>2 DEF Blocked
<1> QED BY <1>3, <1>4, <1>5, <1>6

-----------------------------------------------------------------------------
(* Types.                                                                  *)

Waiting == Groups \cup {"peek"}
Stages == Waiting \cup Allowed \cup Refused

ConnTyped ==
  /\ conn \in [Conns -> Conn \cup Gone]
  /\ \A c \in Conns :
       /\ Stage(c) \in Groups => Req(c).user # None
       /\ Stage(c) = "internet" => internetGroup
ListsTyped == internetGroup \in BOOLEAN /\ blocked \subseteq Sites /\ noauth \subseteq Sites
ChangesTyped ==
  /\ member \in [Groups -> SUBSET Users]
  /\ changed \in [Groups -> [Users -> Nat]]
  /\ \A g \in Groups, u \in Users : changed[g][u] <= Span(g)
HelpersTyped ==
  /\ cache \in [Groups -> [Users -> OneOrNone(Entry)]]
  /\ lookup \in [Groups -> [Users -> OneOrNone(Question)]]

LEMMA Typed == TypeOK <=> ConnTyped /\ ListsTyped /\ ChangesTyped /\ HelpersTyped
BY DEF TypeOK, ConnTyped, ListsTyped, ChangesTyped, HelpersTyped

LEMMA TypedNext ==
  ASSUME TypeOK, ConnTyped',
         ListsTyped' \/ UNCHANGED <<internetGroup, lists>>,
         ChangesTyped' \/ UNCHANGED <<member, changed>>,
         HelpersTyped' \/ UNCHANGED helpers
  PROVE  TypeOK'
<1>1. ListsTyped' /\ HelpersTyped'
  BY Typed DEF ListsTyped, HelpersTyped, lists, helpers
<1>2. ChangesTyped'
  BY Typed DEF ChangesTyped
<1> QED BY <1>1, <1>2 DEF TypeOK, ConnTyped, ListsTyped, ChangesTyped, HelpersTyped

LEMMA Numbers ==
  /\ Oldest \in Nat /\ \A g \in Groups, a \in BOOLEAN : Ttl[g][a] \in 0..Oldest
  /\ \A g \in Groups : Span(g) \in Nat
<1> DEFINE ttls == {Ttl[g][a] : g \in Groups, a \in BOOLEAN}
           most(n) == \A g \in Groups, a \in BOOLEAN : Ttl[g][a] <= n
<1>1. \A g \in Groups, a \in BOOLEAN : Ttl[g][a] \in Nat /\ Ttl[g][a] \in ttls
  OBVIOUS
<1>0. \A n \in ttls : n \in Nat
  BY <1>1
<1>3. Oldest = CHOOSE n \in ttls : most(n)
  BY DEF Oldest
<1> HIDE DEF ttls
<1>2. \E n \in ttls : most(n)
  <2> DEFINE w == Ttl["role"][TRUE]
             x == Ttl["role"][FALSE]
             y == Ttl["internet"][TRUE]
             z == Ttl["internet"][FALSE]
  <2>1. w \in ttls /\ x \in ttls /\ y \in ttls /\ z \in ttls
    BY <1>1, Zenon DEF Groups
  <2>2. w \in Nat /\ x \in Nat /\ y \in Nat /\ z \in Nat
    BY <2>1, <1>0, Zenon
  <2>3. ASSUME NEW n, w <= n, x <= n, y <= n, z <= n PROVE most(n)
    BY <2>3, Zenon DEF Groups
  <2> HIDE DEF ttls, most, w, x, y, z
  <2>4. \/ x <= w /\ y <= w /\ z <= w
        \/ w <= x /\ y <= x /\ z <= x
        \/ w <= y /\ x <= y /\ z <= y
        \/ w <= z /\ x <= z /\ y <= z
    BY <2>2
  <2>5. w <= w /\ x <= x /\ y <= y /\ z <= z
    BY <2>2
  <2> QED BY <2>1, <2>3, <2>4, <2>5
<1>4. Oldest \in ttls /\ most(Oldest)
  <2> DEFINE best == CHOOSE n \in ttls : most(n)
  <2>1. best \in ttls /\ most(best)
    BY <1>2, Zenon
  <2> QED BY <1>3, <2>1, Zenon
<1>5. Oldest \in Nat
  BY <1>0, <1>4
<1>6. \A g \in Groups, a \in BOOLEAN : Ttl[g][a] \in 0..Oldest
  BY <1>1, <1>4, <1>5
<1>7. \A g \in Groups : Ttl[g][TRUE] \in Nat
  BY <1>1, Zenon
<1>8. ASSUME NEW g \in Groups PROVE Span(g) \in Nat
  <2>1. Ttl[g][TRUE] \in Nat
    BY <1>7
  <2>2. HelperTime \in Nat
    OBVIOUS
  <2>3. ASSUME NEW m \in Nat, NEW h \in Nat PROVE m + 2 * h + 1 \in Nat
    OBVIOUS
  <2>4. Ttl[g][TRUE] + 2 * HelperTime + 1 \in Nat
    BY <2>1, <2>2, <2>3, Zenon
  <2> QED BY <2>4, Zenon DEF Span
<1> QED BY <1>5, <1>6, <1>8

LEMMA UserOf ==
  ASSUME TypeOK, NEW c \in Conns, Stage(c) \in Waiting \cup Allowed
  PROVE  conn[c] \in Conn /\ conn[c] \notin Gone /\ Req(c) \in Request
         /\ (Stage(c) \in Groups => Req(c).user \in Users)
<1>1. conn[c] \in Conn /\ conn[c] \notin Gone
  BY DEF TypeOK, Stage, Waiting, Conn, Gone, Allowed, Refused, Groups
<1>2. Req(c) \in Request
  BY <1>1 DEF Conn, Req
<1> QED BY <1>1, <1>2 DEF TypeOK, Request

\* A request that goes on, or ends.
LEMMA Moves ==
  ASSUME TypeOK, NEW c \in Conns, Stage(c) \in Waiting, NEW s \in Stages, Goto(c, s)
  PROVE  /\ conn' \in [Conns -> Conn \cup Gone]
         /\ \A d \in Conns \ {c} : conn'[d] = conn[d]
         /\ Stage(c)' = s
         /\ s \in Refused => conn'[c] \in Gone
         /\ s \notin Refused =>
              conn'[c] \in Conn /\ Req(c)' = Req(c) /\ conn'[c].reloaded = conn[c].reloaded
<1>1. conn[c] \in Conn /\ conn \in [Conns -> Conn \cup Gone]
  BY UserOf DEF TypeOK
<1>2. CASE s \in Refused
  <2>1. conn' = [conn EXCEPT ![c] = [stage |-> s]] /\ [stage |-> s] \in Gone
    BY <1>2 DEF Goto, Gone
  <2> QED BY <1>1, <1>2, <2>1 DEF Stage
<1>3. CASE s \notin Refused
  <2>1. conn' = [conn EXCEPT ![c] = [conn[c] EXCEPT !.stage = s]]
    BY <1>3 DEF Goto
  <2>2. [conn[c] EXCEPT !.stage = s] \in Conn
    BY <1>1, <1>3 DEF Conn, Stages, Waiting
  <2> QED BY <1>1, <1>3, <2>1, <2>2 DEF Stage, Req, Conn
<1> QED BY <1>2, <1>3

-----------------------------------------------------------------------------
(* Every step keeps the types.                                             *)

\* A request takes the next line of the access rule, or a decision.
LEMMA AfterStage ==
  ASSUME TypeOK, NEW c \in Conns, NEW g \in Groups, Stage(c) = g
  PROVE  /\ After(c, g) \in {"internet", "served", "peek", "denied"}
         /\ After(c, g) = "internet" => g = "role" /\ internetGroup
         /\ g = "role" /\ internetGroup => After(c, g) = "internet"
         /\ After(c, g) \in {"served", "peek"} => After(c, g) = Pass(Req(c))
BY DEF After, Pass

LEMMA ArriveTyped ==
  ASSUME TypeOK, NEW c \in Conns, NEW r \in Requests, Arrive(c, r)
  PROVE  /\ ConnTyped' /\ \A d \in Conns \ {c} : conn'[d] = conn[d]
         /\ \/ conn'[c] \in Gone
            \/ /\ Stage(c)' = FirstRule(r) /\ Req(c)' = r
               /\ FirstRule(r) \in {"served", "peek", "role"}
<1> DEFINE s == FirstRule(r)
<1>1. r \in Request
  OBVIOUS
<1>2. s \in Refused \cup {"served", "peek", "role"} /\ (s = "role" => r.user # None)
  BY <1>1, Outcome DEF Pass, Refused
<1> HIDE DEF s
<1>3. conn \in [Conns -> Conn \cup Gone]
  BY DEF TypeOK
<1>4. CASE s \in Refused
  <2>1. conn' = [conn EXCEPT ![c] = [stage |-> s]] /\ [stage |-> s] \in Gone
    BY <1>4 DEF Arrive, Gone, s
  <2>2. Stage(c)' = s /\ \A d \in Conns \ {c} : conn'[d] = conn[d]
    BY <1>3, <2>1 DEF Stage
  <2>3. conn' \in [Conns -> Conn \cup Gone] /\ s \notin Groups
    BY <1>3, <1>4, <2>1 DEF Refused, Groups
  <2> QED BY <1>3, <2>1, <2>2, <2>3 DEF TypeOK, ConnTyped, Stage, Req, Groups, Arrive
<1>5. CASE s \notin Refused
  <2>1. conn' = [conn EXCEPT ![c] = [stage |-> s, req |-> r, reloaded |-> FALSE]]
    BY <1>5 DEF Arrive, s
  <2>2. [stage |-> s, req |-> r, reloaded |-> FALSE] \in Conn
    BY <1>2, <1>5 DEF Conn, Groups, Allowed
  <2>3. /\ Stage(c)' = s /\ Req(c)' = r /\ \A d \in Conns \ {c} : conn'[d] = conn[d]
        /\ conn' \in [Conns -> Conn \cup Gone]
    BY <1>3, <2>1, <2>2 DEF Stage, Req
  <2> QED BY <1>2, <1>5, <2>3 DEF TypeOK, ConnTyped, Stage, Req, Groups, Arrive, s
<1> QED BY <1>4, <1>5

\* What follows from a move for the types of the connections.
LEMMA MoveTyped ==
  ASSUME TypeOK, NEW c \in Conns, Stage(c) \in Waiting, NEW s \in Stages, Goto(c, s),
         s \in Groups => Req(c).user # None, s = "internet" => internetGroup,
         internetGroup' = internetGroup
  PROVE  ConnTyped'
<1>1. /\ conn' \in [Conns -> Conn \cup Gone]
      /\ \A d \in Conns \ {c} : conn'[d] = conn[d]
      /\ Stage(c)' = s
      /\ s \notin Refused => Req(c)' = Req(c)
  BY Moves
<1>2. s \in Groups => s \notin Refused
  BY DEF Groups, Refused
<1> QED BY <1>1, <1>2 DEF ConnTyped, TypeOK, Stage, Req

LEMMA AskTyped ==
  ASSUME TypeOK, NEW g \in Groups, NEW u \in Users, Ask(g, u)
  PROVE  /\ lookup' \in [Groups -> [Users -> OneOrNone(Question)]]
         /\ lookup'[g][u] = {[seen |-> {u \in member[g]}, age |-> 0]}
         /\ \A h \in Groups, v \in Users : <<h, v>> # <<g, u>> => lookup'[h][v] = lookup[h][v]
<1> DEFINE q == [seen |-> {u \in member[g]}, age |-> 0]
<1>1. {q} \in OneOrNone(Question)
  <2>1. (u \in member[g]) \in BOOLEAN /\ 0 \in 0..HelperTime
    OBVIOUS
  <2>2. {u \in member[g]} \in SUBSET BOOLEAN
    BY <2>1
  <2>3. \A s \in SUBSET BOOLEAN : [seen |-> s, age |-> 0] \in Question
    BY <2>1 DEF Question
  <2>4. q \in Question
    BY <2>2, <2>3, Zenon
  <2> QED BY <2>4, Zenon DEF OneOrNone
<1>2. lookup' = [lookup EXCEPT ![g][u] = {q}] /\ lookup \in [Groups -> [Users -> OneOrNone(Question)]]
  BY DEF Ask, TypeOK
<1> HIDE DEF q
<1>3. /\ lookup' \in [Groups -> [Users -> OneOrNone(Question)]] /\ lookup'[g][u] = {q}
      /\ \A h \in Groups, v \in Users : <<h, v>> # <<g, u>> => lookup'[h][v] = lookup[h][v]
  BY <1>1, <1>2
<1> QED BY <1>3 DEF q

LEMMA HitTyped ==
  ASSUME TypeOK, NEW c \in Conns, NEW g \in Groups, Hit(c, g) PROVE TypeOK'
<1>1. Req(c).user \in Users /\ Stage(c) = g /\ Stage(c) \in Waiting /\ Req(c).user # None
  BY UserOf DEF Hit, Waiting
<1>2. PICK s \in Stages : /\ Goto(c, s)
                          /\ s = "internet" => internetGroup
                          /\ s \in Groups => s = "internet"
  <2>1. PICK e \in cache[g][Req(c).user] : Goto(c, IF e.answer THEN After(c, g) ELSE "denied")
    BY DEF Hit
  <2>2. PICK s \in {After(c, g), "denied"} : Goto(c, s)
    BY <2>1
  <2>3. /\ s \in Stages /\ (s = "internet" => internetGroup)
        /\ s \in Groups => s = "internet"
    BY <1>1, AfterStage DEF Stages, Waiting, Allowed, Refused, Groups
  <2> QED BY <2>2, <2>3
<1>3. ConnTyped'
  BY <1>1, <1>2, MoveTyped DEF Hit
<1>4. lookup' \in [Groups -> [Users -> OneOrNone(Question)]]
  BY <1>1, AskTyped DEF Hit, TypeOK
<1>5. HelpersTyped'
  BY <1>4 DEF Hit, TypeOK, HelpersTyped
<1> QED BY <1>3, <1>5, TypedNext DEF Hit

LEMMA MissTyped ==
  ASSUME TypeOK, NEW c \in Conns, NEW g \in Groups, Miss(c, g) PROVE TypeOK'
<1>1. Req(c).user \in Users
  BY UserOf DEF Miss, Waiting
<1>2. lookup' \in [Groups -> [Users -> OneOrNone(Question)]]
  BY <1>1, AskTyped DEF Miss
<1>3. HelpersTyped' /\ ConnTyped'
  BY <1>2 DEF Miss, TypeOK, HelpersTyped, ConnTyped, Stage, Req
<1> QED BY <1>3, TypedNext DEF Miss

LEMMA PeekTyped ==
  ASSUME TypeOK, NEW c \in Conns, Peek(c) PROVE TypeOK'
<1>1. Stage(c) \in Waiting
  BY DEF Peek, Waiting
<1>2. PICK s \in {"terminated", "tunnelled"} : Goto(c, s)
  BY DEF Peek
<1>3. s \in Stages /\ s \notin Groups
  BY DEF Stages, Allowed, Refused, Groups
<1>4. ConnTyped'
  BY <1>1, <1>2, <1>3, MoveTyped DEF Peek, Groups
<1> QED BY <1>4, TypedNext DEF Peek

LEMMA CloseTyped ==
  ASSUME TypeOK, NEW c \in Conns, Close(c) PROVE TypeOK'
<1>1. Free \in Gone /\ Free.stage \notin Groups
  BY DEF Free, Gone, Groups
<1>2. conn' = [conn EXCEPT ![c] = Free]
  BY DEF Close
<1> HIDE DEF Free
<1>3. ConnTyped'
  BY <1>1, <1>2 DEF Close, ConnTyped, TypeOK, Stage, Req, Groups
<1> QED BY <1>3, TypedNext DEF Close

LEMMA OneOf ==
  ASSUME NEW S, NEW X \in OneOrNone(S)
  PROVE  /\ X = {} \/ \E x \in S : X = {x}
         /\ \A x \in X : x \in S /\ X = {x}
BY DEF OneOrNone

LEMMA AnswerTyped ==
  ASSUME TypeOK, NEW g \in Groups, NEW u \in Users, Answer(g, u)
  PROVE  /\ TypeOK'
         /\ lookup'[g][u] = {}
         /\ \E q \in lookup[g][u] : \E a \in q.seen : cache'[g][u] = {[answer |-> a, age |-> 0]}
         /\ \A h \in Groups, v \in Users : <<h, v>> # <<g, u>> =>
              lookup'[h][v] = lookup[h][v] /\ cache'[h][v] = cache[h][v]
<1>0. PICK q \in lookup[g][u] : \E a \in q.seen :
        cache' = [cache EXCEPT ![g][u] = {[answer |-> a, age |-> 0]}]
  BY DEF Answer
<1>1. PICK a \in q.seen : cache' = [cache EXCEPT ![g][u] = {[answer |-> a, age |-> 0]}]
  BY <1>0
<1>2. lookup[g][u] \in OneOrNone(Question) /\ cache \in [Groups -> [Users -> OneOrNone(Entry)]]
      /\ lookup \in [Groups -> [Users -> OneOrNone(Question)]]
  BY DEF TypeOK
<1>3. a \in BOOLEAN
  <2>1. q \in Question
    BY <1>0, <1>2, OneOf
  <2> QED BY <1>1, <2>1 DEF Question
<1> DEFINE e == [answer |-> a, age |-> 0]
<1>4. e \in Entry
  BY <1>3, Numbers DEF Entry
<1> HIDE DEF e
<1>5. {e} \in OneOrNone(Entry) /\ {} \in OneOrNone(Question)
  BY <1>4 DEF OneOrNone
<1>6. cache' = [cache EXCEPT ![g][u] = {e}] /\ lookup' = [lookup EXCEPT ![g][u] = {}]
  BY <1>1 DEF Answer, e
<1>7. HelpersTyped'
  BY <1>2, <1>5, <1>6 DEF HelpersTyped
<1>8. ConnTyped'
  BY DEF Answer, TypeOK, ConnTyped, Stage, Req
<1>9. TypeOK'
  BY <1>7, <1>8, TypedNext DEF Answer
<1>10. /\ lookup'[g][u] = {} /\ cache'[g][u] = {e}
       /\ \A h \in Groups, v \in Users : <<h, v>> # <<g, u>> =>
            lookup'[h][v] = lookup[h][v] /\ cache'[h][v] = cache[h][v]
  BY <1>2, <1>6
<1> QED BY <1>1, <1>9, <1>10 DEF e

LEMMA HelperFailsTyped ==
  ASSUME TypeOK, NEW g \in Groups, NEW u \in Users, HelperFails(g, u)
  PROVE  /\ TypeOK'
         /\ lookup'[g][u] = {}
         /\ \A h \in Groups, v \in Users : <<h, v>> # <<g, u>> => lookup'[h][v] = lookup[h][v]
         /\ \A c \in Conns : \/ conn'[c] = conn[c] /\ (Stage(c) = g /\ Req(c).user = u => Fresh(g, u))
                            \/ conn'[c] \in Gone
<1>1. lookup' = [lookup EXCEPT ![g][u] = {}] /\ lookup \in [Groups -> [Users -> OneOrNone(Question)]]
  BY DEF HelperFails, TypeOK
<1>2. {} \in OneOrNone(Question)
  BY DEF OneOrNone
<1>3. HelpersTyped'
  BY <1>1, <1>2 DEF HelpersTyped, HelperFails, TypeOK
<1>4. [stage |-> "failed"] \in Gone /\ "failed" \notin Groups
  BY DEF Gone, Refused, Groups
<1>5. \A c \in Conns : conn'[c] = IF Stage(c) = g /\ Req(c).user = u /\ ~Fresh(g, u)
                                THEN [stage |-> "failed"] ELSE conn[c]
  BY DEF HelperFails
<1>6. ConnTyped'
  <2>1. conn' \in [Conns -> Conn \cup Gone]
    BY <1>4 DEF HelperFails, TypeOK
  <2>2. ASSUME NEW c \in Conns
        PROVE  conn'[c] = conn[c] \/ conn'[c].stage \notin Groups
    BY <1>4, <1>5
  <2>3. "internet" \in Groups
    BY DEF Groups
  <2> QED BY <2>1, <2>2, <2>3 DEF ConnTyped, TypeOK, Stage, Req, HelperFails
<1>7. TypeOK'
  BY <1>3, <1>6, TypedNext DEF HelperFails
<1> QED BY <1>1, <1>4, <1>5, <1>7

LEMMA ReloadTyped ==
  ASSUME TypeOK, NEW b \in BlockLists, NEW n \in NoauthLists, Reload(b, n)
  PROVE  /\ TypeOK'
         /\ \A c \in Conns : /\ conn'[c] \in Gone \/ conn'[c].reloaded
                            /\ Stage(c)' = Stage(c)
                            /\ Stage(c) \in Groups => Req(c)' = Req(c)
<1>1. ASSUME NEW c \in Conns
      PROVE  /\ conn'[c] \in Conn \cup Gone
             /\ conn'[c] \in Gone \/ conn'[c].reloaded
             /\ Stage(c)' = Stage(c)
             /\ Stage(c) \in Groups => Req(c)' = Req(c)
  <2>1. CASE conn[c] \in Gone
    <3>1. conn'[c] = conn[c]
      BY <2>1 DEF Reload
    <3> QED BY <2>1, <3>1 DEF Stage, Req
  <2>2. CASE conn[c] \notin Gone
    <3>1. conn'[c] = [conn[c] EXCEPT !.reloaded = TRUE] /\ conn[c] \in Conn
      BY <2>2 DEF Reload, TypeOK
    <3> QED BY <3>1 DEF Conn, Stage, Req
  <2> QED BY <2>1, <2>2
<1>2. conn' = [c \in Conns |-> conn'[c]]
  BY DEF Reload
<1>3. conn' \in [Conns -> Conn \cup Gone]
  BY <1>1, <1>2
<1>4. ConnTyped'
  <2>1. "internet" \in Groups
    BY DEF Groups
  <2>2. internetGroup' = internetGroup
    BY DEF Reload
  <2>3. ASSUME NEW c \in Conns
        PROVE  /\ Stage(c)' \in Groups => Req(c)'.user # None
               /\ Stage(c)' = "internet" => internetGroup'
    BY <1>1, <2>1, <2>2 DEF TypeOK
  <2> QED BY <1>3, <2>3 DEF ConnTyped
<1>5. ListsTyped'
  BY DEF Reload, ListsTyped, TypeOK
<1> QED BY <1>1, <1>4, <1>5, TypedNext DEF Reload

LEMMA ChangeGroupTyped ==
  ASSUME TypeOK, NEW g \in Groups, NEW u \in Users, ChangeGroup(g, u)
  PROVE  /\ TypeOK'
         /\ changed'[g][u] = 0
         /\ \A h \in Groups, v \in Users : <<h, v>> # <<g, u>> =>
              /\ changed'[h][v] = changed[h][v] /\ (v \in member'[h] <=> v \in member[h])
              /\ lookup'[h][v] = lookup[h][v]
         /\ \A p \in lookup[g][u] : \E q \in lookup'[g][u] : q.age = p.age
<1> DEFINE now == u \notin member[g]
           asked == {[q EXCEPT !.seen = @ \cup {now}] : q \in lookup[g][u]}
<1>1. /\ member' = [member EXCEPT ![g] = IF now THEN @ \cup {u} ELSE @ \ {u}]
      /\ changed' = [changed EXCEPT ![g][u] = 0]
      /\ lookup' = [lookup EXCEPT ![g][u] = asked]
      /\ UNCHANGED <<internetGroup, lists, cache, conn>>
  BY DEF ChangeGroup
<1>2. /\ member \in [Groups -> SUBSET Users] /\ changed \in [Groups -> [Users -> Nat]]
      /\ lookup \in [Groups -> [Users -> OneOrNone(Question)]]
  BY DEF TypeOK
<1>3. ASSUME NEW p \in lookup[g][u]
      PROVE  [p EXCEPT !.seen = @ \cup {now}] \in Question
  <2>1. p \in Question /\ now \in BOOLEAN
    BY <1>2, OneOf
  <2> HIDE DEF now
  <2> QED BY <2>1 DEF Question
<1>4. asked \in OneOrNone(Question)
  <2>1. CASE lookup[g][u] = {}
    BY <2>1 DEF OneOrNone
  <2>2. CASE \E p \in Question : lookup[g][u] = {p}
    <3>1. PICK p \in Question : lookup[g][u] = {p}
      BY <2>2
    <3>2. asked = {[p EXCEPT !.seen = @ \cup {now}]}
      BY <3>1
    <3> QED BY <1>3, <3>1, <3>2, Zenon DEF OneOrNone
  <2> QED BY <1>2, <2>1, <2>2, OneOf
<1>5. \A p \in lookup[g][u] : \E q \in asked : q.age = p.age
  <2>1. ASSUME NEW p \in lookup[g][u]
        PROVE  [p EXCEPT !.seen = @ \cup {now}].age = p.age
    <3>1. p \in Question
      BY <1>2, OneOf
    <3> HIDE DEF now
    <3> QED BY <3>1 DEF Question
  <2> HIDE DEF now
  <2> QED BY <2>1, Zenon
<1> HIDE DEF asked
<1>6. lookup' \in [Groups -> [Users -> OneOrNone(Question)]] /\ lookup'[g][u] = asked
      /\ \A h \in Groups, v \in Users : <<h, v>> # <<g, u>> => lookup'[h][v] = lookup[h][v]
  BY <1>1, <1>2, <1>4
<1>7. changed' \in [Groups -> [Users -> Nat]] /\ changed'[g][u] = 0
      /\ \A h \in Groups, v \in Users : <<h, v>> # <<g, u>> => changed'[h][v] = changed[h][v]
  BY <1>1, <1>2
<1>8. member' \in [Groups -> SUBSET Users]
      /\ \A h \in Groups, v \in Users : <<h, v>> # <<g, u>> => (v \in member'[h] <=> v \in member[h])
  <2>1. PICK M \in {member[g] \cup {u}, member[g] \ {u}} : member' = [member EXCEPT ![g] = M]
    BY DEF ChangeGroup
  <2> QED BY <1>2, <2>1
<1>9. ChangesTyped'
  <2>1. \A h \in Groups, v \in Users : changed'[h][v] <= Span(h)
    <3>1. \A h \in Groups, v \in Users : changed[h][v] <= Span(h)
      BY DEF TypeOK
    <3>2. ASSUME NEW h \in Groups, NEW v \in Users PROVE changed'[h][v] <= Span(h)
      <4>1. CASE h = g /\ v = u
        BY <1>7, <4>1, Numbers
      <4>2. CASE ~(h = g /\ v = u)
        BY <1>7, <3>1, <4>2
      <4> QED BY <4>1, <4>2
    <3> QED BY <3>2
  <2> QED BY <1>7, <1>8, <2>1 DEF ChangesTyped
<1>10. ConnTyped' /\ HelpersTyped'
  BY <1>1, <1>6 DEF TypeOK, ConnTyped, HelpersTyped, Stage, Req
<1>11. TypeOK'
  BY <1>9, <1>10, TypedNext DEF ChangeGroup
<1> QED BY <1>5, <1>6, <1>7, <1>8, <1>11

LEMMA TickTyped ==
  ASSUME TypeOK, Tick
  PROVE  /\ TypeOK'
         /\ \A g \in Groups, u \in Users :
              /\ changed'[g][u] = IF changed[g][u] < Span(g) THEN changed[g][u] + 1 ELSE Span(g)
              /\ \A e \in cache'[g][u] : \E f \in cache[g][u] :
                   e.answer = f.answer /\ e.age = f.age + 1
              /\ \A q \in lookup'[g][u] : \E p \in lookup[g][u] :
                   q.seen = p.seen /\ q.age = p.age + 1
              /\ \A p \in lookup[g][u] : \E q \in lookup'[g][u] : q.age = p.age + 1
<1> DEFINE kept(g, u) == {f \in cache[g][u] : f.age < Oldest}
           older(g, u) == {[e EXCEPT !.age = @ + 1] : e \in kept(g, u)}
           asked(g, u) == {[q EXCEPT !.age = @ + 1] : q \in lookup[g][u]}
           since(g, u) == IF changed[g][u] < Span(g) THEN changed[g][u] + 1 ELSE Span(g)
<1>1. /\ cache' = [g \in Groups |-> [u \in Users |-> older(g, u)]]
      /\ lookup' = [g \in Groups |-> [u \in Users |-> asked(g, u)]]
      /\ changed' = [g \in Groups |-> [u \in Users |-> since(g, u)]]
      /\ UNCHANGED <<internetGroup, lists, member, conn>>
      /\ \A g \in Groups, u \in Users : \A q \in lookup[g][u] : q.age < HelperTime
  BY DEF Tick
<1>2. ASSUME NEW g \in Groups, NEW u \in Users
      PROVE  /\ older(g, u) \in OneOrNone(Entry)
             /\ \A e \in older(g, u) : \E f \in cache[g][u] :
                  e.answer = f.answer /\ e.age = f.age + 1
  <2>1. cache[g][u] \in OneOrNone(Entry)
    BY DEF TypeOK
  <2>2. ASSUME NEW f \in kept(g, u)
        PROVE  LET e == [f EXCEPT !.age = @ + 1] IN
               e \in Entry /\ e.answer = f.answer /\ e.age = f.age + 1
    <3>1. f \in Entry /\ f.age < Oldest
      BY <2>1, OneOf
    <3> QED BY <3>1, Numbers DEF Entry
  <2>3. CASE kept(g, u) = {}
    BY <2>3 DEF OneOrNone
  <2>4. CASE kept(g, u) # {}
    <3>0. PICK f \in kept(g, u) : TRUE
      BY <2>4
    <3>4. cache[g][u] = {f}
      BY <2>1, <3>0, OneOf
    <3>1. kept(g, u) = {f}
      BY <3>0, <3>4
    <3>2. older(g, u) = {[f EXCEPT !.age = @ + 1]}
      BY <3>1
    <3>3. f \in cache[g][u]
      BY <3>1
    <3> HIDE DEF older
    <3> QED BY <2>2, <3>1, <3>2, <3>3, Zenon DEF OneOrNone
  <2> QED BY <2>3, <2>4
<1>3. ASSUME NEW g \in Groups, NEW u \in Users
      PROVE  /\ asked(g, u) \in OneOrNone(Question)
             /\ \A q \in asked(g, u) : \E p \in lookup[g][u] :
                  q.seen = p.seen /\ q.age = p.age + 1
             /\ \A p \in lookup[g][u] : \E q \in asked(g, u) : q.age = p.age + 1
  <2>1. lookup[g][u] \in OneOrNone(Question)
    BY DEF TypeOK
  <2>2. ASSUME NEW p \in lookup[g][u]
        PROVE  LET q == [p EXCEPT !.age = @ + 1] IN
               q \in Question /\ q.seen = p.seen /\ q.age = p.age + 1
    <3>1. p \in Question /\ p.age < HelperTime
      BY <1>1, <2>1, OneOf
    <3> QED BY <3>1 DEF Question
  <2>3. CASE lookup[g][u] = {}
    BY <2>3 DEF OneOrNone
  <2>4. CASE lookup[g][u] # {}
    <3>0. PICK p \in lookup[g][u] : TRUE
      BY <2>4
    <3>1. lookup[g][u] = {p}
      BY <2>1, <3>0, OneOf
    <3>2. asked(g, u) = {[p EXCEPT !.age = @ + 1]}
      BY <3>1
    <3> HIDE DEF asked
    <3> QED BY <2>2, <3>1, <3>2, Zenon DEF OneOrNone
  <2> QED BY <2>3, <2>4
<1>4. ASSUME NEW g \in Groups, NEW u \in Users
      PROVE  since(g, u) \in Nat /\ since(g, u) <= Span(g)
  <2>1. changed[g][u] \in Nat /\ Span(g) \in Nat
    BY Numbers DEF TypeOK
  <2> QED BY <2>1
<1> HIDE DEF older, asked, since
<1>5. HelpersTyped'
  BY <1>1, <1>2, <1>3 DEF HelpersTyped
<1>6. ChangesTyped'
  BY <1>1, <1>4 DEF ChangesTyped, TypeOK
<1>7. ConnTyped'
  BY <1>1 DEF TypeOK, ConnTyped, Stage, Req
<1>8. TypeOK'
  BY <1>1, <1>5, <1>6, <1>7, TypedNext
<1>9. \A g \in Groups, u \in Users :
        /\ cache'[g][u] = older(g, u) /\ lookup'[g][u] = asked(g, u)
        /\ changed'[g][u] = since(g, u)
  BY <1>1
<1> QED BY <1>2, <1>3, <1>8, <1>9 DEF since

-----------------------------------------------------------------------------
(* Every step keeps the policy.                                            *)

LEMMA SameConn ==
  ASSUME Policy, NEW d \in Conns, conn'[d] = conn[d], UNCHANGED lists
  PROVE  (Settled(d) => Passed(d))'
BY DEF Policy, Settled, Passed, Stage, Req, lists

LEMMA PolicyMove ==
  ASSUME TypeOK, Policy, NEW c \in Conns, Stage(c) \in Waiting, NEW s \in Stages, Goto(c, s),
         UNCHANGED lists, s # "tunnelled",
         s = "peek" => Req(c).connect
  PROVE  Policy'
<1>1. /\ \A d \in Conns \ {c} : conn'[d] = conn[d]
      /\ Stage(c)' = s
      /\ s \in Refused => conn'[c] \in Gone
      /\ s \notin Refused => Req(c)' = Req(c) /\ conn'[c].reloaded = conn[c].reloaded
  BY Moves
<1>2. CASE s \in Refused
  BY <1>1, <1>2, SameConn DEF Policy, Settled
<1>3. CASE s \notin Refused
  <2>1. Settled(c)' => Settled(c)
    BY <1>1, <1>3, UserOf DEF Settled
  <2>2. Stage(c) # "served"
    BY DEF Waiting, Groups
  <2>3. (Settled(c) => Passed(c))'
    BY <1>1, <1>3, <2>1, <2>2 DEF Policy, Passed, lists
  <2> QED BY <1>1, <2>3, SameConn DEF Policy
<1> QED BY <1>2, <1>3

LEMMA PeekPolicy ==
  ASSUME TypeOK, Policy, NEW c \in Conns, Peek(c) PROVE Policy'
<1>1. Stage(c) = "peek" /\ Stage(c) \in Waiting /\ UNCHANGED lists
  BY DEF Peek, Waiting
<1>2. CASE Goto(c, "terminated")
  BY <1>1, <1>2, PolicyMove DEF Stages, Refused
<1>3. CASE Goto(c, "tunnelled") /\ ~Terminates(Req(c))
  <2>1. "tunnelled" \in Stages /\ "tunnelled" \notin Refused
    BY DEF Stages, Allowed, Refused
  <2>2. /\ \A d \in Conns \ {c} : conn'[d] = conn[d]
        /\ Stage(c)' = "tunnelled"
        /\ Req(c)' = Req(c) /\ conn'[c].reloaded = conn[c].reloaded
    BY <1>1, <1>3, <2>1, Moves
  <2>3. Settled(c)' => Settled(c)
    BY <1>1, <2>2, UserOf DEF Settled
  <2>4. Settled(c) => Passed(c)
    BY DEF Policy
  <2>5. /\ ServerName(Req(c)) \notin blocked
        /\ Req(c).host \in noauth => Req(c).sni \in noauth
    BY <1>3 DEF Terminates, ServerName, Noauth
  <2>6. (Settled(c) => Passed(c))'
    BY <1>1, <2>2, <2>3, <2>4, <2>5 DEF Passed, lists
  <2> QED BY <1>1, <2>2, <2>6, SameConn DEF Policy
<1> QED BY <1>2, <1>3 DEF Peek

LEMMA ArrivePolicy ==
  ASSUME TypeOK, Policy, NEW c \in Conns, NEW r \in Requests, Arrive(c, r) PROVE Policy'
<1>1. UNCHANGED lists /\ r \in Request
  BY DEF Arrive
<1>2. \A d \in Conns \ {c} : conn'[d] = conn[d]
  BY ArriveTyped
<1>3. CASE conn'[c] \in Gone
  BY <1>1, <1>2, <1>3, SameConn DEF Policy, Settled
<1>4. CASE /\ Stage(c)' = FirstRule(r) /\ Req(c)' = r
           /\ FirstRule(r) \in {"served", "peek", "role"}
  <2>1. Pass(r) = IF r.connect THEN "peek" ELSE "served"
    BY DEF Pass
  <2>2. Passed(c)'
    BY <1>1, <1>4, <2>1, Outcome DEF Passed, lists, Refused
  <2> QED BY <1>1, <1>2, <2>2, SameConn DEF Policy
<1> QED BY <1>3, <1>4, ArriveTyped

LEMMA PolicyInv ==
  ASSUME TypeOK, Policy, [Next]_vars PROVE Policy'
<1>1. ASSUME NEW c \in Conns, NEW r \in Requests, Arrive(c, r) PROVE Policy'
  BY <1>1, ArrivePolicy
<1>2. ASSUME NEW c \in Conns, NEW g \in Groups, Hit(c, g) PROVE Policy'
  <2>1. Stage(c) = g /\ Stage(c) \in Waiting /\ UNCHANGED lists
    BY <1>2 DEF Hit, Waiting
  <2>2. PICK s \in {After(c, g), "denied"} : Goto(c, s)
    <3>1. PICK e \in cache[g][Req(c).user] : Goto(c, IF e.answer THEN After(c, g) ELSE "denied")
      BY <1>2 DEF Hit
    <3> QED BY <3>1
  <2>3. s \in Stages /\ s # "tunnelled" /\ (s = "peek" => Req(c).connect)
    BY <2>1, AfterStage DEF Stages, Waiting, Allowed, Refused, Groups, Pass
  <2> QED BY <2>1, <2>2, <2>3, PolicyMove
<1>3. ASSUME NEW c \in Conns, Peek(c) PROVE Policy'
  BY <1>3, PeekPolicy
<1>4. ASSUME NEW c \in Conns, Close(c) PROVE Policy'
  <2>1. conn' = [conn EXCEPT ![c] = Free] /\ Free \in Gone /\ UNCHANGED lists
    BY <1>4 DEF Close, Free, Gone
  <2>2. conn'[c] \in Gone /\ \A d \in Conns \ {c} : conn'[d] = conn[d]
    BY <2>1 DEF TypeOK
  <2> QED BY <2>1, <2>2, SameConn DEF Policy, Settled
<1>5. ASSUME NEW g \in Groups, NEW u \in Users, HelperFails(g, u) PROVE Policy'
  <2>1. \A c \in Conns : conn'[c] = conn[c] \/ conn'[c] \in Gone
    BY <1>5, HelperFailsTyped
  <2> QED BY <1>5, <2>1, SameConn DEF Policy, Settled, HelperFails
<1>6. ASSUME NEW b \in BlockLists, NEW n \in NoauthLists, Reload(b, n) PROVE Policy'
  <2>1. ASSUME NEW c \in Conns PROVE conn'[c] \in Gone \/ conn'[c].reloaded
    <3>1. CASE conn[c] \in Gone
      BY <1>6, <3>1 DEF Reload
    <3>2. CASE conn[c] \notin Gone
      BY <1>6, <3>2 DEF Reload, TypeOK, Conn
    <3> QED BY <3>1, <3>2
  <2> QED BY <2>1 DEF Policy, Settled
<1>7. ASSUME UNCHANGED conn, UNCHANGED lists PROVE Policy'
  BY <1>7, SameConn DEF Policy
<1>8. ASSUME NEW c \in Conns, NEW g \in Groups, Miss(c, g) PROVE Policy'
  BY <1>7, <1>8 DEF Miss
<1>9. ASSUME NEW g \in Groups, NEW u \in Users, Answer(g, u) \/ ChangeGroup(g, u) PROVE Policy'
  BY <1>7, <1>9 DEF Answer, ChangeGroup
<1>10. CASE Tick
  BY <1>7, <1>10 DEF Tick
<1>11. CASE UNCHANGED vars
  BY <1>7, <1>11 DEF vars
<1> QED BY <1>1, <1>2, <1>3, <1>4, <1>5, <1>6, <1>8, <1>9, <1>10, <1>11 DEF Next

-----------------------------------------------------------------------------
(* Every step keeps the times.                                             *)

LEMMA RoleTimeNat == RoleTime \in Nat /\ HelperTime \in Nat
<1>1. Ttl["role"][TRUE] \in Nat
  <2>1. \A g \in Groups, a \in BOOLEAN : Ttl[g][a] \in Nat
    OBVIOUS
  <2> QED BY <2>1, Zenon DEF Groups
<1>2. \A m, n \in Nat : m + n \in Nat
  OBVIOUS
<1>3. HelperTime \in Nat
  OBVIOUS
<1> QED BY <1>1, <1>2, <1>3, Zenon DEF RoleTime

LEMMA SinceSame ==
  ASSUME UNCHANGED <<member, changed>>, NEW g, NEW u, NEW n
  PROVE  /\ LeftWithin(g, u, n)' = LeftWithin(g, u, n)
         /\ JoinedWithin(g, u, n)' = JoinedWithin(g, u, n)
BY DEF LeftWithin, JoinedWithin

LEMMA SinceLonger ==
  ASSUME TypeOK, NEW g \in Groups, NEW u \in Users, NEW m \in Nat, NEW n \in Nat, m <= n
  PROVE  /\ LeftWithin(g, u, m) => LeftWithin(g, u, n)
         /\ JoinedWithin(g, u, m) => JoinedWithin(g, u, n)
<1>1. changed[g][u] \in Nat
  BY DEF TypeOK
<1> QED BY <1>1 DEF LeftWithin, JoinedWithin

LEMMA SinceTick ==
  ASSUME TypeOK, Tick, NEW g \in Groups, NEW u \in Users, NEW n \in Nat
  PROVE  /\ LeftWithin(g, u, n) => LeftWithin(g, u, n + 1)'
         /\ JoinedWithin(g, u, n) => JoinedWithin(g, u, n + 1)'
<1>1. /\ changed'[g][u] = IF changed[g][u] < Span(g) THEN changed[g][u] + 1 ELSE Span(g)
      /\ changed[g][u] \in Nat /\ Span(g) \in Nat /\ changed[g][u] <= Span(g)
  BY TickTyped, Numbers DEF TypeOK
<1>2. changed[g][u] <= n => changed'[g][u] <= n + 1
  BY <1>1
<1>3. member' = member
  BY DEF Tick
<1> QED BY <1>2, <1>3 DEF LeftWithin, JoinedWithin

LEMMA SinceChange ==
  ASSUME TypeOK, NEW g \in Groups, NEW u \in Users, ChangeGroup(g, u),
         NEW h \in Groups, NEW v \in Users, NEW n \in Nat
  PROVE  /\ LeftWithin(h, v, n) \/ <<h, v>> = <<g, u>> => LeftWithin(h, v, n)'
         /\ JoinedWithin(h, v, n) \/ <<h, v>> = <<g, u>> => JoinedWithin(h, v, n)'
<1>1. CASE <<h, v>> = <<g, u>>
  <2>1. h = g /\ v = u
    BY <1>1
  <2>2. changed'[h][v] = 0
    BY <2>1, ChangeGroupTyped
  <2> QED BY <2>2 DEF LeftWithin, JoinedWithin
<1>2. CASE <<h, v>> # <<g, u>>
  BY <1>2, ChangeGroupTyped DEF LeftWithin, JoinedWithin
<1> QED BY <1>1, <1>2

\* The ages in the cache and in the questions are numbers.
LEMMA Ages ==
  ASSUME TypeOK, NEW g \in Groups, NEW u \in Users
  PROVE  /\ \A e \in cache[g][u] : /\ e.age \in Nat /\ e.age + HelperTime \in Nat
                                   /\ cache[g][u] = {e} /\ e.answer \in BOOLEAN
         /\ \A q \in lookup[g][u] : /\ q.age \in Nat /\ q.age <= HelperTime
                                    /\ lookup[g][u] = {q} /\ q.seen \subseteq BOOLEAN
<1>1. cache[g][u] \in OneOrNone(Entry) /\ lookup[g][u] \in OneOrNone(Question)
  BY DEF TypeOK
<1>2. ASSUME NEW e \in cache[g][u]
      PROVE  e.age \in Nat /\ e.age + HelperTime \in Nat /\ cache[g][u] = {e} /\ e.answer \in BOOLEAN
  <2>1. e \in Entry /\ cache[g][u] = {e}
    BY <1>1, OneOf
  <2> QED BY <2>1, Numbers DEF Entry
<1>3. ASSUME NEW q \in lookup[g][u]
      PROVE  q.age \in Nat /\ q.age <= HelperTime /\ lookup[g][u] = {q} /\ q.seen \subseteq BOOLEAN
  <2>1. q \in Question /\ lookup[g][u] = {q}
    BY <1>1, OneOf
  <2> QED BY <2>1 DEF Question
<1> QED BY <1>2, <1>3

LEMMA AskTimed ==
  ASSUME TypeOK, QuestionsTimed, NEW g \in Groups, NEW u \in Users, Ask(g, u),
         UNCHANGED <<member, changed>>
  PROVE  QuestionsTimed'
<1>1. ASSUME NEW h \in Groups, NEW v \in Users, <<h, v>> # <<g, u>>, NEW q \in lookup'[h][v]
      PROVE  /\ TRUE \in q.seen => LeftWithin(h, v, q.age)'
             /\ FALSE \in q.seen => JoinedWithin(h, v, q.age)'
  <2>1. lookup'[h][v] = lookup[h][v]
    BY <1>1, AskTyped
  <2>2. /\ TRUE \in q.seen => LeftWithin(h, v, q.age)
        /\ FALSE \in q.seen => JoinedWithin(h, v, q.age)
    BY <1>1, <2>1 DEF QuestionsTimed
  <2> QED BY <2>2, SinceSame
<1>2. ASSUME NEW q \in lookup'[g][u]
      PROVE  /\ TRUE \in q.seen => LeftWithin(g, u, q.age)'
             /\ FALSE \in q.seen => JoinedWithin(g, u, q.age)'
  <2>1. q.seen = {u \in member[g]}
    BY AskTyped
  <2>2. TRUE \in q.seen => u \in member[g]
    BY <2>1, Zenon
  <2>3. FALSE \in q.seen => u \notin member[g]
    BY <2>1, Zenon
  <2> QED BY <2>2, <2>3 DEF LeftWithin, JoinedWithin
<1> QED BY <1>1, <1>2 DEF QuestionsTimed

LEMMA AgesNext ==
  ASSUME TypeOK', NEW g \in Groups, NEW u \in Users
  PROVE  /\ \A e \in cache'[g][u] : e.age \in Nat /\ e.answer \in BOOLEAN
         /\ \A q \in lookup'[g][u] : q.age \in Nat
<1>1. cache'[g][u] \in OneOrNone(Entry) /\ lookup'[g][u] \in OneOrNone(Question)
  BY DEF TypeOK
<1>2. ASSUME NEW e \in cache'[g][u] PROVE e.age \in Nat /\ e.answer \in BOOLEAN
  <2>1. e \in Entry
    BY <1>1, OneOf
  <2> QED BY <2>1, Numbers DEF Entry
<1>3. ASSUME NEW q \in lookup'[g][u] PROVE q.age \in Nat
  <2>1. q \in Question
    BY <1>1, OneOf
  <2> QED BY <2>1 DEF Question
<1> QED BY <1>2, <1>3

\* No question was added for anybody.
LEMMA QuestionsFewer ==
  ASSUME QuestionsTimed, UNCHANGED <<member, changed>>,
         \A g \in Groups, u \in Users : lookup'[g][u] \subseteq lookup[g][u]
  PROVE  QuestionsTimed'
<1>1. ASSUME NEW g \in Groups, NEW u \in Users, NEW q \in lookup'[g][u]
      PROVE  /\ TRUE \in q.seen => LeftWithin(g, u, q.age)'
             /\ FALSE \in q.seen => JoinedWithin(g, u, q.age)'
  <2>1. /\ TRUE \in q.seen => LeftWithin(g, u, q.age)
        /\ FALSE \in q.seen => JoinedWithin(g, u, q.age)
    BY <1>1 DEF QuestionsTimed
  <2> QED BY <2>1, SinceSame
<1> QED BY <1>1 DEF QuestionsTimed

LEMMA AnswersSame ==
  ASSUME AnswersTimed, UNCHANGED <<member, changed, cache>> PROVE AnswersTimed'
<1>1. ASSUME NEW g \in Groups, NEW u \in Users, NEW e \in cache'[g][u]
      PROVE  IF e.answer THEN LeftWithin(g, u, e.age + HelperTime)'
             ELSE JoinedWithin(g, u, e.age + HelperTime)'
  <2>1. IF e.answer THEN LeftWithin(g, u, e.age + HelperTime)
        ELSE JoinedWithin(g, u, e.age + HelperTime)
    BY <1>1 DEF AnswersTimed
  <2> QED BY <2>1, SinceSame
<1> QED BY <1>1 DEF AnswersTimed

LEMMA AnswerTimed ==
  ASSUME TypeOK, AnswersTimed, QuestionsTimed, NEW g \in Groups, NEW u \in Users, Answer(g, u)
  PROVE  AnswersTimed' /\ QuestionsTimed'
<1>1. UNCHANGED <<member, changed>>
  BY DEF Answer
<1>2. PICK q \in lookup[g][u] : \E a \in q.seen : cache'[g][u] = {[answer |-> a, age |-> 0]}
  BY AnswerTyped
<1>3. PICK a \in q.seen : cache'[g][u] = {[answer |-> a, age |-> 0]}
  BY <1>2
<1>4. q.age \in Nat /\ q.age <= HelperTime /\ q.seen \subseteq BOOLEAN /\ HelperTime \in Nat
  BY <1>2, Ages, RoleTimeNat
<1>5. /\ a = TRUE => LeftWithin(g, u, q.age)
      /\ a = FALSE => JoinedWithin(g, u, q.age)
  BY <1>3 DEF QuestionsTimed
<1>6. /\ a = TRUE => LeftWithin(g, u, HelperTime)'
      /\ a = FALSE => JoinedWithin(g, u, HelperTime)'
  BY <1>1, <1>4, <1>5, SinceLonger, SinceSame
<1>7. ASSUME NEW e \in cache'[g][u]
      PROVE  IF e.answer THEN LeftWithin(g, u, e.age + HelperTime)'
             ELSE JoinedWithin(g, u, e.age + HelperTime)'
  <2>1. e.answer = a /\ e.age = 0
    BY <1>3
  <2>2. e.age + HelperTime = HelperTime
    BY <1>4, <2>1
  <2>3. a = TRUE \/ a = FALSE
    BY <1>3, <1>4
  <2> QED BY <1>6, <2>1, <2>2, <2>3
<1>8. ASSUME NEW h \in Groups, NEW v \in Users, <<h, v>> # <<g, u>>, NEW e \in cache'[h][v]
      PROVE  IF e.answer THEN LeftWithin(h, v, e.age + HelperTime)'
             ELSE JoinedWithin(h, v, e.age + HelperTime)'
  <2>1. cache'[h][v] = cache[h][v]
    BY <1>8, AnswerTyped
  <2>2. IF e.answer THEN LeftWithin(h, v, e.age + HelperTime)
        ELSE JoinedWithin(h, v, e.age + HelperTime)
    BY <1>8, <2>1 DEF AnswersTimed
  <2> QED BY <1>1, <2>2, SinceSame
<1>9. AnswersTimed'
  BY <1>7, <1>8 DEF AnswersTimed
<1>10. \A h \in Groups, v \in Users : lookup'[h][v] \subseteq lookup[h][v]
  <2>1. ASSUME NEW h \in Groups, NEW v \in Users PROVE lookup'[h][v] \subseteq lookup[h][v]
    <3>1. CASE <<h, v>> = <<g, u>>
      <4>1. h = g /\ v = u
        BY <3>1
      <4> QED BY <4>1, AnswerTyped
    <3>2. CASE <<h, v>> # <<g, u>>
      BY <3>2, AnswerTyped
    <3> QED BY <3>1, <3>2
  <2> QED BY <2>1
<1> QED BY <1>1, <1>9, <1>10, QuestionsFewer

LEMMA ChangeGroupTimed ==
  ASSUME TypeOK, AnswersTimed, QuestionsTimed, NEW g \in Groups, NEW u \in Users, ChangeGroup(g, u)
  PROVE  AnswersTimed' /\ QuestionsTimed'
<1>1. TypeOK' /\ UNCHANGED cache
  BY ChangeGroupTyped DEF ChangeGroup
<1>2. ASSUME NEW h \in Groups, NEW v \in Users, NEW e \in cache'[h][v]
      PROVE  IF e.answer THEN LeftWithin(h, v, e.age + HelperTime)'
             ELSE JoinedWithin(h, v, e.age + HelperTime)'
  <2>1. IF e.answer THEN LeftWithin(h, v, e.age + HelperTime)
        ELSE JoinedWithin(h, v, e.age + HelperTime)
    BY <1>1, <1>2 DEF AnswersTimed
  <2>2. e.age + HelperTime \in Nat
    BY <1>1, <1>2, Ages
  <2> QED BY <2>1, <2>2, SinceChange
<1>3. ASSUME NEW h \in Groups, NEW v \in Users, NEW q \in lookup'[h][v]
      PROVE  /\ TRUE \in q.seen => LeftWithin(h, v, q.age)'
             /\ FALSE \in q.seen => JoinedWithin(h, v, q.age)'
  <2>1. q.age \in Nat
    BY <1>1, <1>3, AgesNext
  <2>2. CASE <<h, v>> = <<g, u>>
    BY <2>1, <2>2, SinceChange
  <2>3. CASE <<h, v>> # <<g, u>>
    <3>1. lookup'[h][v] = lookup[h][v]
      BY <2>3, ChangeGroupTyped
    <3>2. /\ TRUE \in q.seen => LeftWithin(h, v, q.age)
          /\ FALSE \in q.seen => JoinedWithin(h, v, q.age)
      BY <1>3, <3>1 DEF QuestionsTimed
    <3> QED BY <2>1, <3>2, SinceChange
  <2> QED BY <2>2, <2>3
<1> QED BY <1>2, <1>3 DEF AnswersTimed, QuestionsTimed

LEMMA TickTimed ==
  ASSUME TypeOK, AnswersTimed, QuestionsTimed, Tick
  PROVE  AnswersTimed' /\ QuestionsTimed'
<1>2. ASSUME NEW h \in Groups, NEW v \in Users, NEW e \in cache'[h][v]
      PROVE  IF e.answer THEN LeftWithin(h, v, e.age + HelperTime)'
             ELSE JoinedWithin(h, v, e.age + HelperTime)'
  <2>1. PICK f \in cache[h][v] : e.answer = f.answer /\ e.age = f.age + 1
    BY <1>2, TickTyped
  <2>2. IF f.answer THEN LeftWithin(h, v, f.age + HelperTime)
        ELSE JoinedWithin(h, v, f.age + HelperTime)
    BY <2>1 DEF AnswersTimed
  <2>3. /\ f.age \in Nat /\ HelperTime \in Nat /\ f.age + HelperTime \in Nat
        /\ f.age + HelperTime + 1 = e.age + HelperTime
    <3>1. f.age \in Nat /\ HelperTime \in Nat
      BY <2>1, Ages, RoleTimeNat
    <3>2. \A m, n \in Nat : m + n \in Nat /\ m + n + 1 = (m + 1) + n
      OBVIOUS
    <3>3. f.age + HelperTime \in Nat /\ f.age + HelperTime + 1 = (f.age + 1) + HelperTime
      BY <3>1, <3>2, Zenon
    <3>4. (f.age + 1) + HelperTime = e.age + HelperTime
      BY <2>1, Zenon
    <3> QED BY <3>1, <3>3, <3>4, Zenon
  <2>4. /\ LeftWithin(h, v, f.age + HelperTime) => LeftWithin(h, v, f.age + HelperTime + 1)'
        /\ JoinedWithin(h, v, f.age + HelperTime) => JoinedWithin(h, v, f.age + HelperTime + 1)'
    BY <2>3, SinceTick
  <2> QED BY <2>1, <2>2, <2>3, <2>4
<1>3. ASSUME NEW h \in Groups, NEW v \in Users, NEW q \in lookup'[h][v]
      PROVE  /\ TRUE \in q.seen => LeftWithin(h, v, q.age)'
             /\ FALSE \in q.seen => JoinedWithin(h, v, q.age)'
  <2>1. PICK p \in lookup[h][v] : q.seen = p.seen /\ q.age = p.age + 1
    BY <1>3, TickTyped
  <2>2. /\ TRUE \in p.seen => LeftWithin(h, v, p.age)
        /\ FALSE \in p.seen => JoinedWithin(h, v, p.age)
    BY <2>1 DEF QuestionsTimed
  <2>3. p.age \in Nat
    BY <2>1, Ages
  <2>4. /\ LeftWithin(h, v, p.age) => LeftWithin(h, v, p.age + 1)'
        /\ JoinedWithin(h, v, p.age) => JoinedWithin(h, v, p.age + 1)'
    BY <2>3, SinceTick
  <2> QED BY <2>1, <2>2, <2>4
<1> QED BY <1>2, <1>3 DEF AnswersTimed, QuestionsTimed

-----------------------------------------------------------------------------
(* Every step keeps the waits for the second group.                        *)

LEMMA Times ==
  /\ RoleTime \in Nat /\ HelperTime \in Nat /\ RoleTime + HelperTime \in Nat
  /\ RoleTime <= RoleTime + HelperTime
<1>1. \A m, n \in Nat : m + n \in Nat /\ m <= m + n
  OBVIOUS
<1> QED BY <1>1, RoleTimeNat, Zenon

\* However far the wait is: it is one lookup.
LEMMA WaitedLong ==
  ASSUME TypeOK, NEW u \in Users, Waited(u)
  PROVE  LeftWithin("role", u, RoleTime + HelperTime)
<1>1. "role" \in Groups /\ "internet" \in Groups
  BY DEF Groups
<1>2. CASE LeftWithin("role", u, RoleTime)
  BY <1>1, <1>2, Times, SinceLonger
<1>3. CASE \E q \in lookup["internet"][u] : LeftWithin("role", u, RoleTime + q.age)
  <2>1. PICK q \in lookup["internet"][u] : LeftWithin("role", u, RoleTime + q.age)
    BY <1>3
  <2>2. q.age \in Nat /\ q.age <= HelperTime
    BY <1>1, <2>1, Ages
  <2>3. RoleTime + q.age \in Nat /\ RoleTime + q.age <= RoleTime + HelperTime
    <3> HIDE DEF RoleTime
    <3> QED BY <2>2, Times
  <2> QED BY <1>1, <2>1, <2>3, Times, SinceLonger
<1>4. CASE LeftWithin("role", u, RoleTime + HelperTime)
  BY <1>4
<1> QED BY <1>2, <1>3, <1>4 DEF Waited

LEMMA WaitedSame ==
  ASSUME NEW u \in Users, Waited(u), UNCHANGED <<member, changed>>,
         cache'["internet"][u] = cache["internet"][u],
         lookup["internet"][u] \subseteq lookup'["internet"][u]
  PROVE  Waited(u)'
<1>1. /\ LeftWithin("role", u, RoleTime)' = LeftWithin("role", u, RoleTime)
      /\ LeftWithin("role", u, RoleTime + HelperTime)' = LeftWithin("role", u, RoleTime + HelperTime)
      /\ \A q \in lookup["internet"][u] :
           LeftWithin("role", u, RoleTime + q.age)' = LeftWithin("role", u, RoleTime + q.age)
  BY SinceSame
<1>2. Fresh("internet", u)' = Fresh("internet", u)
  BY DEF Fresh
<1> QED BY <1>1, <1>2 DEF Waited

LEMMA WaiterIsUser ==
  ASSUME TypeOK, NEW c \in Conns, Stage(c) = "internet"
  PROVE  Req(c).user \in Users
BY UserOf DEF Waiting, Groups

\* A step that leaves groups, answers and the questions asked alone.
LEMMA WaitsKept ==
  ASSUME WaitsTimed, UNCHANGED <<member, changed, cache>>,
         \A u \in Users : lookup["internet"][u] \subseteq lookup'["internet"][u],
         \A c \in Conns : Stage(c)' = "internet" =>
           Req(c)'.user \in Users /\ Waited(Req(c)'.user)
  PROVE  WaitsTimed'
<1>1. ASSUME NEW c \in Conns, Stage(c)' = "internet"
      PROVE  (Waited(Req(c).user))'
  <2>1. PICK u \in Users : u = Req(c)'.user /\ Waited(u)
    BY <1>1
  <2>2. Waited(u)'
    BY <2>1, WaitedSame
  <2> QED BY <2>1, <2>2 DEF Waited, Fresh, LeftWithin
<1> QED BY <1>1 DEF WaitsTimed

LEMMA AskMore ==
  ASSUME TypeOK, NEW g \in Groups, NEW v \in Users,
         (lookup[g][v] = {} /\ Ask(g, v)) \/ UNCHANGED lookup
  PROVE  \A u \in Users : lookup["internet"][u] \subseteq lookup'["internet"][u]
<1>1. "internet" \in Groups
  BY DEF Groups
<1>2. CASE UNCHANGED lookup
  BY <1>2
<1>3. ASSUME lookup[g][v] = {}, Ask(g, v), NEW u \in Users
      PROVE  lookup["internet"][u] \subseteq lookup'["internet"][u]
  <2>1. CASE <<"internet", u>> = <<g, v>>
    <3>1. g = "internet" /\ v = u
      BY <2>1
    <3> QED BY <1>3, <3>1
  <2>2. CASE <<"internet", u>> # <<g, v>>
    BY <1>1, <1>3, <2>2, AskTyped
  <2> QED BY <2>1, <2>2
<1> QED BY <1>2, <1>3

\* What an answer in use says of the group.
LEMMA HitSays ==
  ASSUME TypeOK, AnswersTimed, NEW c \in Conns, NEW g \in Groups, Hit(c, g)
  PROVE  \E e \in cache[g][Req(c).user] :
           /\ e.answer => /\ Goto(c, After(c, g))
                          /\ LeftWithin(g, Req(c).user, Ttl[g][TRUE] + HelperTime)
           /\ ~e.answer => /\ Goto(c, "denied")
                           /\ JoinedWithin(g, Req(c).user, Ttl[g][FALSE] + HelperTime)
<1> DEFINE u == Req(c).user
<1>1. u \in Users
  BY UserOf DEF Hit, Waiting
<1>2. PICK e \in cache[g][u] : Goto(c, IF e.answer THEN After(c, g) ELSE "denied")
  BY DEF Hit
<1>3. /\ e.age \in Nat /\ e.age + HelperTime \in Nat /\ e.answer \in BOOLEAN
      /\ cache[g][u] = {e}
  BY <1>1, <1>2, Ages
<1>4. e.age <= Ttl[g][e.answer]
  <2>1. Fresh(g, u)
    BY DEF Hit
  <2> QED BY <1>3, <2>1 DEF Fresh
<1>5. IF e.answer THEN LeftWithin(g, u, e.age + HelperTime)
      ELSE JoinedWithin(g, u, e.age + HelperTime)
  BY <1>1, <1>2 DEF AnswersTimed
<1>6. \A a \in BOOLEAN : Ttl[g][a] \in Nat
  BY Numbers
<1>7. \A m, n, h \in Nat : m <= n => n + h \in Nat /\ m + h <= n + h
  OBVIOUS
<1>8. CASE e.answer = TRUE
  <2> DEFINE t == Ttl[g][TRUE]
  <2>1. t \in Nat /\ e.age <= t /\ HelperTime \in Nat
    BY <1>4, <1>6, <1>8, RoleTimeNat, Zenon
  <2>2. t + HelperTime \in Nat /\ e.age + HelperTime <= t + HelperTime
    BY <1>3, <1>7, <2>1, Zenon
  <2> HIDE DEF t
  <2>3. LeftWithin(g, u, t + HelperTime)
    BY <1>1, <1>3, <1>5, <1>8, <2>2, SinceLonger
  <2> QED BY <1>2, <1>8, <2>3, Zenon DEF t
<1>9. CASE e.answer = FALSE
  <2> DEFINE t == Ttl[g][FALSE]
  <2>1. t \in Nat /\ e.age <= t /\ HelperTime \in Nat
    BY <1>4, <1>6, <1>9, RoleTimeNat, Zenon
  <2>2. t + HelperTime \in Nat /\ e.age + HelperTime <= t + HelperTime
    BY <1>3, <1>7, <2>1, Zenon
  <2> HIDE DEF t
  <2>3. JoinedWithin(g, u, t + HelperTime)
    BY <1>1, <1>3, <1>5, <1>9, <2>2, SinceLonger
  <2> QED BY <1>2, <1>9, <2>3, Zenon DEF t
<1> QED BY <1>3, <1>8, <1>9

LEMMA HitWaits ==
  ASSUME TypeOK, AnswersTimed, WaitsTimed, NEW c \in Conns, NEW g \in Groups, Hit(c, g)
  PROVE  WaitsTimed'
<1>1. Stage(c) = g /\ Stage(c) \in Waiting /\ Req(c).user \in Users
  BY UserOf DEF Hit, Waiting
<1>2. UNCHANGED <<member, changed, cache>>
  BY DEF Hit
<1>3. \A u \in Users : lookup["internet"][u] \subseteq lookup'["internet"][u]
  BY <1>1, AskMore DEF Hit
<1>4. PICK s \in {After(c, g), "denied"} :
        /\ Goto(c, s)
        /\ s = "internet" => LeftWithin(g, Req(c).user, Ttl[g][TRUE] + HelperTime)
  BY HitSays
<1>5. s \in Stages /\ (s = "internet" => g = "role")
  BY <1>1, AfterStage DEF Stages, Waiting, Allowed, Refused, Groups
<1>6. /\ \A d \in Conns \ {c} : conn'[d] = conn[d]
      /\ Stage(c)' = s
      /\ s \notin Refused => Req(c)' = Req(c)
  BY <1>1, <1>4, <1>5, Moves
<1>7. ASSUME Stage(c)' = "internet"
      PROVE  Req(c)'.user \in Users /\ Waited(Req(c)'.user)
  <2>1. s = "internet" /\ s \notin Refused
    BY <1>6, <1>7 DEF Refused
  <2>2. LeftWithin("role", Req(c).user, RoleTime)
    BY <1>4, <1>5, <2>1 DEF RoleTime
  <2> QED BY <1>1, <1>6, <2>1, <2>2 DEF Waited
<1>8. ASSUME NEW d \in Conns \ {c}, Stage(d)' = "internet"
      PROVE  Req(d)'.user \in Users /\ Waited(Req(d)'.user)
  <2>1. Stage(d) = "internet" /\ Req(d)' = Req(d)
    BY <1>6, <1>8 DEF Stage, Req
  <2> QED BY <2>1, WaiterIsUser DEF WaitsTimed
<1> QED BY <1>2, <1>3, <1>7, <1>8, WaitsKept

\* Steps that only move connections, none of them to the second group.
LEMMA OtherWaits ==
  ASSUME TypeOK, WaitsTimed, UNCHANGED <<member, changed, cache>>,
         \A u \in Users : lookup["internet"][u] \subseteq lookup'["internet"][u],
         \A c \in Conns : Stage(c)' = "internet" => Stage(c) = "internet" /\ Req(c)' = Req(c)
  PROVE  WaitsTimed'
<1>1. ASSUME NEW c \in Conns, Stage(c)' = "internet"
      PROVE  Req(c)'.user \in Users /\ Waited(Req(c)'.user)
  BY <1>1, WaiterIsUser DEF WaitsTimed
<1> QED BY <1>1, WaitsKept

LEMMA MissWaits ==
  ASSUME TypeOK, WaitsTimed, NEW c \in Conns, NEW g \in Groups, Miss(c, g) PROVE WaitsTimed'
<1>1. Req(c).user \in Users
  BY UserOf DEF Miss, Waiting
<1>2. \A u \in Users : lookup["internet"][u] \subseteq lookup'["internet"][u]
  BY <1>1, AskMore DEF Miss
<1> QED BY <1>2, OtherWaits DEF Miss, Stage, Req

LEMMA ConnWaits ==
  ASSUME TypeOK, WaitsTimed,
         \/ \E c \in Conns : (\E r \in Requests : Arrive(c, r)) \/ Peek(c) \/ Close(c)
         \/ \E b \in BlockLists, n \in NoauthLists : Reload(b, n)
         \/ UNCHANGED vars
  PROVE  WaitsTimed'
<1>0. UNCHANGED <<member, changed, cache, lookup>>
  BY DEF Arrive, Peek, Close, Reload, vars, helpers
<1>1. ASSUME NEW c \in Conns, NEW r \in Requests, Arrive(c, r), NEW d \in Conns,
             Stage(d)' = "internet"
      PROVE  Stage(d) = "internet" /\ Req(d)' = Req(d)
  <2>1. d # c
    BY <1>1, ArriveTyped DEF Gone, Refused, Stage
  <2> QED BY <1>1, <2>1, ArriveTyped DEF Stage, Req
<1>2. ASSUME NEW c \in Conns, Peek(c), NEW d \in Conns, Stage(d)' = "internet"
      PROVE  Stage(d) = "internet" /\ Req(d)' = Req(d)
  <2>1. PICK s \in {"terminated", "tunnelled"} : Goto(c, s)
    BY <1>2 DEF Peek
  <2>2. s \in Stages /\ Stage(c) \in Waiting
    BY <1>2 DEF Stages, Allowed, Refused, Peek, Waiting
  <2>3. Stage(c)' = s /\ \A e \in Conns \ {c} : conn'[e] = conn[e]
    BY <2>1, <2>2, Moves
  <2>4. d # c
    BY <1>2, <2>3
  <2> QED BY <1>2, <2>3, <2>4 DEF Stage, Req
<1>3. ASSUME NEW c \in Conns, Close(c), NEW d \in Conns, Stage(d)' = "internet"
      PROVE  Stage(d) = "internet" /\ Req(d)' = Req(d)
  BY <1>3 DEF Close, Free, Stage, Req, TypeOK
<1>4. ASSUME NEW b \in BlockLists, NEW n \in NoauthLists, Reload(b, n), NEW d \in Conns,
             Stage(d)' = "internet"
      PROVE  Stage(d) = "internet" /\ Req(d)' = Req(d)
  <2>1. Stage(d)' = Stage(d) /\ (Stage(d) \in Groups => Req(d)' = Req(d))
    <3>1. CASE conn[d] \in Gone
      BY <1>4, <3>1 DEF Reload, Stage, Req
    <3>2. CASE conn[d] \notin Gone
      BY <1>4, <3>2 DEF Reload, TypeOK, Conn, Stage, Req
    <3> QED BY <3>1, <3>2
  <2> QED BY <1>4, <2>1 DEF Groups
<1>5. ASSUME UNCHANGED vars, NEW d \in Conns, Stage(d)' = "internet"
      PROVE  Stage(d) = "internet" /\ Req(d)' = Req(d)
  BY <1>5 DEF vars, Stage, Req
<1>6. \A d \in Conns : Stage(d)' = "internet" => Stage(d) = "internet" /\ Req(d)' = Req(d)
  BY <1>1, <1>2, <1>3, <1>4, <1>5
<1> QED BY <1>0, <1>6, OtherWaits

LEMMA AnswerWaits ==
  ASSUME TypeOK, WaitsTimed, NEW g \in Groups, NEW u \in Users, Answer(g, u) PROVE WaitsTimed'
<1>0. UNCHANGED <<member, changed, conn>> /\ "internet" \in Groups
  BY DEF Answer, Groups
<1>1. ASSUME NEW v \in Users, Waited(v) PROVE Waited(v)'
  <2>1. CASE <<"internet", v>> = <<g, u>>
    <3>1. g = "internet" /\ v = u
      BY <2>1
    <3>2. PICK e \in cache'["internet"][v] : e.age = 0 /\ e.answer \in BOOLEAN
      <4>1. PICK q \in lookup[g][u] : \E a \in q.seen : cache'[g][u] = {[answer |-> a, age |-> 0]}
        BY AnswerTyped
      <4>2. PICK a \in q.seen : cache'[g][u] = {[answer |-> a, age |-> 0]}
        BY <4>1
      <4>3. a \in BOOLEAN
        BY <4>1, <4>2, Ages
      <4> QED BY <3>1, <4>2, <4>3
    <3>3. Fresh("internet", v)'
      <4>1. \A a \in BOOLEAN : Ttl["internet"][a] \in Nat
        BY <1>0, Numbers
      <4>2. \A n \in Nat : 0 <= n
        OBVIOUS
      <4>3. 0 <= Ttl["internet"][e.answer]
        BY <3>2, <4>1, <4>2, Zenon
      <4> QED BY <3>2, <4>3 DEF Fresh
    <3>4. LeftWithin("role", v, RoleTime + HelperTime)'
      BY <1>0, <1>1, WaitedLong, SinceSame
    <3> QED BY <3>3, <3>4 DEF Waited
  <2>2. CASE <<"internet", v>> # <<g, u>>
    <3>1. lookup'["internet"][v] = lookup["internet"][v] /\ cache'["internet"][v] = cache["internet"][v]
      BY <1>0, <2>2, AnswerTyped
    <3> QED BY <1>0, <1>1, <3>1, WaitedSame
  <2> QED BY <2>1, <2>2
<1>2. ASSUME NEW c \in Conns, Stage(c)' = "internet" PROVE (Waited(Req(c).user))'
  <2>1. Stage(c) = "internet" /\ Req(c)' = Req(c)
    BY <1>0, <1>2 DEF Stage, Req
  <2>2. PICK v \in Users : v = Req(c).user /\ Waited(v)
    BY <2>1, WaiterIsUser DEF WaitsTimed
  <2>3. Waited(v)' /\ v = Req(c)'.user
    BY <1>1, <2>1, <2>2
  <2> QED BY <2>3 DEF Waited, Fresh, LeftWithin
<1> QED BY <1>2 DEF WaitsTimed

LEMMA HelperFailsWaits ==
  ASSUME TypeOK, WaitsTimed, NEW g \in Groups, NEW u \in Users, HelperFails(g, u)
  PROVE  WaitsTimed'
<1>0. UNCHANGED <<member, changed, cache>> /\ "internet" \in Groups
  BY DEF HelperFails, Groups
<1>1. ASSUME NEW c \in Conns, Stage(c)' = "internet" PROVE (Waited(Req(c).user))'
  <2>1. conn'[c] = conn[c] /\ (Stage(c) = g /\ Req(c).user = u => Fresh(g, u))
    BY <1>1, HelperFailsTyped DEF Gone, Refused, Stage
  <2>2. Stage(c) = "internet" /\ Req(c)' = Req(c)
    BY <1>1, <2>1 DEF Stage, Req
  <2>3. PICK v \in Users : v = Req(c).user /\ Waited(v)
    BY <2>2, WaiterIsUser DEF WaitsTimed
  <2>4. CASE <<"internet", v>> = <<g, u>>
    <3>1. Fresh("internet", v)
      BY <2>1, <2>2, <2>3, <2>4
    <3>2. Fresh("internet", v)'
      BY <1>0, <3>1 DEF Fresh
    <3>3. LeftWithin("role", v, RoleTime + HelperTime)'
      BY <1>0, <2>3, WaitedLong, SinceSame
    <3>4. Waited(v)'
      BY <3>2, <3>3 DEF Waited
    <3> QED BY <2>2, <2>3, <3>4 DEF Waited, Fresh, LeftWithin
  <2>5. CASE <<"internet", v>> # <<g, u>>
    <3>1. lookup'["internet"][v] = lookup["internet"][v]
      BY <1>0, <2>5, HelperFailsTyped
    <3>2. Waited(v)'
      BY <1>0, <2>3, <3>1, WaitedSame
    <3> QED BY <2>2, <2>3, <3>2 DEF Waited, Fresh, LeftWithin
  <2> QED BY <2>4, <2>5
<1> QED BY <1>1 DEF WaitsTimed

LEMMA ChangeGroupWaits ==
  ASSUME TypeOK, WaitsTimed, NEW g \in Groups, NEW u \in Users, ChangeGroup(g, u)
  PROVE  WaitsTimed'
<1>0. UNCHANGED <<cache, conn>> /\ "internet" \in Groups /\ "role" \in Groups
  BY DEF ChangeGroup, Groups
<1>1. ASSUME NEW v \in Users, NEW n \in Nat, LeftWithin("role", v, n)
      PROVE  LeftWithin("role", v, n)'
  BY <1>0, <1>1, SinceChange
<1>2. ASSUME NEW v \in Users, Waited(v) PROVE Waited(v)'
  <2>1. CASE LeftWithin("role", v, RoleTime)
    BY <1>1, <2>1, Times DEF Waited
  <2>2. CASE \E q \in lookup["internet"][v] : LeftWithin("role", v, RoleTime + q.age)
    <3>1. PICK p \in lookup["internet"][v] : LeftWithin("role", v, RoleTime + p.age)
      BY <2>2
    <3>2. PICK q \in lookup'["internet"][v] : q.age = p.age
      <4>1. CASE <<"internet", v>> = <<g, u>>
        BY <4>1, ChangeGroupTyped
      <4>2. CASE <<"internet", v>> # <<g, u>>
        <5>1. lookup'["internet"][v] = lookup["internet"][v]
          BY <1>0, <4>2, ChangeGroupTyped
        <5> QED BY <5>1
      <4> QED BY <4>1, <4>2
    <3>3. RoleTime + p.age \in Nat
      <4>1. p.age \in Nat
        BY <1>0, Ages
      <4>2. \A m, n \in Nat : m + n \in Nat
        OBVIOUS
      <4> QED BY <4>1, <4>2, Times, Zenon
    <3>4. LeftWithin("role", v, RoleTime + p.age)'
      BY <1>1, <3>1, <3>3
    <3> QED BY <3>2, <3>4 DEF Waited, LeftWithin
  <2>3. CASE Fresh("internet", v) /\ LeftWithin("role", v, RoleTime + HelperTime)
    <3>1. Fresh("internet", v)'
      BY <1>0, <2>3 DEF Fresh
    <3> QED BY <1>1, <2>3, <3>1, Times DEF Waited
  <2> QED BY <1>2, <2>1, <2>2, <2>3 DEF Waited
<1>3. ASSUME NEW c \in Conns, Stage(c)' = "internet" PROVE (Waited(Req(c).user))'
  <2>1. Stage(c) = "internet" /\ Req(c)' = Req(c)
    BY <1>0, <1>3 DEF Stage, Req
  <2>2. PICK v \in Users : v = Req(c).user /\ Waited(v)
    BY <2>1, WaiterIsUser DEF WaitsTimed
  <2>3. Waited(v)'
    BY <1>2, <2>2
  <2> QED BY <2>1, <2>2, <2>3 DEF Waited, Fresh, LeftWithin
<1> QED BY <1>3 DEF WaitsTimed

\* Time passes only while the helper is at it.
LEMMA TickWaits ==
  ASSUME TypeOK, WaitsTimed, Tick PROVE WaitsTimed'
<1>0. UNCHANGED conn /\ "internet" \in Groups /\ "role" \in Groups
  BY DEF Tick, Groups
<1>1. ASSUME NEW c \in Conns, Stage(c)' = "internet" PROVE (Waited(Req(c).user))'
  <2>1. Stage(c) = "internet" /\ Req(c)' = Req(c)
    BY <1>0, <1>1 DEF Stage, Req
  <2>2. PICK v \in Users : v = Req(c).user /\ Waited(v)
    BY <2>1, WaiterIsUser DEF WaitsTimed
  <2>3. ~Fresh("internet", v) /\ lookup["internet"][v] # {}
    BY <1>0, <2>1, <2>2 DEF Tick
  <2>4. PICK p \in lookup["internet"][v] : TRUE
    BY <2>3
  <2>5. p.age \in Nat /\ lookup["internet"][v] = {p}
    BY <1>0, Ages
  <2>6. RoleTime + p.age \in Nat /\ RoleTime <= RoleTime + p.age
        /\ RoleTime + p.age + 1 = RoleTime + (p.age + 1)
    <3>1. \A m, n \in Nat : m + n \in Nat /\ m <= m + n /\ m + n + 1 = m + (n + 1)
      OBVIOUS
    <3> QED BY <2>5, <3>1, Times, Zenon
  <2>7. LeftWithin("role", v, RoleTime + p.age)
    <3>1. CASE LeftWithin("role", v, RoleTime)
      BY <1>0, <2>6, <3>1, Times, SinceLonger
    <3>2. CASE \E q \in lookup["internet"][v] : LeftWithin("role", v, RoleTime + q.age)
      BY <2>5, <3>2
    <3> QED BY <2>2, <2>3, <3>1, <3>2 DEF Waited
  <2>8. LeftWithin("role", v, RoleTime + p.age + 1)'
    BY <1>0, <2>6, <2>7, SinceTick
  <2>9. PICK q \in lookup'["internet"][v] : q.age = p.age + 1
    BY <1>0, TickTyped
  <2>10. RoleTime + q.age = RoleTime + p.age + 1
    BY <2>6, <2>9
  <2>11. LeftWithin("role", v, RoleTime + q.age)'
    BY <2>8, <2>10 DEF LeftWithin
  <2>12. Waited(v)'
    BY <2>11 DEF Waited
  <2> QED BY <2>1, <2>2, <2>12 DEF Waited, Fresh, LeftWithin
<1> QED BY <1>1 DEF WaitsTimed

-----------------------------------------------------------------------------
(* The invariant.                                                          *)

LEMMA NextTyped ==
  ASSUME TypeOK, [Next]_vars PROVE TypeOK'
<1>1. ASSUME NEW c \in Conns, NEW r \in Requests, Arrive(c, r) PROVE TypeOK'
  BY <1>1, ArriveTyped, TypedNext DEF Arrive
<1>2. ASSUME UNCHANGED vars PROVE TypeOK'
  <2>1. ConnTyped'
    BY <1>2 DEF vars, TypeOK, ConnTyped, Stage, Req
  <2> QED BY <1>2, <2>1, TypedNext DEF vars
<1> QED
  BY <1>1, <1>2, HitTyped, MissTyped, PeekTyped, CloseTyped, AnswerTyped, HelperFailsTyped,
     ChangeGroupTyped, ReloadTyped, TickTyped DEF Next

LEMMA TimesInv ==
  ASSUME TypeOK, AnswersTimed, QuestionsTimed, [Next]_vars
  PROVE  AnswersTimed' /\ QuestionsTimed'
<1>1. ASSUME NEW g \in Groups, NEW u \in Users, Ask(g, u), UNCHANGED <<member, changed, cache>>
      PROVE  AnswersTimed' /\ QuestionsTimed'
  BY <1>1, AskTimed, AnswersSame
<1>2. ASSUME UNCHANGED <<member, changed, cache>>,
             \A g \in Groups, u \in Users : lookup'[g][u] \subseteq lookup[g][u]
      PROVE  AnswersTimed' /\ QuestionsTimed'
  BY <1>2, QuestionsFewer, AnswersSame
<1>3. ASSUME UNCHANGED <<member, changed, cache, lookup>>
      PROVE  AnswersTimed' /\ QuestionsTimed'
  BY <1>2, <1>3
<1>4. ASSUME NEW c \in Conns, NEW g \in Groups, Hit(c, g) \/ Miss(c, g)
      PROVE  AnswersTimed' /\ QuestionsTimed'
  <2>1. Req(c).user \in Users
    BY <1>4, UserOf DEF Hit, Miss, Waiting
  <2>2. UNCHANGED <<member, changed, cache>> /\ (Ask(g, Req(c).user) \/ UNCHANGED lookup)
    BY <1>4 DEF Hit, Miss
  <2> QED BY <1>1, <1>3, <2>1, <2>2
<1>5. ASSUME NEW g \in Groups, NEW u \in Users, HelperFails(g, u)
      PROVE  AnswersTimed' /\ QuestionsTimed'
  <2>1. ASSUME NEW h \in Groups, NEW v \in Users PROVE lookup'[h][v] \subseteq lookup[h][v]
    <3>1. CASE <<h, v>> = <<g, u>>
      <4>1. h = g /\ v = u
        BY <3>1
      <4> QED BY <1>5, <4>1, HelperFailsTyped
    <3>2. CASE <<h, v>> # <<g, u>>
      BY <1>5, <3>2, HelperFailsTyped
    <3> QED BY <3>1, <3>2
  <2> QED BY <1>2, <1>5, <2>1 DEF HelperFails
<1>6. ASSUME \/ \E c \in Conns : (\E r \in Requests : Arrive(c, r)) \/ Peek(c) \/ Close(c)
             \/ \E b \in BlockLists, n \in NoauthLists : Reload(b, n)
             \/ UNCHANGED vars
      PROVE  AnswersTimed' /\ QuestionsTimed'
  BY <1>3, <1>6 DEF Arrive, Peek, Close, Reload, vars, helpers
<1> QED BY <1>4, <1>5, <1>6, AnswerTimed, ChangeGroupTimed, TickTimed DEF Next

LEMMA WaitsInv ==
  ASSUME TypeOK, AnswersTimed, WaitsTimed, [Next]_vars PROVE WaitsTimed'
BY ConnWaits, HitWaits, MissWaits, AnswerWaits, HelperFailsWaits, ChangeGroupWaits, TickWaits
   DEF Next

LEMMA InitInv == Init => IInv
<1> SUFFICES ASSUME Init PROVE IInv
  OBVIOUS
<1>1. \A c \in Conns : conn[c] = Free
  BY DEF Init
<1>2. Free \in Gone /\ Free.stage = "free"
  BY DEF Free, Gone
<1>3. \A g \in Groups : Span(g) \in Nat /\ Span(g) <= Span(g)
  BY Numbers
<1>4. ConnTyped
  BY <1>1, <1>2 DEF Init, ConnTyped, Stage, Groups
<1>5. HelpersTyped /\ ListsTyped
  BY DEF Init, HelpersTyped, ListsTyped, OneOrNone
<1>6. ChangesTyped
  BY <1>3 DEF Init, ChangesTyped
<1>7. Policy /\ WaitsTimed
  BY <1>1, <1>2 DEF Policy, WaitsTimed, Settled, Stage
<1>8. AnswersTimed /\ QuestionsTimed
  BY DEF Init, AnswersTimed, QuestionsTimed
<1> QED BY <1>4, <1>5, <1>6, <1>7, <1>8, Typed DEF IInv

THEOREM Invariance == Spec => []IInv
<1>1. IInv /\ [Next]_vars => IInv'
  BY NextTyped, PolicyInv, TimesInv, WaitsInv DEF IInv
<1> QED BY <1>1, InitInv, PTL DEF Spec

-----------------------------------------------------------------------------
(* What follows.                                                           *)

\* Whatever requests come and however the helpers answer: every request is at
\* a line of the chain, waits for a group only with a ticket and for the
\* Internetsperre only where INTERNET_GROUP is set; no cached answer outlives
\* the longest ttl and no question the helper's time.
THEOREM ChainTypeCorrect == Spec => []TypeOK
<1>1. IInv => TypeOK
  BY DEF IInv
<1> QED BY <1>1, Invariance, PTL

\* For any lists, PTR records and requests: without a ticket only the cache
\* manager's own host gets through, and the school's subnets to a domain on the
\* noauth list that is not blocked.
THEOREM NoTicketNoPassage == Spec => []TicketOrListed
<1>1. ASSUME IInv PROVE TicketOrListed
  <2>1. ASSUME NEW c \in Conns, Settled(c), Req(c).user = None
        PROVE  \/ Manages(Req(c))
               \/ Req(c).src = "school" /\ Req(c).host \in noauth \ blocked
    <3>1. Passed(c)
      BY <1>1, <2>1 DEF IInv, Policy
    <3> QED BY <2>1, <3>1 DEF Passed
  <2> QED BY <2>1 DEF TicketOrListed
<1> QED BY <1>1, Invariance, PTL

\* No ticket, group, noauth entry or name inside a tunnel opens a blocked site.
THEOREM BlockedStaysShut == Spec => []BlocklistWins
<1>1. ASSUME IInv PROVE BlocklistWins
  <2>1. ASSUME NEW c \in Conns, Settled(c), Stage(c) \in Allowed, ~Manages(Req(c))
        PROVE  /\ Req(c).host \notin blocked
               /\ Stage(c) = "tunnelled" =>
                    Req(c).host \in Sites /\ ServerName(Req(c)) \notin blocked
    BY <1>1, <2>1 DEF IInv, Policy, Passed
  <2> QED BY <2>1 DEF BlocklistWins
<1> QED BY <1>1, Invariance, PTL

\* A tunnel that the noauth list opened carries a name on that list.
THEOREM TunnelsKeepNames == Spec => []NoauthTunnelKeepsName
<1>1. ASSUME IInv PROVE NoauthTunnelKeepsName
  <2>1. ASSUME NEW c \in Conns, Settled(c), Stage(c) = "tunnelled", Req(c).host \in noauth
        PROVE  Req(c).sni \in noauth
    BY <1>1, <2>1 DEF IInv, Policy, Passed
  <2> QED BY <2>1 DEF NoauthTunnelKeepsName
<1> QED BY <1>1, Invariance, PTL

\* A request leaves a group's line for good only by an answer in use.
LEMMA OnlyHits ==
  ASSUME TypeOK, [Next]_vars, NEW c \in Conns, Stage(c) \in Groups,
         conn'[c].stage \in {"served", "peek", "denied"}
  PROVE  Hit(c, Stage(c))
<1>1. conn'[c] # conn[c] /\ Stage(c)' # Stage(c) /\ Stage(c)' # "failed"
  BY DEF Stage, Groups
<1>2. ASSUME NEW d \in Conns, NEW r \in Requests, Arrive(d, r) PROVE FALSE
  <2>1. d = c
    BY <1>1, <1>2, ArriveTyped
  <2> QED BY <1>2, <2>1 DEF Arrive, Free, Stage, Groups
<1>3. ASSUME NEW d \in Conns, NEW g \in Groups, Hit(d, g) PROVE d = c /\ g = Stage(c)
  <2>1. PICK s : Goto(d, s)
    BY <1>3 DEF Hit
  <2>2. d = c
    BY <1>1, <2>1 DEF Goto, TypeOK
  <2> QED BY <1>3, <2>2 DEF Hit
<1>4. ASSUME NEW d \in Conns, Peek(d) \/ Close(d) PROVE FALSE
  <2>1. Stage(d) \notin Groups
    BY <1>4 DEF Peek, Close, Allowed, Refused, Groups
  <2>2. d = c
    BY <1>1, <1>4 DEF Peek, Close, Goto, TypeOK
  <2> QED BY <2>1, <2>2
<1>5. ASSUME NEW g \in Groups, NEW u \in Users, HelperFails(g, u) PROVE FALSE
  BY <1>1, <1>5 DEF HelperFails, Stage
<1>6. ASSUME NEW b \in BlockLists, NEW n \in NoauthLists, Reload(b, n) PROVE FALSE
  <2>1. CASE conn[c] \in Gone
    BY <1>1, <1>6, <2>1 DEF Reload
  <2>2. CASE conn[c] \notin Gone
    BY <1>1, <1>6, <2>2 DEF Reload, TypeOK, Conn, Stage
  <2> QED BY <2>1, <2>2
<1>7. ASSUME UNCHANGED conn PROVE FALSE
  BY <1>1, <1>7
<1>8. ASSUME NEW d \in Conns, NEW g \in Groups, Miss(d, g) PROVE FALSE
  BY <1>7, <1>8 DEF Miss
<1>9. ASSUME NEW g \in Groups, NEW u \in Users, Answer(g, u) \/ ChangeGroup(g, u) PROVE FALSE
  BY <1>7, <1>9 DEF Answer, ChangeGroup
<1>10. ASSUME Tick \/ UNCHANGED vars PROVE FALSE
  BY <1>7, <1>10 DEF Tick, vars
<1> QED BY <1>2, <1>3, <1>4, <1>5, <1>6, <1>8, <1>9, <1>10 DEF Next

\* For any ttls and helper times, and however often squid asks again in the
\* background: who left the role or the internet group passes its line for the
\* group's ttl and one lookup at most, and one more lookup where the
\* Internetsperre is asked after the role.
THEOREM RemovalInTime == Spec => RemovalTakesEffect
<1> DEFINE Due(c, g) ==
      LeftWithin(g, Req(c).user,
                 IF g = Stage(c) THEN Ttl[g][TRUE] + HelperTime ELSE Ttl[g][TRUE] + 2 * HelperTime)
<1>1. ASSUME IInv, [Next]_vars, NEW c \in Conns, Stage(c) \in Groups,
             conn'[c].stage \in {"served", "peek"},
             NEW g \in {"role"} \cup (IF internetGroup THEN {"internet"} ELSE {})
      PROVE  Due(c, g)
  <2> DEFINE k == Stage(c)
  <2>1. TypeOK /\ AnswersTimed /\ WaitsTimed /\ Hit(c, k) /\ k \in Groups
    BY <1>1, OnlyHits DEF IInv
  <2>2. PICK s \in {After(c, k), "denied"} :
          /\ Goto(c, s)
          /\ s # "denied" => s = After(c, k) /\ LeftWithin(k, Req(c).user, Ttl[k][TRUE] + HelperTime)
    BY <2>1, HitSays
  <2>3. s \in Stages /\ Stage(c) \in Waiting
    BY <1>1, <2>1, AfterStage DEF Stages, Waiting, Allowed, Refused, Groups
  <2>4. Stage(c)' = s
    BY <2>1, <2>2, <2>3, Moves
  <2>5. s \in {"served", "peek"} /\ LeftWithin(k, Req(c).user, Ttl[k][TRUE] + HelperTime)
    BY <1>1, <2>2, <2>4 DEF Stage
  <2>6. CASE g = k
    BY <2>5, <2>6
  <2>7. CASE g # k
    <3>1. k = "internet" /\ g = "role"
      BY <1>1, <2>1, <2>2, <2>5, <2>7, AfterStage DEF Groups
    <3>2. LeftWithin("role", Req(c).user, RoleTime + HelperTime)
      BY <2>1, <3>1, WaitedLong, WaiterIsUser DEF WaitsTimed
    <3>3. RoleTime + HelperTime = Ttl["role"][TRUE] + 2 * HelperTime
      <4>1. \A m, n \in Nat : (m + n) + n = m + 2 * n
        OBVIOUS
      <4>2. \A h \in Groups, a \in BOOLEAN : Ttl[h][a] \in Nat
        OBVIOUS
      <4>3. Ttl["role"][TRUE] \in Nat
        BY <4>2, Zenon DEF Groups
      <4> QED BY <4>1, <4>3, RoleTimeNat, Zenon DEF RoleTime
    <3>4. LeftWithin("role", Req(c).user, Ttl["role"][TRUE] + 2 * HelperTime)
      BY <3>2, <3>3, Zenon
    <3> QED BY <3>1, <3>4
  <2> QED BY <2>6, <2>7
<1>2. IInv /\ [Next]_vars =>
        [\A c \in Conns : Stage(c) \in Groups /\ conn'[c].stage \in {"served", "peek"} =>
           \A g \in {"role"} \cup (IF internetGroup THEN {"internet"} ELSE {}) : Due(c, g)]_vars
  BY <1>1
<1> QED BY <1>2, Invariance, PTL DEF Spec, RemovalTakesEffect

\* Who joined a group is refused for it for the refusal's ttl and one lookup
\* at most.
THEOREM JoiningInTime == Spec => JoiningTakesEffect
<1>1. ASSUME IInv, [Next]_vars, NEW c \in Conns, Stage(c) \in Groups, conn'[c].stage = "denied"
      PROVE  \/ JoinedWithin(Stage(c), Req(c).user, Ttl[Stage(c)][FALSE] + HelperTime)
             \/ Req(c).src # "school"
  <2> DEFINE k == Stage(c)
  <2>1. TypeOK /\ AnswersTimed /\ Hit(c, k) /\ k \in Groups
    BY <1>1, OnlyHits DEF IInv
  <2>2. PICK s \in {After(c, k), "denied"} :
          /\ Goto(c, s)
          /\ \/ s = After(c, k)
             \/ JoinedWithin(k, Req(c).user, Ttl[k][FALSE] + HelperTime)
    BY <2>1, HitSays
  <2>3. s \in Stages /\ Stage(c) \in Waiting
    BY <1>1, <2>1, AfterStage DEF Stages, Waiting, Allowed, Refused, Groups
  <2>4. Stage(c)' = s
    BY <2>1, <2>2, <2>3, Moves
  <2>5. s = "denied"
    BY <1>1, <2>4 DEF Stage
  <2>6. After(c, k) = "denied" => Req(c).src # "school"
    BY DEF After, Pass
  <2> QED BY <2>2, <2>5, <2>6
<1>2. IInv /\ [Next]_vars =>
        [\A c \in Conns : Stage(c) \in Groups /\ conn'[c].stage = "denied" =>
           \/ JoinedWithin(Stage(c), Req(c).user, Ttl[Stage(c)][FALSE] + HelperTime)
           \/ Req(c).src # "school"]_vars
  BY <1>1
<1> QED BY <1>2, Invariance, PTL DEF Spec, JoiningTakesEffect
=============================================================================
