--------------------------- MODULE MCAccessChain ---------------------------
(***************************************************************************)
(* One site of each kind, a v4 literal whose PTR record names a listed     *)
(* site, and requests of every shape.  A tick stands for ten seconds; the  *)
(* role's ttl of 300 and 60 seconds is shortened to 2 and 1 ticks.         *)
(***************************************************************************)
EXTENDS AccessChain

CONSTANTS a, b, ip

MCPtr == [l \in Literals |-> a]
MCTtl ==
  [g \in Groups |-> [answer \in BOOLEAN |-> IF g = "role" /\ answer THEN 2 ELSE 1]]
MCRefresh ==
  [g \in Groups |-> [answer \in BOOLEAN |-> IF g = "role" /\ ~answer THEN 0 ELSE 1]]
\* One site is listed; it or the other one is blocked.
MCBlockLists == {{a}, {b}}
MCNoauthLists == {{a}}

\* Without a ticket.
Page(hosts, srcs) ==
  [connect : {FALSE}, manager : {FALSE}, host : hosts, port : {"safe"},
   src : srcs, user : {None}, sni : {None}]
Tunnel(hosts, ports, srcs, names) ==
  [connect : {TRUE}, manager : {FALSE}, host : hosts, port : ports,
   src : srcs, user : {None}, sni : names]
Plain ==
  Page({a, b, ip}, {"school", "localhost"})
  \cup {[r EXCEPT !.port = "unsafe"] : r \in Page({a}, {"school"})}
  \cup {[r EXCEPT !.manager = TRUE] : r \in Page({a}, {"school", "localhost"})}
Tunnels ==
  Tunnel({a, ip}, {"443"}, {"school"}, {a, b, None})
  \cup Tunnel({a}, {"443"}, {"elsewhere"}, {a}) \cup Tunnel({a}, {"safe"}, {"school"}, {None})

\* With one, to the site that is not listed.
Logins ==
  {[r EXCEPT !.user = u] : u \in Users,
     r \in Page({b}, {"school", "elsewhere"}) \cup Tunnel({b}, {"443"}, {"school"}, {a, b, None})}
MCRequests == Plain \cup Tunnels \cup Logins
=============================================================================
