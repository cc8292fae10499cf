---------------------------- MODULE PhyTcpProofs ----------------------------
(***************************************************************************)
(* Proofs about phy_tcp, for every route table and any number of           *)
(* descriptors: however the two threads take turns and although the kernel *)
(* gives the numbers of closed sockets out again, every route has its own  *)
(* socket, and the sets given to select are still true when they are used. *)
(*                                                                         *)
(* The threads write the state and the socket of a route without a lock.   *)
(* What keeps them apart is in Apart: a reconnection is demanded by the    *)
(* callback thread itself, only of routes it has made, and only while it   *)
(* is not busy with one.                                                   *)
(***************************************************************************)
EXTENDS PhyTcp, WellFoundedInduction, TLAPS

(***************************************************************************)
(* Numbers                                                                 *)
(***************************************************************************)
\* A set of natural numbers that is not empty has a least element.
LEMMA LeastElement ==
  ASSUME NEW T, T \subseteq Nat, T # {}
  PROVE  \E x \in T : \A y \in T : x <= y
<1> DEFINE R == OpToRel(<, Nat)
<1>1. IsWellFoundedOn(R, Nat) BY NatLessThanWellFounded
<1>2. \A x, y \in Nat : x < y => <<x, y>> \in R BY DEF OpToRel
<1> HIDE DEF R
<1>3. PICK x \in T : \A y \in T : ~ (<<y, x>> \in R) BY <1>1, WFMin
<1>4. ASSUME NEW y \in T PROVE x <= y
  <2>1. ~(y < x) BY <1>2, <1>3
  <2> QED BY <2>1
<1> QED BY <1>4

\* Min of the community modules is the least element.
LEMMA MinIsLeast ==
  ASSUME NEW S, S \subseteq Nat, S # {}
  PROVE  Min(S) \in S /\ \A x \in S : Min(S) <= x
<1>1. \E x \in S : \A y \in S : x <= y BY LeastElement
<1> QED BY <1>1 DEF Min

(***************************************************************************)
(* The inductive invariant                                                 *)
(***************************************************************************)
RtTypes == [Routes -> [state : {"idle", "open", "reconnect"}, sock : 0 .. MaxFd, lst : 0 .. MaxFd]]
Returns == {"idle", "open"}
MainTypes == [at : {"scan", "connect", "store", "watch", "select", "serve", "accepted"},
              r : Routes, watch : SUBSET Fds, ready : SUBSET Fds, ret : Returns]
CbTypes == [at : {"idle", "connect", "store", "send"}, r : Routes, sock : 0 .. MaxFd, ret : Returns]
Addrs == Strangers \cup {table[r].addr : r \in Routes}
Ports == {table[r].port : r \in Routes}
Descs == {Free, Socket}
         \cup [is : {"conn"}, peer : Addrs, line : {"quiet", "data", "shut", "broken"}]
         \cup [is : {"listen"}, port : Ports, client : Addrs \cup {NoClient}]

Types ==
  /\ table \in Tables
  /\ rt \in RtTypes
  /\ fd \in [Fds -> Descs]
  /\ main \in MainTypes /\ cb \in CbTypes
  /\ made \subseteq Routes

\* The kernel has for a route what the route believes, and nothing twice.
Owned == \A r \in Routes :
  /\ rt[r].sock # NoFd => fd[rt[r].sock].is \in {"socket", "conn"}
  /\ rt[r].lst # NoFd => fd[rt[r].lst].is = "listen"
  /\ \A q \in Routes \ {r} : rt[q].sock = rt[r].sock => rt[r].sock = NoFd

\* Descriptor n is a connection with the host of route r.
Serves(n, r) == n # NoFd => IsConn(n) /\ fd[n].peer = table[r].addr

OpenServes == \A r \in Routes : rt[r].state = "open" => Serves(rt[r].sock, r)

\* A route is under way at thread t, and its socket will do when it becomes open.
UnderWay(t) ==
  /\ t.at = "connect" => /\ table[t.r].mode = "CONNECT" /\ rt[t.r].state # "open"
                         /\ rt[t.r].sock # NoFd /\ fd[rt[t.r].sock].is = "socket"
  /\ (t.at = "store" /\ t.ret = "open") => table[t.r].mode = "CONNECT" /\ Serves(rt[t.r].sock, t.r)
MainServes == /\ UnderWay(main)
              /\ main.at = "accepted" => table[main.r].mode = "LISTEN" /\ Serves(rt[main.r].sock, main.r)
CbServes == /\ UnderWay(cb)
            /\ (cb.at = "send" /\ rt[cb.r].sock = cb.sock) => Serves(cb.sock, cb.r)

\* The threads never connect the same route.
Connects == main.at \in {"connect", "store"}
Apart == /\ \A r \in Routes \ made : rt[r].state # "reconnect"
         /\ Connects => main.r \in made /\ rt[main.r].state # "open"
         /\ cb.at # "idle" => rt[cb.r].state # "reconnect" /\ (Connects => main.r # cb.r)

\* What is in the set for select stays open: the route it came from is behind.
Watched == \A n \in main.watch :
  /\ main.at \notin {"serve", "accepted"}
  /\ fd[n].is \in {"conn", "listen"}
  /\ (fd[n].is = "conn" /\ main.at # "select") => \A q \in main.r .. NRoutes : rt[q].sock # n

StillReady == main.at = "serve" => \A n \in main.ready : Readable(n)

IInv == /\ Types /\ Owned /\ OpenServes /\ MainServes /\ CbServes
        /\ Apart /\ Watched /\ StillReady

(***************************************************************************)
(* The operators                                                           *)
(***************************************************************************)
LEMMA Constants ==
  /\ NRoutes \in Nat /\ NRoutes > 0 /\ MaxFd \in Nat
  /\ Routes \subseteq Nat /\ Fds \subseteq Nat /\ NoFd \notin Fds
  /\ 0 .. MaxFd = Fds \cup {NoFd}
  BY TcpAssumption DEF Routes, Fds, NoFd

LEMMA ModeIsMode ==
  ASSUME table \in Tables, NEW r \in Routes
  PROVE  table[r].mode \in Modes
  BY TcpAssumption

LEMMA DescFacts ==
  ASSUME NEW d \in Descs
  PROVE  /\ d.is \in {"free", "socket", "conn", "listen"}
         /\ d.is = "free" <=> d = Free
         /\ d.is = "socket" <=> d = Socket
         /\ d.is = "conn" => d \in [is : {"conn"}, peer : Addrs, line : {"quiet", "data", "shut", "broken"}]
         /\ d.is = "listen" => d \in [is : {"listen"}, port : Ports, client : Addrs \cup {NoClient}]
<1>1. Free.is = "free" /\ Socket.is = "socket" BY DEF Free, Socket
<1> QED BY <1>1 DEF Descs

LEMMA LowestFacts ==
  ASSUME NEW f
  PROVE  /\ Lowest(f) \in 0 .. MaxFd
         /\ Lowest(f) # NoFd => Lowest(f) \in Fds /\ f[Lowest(f)] = Free
<1> DEFINE S == {n \in Fds : f[n] = Free}
<1>1. CASE S # {}
  <2>1. S \subseteq Nat BY Constants
  <2>2. Min(S) \in S BY <1>1, <2>1, MinIsLeast
  <2>3. Lowest(f) = Min(S) BY <1>1 DEF Lowest
  <2> QED BY <2>2, <2>3, Constants
<1>2. CASE S = {}
  <2>1. Lowest(f) = NoFd BY <1>2 DEF Lowest
  <2> QED BY <2>1, Constants
<1> QED BY <1>1, <1>2

LEMMA CloseRouteFacts ==
  ASSUME NEW s, s.rt \in RtTypes, s.fd \in [Fds -> Descs], NEW r \in Routes
  PROVE  /\ CloseRoute(s, r).rt \in RtTypes /\ CloseRoute(s, r).fd \in [Fds -> Descs]
         /\ CloseRoute(s, r).rt[r] = [state |-> "idle", sock |-> NoFd, lst |-> s.rt[r].lst]
         /\ \A q \in Routes \ {r} : CloseRoute(s, r).rt[q] = s.rt[q]
         /\ \A m \in Fds : CloseRoute(s, r).fd[m] = IF m = s.rt[r].sock THEN Free ELSE s.fd[m]
<1> DEFINE a == [s.rt EXCEPT ![r].state = "idle", ![r].sock = NoFd]
           b == IF s.rt[r].sock = NoFd THEN s.fd ELSE [s.fd EXCEPT ![s.rt[r].sock] = Free]
<1>1. CloseRoute(s, r).rt = a /\ CloseRoute(s, r).fd = b BY DEF CloseRoute
<1>2. NoFd \in 0 .. MaxFd BY Constants
<1>3. a \in RtTypes BY <1>2 DEF RtTypes
<1>4. /\ a[r] = [state |-> "idle", sock |-> NoFd, lst |-> s.rt[r].lst]
      /\ \A q \in Routes \ {r} : a[q] = s.rt[q]
  BY DEF RtTypes
<1>5. s.rt[r].sock \in 0 .. MaxFd BY DEF RtTypes
<1>6. Free \in Descs BY DEF Descs
<1>7. b \in [Fds -> Descs] BY <1>6
<1>8. \A m \in Fds : b[m] = IF m = s.rt[r].sock THEN Free ELSE s.fd[m] BY <1>5, Constants
<1> QED BY <1>1, <1>3, <1>4, <1>7, <1>8

LEMMA OpenSocketFacts ==
  ASSUME NEW s, s.rt \in RtTypes, s.fd \in [Fds -> Descs], NEW r \in Routes
  PROVE  \E n \in 0 .. MaxFd :
           /\ n # NoFd => n \in Fds /\ s.fd[n] = Free
           /\ OpenSocket(s, r).rt \in RtTypes /\ OpenSocket(s, r).fd \in [Fds -> Descs]
           /\ OpenSocket(s, r).rt[r] = [state |-> s.rt[r].state, sock |-> n, lst |-> s.rt[r].lst]
           /\ \A q \in Routes \ {r} : OpenSocket(s, r).rt[q] = s.rt[q]
           /\ \A m \in Fds : OpenSocket(s, r).fd[m] = IF m = n THEN Socket ELSE s.fd[m]
<1> DEFINE n == Lowest(s.fd)
           a == [s.rt EXCEPT ![r].sock = n]
           b == IF n = NoFd THEN s.fd ELSE [s.fd EXCEPT ![n] = Socket]
<1>1. OpenSocket(s, r).rt = a /\ OpenSocket(s, r).fd = b BY DEF OpenSocket
<1>2. n \in 0 .. MaxFd /\ (n # NoFd => n \in Fds /\ s.fd[n] = Free) BY LowestFacts
<1> HIDE DEF n
<1>3. a \in RtTypes BY <1>2 DEF RtTypes
<1>4. /\ a[r] = [state |-> s.rt[r].state, sock |-> n, lst |-> s.rt[r].lst]
      /\ \A q \in Routes \ {r} : a[q] = s.rt[q]
  BY DEF RtTypes
<1>5. Socket \in Descs BY DEF Descs
<1>6. b \in [Fds -> Descs] BY <1>5
<1>7. \A m \in Fds : b[m] = IF m = n THEN Socket ELSE s.fd[m] BY <1>2, Constants
<1> HIDE DEF a, b
<1> QED BY <1>1, <1>2, <1>3, <1>4, <1>6, <1>7

\* The listening descriptor is one a route has, a new one, or none.
LEMMA SetListenFacts ==
  ASSUME NEW s, s.rt \in RtTypes, s.fd \in [Fds -> Descs], NEW r \in Routes, NEW ok
  PROVE  \E k \in 0 .. MaxFd :
           /\ \/ k = NoFd
              \/ (\E q \in Routes : k = s.rt[q].lst) /\ \A m \in Fds : SetListen(s, r, ok).fd[m] = s.fd[m]
              \/ k \in Fds /\ s.fd[k] = Free /\ SetListen(s, r, ok).fd[k].is = "listen"
           /\ SetListen(s, r, ok).rt \in RtTypes /\ SetListen(s, r, ok).fd \in [Fds -> Descs]
           /\ SetListen(s, r, ok).rt[r] = [state |-> s.rt[r].state, sock |-> NoFd, lst |-> k]
           /\ \A q \in Routes \ {r} : SetListen(s, r, ok).rt[q] = s.rt[q]
           /\ \A m \in Fds \ {k} : SetListen(s, r, ok).fd[m] = s.fd[m]
<1> DEFINE n == Lowest(s.fd)
           shared == {q \in Routes : SharesPort(s, q, r)}
           a(k) == [s.rt EXCEPT ![r].lst = k, ![r].sock = NoFd]
           b == [s.fd EXCEPT ![n] = Listener(table[r].port)]
           t == SetListen(s, r, ok)
<1>1. t = IF shared # {} THEN [rt |-> a(s.rt[Min(shared)].lst), fd |-> s.fd]
          ELSE IF ok /\ n # NoFd THEN [rt |-> a(n), fd |-> b]
          ELSE [rt |-> a(NoFd), fd |-> s.fd]
  BY DEF SetListen
<1>2. n \in 0 .. MaxFd /\ (n # NoFd => n \in Fds /\ s.fd[n] = Free) BY LowestFacts
<1> HIDE DEF n, t
<1>3. NoFd \in 0 .. MaxFd BY Constants
<1>4. ASSUME NEW k \in 0 .. MaxFd
      PROVE  /\ a(k) \in RtTypes
             /\ a(k)[r] = [state |-> s.rt[r].state, sock |-> NoFd, lst |-> k]
             /\ \A q \in Routes \ {r} : a(k)[q] = s.rt[q]
  BY <1>3 DEF RtTypes
<1>5. CASE shared # {}
  <2> DEFINE q == Min(shared)
             k == s.rt[q].lst
  <2>1. q \in Routes
    <3>1. shared \subseteq Nat BY Constants
    <3> QED BY <1>5, <3>1, MinIsLeast
  <2> HIDE DEF q
  <2>2. k \in 0 .. MaxFd BY <2>1 DEF RtTypes
  <2>3. t.rt = a(k) /\ t.fd = s.fd BY <1>1, <1>5 DEF q
  <2> HIDE DEF a
  <2> QED BY <1>4, <2>1, <2>2, <2>3 DEF t
<1>6. CASE shared = {} /\ ok /\ n # NoFd
  <2>1. t.rt = a(n) /\ t.fd = b BY <1>1, <1>6
  <2>2. Listener(table[r].port) \in Descs /\ Listener(table[r].port).is = "listen"
    BY DEF Listener, Descs, Ports
  <2>3. /\ b \in [Fds -> Descs] /\ b[n].is = "listen"
        /\ \A m \in Fds \ {n} : b[m] = s.fd[m]
    BY <1>2, <1>6, <2>2
  <2> HIDE DEF a, b
  <2>4. /\ t.rt \in RtTypes
        /\ t.rt[r] = [state |-> s.rt[r].state, sock |-> NoFd, lst |-> n]
        /\ \A q \in Routes \ {r} : t.rt[q] = s.rt[q]
    BY <1>2, <1>4, <2>1
  <2>5. /\ n \in 0 .. MaxFd /\ n \in Fds /\ s.fd[n] = Free /\ t.fd[n].is = "listen"
        /\ t.fd \in [Fds -> Descs] /\ \A m \in Fds \ {n} : t.fd[m] = s.fd[m]
    BY <1>2, <1>6, <2>1, <2>3
  <2> QED BY <2>4, <2>5 DEF t
<1>7. CASE shared = {} /\ ~(ok /\ n # NoFd)
  <2>1. t.rt = a(NoFd) /\ t.fd = s.fd BY <1>1, <1>7
  <2> HIDE DEF a
  <2> QED BY <1>3, <1>4, <2>1 DEF t
<1> QED BY <1>5, <1>6, <1>7

(***************************************************************************)
(* Steps that change one route                                             *)
(***************************************************************************)
\* Of the descriptors only free ones change and the one of the route; clients may come
\* and go at those that listen.
Reroutes(r) ==
  /\ table' = table /\ rt' \in RtTypes /\ fd' \in [Fds -> Descs]
  /\ \A q \in Routes \ {r} : rt'[q] = rt[q]
  /\ \A m \in Fds : \/ fd'[m] = fd[m] \/ fd[m] = Free \/ m = rt[r].sock
                    \/ (fd[m].is = "listen" /\ fd'[m].is = "listen")
  /\ rt'[r].sock # NoFd => /\ fd'[rt'[r].sock].is \in {"socket", "conn"}
                           /\ fd[rt'[r].sock] = Free \/ rt'[r].sock = rt[r].sock
  /\ rt'[r].lst # NoFd => fd'[rt'[r].lst].is = "listen"

LEMMA TypesNext ==
  ASSUME Types, table' = table, rt' \in RtTypes, fd' \in [Fds -> Descs],
         main' \in MainTypes, cb' \in CbTypes, made' \subseteq Routes
  PROVE  Types'
<1>1. Descs' = Descs BY DEF Descs, Addrs, Ports
<1> QED BY <1>1 DEF Types

LEMMA InRange ==
  ASSUME rt \in RtTypes, NEW r \in Routes
  PROVE  /\ rt[r].sock # NoFd => rt[r].sock \in Fds
         /\ rt[r].lst # NoFd => rt[r].lst \in Fds
  BY Constants DEF RtTypes

LEMMA ReroutesOwned ==
  ASSUME Types, Owned, NEW r \in Routes, Reroutes(r)
  PROVE  /\ Owned'
         /\ \A q \in Routes \ {r} : /\ rt'[q] = rt[q]
                                    /\ rt[q].sock # NoFd => fd'[rt[q].sock] = fd[rt[q].sock]
<1>1. ASSUME NEW q \in Routes \ {r}
      PROVE  /\ rt'[q] = rt[q]
             /\ rt[q].sock # NoFd => fd'[rt[q].sock] = fd[rt[q].sock]
             /\ rt[q].sock # NoFd => fd[rt[q].sock].is \in {"socket", "conn"}
             /\ rt[q].lst # NoFd => fd'[rt[q].lst].is = "listen"
  <2>1. rt'[q] = rt[q] BY DEF Reroutes
  <2>2. Free.is = "free" BY DEF Free
  <2>3. /\ rt[q].sock # NoFd => rt[q].sock \in Fds /\ fd[rt[q].sock].is \in {"socket", "conn"}
        /\ rt[q].lst # NoFd => rt[q].lst \in Fds /\ fd[rt[q].lst].is = "listen"
        /\ rt[q].sock = rt[r].sock => rt[q].sock = NoFd
    BY InRange DEF Types, Owned
  <2>4. ASSUME rt[q].sock # NoFd PROVE fd'[rt[q].sock] = fd[rt[q].sock]
    BY <2>2, <2>3, <2>4 DEF Reroutes
  <2>5. ASSUME rt[q].lst # NoFd PROVE fd'[rt[q].lst].is = "listen"
    <3>1. rt[q].lst # rt[r].sock
      <4>1. rt[r].sock # NoFd => fd[rt[r].sock].is \in {"socket", "conn"} BY DEF Owned
      <4> QED BY <2>3, <2>5, <4>1
    <3> QED BY <2>2, <2>3, <2>5, <3>1 DEF Reroutes
  <2> QED BY <2>1, <2>3, <2>4, <2>5
<1>2. /\ rt'[r].sock # NoFd => fd'[rt'[r].sock].is \in {"socket", "conn"}
      /\ rt'[r].lst # NoFd => fd'[rt'[r].lst].is = "listen"
  BY DEF Reroutes
<1>3. ASSUME NEW q \in Routes \ {r}, rt'[q].sock = rt'[r].sock PROVE rt'[r].sock = NoFd
  <2>1. Free.is = "free" BY DEF Free
  <2>2. rt'[r].sock = rt[r].sock => rt'[r].sock = NoFd BY <1>1, <1>3 DEF Owned
  <2> QED BY <1>1, <1>3, <2>1, <2>2 DEF Reroutes
<1>4. ASSUME NEW x \in Routes, NEW y \in Routes \ {x}, rt'[y].sock = rt'[x].sock
      PROVE  rt'[x].sock = NoFd
  <2>1. CASE x = r BY <1>3, <1>4, <2>1
  <2>2. CASE y = r BY <1>3, <1>4, <2>2
  <2>3. CASE x # r /\ y # r BY <1>1, <1>4, <2>3 DEF Owned
  <2> QED BY <2>1, <2>2, <2>3
<1>5. Owned' BY <1>1, <1>2, <1>4 DEF Owned
<1> QED BY <1>1, <1>5

\* Where connect_by_config starts from: the route as it is or closed.
Prepared(s, r) ==
  /\ s.rt \in RtTypes /\ s.fd \in [Fds -> Descs]
  /\ \A q \in Routes \ {r} : s.rt[q] = rt[q]
  /\ s.rt[r].lst = rt[r].lst
  /\ \A m \in Fds : s.fd[m] = fd[m] \/ m = rt[r].sock

LEMMA ConnectFacts ==
  ASSUME Types, Owned, NEW r \in Routes, NEW s, NEW at,
         Prepared(s, r), ConnectByConfig(s, r, at), table' = table
  PROVE  /\ Reroutes(r) /\ at \in {"connect", "store"}
         /\ rt'[r].state = s.rt[r].state
         /\ table[r].mode = "LISTEN" => rt'[r].sock = NoFd
         /\ at = "connect" => /\ table[r].mode = "CONNECT" /\ rt'[r].sock # NoFd
                              /\ fd'[rt'[r].sock].is = "socket"
         /\ \A m \in Fds : s.fd[m] # Free => fd'[m] = s.fd[m]
<1>0. s.rt \in RtTypes /\ s.fd \in [Fds -> Descs] BY DEF Prepared
<1>1. /\ s.rt \in RtTypes /\ s.fd \in [Fds -> Descs] /\ s.rt[r].lst = rt[r].lst
      /\ \A q \in Routes \ {r} : s.rt[q] = rt[q]
      /\ \A m \in Fds : s.fd[m] = fd[m] \/ m = rt[r].sock
  BY DEF Prepared
<1>2. Free.is = "free" /\ Socket.is = "socket" BY DEF Free, Socket
<1>3. ASSUME NEW q \in Routes, rt[q].lst # NoFd
      PROVE  rt[q].lst \in Fds /\ s.fd[rt[q].lst] = fd[rt[q].lst] /\ fd[rt[q].lst].is = "listen"
             /\ rt[q].lst # rt[r].sock
  <2>1. rt[q].lst \in Fds /\ fd[rt[q].lst].is = "listen" BY <1>3, InRange DEF Types, Owned
  <2>2. rt[r].sock # NoFd => fd[rt[r].sock].is \in {"socket", "conn"} BY DEF Owned
  <2> QED BY <1>1, <1>3, <2>1, <2>2
<1>4. CASE table[r].mode = "CONNECT"
  <2>1. PICK n \in 0 .. MaxFd :
           /\ n # NoFd => n \in Fds /\ s.fd[n] = Free
           /\ OpenSocket(s, r).rt \in RtTypes /\ OpenSocket(s, r).fd \in [Fds -> Descs]
           /\ OpenSocket(s, r).rt[r] = [state |-> s.rt[r].state, sock |-> n, lst |-> s.rt[r].lst]
           /\ \A q \in Routes \ {r} : OpenSocket(s, r).rt[q] = s.rt[q]
           /\ \A m \in Fds : OpenSocket(s, r).fd[m] = IF m = n THEN Socket ELSE s.fd[m]
    BY <1>0, OpenSocketFacts
  <2>2. rt' = OpenSocket(s, r).rt /\ fd' = OpenSocket(s, r).fd
        /\ at = IF rt'[r].sock = NoFd THEN "store" ELSE "connect"
    BY <1>4 DEF ConnectByConfig, Becomes
  <2>3. /\ rt' \in RtTypes /\ fd' \in [Fds -> Descs]
        /\ rt'[r].state = s.rt[r].state /\ rt'[r].sock = n /\ rt'[r].lst = rt[r].lst
        /\ \A q \in Routes \ {r} : rt'[q] = rt[q]
        /\ \A m \in Fds : fd'[m] = IF m = n THEN Socket ELSE s.fd[m]
    BY <1>1, <2>1, <2>2
  <2>4. n # NoFd => n \in Fds /\ s.fd[n] = Free /\ (fd[n] = Free \/ n = rt[r].sock) BY <1>1, <2>1
  <2>5. \A m \in Fds : fd'[m] = fd[m] \/ fd[m] = Free \/ m = rt[r].sock
    <3>1. \A m \in Fds : m # NoFd BY Constants
    <3> QED BY <1>1, <2>3, <2>4, <3>1
  <2>6. rt'[r].lst # NoFd => fd'[rt'[r].lst].is = "listen"
    BY <1>2, <1>3, <2>3, <2>4
  <2>7. rt'[r].sock # NoFd => fd'[rt'[r].sock].is = "socket" BY <1>2, <2>3, <2>4
  <2>8. Reroutes(r) BY <2>3, <2>4, <2>5, <2>6, <2>7 DEF Reroutes
  <2>9. \A m \in Fds : s.fd[m] # Free => fd'[m] = s.fd[m]
    <3>1. \A m \in Fds : m # NoFd BY Constants
    <3> QED BY <2>3, <2>4, <3>1
  <2> QED BY <1>4, <2>2, <2>3, <2>7, <2>8, <2>9
<1>5. CASE table[r].mode # "CONNECT"
  <2>1. PICK ok \in BOOLEAN : rt' = SetListen(s, r, ok).rt /\ fd' = SetListen(s, r, ok).fd
    BY <1>5 DEF ConnectByConfig, Becomes
  <2>2. PICK k \in 0 .. MaxFd :
           /\ \/ k = NoFd
              \/ (\E q \in Routes : k = s.rt[q].lst) /\ \A m \in Fds : SetListen(s, r, ok).fd[m] = s.fd[m]
              \/ k \in Fds /\ s.fd[k] = Free /\ SetListen(s, r, ok).fd[k].is = "listen"
           /\ SetListen(s, r, ok).rt \in RtTypes /\ SetListen(s, r, ok).fd \in [Fds -> Descs]
           /\ SetListen(s, r, ok).rt[r] = [state |-> s.rt[r].state, sock |-> NoFd, lst |-> k]
           /\ \A q \in Routes \ {r} : SetListen(s, r, ok).rt[q] = s.rt[q]
           /\ \A m \in Fds \ {k} : SetListen(s, r, ok).fd[m] = s.fd[m]
    BY <1>1, SetListenFacts
  <2>3. /\ rt' \in RtTypes /\ fd' \in [Fds -> Descs]
        /\ rt'[r].state = s.rt[r].state /\ rt'[r].sock = NoFd /\ rt'[r].lst = k
        /\ \A q \in Routes \ {r} : rt'[q] = rt[q]
        /\ \A m \in Fds \ {k} : fd'[m] = s.fd[m]
    BY <1>1, <2>1, <2>2
  <2>4. \/ k = NoFd
        \/ (\E q \in Routes : k = rt[q].lst) /\ \A m \in Fds : fd'[m] = s.fd[m]
        \/ k \in Fds /\ s.fd[k] = Free /\ fd'[k].is = "listen"
    BY <1>1, <2>1, <2>2
  <2>5. k # NoFd => fd'[k].is = "listen" BY <1>3, <2>4
  <2>6. \A m \in Fds : s.fd[m] # Free => fd'[m] = s.fd[m]
    <3>1. \A m \in Fds : m # NoFd BY Constants
    <3> QED BY <2>3, <2>4, <3>1
  <2>7. \A m \in Fds : fd'[m] = fd[m] \/ fd[m] = Free \/ m = rt[r].sock BY <1>1, <2>6
  <2>8. Reroutes(r) BY <2>3, <2>5, <2>7 DEF Reroutes
  <2>9. at = "store" BY <1>5 DEF ConnectByConfig
  <2> QED BY <1>5, <2>3, <2>6, <2>8, <2>9
<1> QED BY <1>4, <1>5

LEMMA CurPrepared ==
  ASSUME Types, NEW r \in Routes
  PROVE  /\ Prepared(Cur, r) /\ Cur.rt = rt /\ Cur.fd = fd
         /\ Prepared(CloseRoute(Cur, r), r) /\ CloseRoute(Cur, r).rt[r].state = "idle"
<1>1. Cur.rt = rt /\ Cur.fd = fd BY DEF Cur
<1>2. Cur.rt \in RtTypes /\ Cur.fd \in [Fds -> Descs] BY <1>1 DEF Types
<1> DEFINE s == CloseRoute(Cur, r)
<1> HIDE DEF Cur
<1>3. /\ s.rt \in RtTypes /\ s.fd \in [Fds -> Descs]
      /\ s.rt[r] = [state |-> "idle", sock |-> NoFd, lst |-> Cur.rt[r].lst]
      /\ \A q \in Routes \ {r} : s.rt[q] = Cur.rt[q]
      /\ \A m \in Fds : s.fd[m] = IF m = Cur.rt[r].sock THEN Free ELSE Cur.fd[m]
  BY <1>2, CloseRouteFacts
<1>4. Prepared(Cur, r) BY <1>1, <1>2 DEF Prepared
<1> HIDE DEF s
<1>5. Prepared(s, r) /\ s.rt[r].state = "idle" BY <1>1, <1>3 DEF Prepared
<1> QED BY <1>1, <1>4, <1>5 DEF s

LEMMA CloseReroutes ==
  ASSUME Types, Owned, NEW r \in Routes, Becomes(CloseRoute(Cur, r)), table' = table
  PROVE  /\ Reroutes(r) /\ rt'[r].sock = NoFd /\ rt'[r].state = "idle"
         /\ \A m \in Fds : m # rt[r].sock => fd'[m] = fd[m]
<1>1. Cur.rt = rt /\ Cur.fd = fd BY DEF Cur
<1>2. Cur.rt \in RtTypes /\ Cur.fd \in [Fds -> Descs] BY <1>1 DEF Types
<1> HIDE DEF Cur
<1>3. /\ rt' \in RtTypes /\ fd' \in [Fds -> Descs]
      /\ rt'[r] = [state |-> "idle", sock |-> NoFd, lst |-> rt[r].lst]
      /\ \A q \in Routes \ {r} : rt'[q] = rt[q]
      /\ \A m \in Fds : fd'[m] = IF m = rt[r].sock THEN Free ELSE fd[m]
  BY <1>1, <1>2, CloseRouteFacts DEF Becomes
<1>4. rt'[r].lst # NoFd => fd'[rt'[r].lst].is = "listen"
  <2>1. rt[r].lst # NoFd => rt[r].lst \in Fds /\ fd[rt[r].lst].is = "listen"
    BY InRange DEF Types, Owned
  <2>2. rt[r].sock # NoFd => fd[rt[r].sock].is \in {"socket", "conn"} BY DEF Owned
  <2> QED BY <1>3, <2>1, <2>2
<1> QED BY <1>3, <1>4 DEF Reroutes

LEMMA ReturnsReroutes ==
  ASSUME Types, Owned, NEW r \in Routes, NEW ret, ConnectReturns(r, ret), table' = table,
         rt[r].sock # NoFd, fd[rt[r].sock].is = "socket"
  PROVE  /\ Reroutes(r) /\ ret \in Returns /\ rt'[r].state \in {rt[r].state, "idle"}
         /\ ret = "open" => Serves(rt[r].sock, r)'
         /\ \A m \in Fds : m # rt[r].sock => fd'[m] = fd[m]
<1>1. CASE ret = "open"
  <2> DEFINE n == rt[r].sock
             c == Conn(table[r].addr)
  <2>1. rt' = rt /\ fd' = [fd EXCEPT ![n] = c] BY <1>1 DEF ConnectReturns
  <2>2. n \in Fds BY InRange DEF Types
  <2>3. c \in Descs /\ c.is = "conn" /\ c.peer = table[r].addr BY DEF Conn, Descs, Addrs
  <2> HIDE DEF c
  <2>4. fd' \in [Fds -> Descs] /\ fd'[n] = c /\ \A m \in Fds : m # n => fd'[m] = fd[m]
    BY <2>1, <2>2, <2>3 DEF Types
  <2>5. rt[r].lst # NoFd => fd'[rt[r].lst].is = "listen"
    <3>1. rt[r].lst # NoFd => rt[r].lst \in Fds /\ fd[rt[r].lst].is = "listen"
      BY InRange DEF Types, Owned
    <3> QED BY <2>4, <3>1
  <2>6. Reroutes(r) BY <2>1, <2>2, <2>3, <2>4, <2>5 DEF Reroutes, Types
  <2>7. Serves(rt[r].sock, r)' BY <2>1, <2>3, <2>4 DEF Serves, IsConn
  <2> QED BY <1>1, <2>1, <2>4, <2>6, <2>7 DEF Returns
<1>2. CASE ret # "open"
  <2>1. ret = "idle" /\ Becomes(CloseRoute(Cur, r)) BY <1>2 DEF ConnectReturns
  <2> QED BY <2>1, CloseReroutes DEF Returns
<1> QED BY <1>1, <1>2

LEMMA StateReroutes ==
  ASSUME Types, Owned, NEW r \in Routes, NEW x \in {"idle", "open", "reconnect"},
         rt' = [rt EXCEPT ![r].state = x], fd' = fd, table' = table
  PROVE  /\ Reroutes(r) /\ rt'[r].state = x /\ rt'[r].sock = rt[r].sock
<1>1. /\ rt' \in RtTypes /\ rt'[r].state = x /\ rt'[r].sock = rt[r].sock /\ rt'[r].lst = rt[r].lst
      /\ \A q \in Routes \ {r} : rt'[q] = rt[q]
  BY DEF Types, RtTypes
<1> QED BY <1>1 DEF Reroutes, Types, Owned

(***************************************************************************)
(* What a step of one thread leaves of the other's part                    *)
(***************************************************************************)
LEMMA CbSteps ==
  ASSUME IInv, NEW r \in Routes, Reroutes(r), main' = main,
         \A m \in Fds : fd[m].is \in {"conn", "listen"} => fd'[m] = fd[m],
         (r = main.r /\ main.at \in {"connect", "store", "accepted"}) =>
           \/ rt'[r].sock = rt[r].sock /\ fd' = fd /\ (Connects => rt'[r].state # "open")
           \/ main.at = "accepted" /\ rt'[r].sock = NoFd
  PROVE  /\ Owned' /\ MainServes' /\ Watched' /\ StillReady'
         /\ (rt'[r].state = "open" => Serves(rt[r].sock, r)') => OpenServes'
<1>1. /\ Types /\ Owned /\ OpenServes /\ MainServes /\ Watched /\ StillReady /\ table' = table
  BY DEF IInv, Reroutes
<1>2. /\ Owned'
      /\ \A q \in Routes \ {r} : /\ rt'[q] = rt[q]
                                 /\ rt[q].sock # NoFd => fd'[rt[q].sock] = fd[rt[q].sock]
  BY <1>1, ReroutesOwned
<1>3. (rt'[r].state = "open" => Serves(rt[r].sock, r)') => OpenServes'
  BY <1>1, <1>2 DEF OpenServes, Serves, IsConn
<1>4. main.r \in Routes BY <1>1 DEF Types, MainTypes
<1>5. MainServes'
  <2>1. CASE main.r # r BY <1>1, <1>2, <1>4, <2>1 DEF MainServes, UnderWay, Serves, IsConn
  <2>2. CASE main.r = r BY <1>1, <2>2 DEF MainServes, UnderWay, Serves, IsConn, Connects
  <2> QED BY <2>1, <2>2
<1>6. Watched'
  <2>1. SUFFICES ASSUME NEW n \in main.watch
                 PROVE  /\ main.at \notin {"serve", "accepted"}
                        /\ fd'[n].is \in {"conn", "listen"}
                        /\ (fd'[n].is = "conn" /\ main.at # "select") => \A q \in main.r .. NRoutes : rt'[q].sock # n
    BY DEF Watched
  <2>2. n \in Fds BY <1>1, <2>1 DEF Types, MainTypes
  <2>3. main.at \notin {"serve", "accepted"} /\ fd[n].is \in {"conn", "listen"} /\ fd'[n] = fd[n]
    BY <1>1, <2>1, <2>2 DEF Watched
  <2>4. ASSUME fd'[n].is = "conn", main.at # "select", NEW q \in main.r .. NRoutes PROVE rt'[q].sock # n
    <3>1. rt[q].sock # n BY <1>1, <2>1, <2>3, <2>4 DEF Watched
    <3>2. CASE q # r
      <4>1. q \in Routes BY <1>4, Constants DEF Routes
      <4> QED BY <1>2, <3>1, <3>2, <4>1
    <3>3. CASE q = r
      <4>1. n # NoFd /\ Free.is = "free" BY <2>2, Constants DEF Free
      <4>2. SUFFICES ASSUME rt'[r].sock = n PROVE FALSE BY <3>3
      <4>3. fd[n] = Free \/ rt'[r].sock = rt[r].sock BY <4>1, <4>2 DEF Reroutes
      <4> QED BY <2>3, <3>1, <3>3, <4>1, <4>2, <4>3
    <3> QED BY <3>2, <3>3
  <2> QED BY <2>3, <2>4
<1>7. StillReady'
  <2>1. SUFFICES ASSUME main.at = "serve", NEW n \in main.ready PROVE Readable(n)'
    BY DEF StillReady
  <2>2. n \in Fds BY <1>1, <2>1 DEF Types, MainTypes
  <2>3. Readable(n) BY <1>1, <2>1 DEF StillReady
  <2>4. fd'[n] = fd[n] BY <2>2, <2>3 DEF Readable, IsConn
  <2> QED BY <2>3, <2>4 DEF Readable, IsConn
<1> QED BY <1>2, <1>3, <1>5, <1>6, <1>7

LEMMA MainSteps ==
  ASSUME IInv, NEW r \in Routes, Reroutes(r), cb' = cb,
         rt'[r].state = "open" => Serves(rt[r].sock, r)',
         (cb.at # "idle" /\ cb.r = r) => CbServes'
  PROVE  Owned' /\ OpenServes' /\ CbServes'
<1>1. Types /\ Owned /\ OpenServes /\ CbServes /\ table' = table BY DEF IInv, Reroutes
<1>2. /\ Owned'
      /\ \A q \in Routes \ {r} : /\ rt'[q] = rt[q]
                                 /\ rt[q].sock # NoFd => fd'[rt[q].sock] = fd[rt[q].sock]
  BY <1>1, ReroutesOwned
<1>3. OpenServes' BY <1>1, <1>2 DEF OpenServes, Serves, IsConn
<1>4. cb.r \in Routes BY <1>1 DEF Types, CbTypes
<1>5. CbServes'
  <2>1. CASE cb.at = "idle" BY <2>1 DEF CbServes, UnderWay
  <2>2. CASE cb.at # "idle" /\ cb.r # r
    <3>1. UnderWay(cb)' BY <1>1, <1>2, <1>4, <2>2 DEF CbServes, UnderWay, Serves, IsConn
    <3>2. ((cb.at = "send" /\ rt[cb.r].sock = cb.sock) => Serves(cb.sock, cb.r))'
      BY <1>1, <1>2, <1>4, <2>2 DEF CbServes, Serves, IsConn
    <3> QED BY <3>1, <3>2 DEF CbServes
  <2> QED BY <2>1, <2>2
<1> QED BY <1>2, <1>3, <1>5

\* While the routes are passed, the one the loop is at may be closed and opened.
LEMMA ScanSteps ==
  ASSUME IInv, Reroutes(main.r), main'.watch = main.watch, main'.r = main.r,
         main.at \notin {"select", "serve", "accepted"}, main'.at \notin {"select", "serve", "accepted"}
  PROVE  Watched' /\ StillReady'
<1>1. Types /\ Owned /\ Watched BY DEF IInv
<1>2. main.r \in Routes BY <1>1 DEF Types, MainTypes
<1>3. Free.is = "free" BY DEF Free
<1>4. ASSUME NEW n \in main.watch
      PROVE  /\ fd'[n].is \in {"conn", "listen"}
             /\ fd'[n].is = "conn" => \A q \in main.r .. NRoutes : rt'[q].sock # n
  <2>1. n \in Fds /\ n # NoFd BY <1>1, <1>4, Constants DEF Types, MainTypes
  <2>2. /\ fd[n].is \in {"conn", "listen"}
        /\ fd[n].is = "conn" => \A q \in main.r .. NRoutes : rt[q].sock # n
    BY <1>1, <1>4 DEF Watched
  <2>3. main.r \in main.r .. NRoutes BY <1>2, Constants DEF Routes
  <2>4. n # rt[main.r].sock BY <1>1, <1>2, <2>1, <2>2, <2>3 DEF Owned
  <2>5. fd'[n].is = fd[n].is BY <1>3, <2>1, <2>2, <2>4 DEF Reroutes
  <2>6. ASSUME fd'[n].is = "conn", NEW q \in main.r .. NRoutes PROVE rt'[q].sock # n
    <3>1. q \in Routes BY <1>2, Constants DEF Routes
    <3>2. CASE q # main.r BY <2>2, <2>5, <2>6, <3>1, <3>2 DEF Reroutes
    <3>3. CASE q = main.r BY <1>3, <2>1, <2>2, <2>4, <3>3 DEF Reroutes
    <3> QED BY <3>2, <3>3
  <2> QED BY <2>2, <2>5, <2>6
<1>5. Watched' BY <1>4 DEF Watched
<1>6. StillReady' BY DEF StillReady
<1> QED BY <1>5, <1>6

\* Where only what lies on connections or waits at listeners changes.
LEMMA KindSteps ==
  ASSUME IInv, rt' = rt, table' = table, cb' = cb,
         \A m \in Fds : fd'[m].is = fd[m].is /\ (fd[m].is = "conn" => fd'[m].peer = fd[m].peer)
  PROVE  /\ Owned' /\ OpenServes' /\ CbServes'
         /\ main' = main => MainServes' /\ Watched'
<1>1. Types /\ Owned /\ OpenServes /\ CbServes /\ MainServes /\ Watched BY DEF IInv
<1>2. /\ \A r \in Routes : /\ rt[r].sock # NoFd => rt[r].sock \in Fds
                           /\ rt[r].lst # NoFd => rt[r].lst \in Fds
      /\ cb.r \in Routes /\ main.r \in Routes /\ cb.sock \in 0 .. MaxFd
  BY <1>1, InRange DEF Types, CbTypes, MainTypes
<1>3. Owned' BY <1>1, <1>2 DEF Owned
<1>4. OpenServes' BY <1>1, <1>2 DEF OpenServes, Serves, IsConn
<1>5. CbServes'
  <2>1. UnderWay(cb)' BY <1>1, <1>2 DEF CbServes, UnderWay, Serves, IsConn
  <2>2. cb.sock # NoFd => cb.sock \in Fds BY <1>2, Constants
  <2> QED BY <1>1, <2>1, <2>2 DEF CbServes, Serves, IsConn
<1>6. main' = main => MainServes'
  <2>1. SUFFICES ASSUME main' = main PROVE MainServes' OBVIOUS
  <2>2. UnderWay(main)' BY <1>1, <1>2, <2>1 DEF MainServes, UnderWay, Serves, IsConn
  <2> QED BY <1>1, <1>2, <2>1, <2>2 DEF MainServes, Serves, IsConn
<1>7. main' = main => Watched'
  <2>1. main.watch \subseteq Fds BY <1>1 DEF Types, MainTypes
  <2> QED BY <1>1, <2>1 DEF Watched
<1> QED BY <1>3, <1>4, <1>5, <1>6, <1>7

(***************************************************************************)
(* The steps of the callback thread                                        *)
(***************************************************************************)
LEMMA IdleType ==
  Idle \in CbTypes /\ Idle.at = "idle" /\ Idle.ret = "idle"
<1>1. 1 \in Routes /\ NoFd \in 0 .. MaxFd BY Constants DEF Routes
<1> QED BY <1>1 DEF Idle, CbTypes, Returns

LEMMA RcvConnectKeeps ==
  ASSUME IInv, NEW r \in Routes, RcvConnect(r)
  PROVE  IInv'
<1>1. /\ Types /\ Owned /\ OpenServes /\ MainServes /\ CbServes /\ Apart /\ Watched /\ StillReady
      /\ table' = table /\ main' = main /\ made' = made \cup {r} /\ cb.at = "idle" /\ r \notin made
  BY DEF IInv, RcvConnect, Rcv
<1>2. CASE rt[r].state = "open"
  <2>1. rt' = rt /\ fd' = fd /\ cb' = cb BY <1>2 DEF RcvConnect
  <2>2. Types' BY <1>1, <2>1, TypesNext DEF Types
  <2>3. Owned' /\ OpenServes' /\ CbServes' /\ MainServes' /\ Watched' BY <1>1, <2>1, KindSteps
  <2>4. StillReady' BY <1>1, <2>1 DEF StillReady, Readable, IsConn
  <2>5. Apart' BY <1>1, <2>1 DEF Apart, Connects
  <2> QED BY <2>2, <2>3, <2>4, <2>5 DEF IInv
<1>3. CASE rt[r].state # "open"
  <2>1. PICK at \in {"connect", "store"} :
           ConnectByConfig(Cur, r, at) /\ cb' = [Idle EXCEPT !.at = at, !.r = r]
    BY <1>3 DEF RcvConnect
  <2>2. Prepared(Cur, r) /\ Cur.rt = rt /\ Cur.fd = fd BY <1>1, CurPrepared
  <2> HIDE DEF Cur
  <2>3. /\ Reroutes(r) /\ rt'[r].state = rt[r].state
        /\ table[r].mode = "LISTEN" => rt'[r].sock = NoFd
        /\ at = "connect" => /\ table[r].mode = "CONNECT" /\ rt'[r].sock # NoFd
                             /\ fd'[rt'[r].sock].is = "socket"
        /\ \A m \in Fds : fd[m] # Free => fd'[m] = fd[m]
    BY <1>1, <2>1, <2>2, ConnectFacts
  <2>4. cb' \in CbTypes /\ cb'.at = at /\ cb'.r = r /\ cb'.ret = "idle"
    BY <2>1, IdleType DEF CbTypes
  <2>5. Types' BY <1>1, <2>3, <2>4, TypesNext DEF Types, Reroutes
  <2>6. \A m \in Fds : fd[m].is \in {"conn", "listen"} => fd'[m] = fd[m] BY <2>3 DEF Free
  <2>7. Connects => r # main.r BY <1>1 DEF Apart
  <2>8. (r = main.r /\ main.at = "accepted") => rt'[r].sock = NoFd BY <1>1, <2>3 DEF MainServes
  <2>9. Owned' /\ MainServes' /\ Watched' /\ StillReady' /\ OpenServes'
    BY <1>1, <1>3, <2>3, <2>6, <2>7, <2>8, CbSteps DEF Connects
  <2>10. CbServes' BY <1>1, <1>3, <2>3, <2>4 DEF CbServes, UnderWay, Reroutes
  <2>11. Apart'
    <3>1. rt[r].state # "reconnect" BY <1>1 DEF Apart
    <3>2. main.r \in Routes BY <1>1 DEF Types, MainTypes
    <3> QED BY <1>1, <2>3, <2>4, <2>7, <3>1, <3>2 DEF Apart, Connects, Reroutes
  <2> QED BY <2>5, <2>9, <2>10, <2>11 DEF IInv
<1> QED BY <1>2, <1>3

LEMMA RcvReconnectKeeps ==
  ASSUME IInv, NEW r \in Routes, RcvReconnect(r)
  PROVE  IInv'
<1>1. /\ Types /\ Owned /\ Apart /\ table' = table /\ main' = main /\ made' = made
      /\ cb' = cb /\ cb.at = "idle" /\ r \in made
      /\ rt' = [rt EXCEPT ![r].state = "reconnect"] /\ fd' = fd
  BY DEF IInv, RcvReconnect, Rcv
<1>2. Reroutes(r) /\ rt'[r].state = "reconnect" /\ rt'[r].sock = rt[r].sock BY <1>1, StateReroutes
<1>3. Types' BY <1>1, <1>2, TypesNext DEF Types, Reroutes
<1>4. Owned' /\ MainServes' /\ Watched' /\ StillReady' /\ OpenServes' BY <1>1, <1>2, CbSteps
<1>5. CbServes' BY <1>1 DEF CbServes, UnderWay
<1>6. Apart'
  <2>1. main.r \in Routes BY <1>1 DEF Types, MainTypes
  <2> QED BY <1>1, <1>2, <2>1 DEF Apart, Connects, Reroutes
<1> QED BY <1>3, <1>4, <1>5, <1>6 DEF IInv

\* Only the callback thread's own place changes.
LEMMA CbPlace ==
  ASSUME IInv, UNCHANGED <<table, rt, fd, main, made>>, cb' \in CbTypes, CbServes',
         cb'.at # "idle" => rt[cb'.r].state # "reconnect" /\ (Connects => main.r # cb'.r)
  PROVE  IInv'
<1>1. Types' BY TypesNext DEF IInv, Types
<1>2. Owned' /\ OpenServes' /\ StillReady' /\ Watched' /\ MainServes'
  BY DEF IInv, Owned, OpenServes, Serves, IsConn, StillReady, Readable, Watched, MainServes, UnderWay
<1>3. Apart' BY DEF IInv, Apart, Connects
<1> QED BY <1>1, <1>2, <1>3 DEF IInv

LEMMA RcvDataKeeps ==
  ASSUME IInv, NEW r \in Routes, RcvData(r)
  PROVE  IInv'
<1>1. /\ Types /\ OpenServes /\ Apart /\ UNCHANGED <<table, rt, fd, main, made>>
      /\ rt[r].state = "open" /\ cb' = [Idle EXCEPT !.at = "send", !.r = r, !.sock = rt[r].sock]
  BY DEF IInv, RcvData, Rcv
<1>2. rt[r].sock \in 0 .. MaxFd BY <1>1 DEF Types, RtTypes
<1>3. cb' \in CbTypes /\ cb'.at = "send" /\ cb'.r = r /\ cb'.sock = rt[r].sock
  BY <1>1, <1>2, IdleType DEF CbTypes
<1>4. CbServes' BY <1>1, <1>3 DEF OpenServes, CbServes, UnderWay, Serves, IsConn
<1>5. Connects => main.r # r BY <1>1 DEF Apart
<1> QED BY <1>1, <1>3, <1>4, <1>5, CbPlace

LEMMA SendKeeps ==
  ASSUME IInv, Send
  PROVE  IInv'
<1>1. UNCHANGED <<table, rt, fd, main, made>> /\ cb' = Idle BY DEF Send
<1>2. cb' \in CbTypes /\ cb'.at = "idle" BY <1>1, IdleType
<1>3. CbServes' BY <1>2 DEF CbServes, UnderWay
<1> QED BY <1>1, <1>2, <1>3, CbPlace

LEMMA CbConnectedKeeps ==
  ASSUME IInv, CbConnected
  PROVE  IInv'
<1>0. PICK r \in Routes : r = cb.r BY DEF IInv, Types, CbTypes
<1>1. /\ Types /\ Owned /\ CbServes /\ MainServes /\ Apart
      /\ table' = table /\ main' = main /\ made' = made /\ cb.at = "connect"
  BY DEF IInv, CbConnected
<1>2. PICK ret \in Returns : ConnectReturns(r, ret) /\ cb' = [cb EXCEPT !.at = "store", !.ret = ret]
  BY <1>0 DEF CbConnected, Returns
<1>3. /\ r \in Routes /\ table[r].mode = "CONNECT" /\ rt[r].state # "open"
      /\ rt[r].sock # NoFd /\ fd[rt[r].sock].is = "socket"
  BY <1>0, <1>1 DEF CbServes, UnderWay
<1>4. cb' \in CbTypes /\ cb'.at = "store" /\ cb'.r = r /\ cb'.ret = ret
  BY <1>0, <1>1, <1>2 DEF Types, CbTypes, Returns
<1>5. /\ Reroutes(r) /\ rt'[r].state \in {rt[r].state, "idle"}
      /\ ret = "open" => Serves(rt[r].sock, r)'
      /\ \A m \in Fds : m # rt[r].sock => fd'[m] = fd[m]
  BY <1>1, <1>2, <1>3, ReturnsReroutes
<1>6. Types' BY <1>1, <1>4, <1>5, TypesNext DEF Types, Reroutes
<1>7. \A m \in Fds : fd[m].is \in {"conn", "listen"} => fd'[m] = fd[m] BY <1>3, <1>5
<1>8. (Connects => r # main.r) /\ rt[r].state # "reconnect" BY <1>0, <1>1 DEF Apart
<1>9. main.at = "accepted" => r # main.r BY <1>1, <1>3 DEF MainServes
<1>10. Owned' /\ MainServes' /\ Watched' /\ StillReady' /\ OpenServes'
  BY <1>1, <1>3, <1>5, <1>7, <1>8, <1>9, CbSteps DEF Connects
<1>11. CbServes'
  <2>1. cb'.ret = "open" => Serves(rt[cb.r].sock, cb.r)' BY <1>4, <1>5 DEF Serves, IsConn
  <2> QED BY <1>4, <1>3, <1>5, <2>1 DEF CbServes, UnderWay, Reroutes
<1>12. Apart'
  <2>1. main.r \in Routes BY <1>1 DEF Types, MainTypes
  <2> QED BY <1>1, <1>4, <1>5, <1>8, <2>1 DEF Apart, Connects, Reroutes
<1> QED BY <1>6, <1>10, <1>11, <1>12 DEF IInv

LEMMA CbStoreKeeps ==
  ASSUME IInv, CbStore
  PROVE  IInv'
<1>0. PICK r \in Routes : r = cb.r BY DEF IInv, Types, CbTypes
<1>1. /\ Types /\ Owned /\ CbServes /\ Apart /\ table' = table /\ main' = main /\ made' = made
      /\ cb.at = "store" /\ rt' = [rt EXCEPT ![r].state = cb.ret] /\ fd' = fd /\ cb' = Idle
  BY <1>0 DEF IInv, CbStore
<1>2. cb.ret \in Returns BY <1>1 DEF Types, CbTypes
<1>3. (cb.ret = "open" => Serves(rt[r].sock, r)) /\ (Connects => main.r # r)
  BY <1>0, <1>1 DEF CbServes, UnderWay, Apart
<1>4. cb' \in CbTypes /\ cb'.at = "idle" BY <1>1, IdleType
<1>5. Reroutes(r) /\ rt'[r].state = cb.ret /\ rt'[r].sock = rt[r].sock
  BY <1>1, <1>2, StateReroutes DEF Returns
<1>6. Types' BY <1>1, <1>4, <1>5, TypesNext DEF Types, Reroutes
<1>7. rt'[r].state = "open" => Serves(rt[r].sock, r)' BY <1>1, <1>3, <1>5 DEF Serves, IsConn
<1>8. Owned' /\ MainServes' /\ Watched' /\ StillReady' /\ OpenServes'
  BY <1>1, <1>2, <1>3, <1>5, <1>7, CbSteps
<1>9. CbServes' BY <1>4 DEF CbServes, UnderWay
<1>10. Apart'
  <2>1. main.r \in Routes BY <1>1 DEF Types, MainTypes
  <2> QED BY <1>1, <1>2, <1>3, <1>4, <1>5, <2>1 DEF Apart, Connects, Reroutes, Returns
<1> QED BY <1>6, <1>8, <1>9, <1>10 DEF IInv

(***************************************************************************)
(* The steps of the main thread                                            *)
(***************************************************************************)
LEMMA ScanKeeps ==
  ASSUME IInv, Scan
  PROVE  IInv'
<1>0. PICK r \in Routes : r = main.r BY DEF IInv, Types, MainTypes
<1>1. /\ Types /\ Owned /\ OpenServes /\ CbServes /\ Apart /\ Watched
      /\ table' = table /\ cb' = cb /\ made' = made /\ main.at = "scan"
  BY DEF IInv, Scan, MainUnch
<1>2. CASE rt[r].state # "reconnect"
  <2>1. rt' = rt /\ fd' = fd /\ main' = [main EXCEPT !.at = "watch"] BY <1>0, <1>2 DEF Scan
  <2>2. /\ main' \in MainTypes /\ main'.at = "watch" /\ main'.r = r /\ main'.watch = main.watch
    BY <1>0, <1>1, <2>1 DEF Types, MainTypes
  <2>3. Types' BY <1>1, <2>1, <2>2, TypesNext DEF Types
  <2>4. Owned' /\ OpenServes' /\ CbServes' BY <1>1, <2>1, KindSteps
  <2>5. MainServes' BY <2>2 DEF MainServes, UnderWay
  <2>6. Watched' BY <1>0, <1>1, <2>1, <2>2 DEF Watched
  <2>7. Apart' /\ StillReady' BY <1>1, <2>1, <2>2 DEF Apart, Connects, StillReady
  <2> QED BY <2>3, <2>4, <2>5, <2>6, <2>7 DEF IInv
<1>3. CASE rt[r].state = "reconnect"
  <2> DEFINE s == IF rt[r].sock = NoFd THEN Cur ELSE CloseRoute(Cur, r)
  <2>1. PICK at \in {"connect", "store"} :
           ConnectByConfig(s, r, at) /\ main' = [main EXCEPT !.at = at, !.ret = "idle"]
    BY <1>0, <1>3 DEF Scan
  <2>2. Prepared(s, r) /\ s.rt[r].state \in {"reconnect", "idle"}
    BY <1>1, <1>3, CurPrepared
  <2> HIDE DEF s
  <2>3. /\ Reroutes(r) /\ rt'[r].state = s.rt[r].state
        /\ at = "connect" => /\ table[r].mode = "CONNECT" /\ rt'[r].sock # NoFd
                             /\ fd'[rt'[r].sock].is = "socket"
    BY <1>1, <2>1, <2>2, ConnectFacts
  <2>4. /\ main' \in MainTypes /\ main'.at = at /\ main'.r = r /\ main'.watch = main.watch
        /\ main'.ret = "idle"
    BY <1>0, <1>1, <2>1 DEF Types, MainTypes, Returns
  <2>5. Types' BY <1>1, <2>3, <2>4, TypesNext DEF Types, Reroutes
  <2>6. cb.at # "idle" => cb.r # r BY <1>1, <1>3 DEF Apart
  <2>7. rt'[r].state # "open" BY <2>2, <2>3
  <2>8. Owned' /\ OpenServes' /\ CbServes' BY <1>1, <2>3, <2>6, <2>7, MainSteps
  <2>9. Watched' /\ StillReady' BY <1>0, <1>1, <2>1, <2>3, <2>4, ScanSteps
  <2>10. MainServes' BY <2>1, <2>3, <2>4, <2>7 DEF MainServes, UnderWay, Reroutes
  <2>11. Apart'
    <3>1. cb.r \in Routes BY <1>1 DEF Types, CbTypes
    <3>2. r \in made BY <1>1, <1>3 DEF Apart
    <3> QED BY <1>1, <2>3, <2>4, <2>6, <2>7, <3>1, <3>2 DEF Apart, Connects, Reroutes
  <2> QED BY <2>5, <2>8, <2>9, <2>10, <2>11 DEF IInv
<1> QED BY <1>2, <1>3

LEMMA MainConnectedKeeps ==
  ASSUME IInv, MainConnected
  PROVE  IInv'
<1>0. PICK r \in Routes : r = main.r BY DEF IInv, Types, MainTypes
<1>1. /\ Types /\ Owned /\ MainServes /\ Apart
      /\ table' = table /\ cb' = cb /\ made' = made /\ main.at = "connect"
  BY DEF IInv, MainConnected, MainUnch
<1>2. PICK ret \in Returns : ConnectReturns(r, ret) /\ main' = [main EXCEPT !.at = "store", !.ret = ret]
  BY <1>0 DEF MainConnected, Returns
<1>3. /\ table[r].mode = "CONNECT" /\ rt[r].state # "open"
      /\ rt[r].sock # NoFd /\ fd[rt[r].sock].is = "socket"
  BY <1>0, <1>1 DEF MainServes, UnderWay
<1>4. /\ main' \in MainTypes /\ main'.at = "store" /\ main'.r = r /\ main'.ret = ret
      /\ main'.watch = main.watch
  BY <1>0, <1>1, <1>2 DEF Types, MainTypes, Returns
<1>5. /\ Reroutes(r) /\ rt'[r].state \in {rt[r].state, "idle"}
      /\ ret = "open" => Serves(rt[r].sock, r)'
  BY <1>1, <1>2, <1>3, ReturnsReroutes
<1>6. Types' BY <1>1, <1>4, <1>5, TypesNext DEF Types, Reroutes
<1>7. r \in made /\ (cb.at # "idle" => cb.r # r) BY <1>0, <1>1 DEF Apart, Connects
<1>8. Owned' /\ OpenServes' /\ CbServes' BY <1>1, <1>3, <1>5, <1>7, MainSteps
<1>9. Watched' /\ StillReady' BY <1>0, <1>1, <1>4, <1>5, ScanSteps
<1>10. MainServes'
  <2>1. main'.ret = "open" => Serves(rt[main.r].sock, main.r)' BY <1>4, <1>5 DEF Serves, IsConn
  <2> QED BY <1>4, <1>3, <2>1, <1>5 DEF MainServes, UnderWay, Reroutes
<1>11. Apart'
  <2>1. cb.r \in Routes BY <1>1 DEF Types, CbTypes
  <2> QED BY <1>1, <1>3, <1>4, <1>5, <1>7, <2>1 DEF Apart, Connects, Reroutes
<1> QED BY <1>6, <1>8, <1>9, <1>10, <1>11 DEF IInv

LEMMA MainStoreKeeps ==
  ASSUME IInv, MainStore
  PROVE  IInv'
<1>0. PICK r \in Routes : r = main.r BY DEF IInv, Types, MainTypes
<1>1. /\ Types /\ Owned /\ MainServes /\ Apart /\ table' = table /\ cb' = cb /\ made' = made
      /\ main.at = "store" /\ rt' = [rt EXCEPT ![r].state = main.ret] /\ fd' = fd
      /\ main' = [main EXCEPT !.at = "watch"]
  BY <1>0 DEF IInv, MainStore, MainUnch
<1>2. main.ret \in Returns BY <1>1 DEF Types, MainTypes
<1>3. main.ret = "open" => Serves(rt[r].sock, r) BY <1>0, <1>1 DEF MainServes, UnderWay
<1>4. main' \in MainTypes /\ main'.at = "watch" /\ main'.r = r /\ main'.watch = main.watch
  BY <1>0, <1>1 DEF Types, MainTypes
<1>5. Reroutes(r) /\ rt'[r].state = main.ret /\ rt'[r].sock = rt[r].sock
  BY <1>1, <1>2, StateReroutes DEF Returns
<1>6. Types' BY <1>1, <1>4, <1>5, TypesNext DEF Types, Reroutes
<1>7. cb.at # "idle" => cb.r # r BY <1>0, <1>1 DEF Apart, Connects
<1>8. rt'[r].state = "open" => Serves(rt[r].sock, r)' BY <1>1, <1>3, <1>5 DEF Serves, IsConn
<1>9. Owned' /\ OpenServes' /\ CbServes' BY <1>1, <1>5, <1>7, <1>8, MainSteps
<1>10. Watched' /\ StillReady' BY <1>0, <1>1, <1>4, <1>5, ScanSteps
<1>11. MainServes' BY <1>4 DEF MainServes, UnderWay
<1>12. Apart'
  <2>1. cb.r \in Routes BY <1>1 DEF Types, CbTypes
  <2> QED BY <1>1, <1>2, <1>4, <1>5, <1>7, <2>1 DEF Apart, Connects, Reroutes, Returns
<1> QED BY <1>6, <1>9, <1>10, <1>11, <1>12 DEF IInv

\* Only the main thread's own place changes.
LEMMA MainPlace ==
  ASSUME IInv, UNCHANGED <<table, rt, fd, cb, made>>, main' \in MainTypes,
         main'.at \in {"scan", "select", "serve"}, Watched', StillReady'
  PROVE  IInv'
<1>1. Types' BY TypesNext DEF IInv, Types
<1>2. Owned' /\ OpenServes' /\ CbServes' BY KindSteps
<1>3. MainServes' BY DEF MainServes, UnderWay
<1>4. Apart' BY DEF IInv, Apart, Connects
<1> QED BY <1>1, <1>2, <1>3, <1>4 DEF IInv

LEMMA AtType ==
  ASSUME NEW w \in {"scan", "serve", "accepted"}, NEW r \in Routes
  PROVE  /\ At(w, r) \in MainTypes /\ At(w, r).at = w /\ At(w, r).r = r
         /\ At(w, r).watch = {} /\ At(w, r).ready = {} /\ At(w, r).ret = "idle"
  BY DEF At, MainTypes, Returns

LEMMA WatchKeeps ==
  ASSUME IInv, Watch
  PROVE  IInv'
<1>0. PICK r \in Routes : r = main.r BY DEF IInv, Types, MainTypes
<1> DEFINE fds == {rt[r].lst} \cup {n \in {rt[r].sock} : rt[r].state = "open"}
           a == IF r < NRoutes THEN "scan" ELSE "select"
           b == IF r < NRoutes THEN r + 1 ELSE 1
           w == main.watch \cup (fds \ {NoFd})
<1>1. /\ Types /\ Owned /\ OpenServes /\ Watched /\ UNCHANGED <<table, rt, fd, cb, made>>
      /\ main.at = "watch" /\ main' = [main EXCEPT !.at = a, !.r = b, !.watch = w]
  BY <1>0 DEF IInv, Watch, WatchAlso, MainUnch
<1>2. fds \ {NoFd} \subseteq Fds BY <1>1, InRange DEF Types
<1>3. a \in {"scan", "select"} OBVIOUS
<1>4. b \in Routes BY Constants DEF Routes
<1>5. ASSUME NEW n \in fds \ {NoFd}
      PROVE  /\ fd[n].is \in {"conn", "listen"}
             /\ fd[n].is = "conn" => n = rt[r].sock
  BY <1>1 DEF Owned, OpenServes, Serves, IsConn
<1>6. w \in SUBSET Fds BY <1>1, <1>2 DEF Types, MainTypes
<1>7. /\ main' \in MainTypes /\ main'.at = a /\ main'.r = b /\ main'.watch = w
  BY <1>1, <1>3, <1>4, <1>6 DEF Types, MainTypes
<1> HIDE DEF fds
<1>8. Watched'
  <2>1. ASSUME NEW n \in w
        PROVE  /\ fd[n].is \in {"conn", "listen"}
               /\ fd[n].is = "conn" /\ a # "select" => \A q \in b .. NRoutes : rt[q].sock # n
    <3>1. \A q \in r + 1 .. NRoutes : q \in Routes /\ q # r /\ q \in r .. NRoutes BY Constants DEF Routes
    <3>2. CASE n \in main.watch BY <1>0, <1>1, <3>1, <3>2 DEF Watched
    <3>3. CASE n \in fds \ {NoFd} BY <1>1, <1>5, <3>1, <3>3 DEF Owned
    <3> QED BY <3>2, <3>3
  <2> HIDE DEF w, b
  <2> QED BY <1>1, <1>3, <1>7, <2>1 DEF Watched
<1>9. StillReady' BY <1>3, <1>7 DEF StillReady
<1> QED BY <1>1, <1>3, <1>7, <1>8, <1>9, MainPlace

LEMMA SelectKeeps ==
  ASSUME IInv, Select
  PROVE  IInv'
<1>1. /\ Types /\ UNCHANGED <<table, rt, fd, cb, made>>
      /\ main' = IF ReadyNow = {} THEN At("scan", 1) ELSE [At("serve", 1) EXCEPT !.ready = ReadyNow]
  BY DEF IInv, Select, MainUnch
<1>2. ReadyNow \subseteq Fds /\ \A n \in ReadyNow : Readable(n)
  BY <1>1 DEF ReadyNow, Types, MainTypes
<1>3. 1 \in Routes BY Constants DEF Routes
<1> HIDE DEF ReadyNow
<1>4. CASE ReadyNow = {}
  <2>1. main' \in MainTypes /\ main'.at = "scan" /\ main'.watch = {} BY <1>1, <1>3, <1>4, AtType
  <2>2. Watched' /\ StillReady' BY <2>1 DEF Watched, StillReady
  <2> QED BY <1>1, <2>1, <2>2, MainPlace
<1>5. CASE ReadyNow # {}
  <2>1. main' = [At("serve", 1) EXCEPT !.ready = ReadyNow] BY <1>1, <1>5
  <2>2. /\ At("serve", 1) \in MainTypes /\ At("serve", 1).at = "serve" /\ At("serve", 1).watch = {}
    BY <1>3, AtType
  <2>3. main' \in MainTypes /\ main'.at = "serve" /\ main'.watch = {} /\ main'.ready = ReadyNow
    BY <1>2, <2>1, <2>2 DEF MainTypes
  <2>4. Watched' BY <2>3 DEF Watched
  <2>5. StillReady' BY <1>1, <1>2, <2>3 DEF StillReady, Readable, IsConn
  <2> QED BY <1>1, <2>3, <2>4, <2>5, MainPlace
<1> QED BY <1>4, <1>5

LEMMA SkipKeeps ==
  ASSUME IInv, Skip
  PROVE  IInv'
<1>0. PICK r \in Routes : r = main.r BY DEF IInv, Types, MainTypes
<1>1. /\ Types /\ Watched /\ StillReady /\ UNCHANGED <<table, rt, fd, cb, made>> /\ main.at = "serve"
      /\ main' = IF r < NRoutes THEN [main EXCEPT !.r = r + 1] ELSE At("scan", 1)
  BY <1>0 DEF IInv, Skip, MainUnch
<1>2. CASE r < NRoutes
  <2>1. r + 1 \in Routes BY <1>2, Constants DEF Routes
  <2>2. /\ main' \in MainTypes /\ main'.at = "serve" /\ main'.watch = main.watch
        /\ main'.ready = main.ready
    BY <1>1, <1>2, <2>1 DEF Types, MainTypes
  <2>3. Watched' BY <1>1, <2>2 DEF Watched
  <2>4. StillReady' BY <1>1, <2>2 DEF StillReady, Readable, IsConn
  <2> QED BY <1>1, <2>2, <2>3, <2>4, MainPlace
<1>3. CASE ~(r < NRoutes)
  <2>1. 1 \in Routes BY Constants DEF Routes
  <2>2. main' \in MainTypes /\ main'.at = "scan" /\ main'.watch = {} BY <1>1, <1>3, <2>1, AtType
  <2>3. Watched' /\ StillReady' BY <2>2 DEF Watched, StillReady
  <2> QED BY <1>1, <2>2, <2>3, MainPlace
<1> QED BY <1>2, <1>3

LEMMA ClientAt ==
  ASSUME NEW d \in Descs, d.is = "listen", NEW a \in Addrs \cup {NoClient}
  PROVE  [d EXCEPT !.client = a] \in Descs /\ [d EXCEPT !.client = a].is = "listen"
<1>1. d \in [is : {"listen"}, port : Ports, client : Addrs \cup {NoClient}] BY DescFacts
<1>2. [d EXCEPT !.client = a] \in [is : {"listen"}, port : Ports, client : Addrs \cup {NoClient}]
  BY <1>1
<1> QED BY <1>2 DEF Descs

LEMMA LineAt ==
  ASSUME NEW d \in Descs, d.is = "conn", NEW x \in {"quiet", "data", "shut", "broken"}
  PROVE  /\ [d EXCEPT !.line = x] \in Descs /\ [d EXCEPT !.line = x].is = "conn"
         /\ [d EXCEPT !.line = x].peer = d.peer
<1>1. d \in [is : {"conn"}, peer : Addrs, line : {"quiet", "data", "shut", "broken"}] BY DescFacts
<1>2. /\ [d EXCEPT !.line = x] \in [is : {"conn"}, peer : Addrs, line : {"quiet", "data", "shut", "broken"}]
      /\ [d EXCEPT !.line = x].peer = d.peer
  BY <1>1
<1> QED BY <1>2 DEF Descs

\* The loop begins again after a step that has changed only what lies on connections or
\* waits at listeners.
LEMMA Restart ==
  ASSUME IInv, UNCHANGED <<table, rt, cb, made>>, main' = At("scan", 1), fd' \in [Fds -> Descs],
         \A m \in Fds : fd'[m].is = fd[m].is /\ (fd[m].is = "conn" => fd'[m].peer = fd[m].peer)
  PROVE  IInv'
<1>1. 1 \in Routes BY Constants DEF Routes
<1>2. main' \in MainTypes /\ main'.at = "scan" /\ main'.watch = {} BY <1>1, AtType
<1>3. Types' BY <1>2, TypesNext DEF IInv, Types
<1>4. Owned' /\ OpenServes' /\ CbServes' BY KindSteps
<1>5. MainServes' /\ Watched' /\ StillReady'
  BY <1>2 DEF MainServes, UnderWay, Watched, StillReady
<1>6. Apart' BY <1>2 DEF IInv, Apart, Connects
<1> QED BY <1>3, <1>4, <1>5, <1>6 DEF IInv

LEMMA AcceptKeeps ==
  ASSUME IInv, Accept
  PROVE  IInv'
<1>0. PICK r \in Routes : r = main.r BY DEF IInv, Types, MainTypes
<1> DEFINE lst == rt[r].lst
           a == fd[lst].client
           n == Lowest(fd)
           E == {q \in r .. NRoutes : table[q].mode = "LISTEN" /\ table[q].addr = a}
           q == Min(E)
           f1 == [fd EXCEPT ![lst].client = NoClient, ![n] = Conn(a)]
           s1 == [rt |-> rt, fd |-> f1]
           s2 == IF rt[q].sock = NoFd THEN s1 ELSE CloseRoute(s1, q)
<1>1. /\ Types /\ Owned /\ OpenServes /\ CbServes /\ Apart /\ StillReady
      /\ UNCHANGED <<table, cb, made>> /\ main.at = "serve" /\ lst \in main.ready /\ n # NoFd
  BY <1>0 DEF IInv, Accept, Accepts, MainUnch
<1>2. IF E = {} THEN /\ fd' = [fd EXCEPT ![lst].client = NoClient]
                     /\ main' = At("scan", 1) /\ rt' = rt
      ELSE /\ Becomes([s2 EXCEPT !.rt[q].sock = n])
           /\ main' = [At("accepted", 1) EXCEPT !.r = q]
  BY <1>0 DEF Accept, Entitled
<1>3. lst \in Fds /\ lst # NoFd /\ fd[lst].is = "listen" /\ fd[lst].client # NoClient
  <2>1. lst \in Fds /\ lst # NoFd BY <1>1, Constants DEF Types, MainTypes
  <2>2. Readable(lst) BY <1>1 DEF StillReady
  <2> QED BY <1>1, <2>1, <2>2 DEF Owned, Readable, IsConn
<1>4. fd \in [Fds -> Descs] /\ rt \in RtTypes BY <1>1 DEF Types
<1>5. a \in Addrs
  <2>1. fd[lst] \in Descs BY <1>3, <1>4
  <2>2. fd[lst] \in [is : {"listen"}, port : Ports, client : Addrs \cup {NoClient}]
    BY <1>3, <2>1, DescFacts
  <2> QED BY <1>3, <2>2
<1>6. n \in Fds /\ fd[n] = Free /\ n # lst
  <2>1. n \in Fds /\ fd[n] = Free BY <1>1, LowestFacts
  <2>2. Free.is = "free" BY DEF Free
  <2> HIDE DEF n
  <2>3. n # lst BY <1>3, <2>1, <2>2
  <2> QED BY <2>1, <2>3
<1>7. [fd[lst] EXCEPT !.client = NoClient] \in Descs /\ [fd[lst] EXCEPT !.client = NoClient].is = "listen"
  <2>1. NoClient \in Addrs \cup {NoClient} OBVIOUS
  <2>2. PICK d \in Descs : d = fd[lst] BY <1>3, <1>4
  <2>3. d.is = "listen" BY <1>3, <2>2
  <2>4. [d EXCEPT !.client = NoClient] \in Descs /\ [d EXCEPT !.client = NoClient].is = "listen"
    BY <2>1, <2>3, ClientAt
  <2> QED BY <2>2, <2>4
<1>8. CASE E = {}
  <2>1. fd' = [fd EXCEPT ![lst] = [fd[lst] EXCEPT !.client = NoClient]] BY <1>2, <1>8
  <2>2. fd' \in [Fds -> Descs] BY <1>4, <1>7, <2>1
  <2>3. \A m \in Fds : fd'[m].is = fd[m].is /\ (fd[m].is = "conn" => fd'[m].peer = fd[m].peer)
    BY <1>3, <1>4, <1>7, <2>1
  <2> QED BY <1>1, <1>2, <1>8, <2>2, <2>3, Restart
<1>9. CASE E # {}
  <2>1. q \in Routes /\ table[q].mode = "LISTEN" /\ table[q].addr = a
    <3>1. E \subseteq Routes BY Constants DEF Routes
    <3>2. E \subseteq Nat BY <3>1, Constants
    <3>3. q \in E BY <1>9, <3>2, MinIsLeast
    <3> HIDE DEF q
    <3> QED BY <3>1, <3>3
  <2>2. PICK p \in Routes : p = q BY <2>1
  <2> HIDE DEF q, E
  <2> DEFINE c == Conn(a)
             l == [fd[lst] EXCEPT !.client = NoClient]
             old == rt[p].sock
             R == IF old = NoFd THEN rt ELSE [rt EXCEPT ![p].state = "idle", ![p].sock = NoFd]
             F == IF old = NoFd THEN f1 ELSE [f1 EXCEPT ![old] = Free]
  <2>3. s2 = [rt |-> R, fd |-> F] BY <2>2 DEF CloseRoute
  <2>4. rt' = [R EXCEPT ![p].sock = n] /\ fd' = F
    <3>1. rt' = [s2 EXCEPT !.rt[p].sock = n].rt /\ fd' = [s2 EXCEPT !.rt[p].sock = n].fd
      BY <1>2, <1>9, <2>2 DEF Becomes
    <3> HIDE DEF s2, R, F, n
    <3>2. [s2 EXCEPT !.rt[p].sock = n] = [rt |-> [R EXCEPT ![p].sock = n], fd |-> F]
      BY <2>3
    <3> QED BY <3>1, <3>2
  <2>5. c \in Descs /\ c.is = "conn" /\ c.peer = a BY <1>5 DEF Conn, Descs
  <2>6. /\ f1 \in [Fds -> Descs] /\ f1[n] = c /\ f1[lst] = l
        /\ \A m \in Fds : m # n /\ m # lst => f1[m] = fd[m]
    <3>1. f1 = [fd EXCEPT ![lst] = l, ![n] = c] OBVIOUS
    <3> HIDE DEF c, l, f1, n, lst
    <3> QED BY <1>3, <1>4, <1>6, <1>7, <2>5, <3>1 DEF l
  <2>7. old # NoFd => old \in Fds /\ fd[old].is \in {"socket", "conn"}
    BY <1>1, InRange DEF Owned, Types
  <2>8. old # n /\ old # lst BY <1>3, <1>6, <2>7, Constants DEF Free
  <2>9. Free \in Descs BY DEF Descs
  <2> HIDE DEF f1, c, l, n, lst
  <2>10. /\ F \in [Fds -> Descs] /\ F[n] = c /\ F[lst] = l
         /\ \A m \in Fds : m # n /\ m # lst /\ m # old => F[m] = fd[m]
    BY <1>3, <1>6, <2>6, <2>7, <2>8, <2>9
  <2>11. n \in 0 .. MaxFd BY <1>6, Constants
  <2>12. /\ rt' \in RtTypes /\ rt'[p].sock = n /\ rt'[p].lst = rt[p].lst
         /\ rt'[p].state \in {rt[p].state, "idle"}
         /\ \A x \in Routes \ {p} : rt'[x] = rt[x]
    <3>1. NoFd \in 0 .. MaxFd BY Constants
    <3> QED BY <1>4, <2>4, <2>11, <3>1 DEF RtTypes
  <2> HIDE DEF R, F
  <2>13. rt[p].lst # NoFd => fd'[rt[p].lst].is = "listen"
    <3>1. rt[p].lst # NoFd => rt[p].lst \in Fds /\ fd[rt[p].lst].is = "listen"
      BY <1>1, InRange DEF Types, Owned
    <3>2. SUFFICES ASSUME rt[p].lst # NoFd PROVE fd'[rt[p].lst].is = "listen" OBVIOUS
    <3>3. rt[p].lst # n /\ rt[p].lst # old BY <1>6, <2>7, <3>1, <3>2 DEF Free
    <3>4. l.is = "listen" BY <1>7 DEF l
    <3>5. CASE rt[p].lst = lst BY <2>4, <2>10, <3>4, <3>5
    <3>6. CASE rt[p].lst # lst BY <2>4, <2>10, <3>1, <3>2, <3>3, <3>6
    <3> QED BY <3>5, <3>6
  <2>14. Reroutes(p)
    <3>1. \A m \in Fds : \/ fd'[m] = fd[m] \/ fd[m] = Free \/ m = rt[p].sock
                         \/ (fd[m].is = "listen" /\ fd'[m].is = "listen")
      BY <1>3, <1>6, <1>7, <2>4, <2>10 DEF l
    <3>2. fd' \in [Fds -> Descs] /\ fd'[n].is = "conn" BY <2>4, <2>5, <2>10
    <3> QED BY <1>1, <1>6, <2>12, <2>13, <3>1, <3>2 DEF Reroutes
  <2>15. /\ fd'[n].is = "conn" /\ fd'[n].peer = table[p].addr /\ table' = table
         /\ rt'[p].sock = n
    BY <1>1, <2>1, <2>2, <2>4, <2>5, <2>10, <2>12
  <2>16. Serves(rt[p].sock, p)' BY <2>15 DEF Serves, IsConn
  <2>17. (cb.at # "idle" /\ cb.r = p) => CbServes'
    <3>1. SUFFICES ASSUME cb.at # "idle", cb.r = p PROVE CbServes' OBVIOUS
    <3>2. UnderWay(cb)'
      BY <1>1, <2>1, <2>2, <3>1 DEF CbServes, UnderWay
    <3>3. ((cb.at = "send" /\ rt[cb.r].sock = cb.sock) => Serves(cb.sock, cb.r))'
      BY <1>1, <2>15, <3>1 DEF Serves, IsConn
    <3> QED BY <3>2, <3>3 DEF CbServes
  <2>18. Owned' /\ OpenServes' /\ CbServes' BY <1>1, <2>14, <2>16, <2>17, MainSteps
  <2>19. main' \in MainTypes /\ main'.at = "accepted" /\ main'.r = p /\ main'.watch = {}
    <3>1. main' = [At("accepted", 1) EXCEPT !.r = p] BY <1>2, <1>9, <2>2
    <3>2. 1 \in Routes BY Constants DEF Routes
    <3>3. /\ At("accepted", 1) \in MainTypes /\ At("accepted", 1).at = "accepted"
          /\ At("accepted", 1).watch = {}
      BY <3>2, AtType
    <3> QED BY <3>1, <3>3 DEF MainTypes
  <2>20. Types' BY <1>1, <2>12, <2>14, <2>19, TypesNext DEF Types, Reroutes
  <2>21. MainServes'
    <3>1. Serves(rt[main.r].sock, main.r)' BY <2>15, <2>19 DEF Serves, IsConn
    <3> QED BY <2>1, <2>2, <2>15, <2>19, <3>1 DEF MainServes, UnderWay
  <2>22. Watched' /\ StillReady' BY <2>19 DEF Watched, StillReady
  <2>23. Apart'
    <3>1. cb.r \in Routes BY <1>1 DEF Types, CbTypes
    <3> QED BY <1>1, <2>12, <2>19, <3>1 DEF Apart, Connects
  <2> QED BY <2>18, <2>20, <2>21, <2>22, <2>23 DEF IInv
<1> QED BY <1>8, <1>9

LEMMA AcceptedKeeps ==
  ASSUME IInv, Accepted
  PROVE  IInv'
<1>0. PICK r \in Routes : r = main.r BY DEF IInv, Types, MainTypes
<1>1. /\ Types /\ Owned /\ MainServes /\ CbServes /\ Apart /\ UNCHANGED <<table, fd, cb, made>>
      /\ main.at = "accepted" /\ rt' = [rt EXCEPT ![r].state = "open"] /\ main' = At("scan", 1)
  BY <1>0 DEF IInv, Accepted, MainUnch
<1>2. table[r].mode = "LISTEN" /\ Serves(rt[r].sock, r) BY <1>0, <1>1 DEF MainServes
<1>3. 1 \in Routes BY Constants DEF Routes
<1>4. main' \in MainTypes /\ main'.at = "scan" /\ main'.watch = {} BY <1>1, <1>3, AtType
<1>5. Reroutes(r) /\ rt'[r].state = "open" /\ rt'[r].sock = rt[r].sock BY <1>1, StateReroutes
<1>6. Types' BY <1>1, <1>4, <1>5, TypesNext DEF Types, Reroutes
<1>7. Serves(rt[r].sock, r)' BY <1>1, <1>2, <1>5 DEF Serves, IsConn
<1>8. (cb.at # "idle" /\ cb.r = r) => CbServes'
  BY <1>1, <1>2, <1>5 DEF CbServes, UnderWay, Serves, IsConn
<1>9. Owned' /\ OpenServes' /\ CbServes' BY <1>1, <1>5, <1>7, <1>8, MainSteps
<1>10. MainServes' /\ Watched' /\ StillReady'
  BY <1>4 DEF MainServes, UnderWay, Watched, StillReady
<1>11. Apart'
  <2>1. cb.r \in Routes BY <1>1 DEF Types, CbTypes
  <2> QED BY <1>1, <1>4, <1>5, <2>1 DEF Apart, Connects, Reroutes
<1> QED BY <1>6, <1>9, <1>10, <1>11 DEF IInv

LEMMA RecvKeeps ==
  ASSUME IInv, Recv
  PROVE  IInv'
<1>0. PICK r \in Routes : r = main.r BY DEF IInv, Types, MainTypes
<1> DEFINE n == rt[r].sock
<1>1. /\ Types /\ Owned /\ CbServes /\ Apart /\ UNCHANGED <<table, cb, made>>
      /\ main.at = "serve" /\ rt[r].state = "open" /\ n \in main.ready /\ cb.at # "send"
      /\ main' = At("scan", 1)
  BY <1>0 DEF IInv, Recv, Receives, MainUnch
<1>2. n \in Fds /\ fd \in [Fds -> Descs] BY <1>1 DEF Types, MainTypes
<1>3. CASE fd[n].is = "conn" /\ fd[n].line = "data"
  <2> DEFINE c == [fd[n] EXCEPT !.line = "quiet"]
  <2>1. fd' = [fd EXCEPT ![n] = c] /\ rt' = rt BY <1>0, <1>3 DEF Recv
  <2>2. c \in Descs /\ c.is = "conn" /\ c.peer = fd[n].peer
    <3>1. PICK o \in Descs : o = fd[n] BY <1>2
    <3>2. o.is = "conn" BY <1>3, <3>1
    <3>3. /\ [o EXCEPT !.line = "quiet"] \in Descs /\ [o EXCEPT !.line = "quiet"].is = "conn"
          /\ [o EXCEPT !.line = "quiet"].peer = o.peer
      BY <3>2, LineAt
    <3> QED BY <3>1, <3>3
  <2> HIDE DEF c, n
  <2>3. fd' \in [Fds -> Descs] BY <1>2, <2>1, <2>2
  <2>4. \A m \in Fds : fd'[m].is = fd[m].is /\ (fd[m].is = "conn" => fd'[m].peer = fd[m].peer)
    BY <1>2, <1>3, <2>1, <2>2
  <2> QED BY <1>1, <2>1, <2>3, <2>4, Restart
<1>4. CASE ~(fd[n].is = "conn" /\ fd[n].line = "data") /\ fd[n].is = "conn" /\ fd[n].line = "shut"
  <2>1. rt' = rt /\ fd' = fd BY <1>0, <1>4 DEF Recv
  <2> QED BY <1>1, <1>2, <2>1, Restart
<1>5. CASE ~(fd[n].is = "conn" /\ fd[n].line = "data") /\ ~(fd[n].is = "conn" /\ fd[n].line = "shut")
  <2>1. Becomes(CloseRoute(Cur, r)) BY <1>0, <1>5 DEF Recv
  <2>2. Reroutes(r) /\ rt'[r].sock = NoFd /\ rt'[r].state = "idle" BY <1>1, <2>1, CloseReroutes
  <2>3. 1 \in Routes BY Constants DEF Routes
  <2>4. main' \in MainTypes /\ main'.at = "scan" /\ main'.watch = {} BY <1>1, <2>3, AtType
  <2>5. Types' BY <1>1, <2>2, <2>4, TypesNext DEF Types, Reroutes
  <2>6. (cb.at # "idle" /\ cb.r = r) => CbServes'
    <3>1. SUFFICES ASSUME cb.at # "idle", cb.r = r PROVE CbServes' OBVIOUS
    <3>2. cb.at = "store" BY <1>1, <3>1 DEF CbServes, UnderWay, Types, CbTypes
    <3> QED BY <1>1, <2>2, <3>1, <3>2 DEF CbServes, UnderWay, Serves
  <2>7. Owned' /\ OpenServes' /\ CbServes' BY <1>1, <2>2, <2>6, MainSteps
  <2>8. MainServes' /\ Watched' /\ StillReady'
    BY <2>4 DEF MainServes, UnderWay, Watched, StillReady
  <2>9. Apart'
    <3>1. cb.r \in Routes BY <1>1 DEF Types, CbTypes
    <3> QED BY <1>1, <2>2, <2>4, <3>1 DEF Apart, Connects, Reroutes
  <2> QED BY <2>5, <2>7, <2>8, <2>9 DEF IInv
<1> QED BY <1>3, <1>4, <1>5

(***************************************************************************)
(* The peers                                                               *)
(***************************************************************************)
LEMMA FdKeeps ==
  ASSUME IInv, NEW n \in Fds, NEW d, FdBecomes(n, d), d \in Descs, d.is = fd[n].is,
         fd[n].is = "conn" => d.peer = fd[n].peer, ~Readable(n)
  PROVE  IInv'
<1>1. Types /\ StillReady /\ UNCHANGED <<table, rt, main, cb, made>> /\ fd' = [fd EXCEPT ![n] = d]
  BY DEF IInv, FdBecomes
<1>2. /\ fd' \in [Fds -> Descs] /\ \A m \in Fds : m # n => fd'[m] = fd[m]
      /\ \A m \in Fds : fd'[m].is = fd[m].is /\ (fd[m].is = "conn" => fd'[m].peer = fd[m].peer)
  BY <1>1 DEF Types
<1>3. Types' BY <1>1, <1>2, TypesNext DEF Types
<1>4. Owned' /\ OpenServes' /\ CbServes' /\ MainServes' /\ Watched' BY <1>1, <1>2, KindSteps
<1>5. StillReady'
  <2>1. SUFFICES ASSUME main.at = "serve", NEW m \in main.ready PROVE Readable(m)'
    BY <1>1 DEF StillReady
  <2>2. m \in Fds /\ Readable(m) BY <1>1, <2>1 DEF Types, MainTypes, StillReady
  <2>3. fd'[m] = fd[m] BY <1>2, <2>2
  <2> QED BY <2>2, <2>3 DEF Readable, IsConn
<1>6. Apart' BY <1>1 DEF IInv, Apart, Connects
<1> QED BY <1>3, <1>4, <1>5, <1>6 DEF IInv

LEMMA ClientKeeps ==
  ASSUME IInv, NEW n \in Fds, NEW a \in Hosts, Client(n, a)
  PROVE  IInv'
<1> DEFINE d == [fd[n] EXCEPT !.client = a]
<1>1. fd \in [Fds -> Descs] BY DEF IInv, Types
<1>2. a \in Addrs BY DEF Hosts, Addrs
<1>3. fd[n].is = "listen" /\ fd[n].client = NoClient /\ FdBecomes(n, d) BY DEF Client
<1>4. d \in Descs /\ d.is = "listen"
  <2>1. fd[n] \in Descs BY <1>1
  <2> QED BY <1>2, <1>3, <2>1, ClientAt
<1>5. ~Readable(n) BY <1>3 DEF Readable, IsConn
<1> HIDE DEF d
<1> QED BY <1>3, <1>4, <1>5, FdKeeps

LEMMA PeerKeeps ==
  ASSUME IInv, NEW n \in Fds, NEW x \in {"data", "shut", "broken"}, PeerDoes(n, x)
  PROVE  IInv'
<1> DEFINE d == [fd[n] EXCEPT !.line = x]
<1>1. fd \in [Fds -> Descs] BY DEF IInv, Types
<1>2. fd[n].is = "conn" /\ fd[n].line = "quiet" /\ FdBecomes(n, d)
  <2>1. IsConn(n) /\ fd[n].line = "quiet" /\ fd' = [fd EXCEPT ![n].line = x]
        /\ UNCHANGED <<table, rt, main, cb, made>>
    BY DEF PeerDoes, FdBecomes
  <2> QED BY <2>1 DEF FdBecomes, IsConn
<1>3. d \in Descs /\ d.is = "conn" /\ d.peer = fd[n].peer
  <2>1. PICK o \in Descs : o = fd[n] BY <1>1
  <2>2. o.is = "conn" BY <1>2, <2>1
  <2>3. x \in {"quiet", "data", "shut", "broken"} OBVIOUS
  <2>4. /\ [o EXCEPT !.line = x] \in Descs /\ [o EXCEPT !.line = x].is = "conn"
        /\ [o EXCEPT !.line = x].peer = o.peer
    BY <2>2, <2>3, LineAt
  <2> QED BY <2>1, <2>4
<1>4. ~Readable(n) BY <1>2 DEF Readable, IsConn
<1> HIDE DEF d
<1> QED BY <1>2, <1>3, <1>4, FdKeeps

LEMMA InitInv ==
  Init => IInv
<1> SUFFICES ASSUME Init PROVE IInv OBVIOUS
<1>1. 1 \in Routes /\ NoFd \in 0 .. MaxFd BY Constants DEF Routes
<1>2. /\ table \in Tables /\ rt = [r \in Routes |-> [state |-> "idle", sock |-> NoFd, lst |-> NoFd]]
      /\ fd = [n \in Fds |-> Free] /\ main = At("scan", 1) /\ cb = Idle /\ made = {}
  BY DEF Init
<1>3. main \in MainTypes /\ main.at = "scan" /\ main.watch = {} BY <1>1, <1>2, AtType
<1>4. Types
  <2>1. rt \in RtTypes BY <1>1, <1>2 DEF RtTypes
  <2>2. Free \in Descs BY DEF Descs
  <2> QED BY <1>2, <1>3, <2>1, <2>2, IdleType DEF Types
<1>5. \A r \in Routes : rt[r].state = "idle" /\ rt[r].sock = NoFd /\ rt[r].lst = NoFd BY <1>2
<1>6. cb.at = "idle" BY <1>2, IdleType
<1>7. Owned /\ OpenServes /\ Apart BY <1>3, <1>5, <1>6 DEF Owned, OpenServes, Apart, Connects
<1>8. MainServes /\ CbServes /\ Watched /\ StillReady
  BY <1>3, <1>6 DEF MainServes, CbServes, UnderWay, Watched, StillReady
<1> QED BY <1>4, <1>7, <1>8 DEF IInv

LEMMA NextInv ==
  IInv /\ [Next]_vars => IInv'
<1> SUFFICES ASSUME IInv, [Next]_vars PROVE IInv' OBVIOUS
<1>1. CASE UNCHANGED vars
  <2>1. UNCHANGED <<table, rt, fd, main, cb, made>> BY <1>1 DEF vars
  <2>2. Types' /\ CbServes' BY <2>1, TypesNext DEF IInv, Types, CbServes, UnderWay, Serves, IsConn
  <2>3. cb'.at # "idle" => rt[cb'.r].state # "reconnect" /\ (Connects => main.r # cb'.r)
    BY <2>1 DEF IInv, Apart
  <2> QED BY <2>1, <2>2, <2>3, CbPlace DEF Types
<1>2. CASE Main
  BY <1>2, ScanKeeps, MainConnectedKeeps, MainStoreKeeps, WatchKeeps, SelectKeeps,
     AcceptKeeps, AcceptedKeeps, RecvKeeps, SkipKeeps DEF Main
<1>3. CASE Callback BY <1>3, SendKeeps, CbConnectedKeeps, CbStoreKeeps DEF Callback
<1>4. CASE \E r \in Routes : RcvConnect(r) \/ RcvReconnect(r) \/ RcvData(r)
  BY <1>4, RcvConnectKeeps, RcvReconnectKeeps, RcvDataKeeps
<1>5. CASE \E n \in Fds : \/ \E a \in Hosts : Client(n, a)
                         \/ PeerSends(n) \/ PeerCloses(n) \/ LineBreaks(n)
  BY <1>5, ClientKeeps, PeerKeeps DEF PeerSends, PeerCloses, LineBreaks
<1> QED BY <1>1, <1>2, <1>3, <1>4, <1>5 DEF Next

(***************************************************************************)
(* The theorems                                                            *)
(***************************************************************************)
\* Whatever the end-points ask, the peers do and the kernel gives out, the two threads of
\* phy_tcp keep the inductive invariant.
THEOREM Invariance == Spec => []IInv
BY InitInv, NextInv, PTL DEF Spec

\* No two routes of phy_tcp share a socket and an open route has a connection with its
\* own host, also while send() is under way, for every table and number of descriptors.
THEOREM OwnSocketHolds == Spec => []OwnSocket
<1>1. IInv => OwnSocket
  BY DEF IInv, Owned, OpenServes, CbServes, Serves, OwnSocket
<1> QED BY Invariance, <1>1, PTL

\* What the main loop of phy_tcp gives to select is open, and what select has found
\* readable still is when the loop comes to it.
THEOREM SetsAreFreshHold == Spec => []SetsAreFresh
<1>1. IInv => SetsAreFresh
  <2>1. Free.is = "free" BY DEF Free
  <2> QED BY <2>1 DEF IInv, Watched, StillReady, SetsAreFresh
<1> QED BY Invariance, <1>1, PTL
=============================================================================
