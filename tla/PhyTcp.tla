------------------------------- MODULE PhyTcp -------------------------------
(***************************************************************************)
(* phylinks/phy_tcp.c with all its routes: the process that has the TCP    *)
(* connections.  Its main thread walks over the routes, waits in select    *)
(* and serves one descriptor; its callback thread (rcvdata) carries out    *)
(* what the end-points ask.  They share state and socdesc of the routes    *)
(* and the numbers of the descriptors, which the kernel uses again.        *)
(*                                                                         *)
(* A step is what a thread does between two points at which the other one  *)
(* can change what it goes on with; connect() and send() are such points.  *)
(* The end-points, the peers and the network may do anything at any time,  *)
(* whatever phy_tcp has told them: a message is there when it is taken     *)
(* from its FIFO, and what goes up is not kept.                            *)
(***************************************************************************)
EXTENDS Integers, FiniteSetsExt

CONSTANTS
  Tables,      \* the tables lowlevel.cfg may give: route -> [mode, addr, port]
  NRoutes,     \* maxpr
  MaxFd,       \* bound: descriptors 1 .. MaxFd of the process
  Strangers    \* addresses of hosts that are no route's

Routes == 1 .. NRoutes
Fds == 1 .. MaxFd
NoFd == 0
Modes == {"LISTEN", "CONNECT"}

ASSUME TcpAssumption ==
  /\ NRoutes \in Nat \ {0} /\ MaxFd \in Nat
  /\ \A t \in Tables : /\ DOMAIN t = Routes
                       /\ \A r \in Routes : t[r].mode \in Modes /\ t[r].addr \notin Strangers

VARIABLES
  table,    \* the route table in use
  rt,       \* phy_route: state, socdesc and lstsocdesc of each route
  fd,       \* what each descriptor is for the kernel
  main,     \* the main thread: where it is, its route, the sets of select
  cb,       \* the callback thread: where it is and what it holds
  made      \* the routes whose CONNECT has come

vars == <<table, rt, fd, main, cb, made>>

Free == [is |-> "free"]
Socket == [is |-> "socket"]                                      \* not connected
Conn(a) == [is |-> "conn", peer |-> a, line |-> "quiet"]
NoClient == "none"
Listener(p) == [is |-> "listen", port |-> p, client |-> NoClient]

IsConn(n) == fd[n].is = "conn"

Lowest(f) == IF \E n \in Fds : f[n] = Free THEN Min({n \in Fds : f[n] = Free}) ELSE NoFd

\* The first pass of the loop from route r on.
At(where, r) == [at |-> where, r |-> r, watch |-> {}, ready |-> {}, ret |-> "idle"]
Idle == [at |-> "idle", r |-> 1, sock |-> NoFd, ret |-> "idle"]

Init == /\ table \in Tables
        /\ rt = [r \in Routes |-> [state |-> "idle", sock |-> NoFd, lst |-> NoFd]]
        /\ fd = [n \in Fds |-> Free]
        /\ main = At("scan", 1)
        /\ cb = Idle
        /\ made = {}

(***************************************************************************)
(* The operations both threads use, on the pair of routes and descriptors  *)
(***************************************************************************)
Cur == [rt |-> rt, fd |-> fd]

\* Mutant: the number of the closed socket stays in the route.
CloseRouteKeepsNumber(s, r) ==
  [rt |-> [s.rt EXCEPT ![r].state = "idle"],
   fd |-> IF s.rt[r].sock = NoFd THEN s.fd ELSE [s.fd EXCEPT ![s.rt[r].sock] = Free]]

\* close_phyroute
CloseRoute(s, r) ==
  [rt |-> [s.rt EXCEPT ![r].state = "idle", ![r].sock = NoFd],
   fd |-> IF s.rt[r].sock = NoFd THEN s.fd ELSE [s.fd EXCEPT ![s.rt[r].sock] = Free]]

\* set_connect, up to the call of connect().
OpenSocket(s, r) ==
  LET n == Lowest(s.fd)
  IN  [rt |-> [s.rt EXCEPT ![r].sock = n],
       fd |-> IF n = NoFd THEN s.fd ELSE [s.fd EXCEPT ![n] = Socket]]

\* set_listen: one descriptor for all the routes of a port; ok: bind and listen succeed.
SharesPort(s, q, r) == table[q].mode = "LISTEN" /\ table[q].port = table[r].port /\ s.rt[q].lst # NoFd
SetListen(s, r, ok) ==
  LET n == Lowest(s.fd)
      shared == {q \in Routes : SharesPort(s, q, r)}
      set(lst) == [s.rt EXCEPT ![r].lst = lst, ![r].sock = NoFd]
  IN  IF shared # {} THEN [rt |-> set(s.rt[Min(shared)].lst), fd |-> s.fd]
      ELSE IF ok /\ n # NoFd THEN [rt |-> set(n), fd |-> [s.fd EXCEPT ![n] = Listener(table[r].port)]]
      ELSE [rt |-> set(NoFd), fd |-> s.fd]

Becomes(s) == rt' = s.rt /\ fd' = s.fd

\* connect_by_config until it waits or returns, and where the thread is then.
ConnectByConfig(s, r, at) ==
  \/ /\ table[r].mode = "CONNECT"
     /\ Becomes(OpenSocket(s, r))
     /\ at = IF rt'[r].sock = NoFd THEN "store" ELSE "connect"
  \/ /\ table[r].mode = "LISTEN" /\ at = "store"
     /\ \E ok \in BOOLEAN : Becomes(SetListen(s, r, ok))

\* connect() returns, and CONNECT_ACK or CONNECT_NACK goes up; ret is what
\* set_connect returns.
ConnectReturns(r, ret) ==
  \/ /\ ret = "open"
     /\ rt' = rt
     /\ fd' = [fd EXCEPT ![rt[r].sock] = Conn(table[r].addr)]
  \/ /\ ret = "idle"
     /\ Becomes(CloseRoute(Cur, r))

(***************************************************************************)
(* The callback thread                                                     *)
(***************************************************************************)
Rcv(r) == cb.at = "idle" /\ UNCHANGED <<table, main>>

\* EP_MSG_CONNECT comes once, when the end-point is made.
RcvConnect(r) ==
  /\ Rcv(r) /\ r \notin made
  /\ made' = made \cup {r}
  /\ IF rt[r].state = "open" THEN UNCHANGED <<rt, fd, cb>>
     ELSE \E at \in {"connect", "store"} :
            ConnectByConfig(Cur, r, at) /\ cb' = [Idle EXCEPT !.at = at, !.r = r]

\* EP_MSG_RECONNECT comes when an end-point has been refused, has waited too long or finds
\* the peer silent.
RcvReconnect(r) ==
  /\ Rcv(r) /\ r \in made
  /\ rt' = [rt EXCEPT ![r].state = "reconnect"]
  /\ UNCHANGED <<fd, cb, made>>

\* EP_USER_DATA: the state is read, then the number of the socket.
RcvData(r) ==
  /\ Rcv(r) /\ r \in made
  /\ rt[r].state = "open"
  /\ cb' = [Idle EXCEPT !.at = "send", !.r = r, !.sock = rt[r].sock]
  /\ UNCHANGED <<rt, fd, made>>

\* sendall on the number read then.  (What a send to a peer that has closed does to
\* the process is in Iec104Link.)
Send == /\ cb.at = "send"
        /\ cb' = Idle
        /\ UNCHANGED <<table, rt, fd, main, made>>

CbConnected == /\ cb.at = "connect"
               /\ \E ret \in {"open", "idle"} :
                    /\ ConnectReturns(cb.r, ret)
                    /\ cb' = [cb EXCEPT !.at = "store", !.ret = ret]
               /\ UNCHANGED <<table, main, made>>

CbStore == /\ cb.at = "store"
           /\ rt' = [rt EXCEPT ![cb.r].state = cb.ret]
           /\ cb' = Idle
           /\ UNCHANGED <<table, fd, main, made>>

(***************************************************************************)
(* The main thread                                                         *)
(***************************************************************************)
MainUnch == UNCHANGED <<table, cb, made>>

\* A reconnection is demanded of the next route.
Scan ==
  /\ main.at = "scan"
  /\ LET r == main.r
     IN  IF rt[r].state = "reconnect"
         THEN \E at \in {"connect", "store"} :
                /\ ConnectByConfig(IF rt[r].sock = NoFd THEN Cur ELSE CloseRoute(Cur, r), r, at)
                /\ main' = [main EXCEPT !.at = at, !.ret = "idle"]
         ELSE main' = [main EXCEPT !.at = "watch"] /\ UNCHANGED <<rt, fd>>
  /\ MainUnch

MainConnected == /\ main.at = "connect"
                 /\ \E ret \in {"open", "idle"} :
                      /\ ConnectReturns(main.r, ret)
                      /\ main' = [main EXCEPT !.at = "store", !.ret = ret]
                 /\ MainUnch

\* state = connect_by_config(), whatever rcvdata has demanded meanwhile.
MainStore == /\ main.at = "store"
             /\ rt' = [rt EXCEPT ![main.r].state = main.ret]
             /\ main' = [main EXCEPT !.at = "watch"]
             /\ UNCHANGED fd /\ MainUnch

\* The descriptors of the route are added to the sets of select.
WatchAlso(fds) == /\ main.at = "watch"
                  /\ main' = [main EXCEPT !.at = IF main.r < NRoutes THEN "scan" ELSE "select",
                                         !.r = IF main.r < NRoutes THEN main.r + 1 ELSE 1,
                                         !.watch = @ \cup (fds \ {NoFd})]
                  /\ UNCHANGED <<rt, fd>> /\ MainUnch

\* Mutant: without the test of the state.
WatchAnyState == WatchAlso({rt[main.r].lst, rt[main.r].sock})

\* Mutant: a route that has a connection does not listen.
WatchOneOfTwo == WatchAlso(IF rt[main.r].state = "open" THEN {rt[main.r].sock} ELSE {rt[main.r].lst})

Watch == WatchAlso({rt[main.r].lst} \cup {n \in {rt[main.r].sock} : rt[main.r].state = "open"})

Readable(n) == \/ IsConn(n) /\ fd[n].line # "quiet"
               \/ fd[n].is = "listen" /\ fd[n].client # NoClient

\* select returns, or its second is over.  A closed descriptor in the set would make it
\* fail and the process exit: see SetsAreFresh.
ReadyNow == {n \in main.watch : Readable(n)}
Select ==
  /\ main.at = "select"
  /\ main' = IF ReadyNow = {} THEN At("scan", 1) ELSE [At("serve", 1) EXCEPT !.ready = ReadyNow]
  /\ UNCHANGED <<rt, fd>> /\ MainUnch

Accepts == rt[main.r].lst \in main.ready
Receives == ~Accepts /\ rt[main.r].state = "open" /\ rt[main.r].sock \in main.ready

\* accept: the connection goes to the first route, from this one on, that listens for
\* its address, in place of the connection that route has; a stranger's is closed.
Entitled(a) == {q \in main.r .. NRoutes : table[q].mode = "LISTEN" /\ table[q].addr = a}
Accept ==
  /\ main.at = "serve" /\ Accepts
  /\ LET lst == rt[main.r].lst
         a == fd[lst].client
         n == Lowest(fd)
         q == Min(Entitled(a))
         s1 == [rt |-> rt, fd |-> [fd EXCEPT ![lst].client = NoClient, ![n] = Conn(a)]]
         s2 == IF rt[q].sock = NoFd THEN s1 ELSE CloseRoute(s1, q)
     IN  /\ n # NoFd
         /\ IF Entitled(a) = {}
            THEN /\ fd' = [fd EXCEPT ![lst].client = NoClient]
                 /\ main' = At("scan", 1)
                 /\ UNCHANGED rt
            ELSE /\ Becomes([s2 EXCEPT !.rt[q].sock = n])
                 /\ main' = [At("accepted", 1) EXCEPT !.r = q]
  /\ MainUnch

\* After the CONNECT_ACK: state = 1, and the loop begins again.
Accepted == /\ main.at = "accepted"
            /\ rt' = [rt EXCEPT ![main.r].state = "open"]
            /\ main' = At("scan", 1)
            /\ UNCHANGED fd /\ MainUnch

\* recv, under the mutex that a send of the callback thread holds: data go up; an
\* error is a lost connection; of an end of the stream nothing is made.
Recv ==
  /\ main.at = "serve" /\ Receives /\ cb.at # "send"
  /\ LET r == main.r
         c == fd[rt[r].sock]
     IN  IF c.is = "conn" /\ c.line = "data"
         THEN fd' = [fd EXCEPT ![rt[r].sock].line = "quiet"] /\ UNCHANGED rt
         ELSE IF c.is = "conn" /\ c.line = "shut" THEN UNCHANGED <<rt, fd>>
         ELSE Becomes(CloseRoute(Cur, r))
  /\ main' = At("scan", 1)
  /\ MainUnch

\* Nothing to do for this route: the next one.
Skip == /\ main.at = "serve" /\ ~Accepts /\ ~Receives
        /\ main' = IF main.r < NRoutes THEN [main EXCEPT !.r = @ + 1] ELSE At("scan", 1)
        /\ UNCHANGED <<rt, fd>> /\ MainUnch

(***************************************************************************)
(* The peers and the network                                               *)
(***************************************************************************)
FdBecomes(n, d) == fd' = [fd EXCEPT ![n] = d] /\ UNCHANGED <<table, rt, main, cb, made>>
Client(n, a) == /\ fd[n].is = "listen" /\ fd[n].client = NoClient
                /\ FdBecomes(n, [fd[n] EXCEPT !.client = a])
PeerDoes(n, what) == /\ IsConn(n) /\ fd[n].line = "quiet"
                     /\ FdBecomes(n, [fd[n] EXCEPT !.line = what])
PeerSends(n) == PeerDoes(n, "data")
PeerCloses(n) == PeerDoes(n, "shut")
LineBreaks(n) == PeerDoes(n, "broken")

Hosts == Strangers \cup {table[r].addr : r \in {q \in Routes : table[q].mode = "LISTEN"}}

Callback == Send \/ CbConnected \/ CbStore
Main == Scan \/ MainConnected \/ MainStore \/ Watch \/ Select
        \/ Accept \/ Accepted \/ Recv \/ Skip
Next == \/ Main
        \/ Callback
        \/ \E r \in Routes : RcvConnect(r) \/ RcvReconnect(r) \/ RcvData(r)
        \/ \E n \in Fds : \/ \E a \in Hosts : Client(n, a)
                          \/ PeerSends(n) \/ PeerCloses(n) \/ LineBreaks(n)

Spec == Init /\ [][Next]_vars

\* Both threads go on, no connect() lasts for ever, recv wins the mutex some time.  A
\* connection without an answer is given up: the end-point of a CONNECT route notices
\* (Supervised of Iec104Ep), the host of a LISTEN route comes back.  The peer may have
\* closed, which recv reports by 0; or a CONNECT has stored its 0 in the state after a
\* connection was accepted, which nobody reads then.  And connections break no more in
\* the end.
Mute(r) == /\ rt[r].sock # NoFd /\ IsConn(rt[r].sock)
           /\ fd[rt[r].sock].line = "shut" \/ rt[r].state = "idle"
ComesBack(r) == rt[r].lst # NoFd /\ Client(rt[r].lst, table[r].addr)
Revive(r) == Mute(r) /\ IF table[r].mode = "CONNECT" THEN RcvReconnect(r) ELSE ComesBack(r)

Trouble == \E n \in Fds : PeerCloses(n) \/ LineBreaks(n)

FairSpec == /\ Spec /\ <>[][~Trouble]_vars
            /\ WF_vars(Main) /\ WF_vars(Callback) /\ SF_vars(Recv)
            /\ \A r \in Routes : SF_vars(Revive(r))

-----------------------------------------------------------------------------
\* Every connected route has a descriptor of its own, and that is a connection with its
\* own host, also for a send in progress as long as the route was not given another one
\* meanwhile: whatever the two threads do, and although numbers are used again.
OwnSocket ==
  /\ \A r \in Routes : rt[r].sock # NoFd =>
       /\ rt[r].state = "open" => IsConn(rt[r].sock) /\ fd[rt[r].sock].peer = table[r].addr
       /\ \A q \in Routes \ {r} : rt[q].sock # rt[r].sock
  /\ (cb.at = "send" /\ cb.sock # NoFd /\ rt[cb.r].sock = cb.sock)
       => IsConn(cb.sock) /\ fd[cb.sock].peer = table[cb.r].addr

\* The sets are still true when they are used: select is given open descriptors (it
\* fails and the process exits otherwise), and what it has found readable still is when
\* the loop comes to it (recv fails and a good connection is given up otherwise).
SetsAreFresh ==
  /\ \A n \in main.watch : fd[n] # Free
  /\ main.at = "serve" => \A r \in main.r .. NRoutes :
       /\ rt[r].lst \in main.ready => Readable(rt[r].lst)
       /\ (rt[r].state = "open" /\ rt[r].sock \in main.ready) => Readable(rt[r].sock)

\* What waits for the main thread on a descriptor, and the descriptors it serves before n.
Waits(n) == \/ IsConn(n) /\ fd[n].line = "data"
            \/ fd[n].is = "listen" /\ fd[n].client # NoClient
Ahead(n) == LET mine == {q \in Routes : n \in {rt[q].lst, rt[q].sock}}
            IN  IF mine = {} THEN {}
                ELSE ({rt[Min(mine)].lst} \cup UNION {{rt[q].lst, rt[q].sock} : q \in 1 .. Min(mine) - 1})
                     \ {n, NoFd}

\* What a peer has sent is read and who asks for a connection gets an answer, if the
\* routes before it, which the loop serves first, are silent at some of its selects.
\* That is not for sure: a connection that its peer has closed is readable for ever.
Served == \A n \in Fds :
  []<><<Select /\ \A q \in Ahead(n) : ~Waits(q)>>_vars => (Waits(n) ~> ~Waits(n))
=============================================================================
