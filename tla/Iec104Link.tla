----------------------------- MODULE Iec104Link -----------------------------
(***************************************************************************)
(* An IEC 60870-5-104 connection end to end: a master and a slave run      *)
(* unitlink-iec104 (Iec104Core), each over its phy_tcp, and the two        *)
(* phy_tcp share TCP connections.                                          *)
(*                                                                         *)
(*   iec104 --dnq--> phy_tcp ==wire==> phy_tcp --upq--> iec104             *)
(*                                                                         *)
(* The processes run asynchronously, so a frame, a request and its answer  *)
(* pass each other in the queues.  A message in dnq, wire or upq is        *)
(* [f |-> message, tag |-> ...]; the tag is history: of an I frame, which   *)
(* session of the sender it belongs to, its place there and the connection *)
(* it was meant for; of an answer of phy_tcp, the connection it is about.  *)
(*                                                                         *)
(* phy_tcp is here as the ends of its queues see it: rcvdata, its callback *)
(* thread, and the passes of its main loop.  Between the CONNECT_ACK of    *)
(* the main loop and its state = 1 the callback thread may run: opening.   *)
(***************************************************************************)
EXTENDS Iec104Core, FiniteSets

CONSTANTS
  MaxConn,    \* bound: TCP connections that are ever established
  MaxEvents,  \* bound: messages from above, expiries and faults, together; a test of
              \* the line, which comes again and again, and an alarm in a send count two
  Faults,     \* the kinds of fault: subset of {"cut", "break", "alarm"}
  Cap,        \* bound: messages in a queue
  AppWaits,   \* TRUE: the process above a master sends nothing before
              \* DEV_ONLINE and nothing after the connection is given up
  Timely      \* TRUE: t0, t1 and rc outlast the processes' work on what has come,
              \* and on a line that is whole the t2 of the peer; a broken line may
              \* be noticed by one end long after the other has connected again

\* An alarm in the middle of a send may exceed the window by one more.
ASSUME LinkAssumption == /\ "alarm" \in Faults => K + 3 <= SeqMod
                         /\ {MaxConn, MaxEvents, Cap} \subseteq Nat
                         /\ Faults \subseteq {"cut", "break", "alarm"}
                         /\ {AppWaits, Timely} \subseteq BOOLEAN

VARIABLES
  ep,         \* iec104_ep_ext of each end
  dnq, upq,   \* the FIFOs between iec104 and phy_tcp
  phy,        \* phy_route of each end; sock 0: no socket; started: the first
              \*   CONNECT has been processed, so that a slave listens;
              \*   state "dead": the process was killed by SIGPIPE
  wire,       \* wire[c][e]: bytes on connection c on their way to end e
  closed,     \* closed[c]: ends that have closed connection c; "line" when it
              \*   was the line that broke
  backlog,    \* connections the slave's kernel holds for accept, in order
  conns,      \* connections established so far
  events,     \* used up of MaxEvents
  sess, link, sent, got, taken, erred, seqerr, lost, twice, stale  \* history, see below

\* sess[e]   sessions of e so far: it starts one when it is re-initialised
\* link[e]   connection its session is for, 0: none
\* sent[e]   I frames e has sent in its session
\* got[e]    tags of the I frames e has accepted in its session, in order
\* taken[e]  places of the I frames of e's session that the other end has accepted
\* erred[e]  e has seen a wrong N(S) or N(R) in its session
\* seqerr    an end has seen one
\* lost      a frame was cut in two on a connection that lived on
\* twice     two I frames were sent with one N(S)
\* stale     an end has been given an I frame that was meant for another connection
history == <<sess, link, sent, got, taken, erred, seqerr, lost, twice, stale>>
vars == <<ep, dnq, upq, phy, wire, closed, backlog, conns, events, history>>

Ends == {"m", "s"}
Peer(e) == IF e = "m" THEN "s" ELSE "m"
Host(e) == IF e = "m" THEN "MASTER" ELSE "SLAVE"
Conns == 1 .. MaxConn
Tag(s, n, c) == [sess |-> s, place |-> n, conn |-> c]
About(f, c) == [f |-> f, tag |-> Tag(0, 0, c)]
Msg(f) == About(f, 0)

Init == /\ ep = [e \in Ends |-> NewEpExt(Host(e))]
        /\ dnq = [e \in Ends |-> <<Msg(Sys("CONNECT"))>>]
        /\ upq = [e \in Ends |-> <<>>]
        /\ phy = [e \in Ends |-> [state |-> "idle", sock |-> 0,
                                opening |-> FALSE, started |-> FALSE]]
        /\ wire = [c \in Conns |-> [e \in Ends |-> <<>>]]
        /\ closed = [c \in Conns |-> {}]
        /\ backlog = <<>>
        /\ conns = 0
        /\ events = 0
        /\ sess = [e \in Ends |-> 0] /\ link = [e \in Ends |-> 0]
        /\ sent = [e \in Ends |-> 0]
        /\ got = [e \in Ends |-> <<>>] /\ taken = [e \in Ends |-> {}]
        /\ erred = [e \in Ends |-> FALSE]
        /\ seqerr = FALSE /\ lost = FALSE /\ twice = FALSE /\ stale = FALSE

(***************************************************************************)
(* The iec104 processes                                                    *)
(***************************************************************************)
Cur(e) == Handle(ep[e], TRUE)
IsI(m) == m.type = "I"
ISent(r) == Cardinality({i \in 1 .. Len(r.dn) : IsI(r.dn[i])})

\* What the handler sent goes into dnq.
Hand(e, r) ==
  /\ Len(dnq[e]) + Len(r.dn) <= Cap
  /\ dnq' = [dnq EXCEPT ![e] = @ \o
       [i \in 1 .. Len(r.dn) |->
          [f |-> r.dn[i],
           tag |-> IF IsI(r.dn[i])
                   THEN Tag(sess[e], sent[e] + Cardinality({j \in 1 .. i - 1 : IsI(r.dn[j])}), link[e])
                   ELSE Tag(0, 0, 0)]]]
  /\ ep' = [ep EXCEPT ![e] = r.ep]

\* A handler that stays in the session.
Handler(e, r) == /\ Hand(e, r)
                 /\ LET n == ISent(r)
                    IN  IF n = 0 THEN UNCHANGED <<sent, twice>>
                        ELSE sent' = [sent EXCEPT ![e] = @ + n] /\ twice' = (twice \/ n > 1)
                 /\ UNCHANGED <<phy, wire, closed, backlog, conns, sess, link, lost>>

\* A handler that re-initialises the end-point, for connection c.
NewSession(e, r, c) ==
  /\ Hand(e, r)
  /\ sess' = [sess EXCEPT ![e] = @ + 1]
  /\ link' = [link EXCEPT ![e] = c]
  /\ sent' = [sent EXCEPT ![e] = 0]
  /\ got' = [got EXCEPT ![e] = <<>>]
  /\ taken' = [taken EXCEPT ![e] = {}]
  /\ erred' = [erred EXCEPT ![e] = FALSE]
  /\ UNCHANGED <<phy, wire, closed, backlog, conns, seqerr, lost, twice, stale>>

Started(e) == ep[e].u_cmd = "STARTDT_CON"

Events(n) == events + n <= MaxEvents /\ events' = events + n
Event == Events(1)

\* The process above sends an ASDU, or asks a master for everything.
App(e) == /\ Event
          /\ (AppWaits /\ e = "m") => Started(e)
          /\ \/ Handler(e, FrameISend(Cur(e), "DATA"))
             \/ Handler(e, SysMsgFromUp(Cur(e), "DCOLL_START"))
          /\ UNCHANGED <<upq, got, taken, erred, seqerr, stale>>

\* What the timer t of an end could be waiting for is on its way: messages are in
\* the FIFOs or have arrived, phy_tcp has work, or, on a line that is whole, a
\* confirmation is owed that t2 will send.
UnderWay(t) == \E e \in Ends :
  \/ upq[e] # <<>>
  \/ /\ phy[e].state # "dead"
     /\ \/ dnq[e] # <<>>
        \/ phy[e].opening \/ phy[e].state = "reconnect"
        \/ e = "s" /\ backlog # <<>>
        \/ phy[e].sock # 0 /\ wire[phy[e].sock][e] # <<>>
  \/ /\ t = "t1" /\ ep[e].ar # ep[e].vr /\ "t2" \in ep[e].timers
     /\ phy["m"].sock = phy["s"].sock
     /\ phy[e].sock # 0 /\ closed[phy[e].sock] = {}

\* One running timer runs out, and r is what comes of it.
Expire(e, t, r) ==
  /\ Timely /\ t \in {"t0", "t1", "rc"} => ~UnderWay(t)
  /\ UNCHANGED upq
  /\ IF t \in {"t0", "t1", "rc"} THEN NewSession(e, r, 0)
     ELSE Handler(e, r) /\ UNCHANGED <<got, taken, erred, seqerr, stale>>

Alarm(e) == \E t \in ep[e].timers : /\ Events(IF t = "t3" THEN 2 ELSE 1)
                                    /\ Expire(e, t, CatchAlarm(Cur(e), {t}))

\* The same while an ASDU from above is being sent.
AlarmInSend(e) ==
  /\ "alarm" \in Faults /\ Events(2)
  /\ Started(e) /\ Dist(ep[e].vs, ep[e].as) <= K
  /\ \E t \in ep[e].timers : Expire(e, t, FrameISendAlarm(Cur(e), "DATA", {t}))

\* Whether a frame is out of sequence for e.
OutOfSeq(e, f) == f.type = "I" /\ ~(CheckRecvNum(ep[e], f.recv_num) /\ CheckSendNum(ep[e], f.send_num))

RecvFrame(e) ==
  /\ upq[e] # <<>> /\ Head(upq[e]).f.type # "sys"
  /\ upq' = [upq EXCEPT ![e] = Tail(@)]
  /\ LET m == Head(upq[e])
         wrong == OutOfSeq(e, m.f)
     IN  /\ Handler(e, FrameRecv(Cur(e), m.f))
         /\ IF IsI(m.f) /\ ~wrong
            THEN /\ got' = [got EXCEPT ![e] = Append(@, m.tag)]
                 /\ taken' = IF m.tag.sess = sess[Peer(e)]
                             THEN [taken EXCEPT ![Peer(e)] = @ \cup {m.tag.place}] ELSE taken
            ELSE UNCHANGED <<got, taken>>
         /\ IF wrong THEN erred' = [erred EXCEPT ![e] = TRUE] /\ seqerr' = TRUE
            ELSE UNCHANGED <<erred, seqerr>>
         /\ stale' = (stale \/ (IsI(m.f) /\ m.tag.conn # link[e]))
  /\ UNCHANGED events

RecvAnswer(e) ==
  /\ upq[e] # <<>>
  /\ Head(upq[e]).f.type = "sys"
  /\ upq' = [upq EXCEPT ![e] = Tail(@)]
  /\ NewSession(e, SysMsgFromDn(Cur(e), Head(upq[e]).f.msg), Head(upq[e]).tag.conn)
  /\ UNCHANGED events

(***************************************************************************)
(* phy_tcp                                                                 *)
(***************************************************************************)
Up(e, m) == /\ Len(upq[e]) < Cap
            /\ upq' = [upq EXCEPT ![e] = Append(@, m)]

PhyUnch == UNCHANGED <<ep, events, history>>

Running(e) == phy[e].state # "dead"

\* close_phyroute on the socket e has, if any: what e has not read is gone.
CloseSock(e) ==
  LET c == phy[e].sock
  IN  IF c = 0 THEN UNCHANGED <<wire, closed>>
      ELSE /\ closed' = [closed EXCEPT ![c] = @ \cup {e}]
           /\ wire' = [wire EXCEPT ![c][e] = <<>>]

SetPhy(e, st, c, opening) ==
  phy' = [phy EXCEPT ![e] = [state |-> st, sock |-> c, opening |-> opening, started |-> TRUE]]

\* set_connect: connect() succeeds as soon as the slave's kernel has the
\* connection, and CONNECT_ACK goes up; or CONNECT_NACK does.
SetConnect(e, st, opening) ==
  \/ /\ conns < MaxConn
     /\ phy["s"].started /\ Running("s")
     /\ conns' = conns + 1
     /\ backlog' = Append(backlog, conns + 1)
     /\ SetPhy(e, st, conns + 1, opening)
     /\ Up(e, About(Sys("CONNECT_ACK"), conns + 1))
  \/ /\ SetPhy(e, "idle", 0, FALSE)
     /\ Up(e, Msg(Sys("CONNECT_NACK")))
     /\ UNCHANGED <<conns, backlog>>

\* set_listen: listening from now on; nothing goes up.
SetListen(e) == /\ SetPhy(e, "idle", 0, FALSE)
                /\ UNCHANGED <<upq, conns, backlog>>

\* sendall on connection c.  The peer closes with shutdown and a reset: the
\* kernel answers the next send with SIGPIPE, which nobody handles.  On a broken
\* line the bytes vanish.
SendAll(e, c, m) ==
  \/ /\ closed[c] = {}
     /\ wire' = [wire EXCEPT ![c][Peer(e)] = Append(@, m)]
     /\ UNCHANGED <<phy, closed, backlog>>
  \/ /\ "line" \in closed[c]
     /\ UNCHANGED <<phy, wire, closed, backlog>>
  \/ /\ closed[c] = {Peer(e)}
     /\ phy' = [phy EXCEPT ![e].state = "dead", ![e].sock = 0]
     /\ closed' = [closed EXCEPT ![c] = Ends]
     /\ wire' = [wire EXCEPT ![c][e] = <<>>]
     /\ backlog' = IF e = "s" THEN <<>> ELSE backlog

\* rcvdata, the callback thread: one message of dnq.  It waits in connect().
PhyRcvdata(e) ==
  /\ dnq[e] # <<>> /\ Running(e)
  /\ dnq' = [dnq EXCEPT ![e] = Tail(@)]
  /\ LET m == Head(dnq[e])
         c == phy[e].sock
     IN  \/ /\ m.f = Sys("CONNECT")
            /\ IF e = "m" THEN SetConnect(e, "open", FALSE) ELSE SetListen(e)
            /\ UNCHANGED <<wire, closed>>
         \/ /\ m.f = Sys("RECONNECT")
            /\ phy' = [phy EXCEPT ![e].state = "reconnect"]
            /\ UNCHANGED <<upq, wire, closed, backlog, conns>>
         \/ /\ m.f.type # "sys"
            /\ IF phy[e].state = "open" THEN SendAll(e, c, m)
               ELSE UNCHANGED <<phy, wire, closed, backlog>>
            /\ UNCHANGED <<upq, conns>>
  /\ PhyUnch

\* main loop: a reconnect is demanded.  state = 1 comes after the ACK is sent.
PhyReconnect(e) ==
  /\ phy[e].state = "reconnect" /\ ~phy[e].opening
  /\ CloseSock(e)
  /\ IF e = "m" THEN SetConnect(e, "idle", TRUE) ELSE SetListen(e)
  /\ PhyUnch /\ UNCHANGED dnq

\* main loop: accept; the old socket, if any, goes.
PhyAccept(e) ==
  /\ e = "s" /\ backlog # <<>>
  /\ phy[e].started /\ ~phy[e].opening /\ Running(e)
  /\ CloseSock(e)
  /\ backlog' = Tail(backlog)
  /\ SetPhy(e, IF phy[e].sock = 0 THEN phy[e].state ELSE "idle", Head(backlog), TRUE)
  /\ Up(e, About(Sys("CONNECT_ACK"), Head(backlog)))
  /\ PhyUnch /\ UNCHANGED <<dnq, conns>>

\* main loop, after either: state = 1, whatever rcvdata demanded meanwhile.
PhyOpen(e) == /\ phy[e].opening
              /\ SetPhy(e, "open", phy[e].sock, FALSE)
              /\ PhyUnch
              /\ UNCHANGED <<dnq, upq, wire, closed, backlog, conns>>

Reading(e) == phy[e].state = "open" /\ ~phy[e].opening /\ phy[e].sock # 0

\* main loop: data on the socket goes up.
PhyRecv(e) == LET c == phy[e].sock IN
              /\ Reading(e)
              /\ wire[c][e] # <<>>
              /\ Up(e, Head(wire[c][e]))
              /\ wire' = [wire EXCEPT ![c][e] = Tail(@)]
              /\ PhyUnch /\ UNCHANGED <<dnq, phy, closed, backlog, conns>>

\* main loop: recv fails on a broken line.  When the peer has closed, recv
\* returns 0 for ever and the loop does nothing about it.
PhyLost(e) == LET c == phy[e].sock IN
              /\ Reading(e) /\ "line" \in closed[c]
              /\ Up(e, Msg(Sys("CONNECT_LOST")))
              /\ CloseSock(e)
              /\ SetPhy(e, "idle", 0, FALSE)
              /\ PhyUnch /\ UNCHANGED <<dnq, backlog, conns>>

(***************************************************************************)
(* The network and the read boundaries                                     *)
(***************************************************************************)
\* A frame that recv cuts in two is lost: neither part parses, and
\* iec104_frame_recv keeps nothing between two buffers.
CutFrame(e) == LET c == phy[e].sock IN
               /\ "cut" \in Faults /\ Event
               /\ Reading(e)
               /\ wire[c][e] # <<>>
               /\ wire' = [wire EXCEPT ![c][e] = Tail(@)]
               /\ lost' = TRUE
               /\ UNCHANGED <<ep, dnq, upq, phy, closed, backlog, conns,
                              sess, link, sent, got, taken, erred, seqerr, twice, stale>>

\* The line breaks: of what is on its way a beginning has come; both ends will see
\* an error, sooner or later.
LineBreak(e) == LET c == phy[e].sock IN
                /\ "break" \in Faults /\ Event
                /\ c # 0 /\ closed[c] = {}
                /\ closed' = [closed EXCEPT ![c] = {"line"}]
                /\ \E m \in 0 .. Len(wire[c]["m"]), s \in 0 .. Len(wire[c]["s"]) :
                     wire' = [wire EXCEPT ![c] = [x \in Ends |->
                                SubSeq(@[x], 1, IF x = "m" THEN m ELSE s)]]
                /\ UNCHANGED <<ep, dnq, upq, phy, backlog, conns, history>>

Next == \E e \in Ends : \/ App(e)
                        \/ Alarm(e)
                        \/ AlarmInSend(e)
                        \/ RecvFrame(e)
                        \/ RecvAnswer(e)
                        \/ PhyRcvdata(e)
                        \/ PhyReconnect(e)
                        \/ PhyAccept(e)
                        \/ PhyOpen(e)
                        \/ PhyRecv(e)
                        \/ PhyLost(e)
                        \/ CutFrame(e)
                        \/ LineBreak(e)

Spec == Init /\ [][Next]_vars

(***************************************************************************)
(* Properties                                                              *)
(***************************************************************************)
\* What an end has accepted since it was last re-initialised is the beginning of one
\* session of the other end: nothing missing, repeated, reordered or left over from
\* an earlier session; or the end has noticed a wrong number and asked for a new
\* connection.  Unless the frame that was cut had the N(S) of another.
InOrder == (lost /\ twice) \/ \A e \in Ends : erred[e] \/
             \A i \in 1 .. Len(got[e]) :
               got[e][i].sess = got[e][1].sess /\ got[e][i].place = i - 1

\* Whatever was cut, no gap goes unnoticed: two I frames of one session that an
\* end accepts in succession were sent in succession.  Unless the one that was cut
\* had the N(S) of another.
NoHiddenGap == (lost /\ twice) \/ \A e \in Ends : \A i \in 1 .. Len(got[e]) - 1 :
  got[e][i].sess = got[e][i + 1].sess => got[e][i + 1].place = got[e][i].place + 1

\* As long as no frame was cut or went out on another connection than it was meant
\* for, an I frame an end takes for confirmed was accepted by the other end.
ConfirmedWasTaken == lost \/ stale \/ \A e \in Ends :
  0 .. sent[e] - Dist(ep[e].vs, ep[e].as) - 1 \subseteq taken[e]

\* The log text of a wrong sequence number is "Frame lost or reordered".  TCP
\* reorders nothing: there is a sequence error only if a frame was lost, the alarm has
\* sent the time in the middle of another frame, or a frame went out on a connection
\* it was not meant for.
ErrorMeansLoss == seqerr => lost \/ twice \/ stale
=============================================================================
