------------------------------ MODULE Iec104Ep ------------------------------
(***************************************************************************)
(* The process unitlink-iec104: its end-points, each driven by the process *)
(* above, the physical layer below, and SIGALRM.  The peer and phy_tcp are *)
(* the environment here and may do anything: any frame, any answer, at any *)
(* time.  Iec104Link puts two end-points and the real phy_tcp together.    *)
(*                                                                         *)
(* A handler is one step: the callback thread and the signal handler are   *)
(* taken to alternate.                                                     *)
(***************************************************************************)
EXTENDS Iec104Core

CONSTANT Eps        \* addresses of lowlevel.cfg with this process's name

VARIABLES
  ep,       \* ep_exts: the iec104_ep_ext of each address
  main,     \* main(): "none" before the end-point exists, "created" after
            \*   mf_newendpoint, "connected" once EP_MSG_CONNECT is sent
  asked,    \* a CONNECT or RECONNECT went down and phy_tcp has not answered
  running   \* ~appexit

vars == <<ep, main, asked, running>>

Open(e) == main[e] # "none"

\* LISTEN in the port field of lowlevel.cfg makes a slave.
Init == /\ \E h \in [Eps -> Hosts] : ep = [e \in Eps |-> NewEpExt(h[e])]
        /\ main = [e \in Eps |-> "none"]
        /\ asked = [e \in Eps |-> FALSE]
        /\ running = TRUE

\* Whether a handler asked phy_tcp for a connection.
Asks(r) == \E i \in 1 .. Len(r.dn) : r.dn[i] = Sys("RECONNECT")

\* A step of one end-point; still says whether an earlier request is open.
Step(e, r, still) == /\ ep' = [ep EXCEPT ![e] = r.ep]
                     /\ asked' = [asked EXCEPT ![e] = still \/ Asks(r)]
                     /\ UNCHANGED <<main, running>>

Cur(e) == Handle(ep[e], Open(e))

(***************************************************************************)
(* main(): a new end-point from above is passed on to phy_tcp              *)
(***************************************************************************)
NewEndpoint(e) == /\ main[e] = "none"
                  /\ main' = [main EXCEPT ![e] = "created"]
                  /\ UNCHANGED <<ep, asked, running>>

SendConnect(e) == /\ main[e] = "created"
                  /\ main' = [main EXCEPT ![e] = "connected"]
                  /\ asked' = [asked EXCEPT ![e] = TRUE]
                  /\ UNCHANGED <<ep, running>>

(***************************************************************************)
(* iec104_recv_data: a message from above or from below                    *)
(***************************************************************************)
AsduRecv(e) == Step(e, FrameISend(Cur(e), "DATA"), asked[e])

SysMsgRecvUp(e) == \E m \in {"DCOLL_START", "CONNECT_CLOSE"} :
                     Step(e, SysMsgFromUp(Cur(e), m), asked[e])

SysMsgRecvDn(e) == /\ Open(e)
                   /\ \E m \in {"CONNECT_ACK", "CONNECT_NACK", "CONNECT_LOST"} :
                        Step(e, SysMsgFromDn(Cur(e), m), FALSE)

RecvFrame(e) == /\ Open(e)
                /\ \E f \in Frames : Step(e, FrameRecv(Cur(e), f), asked[e])

\* QUIT stops the transfer of every end-point if the one it came for is a
\* master, and ends the process.
Quit(e) == /\ ep' = [x \in Eps |-> IF ep[e].host_type = "MASTER"
                                   THEN StopTransfer(Cur(x)).ep ELSE ep[x]]
           /\ running' = FALSE
           /\ UNCHANGED <<main, asked>>

Alarm(e) == \E expired \in SUBSET ep[e].timers :
              Step(e, CatchAlarm(Cur(e), expired), asked[e])

Next == running /\ \E e \in Eps : \/ NewEndpoint(e)
                                  \/ SendConnect(e)
                                  \/ AsduRecv(e)
                                  \/ SysMsgRecvUp(e)
                                  \/ SysMsgRecvDn(e)
                                  \/ RecvFrame(e)
                                  \/ Quit(e)
                                  \/ Alarm(e)

Spec == Init /\ [][Next]_vars

(***************************************************************************)
(* Properties                                                              *)
(***************************************************************************)
\* The variables have their types.
TypeOK == /\ ep \in [Eps -> EpExt]
          /\ main \in [Eps -> {"none", "created", "connected"}]
          /\ asked \in [Eps -> BOOLEAN]
          /\ running \in BOOLEAN

\* iec104_frame_i_send and iec104_frame_check_recv_num together: whatever N(R)
\* the peer sends, as never leaves the window behind vs, so that at most K + 1
\* frames are unconfirmed and the modular counters are never confused.
SendWindow == \A e \in Eps : Dist(ep[e].vs, ep[e].as) <= K + 1

\* iec104_frame_i_recv: a master never owes W confirmations between two
\* handlers, in whatever state the connection is.
MasterAcks == \A e \in Eps :
  ep[e].host_type = "MASTER" => Dist(ep[e].vr, ep[e].ar) < W

\* While data transfer is started the timers that confirm on an idle line (t2)
\* and test it (t3) run: no handler loses them.
StartedTimers == \A e \in Eps :
  ep[e].u_cmd = "STARTDT_CON" => {"t2", "t3"} \subseteq ep[e].timers

\* A master is never forgotten: once main() has asked for the connection, either
\* phy_tcp owes an answer or a timer runs whose expiry does something about a
\* dead line.  Without it the end-point would be silent for ever.
Supervised == \A e \in Eps :
  (ep[e].host_type = "MASTER" /\ main[e] = "connected")
    => asked[e] \/ ep[e].timers \cap {"t0", "t3", "rc"} # {}

\* A slave in data transfer that takes an I frame leaves the handler owing
\* fewer than W confirmations, however many it took while it was stopped.
SlaveAcks == [][\A e \in Eps :
  (ep[e].host_type = "SLAVE" /\ ep'[e].vr # ep[e].vr /\ ep'[e].u_cmd = "STARTDT_CON")
    => Dist(ep'[e].vr, ep'[e].ar) < W]_vars

=============================================================================
