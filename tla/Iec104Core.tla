----------------------------- MODULE Iec104Core -----------------------------
(***************************************************************************)
(* The handlers of unitlinks/src/iec104.c as functions.                    *)
(*                                                                         *)
(* A handler of the code reads and writes one iec104_ep_ext and hands      *)
(* messages to the processes below (DIRDN) and above (DIRUP).  Here it is  *)
(* an operator from an effect record to an effect record:                  *)
(*   ep    the end-point's iec104_ep_ext                                   *)
(*   open  whether mf_toendpoint finds a channel down for the end-point:   *)
(*         every send down succeeds iff it does                            *)
(*   dn    messages handed down so far by the handler, in order            *)
(*   up    messages handed up so far                                       *)
(* so that the calls a handler makes compose in the order of the code.     *)
(*                                                                         *)
(* A timer of the code is a time_t that is 0 when stopped; here it is a    *)
(* member of ep.timers while it runs.  Which running timers have expired   *)
(* when SIGALRM comes is an argument of CatchAlarm.                        *)
(* Left out: rc_cnt and data_ids (written, never read), log wording, the   *)
(* parsing of bytes (an ASDU the parser refuses is the value "BAD").       *)
(***************************************************************************)
EXTENDS Integers, Sequences

CONSTANTS
  SeqMod,   \* modulus of the sequence numbers; 32768 in the code
  K,        \* k_ack: limit of unconfirmed sent I frames
  W         \* w_ack: received I frames that force a confirmation

\* The counters of the code are compared modulo SeqMod: a window that does not
\* fit would make every N(R) acceptable.  The defaults are 12, 8 and 32768.
ASSUME SeqAssumption == /\ SeqMod \in Nat \ {0}
                        /\ K \in Nat
                        /\ W \in Nat \ {0}
                        /\ K + 2 <= SeqMod

Hosts  == {"MASTER", "SLAVE"}
UStates == {"STARTDT_ACT", "STARTDT_CON", "STOPDT_ACT", "STOPDT_CON"}
UCmds  == UStates \cup {"TESTFR_ACT", "TESTFR_CON"}
Timers == {"t0", "t1", "t2", "t3", "sync", "rc"}
AsduTypes == {"C_IC", "C_CS", "DATA", "BAD"}
SeqNums == 0 .. SeqMod - 1

EpExt == [host_type : Hosts, u_cmd : UStates, vs : SeqNums, vr : SeqNums,
          as : SeqNums, ar : SeqNums, timers : SUBSET Timers]

\* Messages between the processes: APDUs as user data, and system messages.
UFrame(c) == [type |-> "U", u_cmd |-> c]
SFrame(nr) == [type |-> "S", recv_num |-> nr]
IFrame(ns, nr, a) == [type |-> "I", send_num |-> ns, recv_num |-> nr, asdu |-> a]
Sys(m) == [type |-> "sys", msg |-> m]

Frames == {UFrame(c) : c \in UCmds} \cup {SFrame(nr) : nr \in SeqNums}
          \cup {IFrame(ns, nr, a) : ns \in SeqNums, nr \in SeqNums, a \in AsduTypes}

Handle(ep, open) == [ep |-> ep, open |-> open, dn |-> <<>>, up |-> <<>>]

\* How far a is ahead of b: (a - b + 32768) % 32768.
Dist(a, b) == (a - b + SeqMod) % SeqMod

(***************************************************************************)
(* State of an end-point                                                   *)
(***************************************************************************)
\* calloc in iec104_add_ep_ext: all zero, data transfer stopped.
NewEpExt(h) == [host_type |-> h, u_cmd |-> "STOPDT_CON", vs |-> 0, vr |-> 0,
                as |-> 0, ar |-> 0, timers |-> {}]

InitEpExt(r) == [r EXCEPT !.ep = NewEpExt(r.ep.host_type)]

SetUCmd(r, c) == [r EXCEPT !.ep.u_cmd = c]
StartTimers(r, T) == [r EXCEPT !.ep.timers = @ \cup T]
StopTimer(r, t) == [r EXCEPT !.ep.timers = @ \ {t}]

(***************************************************************************)
(* Sending                                                                 *)
(***************************************************************************)
ToDn(r, m) == IF r.open THEN [r EXCEPT !.dn = Append(@, m)] ELSE r
ToUp(r, m) == [r EXCEPT !.up = Append(@, m)]

\* Mutant: a slave is not held back either.
TxReadyAlways(ep) == TRUE

\* A slave sends I and S frames only between STARTDT and STOPDT; a master
\* is not held back.
TxReady(ep) == ep.host_type = "SLAVE" => ep.u_cmd = "STARTDT_CON"

\* iec104_frame_s_send: confirm everything received, if something is owed.
FrameSSend(r) ==
  IF TxReady(r.ep) /\ r.ep.ar # r.ep.vr /\ r.open
  THEN [StartTimers(ToDn(r, SFrame(r.ep.vr)), {"t2"}) EXCEPT !.ep.ar = r.ep.vr]
  ELSE r

\* Mutant: N(R) counts a frame too many.
FrameISendNextNR(r, a) ==
  IF TxReady(r.ep) /\ Dist(r.ep.vs, r.ep.as) <= K /\ r.open
  THEN [StartTimers(ToDn(r, IFrame(r.ep.vs, (r.ep.vr + 1) % SeqMod, a)), {"t1", "t2"})
          EXCEPT !.ep.vs = (r.ep.vs + 1) % SeqMod]
  ELSE r

\* iec104_frame_i_send: the window test is <=, so K + 1 frames may be open.
\* N(R) is on the frame but ar stays: an S frame will repeat it.
FrameISend(r, a) ==
  IF TxReady(r.ep) /\ Dist(r.ep.vs, r.ep.as) <= K /\ r.open
  THEN [StartTimers(ToDn(r, IFrame(r.ep.vs, r.ep.vr, a)), {"t1", "t2"})
          EXCEPT !.ep.vs = (r.ep.vs + 1) % SeqMod]
  ELSE r

\* Mutant: the answer to a test stops t3 in place of t1.
FrameUSendStopsT3(r, c) ==
  ToDn(CASE c \in {"STOPDT_ACT", "STOPDT_CON"} -> FrameSSend(r)
         [] c = "TESTFR_ACT" -> StartTimers(r, {"t1", "t3"})
         [] c = "TESTFR_CON" -> StopTimer(r, "t3")
         [] OTHER -> r,
       UFrame(c))

\* iec104_frame_u_send, with what it does to the timers before sending.
FrameUSend(r, c) ==
  ToDn(CASE c \in {"STOPDT_ACT", "STOPDT_CON"} -> FrameSSend(r)
         [] c = "TESTFR_ACT" -> StartTimers(r, {"t1", "t3"})
         [] c = "TESTFR_CON" -> StopTimer(r, "t1")
         [] OTHER -> r,
       UFrame(c))

TimeSyncSend(r) ==
  FrameISend(IF r.ep.host_type = "MASTER" THEN StartTimers(r, {"sync"}) ELSE r, "C_CS")

CommInterSend(r) == FrameISend(r, "C_IC")

\* iec104_reconnect: ask the physical layer, forget the session; if the
\* message cannot be handed down, try again when rc expires.
Reconnect(r) ==
  IF r.open THEN InitEpExt(ToDn(r, Sys("RECONNECT"))) ELSE StartTimers(r, {"rc"})

(***************************************************************************)
(* Receiving a frame                                                       *)
(***************************************************************************)
\* The answer to a wrong N(R) or N(S): the session state stays as it is until
\* the physical layer answers the request.
SequenceError(r) == ToDn(FrameSSend(r), Sys("RECONNECT"))

\* Mutants: any N(R) within a full window passes; the upper bound is excluded.
CheckRecvNumLoose(ep, nr) == Dist(nr, ep.as) <= K + 1
CheckRecvNumStrict(ep, nr) == Dist(nr, ep.as) < Dist(ep.vs, ep.as)

CheckRecvNum(ep, nr) == Dist(nr, ep.as) <= Dist(ep.vs, ep.as)
\* Mutant: what is not older passes.
CheckSendNumNewer(ep, ns) == Dist(ns, ep.vr) < K + 1

CheckSendNum(ep, ns) == ns = ep.vr

\* Everything before nr is confirmed; t1 stops when nothing is left open.
Confirmed(r, nr) ==
  LET r1 == [r EXCEPT !.ep.as = nr]
  IN  IF nr = r.ep.vs THEN StopTimer(r1, "t1") ELSE r1

FrameSRecv(r, f) == IF CheckRecvNum(r.ep, f.recv_num) THEN Confirmed(r, f.recv_num) ELSE r

\* What a good ASDU makes the end-point do, by type.
AsduAccept(r, a) ==
  LET r1 == [r EXCEPT !.ep.vr = (@ + 1) % SeqMod]
      slave == r.ep.host_type = "SLAVE"
  IN  CASE a = "C_IC" -> IF slave THEN CommInterSend(ToUp(r1, Sys("COMM_INTER"))) ELSE r1
        [] a = "C_CS" -> IF slave THEN TimeSyncSend(ToUp(r1, Sys("TIME_SYNC"))) ELSE r1
        [] OTHER      -> ToUp(r1, Sys("USER_DATA"))

\* Mutant: the confirmation comes one frame late.
FrameIRecvLateAck(r, f) ==
  IF ~CheckRecvNum(r.ep, f.recv_num) THEN SequenceError(r)
  ELSE LET r1 == Confirmed(r, f.recv_num)
           r2 == IF f.asdu = "BAD" THEN r1 ELSE AsduAccept(r1, f.asdu)
       IN  IF ~CheckSendNum(r1.ep, f.send_num) THEN SequenceError(r1)
           ELSE IF Dist(r2.ep.vr, r2.ep.ar) > W THEN FrameSSend(r2) ELSE r2

FrameIRecv(r, f) ==
  IF ~CheckRecvNum(r.ep, f.recv_num) THEN SequenceError(r)
  ELSE LET r1 == Confirmed(r, f.recv_num)
           r2 == IF f.asdu = "BAD" THEN r1 ELSE AsduAccept(r1, f.asdu)
       IN  IF ~CheckSendNum(r1.ep, f.send_num) THEN SequenceError(r1)
           ELSE IF Dist(r2.ep.vr, r2.ep.ar) >= W THEN FrameSSend(r2) ELSE r2

\* STARTDT starts the ack and the test timer on both sides; a confirmed start
\* makes a master send the time.
StartDtAct(r) ==
  LET r1 == FrameUSend(SetUCmd(ToUp(r, Sys("DEV_ONLINE")), "STARTDT_ACT"), "STARTDT_CON")
  IN  IF r.open THEN StartTimers(SetUCmd(r1, "STARTDT_CON"), {"t2", "t3"}) ELSE r1

StartDtCon(r) ==
  LET r1 == SetUCmd(ToUp(r, Sys("DEV_ONLINE")), "STARTDT_CON")
  IN  StartTimers(TimeSyncSend(StopTimer(r1, "t0")), {"t2", "t3"})

StopDtAct(r) ==
  LET r1 == FrameUSend(SetUCmd(r, "STOPDT_ACT"), "STOPDT_CON")
  IN  IF r.open THEN SetUCmd(r1, "STOPDT_CON") ELSE r1

\* iec104_frame_u_recv: each side ignores the commands only it may give.
FrameURecv(r, f) ==
  LET slave == r.ep.host_type = "SLAVE"
  IN  CASE f.u_cmd = "STARTDT_ACT" /\ slave  -> StartDtAct(r)
        [] f.u_cmd = "STARTDT_CON" /\ ~slave -> StartDtCon(r)
        [] f.u_cmd = "STOPDT_ACT" /\ slave   -> StopDtAct(r)
        [] f.u_cmd = "STOPDT_CON" /\ ~slave  -> SetUCmd(r, "STOPDT_CON")
        [] f.u_cmd = "TESTFR_ACT"            -> FrameUSend(r, "TESTFR_CON")
        [] f.u_cmd = "TESTFR_CON"            -> StopTimer(r, "t1")
        [] OTHER                             -> r

\* iec104_frame_recv, one frame of its loop (t3, if it runs, starts afresh).
FrameRecv(r, f) ==
  CASE f.type = "U" -> FrameURecv(r, f)
    [] f.type = "S" -> FrameSRecv(r, f)
    [] f.type = "I" -> FrameIRecv(r, f)

(***************************************************************************)
(* System messages and the alarm                                           *)
(***************************************************************************)
\* The master's part of CONNECT_CLOSE and QUIT.
StopTransfer(r) == SetUCmd(FrameUSend(r, "STOPDT_ACT"), "STOPDT_ACT")

\* iec104_sys_msg_recv, messages from above other than QUIT.
SysMsgFromUp(r, m) ==
  LET master == r.ep.host_type = "MASTER"
  IN  CASE m = "DCOLL_START" /\ master   -> CommInterSend(r)
        [] m = "CONNECT_CLOSE" /\ master -> StopTransfer(r)
        [] OTHER                         -> r

ConnectAck(r) ==
  LET r1 == InitEpExt(ToUp(r, Sys("LOG_DEV_EVENT")))
  IN  IF r.ep.host_type = "MASTER"
      THEN StartTimers(SetUCmd(FrameUSend(r1, "STARTDT_ACT"), "STARTDT_ACT"), {"t0"})
      ELSE r1

\* Mutant: a refused connection starts no timer.
SysMsgFromDnNackForgotten(r, m) ==
  CASE m = "CONNECT_ACK" -> ConnectAck(r)
    [] m = "CONNECT_LOST" -> StartTimers(InitEpExt(ToUp(r, Sys("LOG_DEV_EVENT"))), {"rc"})
    [] m = "CONNECT_NACK" -> InitEpExt(ToUp(r, Sys("LOG_DEV_EVENT")))
    [] OTHER -> r

\* iec104_sys_msg_recv, messages from the physical layer.
SysMsgFromDn(r, m) ==
  CASE m = "CONNECT_ACK" -> ConnectAck(r)
    [] m \in {"CONNECT_NACK", "CONNECT_LOST"} ->
         StartTimers(InitEpExt(ToUp(r, Sys("LOG_DEV_EVENT"))), {"rc"})
    [] OTHER -> r

\* iec104_catch_alarm for one end-point: expired is the set of its running
\* timers that have run out.  A reconnect stops or restarts the later ones.
CatchAlarm(r, expired) ==
  LET fires(s, t) == t \in expired \cap s.ep.timers
      r0 == IF fires(r, "t0") THEN Reconnect(StopTimer(r, "t0")) ELSE r
      r1 == IF fires(r0, "t1") THEN Reconnect(StopTimer(r0, "t1")) ELSE r0
      r2 == IF fires(r1, "t2") THEN FrameSSend(r1) ELSE r1
      r3 == IF fires(r2, "t3") THEN FrameUSend(r2, "TESTFR_ACT") ELSE r2
      r4 == IF fires(r3, "sync") THEN TimeSyncSend(r3) ELSE r3
  IN  IF fires(r4, "rc") /\ expired \cap {"t0", "t1"} = {}
      THEN Reconnect(StopTimer(r4, "rc")) ELSE r4

\* SIGALRM inside iec104_frame_i_send, between the write of the frame and vs + 1:
\* what the alarm sends has the N(S) of the frame just written, and vs and the
\* timers are then set over what the alarm left.
FrameISendAlarm(r, a, expired) ==
  LET r1 == CatchAlarm(ToDn(r, IFrame(r.ep.vs, r.ep.vr, a)), expired)
  IN  [StartTimers(r1, {"t1", "t2"}) EXCEPT !.ep.vs = (r1.ep.vs + 1) % SeqMod]
=============================================================================
