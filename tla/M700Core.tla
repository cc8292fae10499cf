----------------------------- MODULE M700Core -----------------------------
(***************************************************************************)
(* The handlers of unitlinks/src/m700.c as functions of an effect record,  *)
(* in the manner of Dlt645Core: the same collector without time            *)
(* synchronisation and without a repair for a request that nobody follows. *)
(*                                                                         *)
(* A frame on the line is two pieces, its head and its tail; what is read  *)
(* at once, and recv_buff, are sequences of pieces.  Left out: the         *)
(* messages TEST_CONN (Test of AutoConf), DCOLL_STOP and CONNECT_CLOSE,    *)
(* which no process sends to a running collector, and the state of the     *)
(* push buttons, which main passes up as they come; recv_buff is large     *)
(* enough (for a flood see Dlt645Core).                                    *)
(***************************************************************************)
EXTENDS Integers, Sequences, FiniteSetsExt

CONSTANTS NDev,       \* meters in lowlevel.cfg
          MaxItems    \* bound: commands of a meter

ASSUME CollectorAssumption == NDev \in Nat \ {0} /\ MaxItems \in Nat

Devs == 1 .. NDev
TimerStates == {"off", "on", "due"}

Pieces == [part : {"head", "tail"}, dev : Devs, item : 1 .. MaxItems]
Answer(d, i) == <<[part |-> "head", dev |-> d, item |-> i], [part |-> "tail", dev |-> d, item |-> i]>>

InitCollector ==
  [timer_recv |-> "off", timer_dcoll |-> "off", stopped |-> TRUE, ep_idx |-> 0, data_idx |-> 0,
   buf |-> <<>>, tx_ready |-> [d \in Devs |-> FALSE], timer_rc |-> [d \in Devs |-> "off"],
   n |-> [d \in Devs |-> 0]]

Handle(g) == [g |-> g, dn |-> <<>>, up |-> <<>>]
Msg(type, d, item) == [type |-> type, dev |-> d, item |-> item]
ToDn(r, m) == [r EXCEPT !.dn = Append(@, m)]
ToUp(r, m) == [r EXCEPT !.up = Append(@, m)]

Waiting(g) == g.timer_recv = "on"
Dropped(r) == [r EXCEPT !.g.timer_recv = "off", !.g.buf = <<>>]

\* m700_init_ep_ext
InitEpExt(r, d) == [r EXCEPT !.g.tx_ready[d] = FALSE, !.g.timer_rc[d] = "off"]

\* m700_frame_send refuses a meter that is not ready.
FrameSend(r, m) == IF r.g.tx_ready[m.dev] THEN ToDn(r, m) ELSE r

\* m700_read_data_send
ReadDataSend(r, d, i) ==
  LET sent == FrameSend(Dropped(r), Msg("READ_DATA", d, i))
  IN  IF Waiting(r.g) THEN r
      ELSE IF sent.dn # r.dn THEN [sent EXCEPT !.g.timer_recv = "on"] ELSE sent

\* m700_collect_data: the next command of this meter, else the first of the next that
\* is ready and has one, else wait for the next collection.
CollectData(r) ==
  LET g == r.g
      later == {d \in Devs : d > g.ep_idx /\ g.tx_ready[d] /\ g.n[d] > 0}
      ask(d, i) == ReadDataSend([r EXCEPT !.g.ep_idx = d, !.g.data_idx = i], d, i)
  IN  IF g.stopped \/ g.timer_dcoll # "off" THEN r
      ELSE IF g.data_idx # 0 /\ g.tx_ready[g.ep_idx] /\ g.data_idx < g.n[g.ep_idx]
           THEN ask(g.ep_idx, g.data_idx + 1)
      ELSE IF later # {} THEN ask(Min(later), 1)
      ELSE [r EXCEPT !.g.ep_idx = 0, !.g.data_idx = 0, !.g.timer_dcoll = "on"]

\* m700_frame_buff_parse: from the first head on, a frame if the rest of it follows.
Found(buf) ==
  LET heads == {k \in DOMAIN buf : buf[k].part = "head"}
      h == Min(heads)
  IN  IF heads = {} \/ h = Len(buf) THEN {}
      ELSE {f \in {[dev |-> buf[h].dev, item |-> buf[h].item]} : SubSeq(buf, h, h + 1) = Answer(f.dev, f.item)}

\* Mutants: whose address a frame has does not matter; nobody is asked after a frame
\* of another meter; a chunk counts under whatever address it comes.
FrameRecvAnyAddress(r, adr, chunk) ==
  LET buf == r.g.buf \o chunk
      of == CHOOSE f \in Found(buf) : TRUE
  IN  IF ~Waiting(r.g) THEN Dropped(r)
      ELSE IF adr # r.g.ep_idx THEN r
      ELSE IF Found(buf) = {} THEN [r EXCEPT !.g.buf = buf]
      ELSE CollectData(ToUp(Dropped(r), Msg("DATA", r.g.ep_idx, of.item)))
FrameRecvNoNext(r, adr, chunk) ==
  LET buf == r.g.buf \o chunk
      of == CHOOSE f \in Found(buf) : TRUE
  IN  IF ~Waiting(r.g) THEN Dropped(r)
      ELSE IF adr # r.g.ep_idx THEN r
      ELSE IF Found(buf) = {} THEN [r EXCEPT !.g.buf = buf]
      ELSE IF of.dev = r.g.ep_idx THEN CollectData(ToUp(Dropped(r), Msg("DATA", of.dev, of.item)))
      ELSE Dropped(r)

FrameRecvEveryCopy(r, adr, chunk) ==
  LET buf == r.g.buf \o chunk
      of == CHOOSE f \in Found(buf) : TRUE
  IN  IF ~Waiting(r.g) THEN Dropped(r)
      ELSE IF Found(buf) = {} THEN [r EXCEPT !.g.buf = buf]
      ELSE CollectData(IF of.dev = r.g.ep_idx
                       THEN ToUp(Dropped(r), Msg("DATA", of.dev, of.item)) ELSE Dropped(r))

\* m700_frame_recv on what phy_tty read and delivers under the address of adr.  A
\* chunk when nothing is waited for, or after the timeout, ends the request and asks
\* nobody.  A whole frame empties the buffer, whatever follows it, and is data if its
\* link address is that of the meter asked last.
FrameRecv(r, adr, chunk) ==
  LET buf == r.g.buf \o chunk
      of == CHOOSE f \in Found(buf) : TRUE
  IN  IF ~Waiting(r.g) THEN Dropped(r)
      ELSE IF adr # r.g.ep_idx THEN r
      ELSE IF Found(buf) = {} THEN [r EXCEPT !.g.buf = buf]
      ELSE CollectData(IF of.dev = r.g.ep_idx
                       THEN ToUp(Dropped(r), Msg("DATA", of.dev, of.item)) ELSE Dropped(r))

\* m700_sys_msg_recv
NewDobj(r, d) == [r EXCEPT !.g.n[d] = @ + 1]

DcollStart(r) == IF r.g.stopped THEN CollectData([r EXCEPT !.g.stopped = FALSE]) ELSE r

ConnectAck(r, d) == [InitEpExt(r, d) EXCEPT !.g.tx_ready[d] = TRUE]

\* Mutant: InitEpExt after the timer is started stops it.
ConnectGoneNoTimer(r, d) == InitEpExt(r, d)

\* CONNECT_NACK and CONNECT_LOST.
ConnectGone(r, d) == [InitEpExt(r, d) EXCEPT !.g.timer_rc[d] = "on"]

\* m700_catch_alarm
CollectorAlarm(r) ==
  LET late == r.g.timer_recv = "due"
      r1 == IF late THEN Dropped(r) ELSE r
      r2 == IF late /\ ~r.g.stopped /\ r.g.timer_dcoll = "off"
            THEN CollectData([r1 EXCEPT !.g.data_idx = 0]) ELSE r1
  IN  IF r2.g.timer_dcoll = "due" THEN CollectData([r2 EXCEPT !.g.timer_dcoll = "off"]) ELSE r2

DeviceAlarm(r, d) ==
  IF r.g.timer_rc[d] = "due" THEN ToDn(InitEpExt(r, d), Msg("RECONNECT", d, 0)) ELSE r

CatchAlarm(r) ==
  LET after[d \in 0 .. NDev] == IF d = 0 THEN CollectorAlarm(r) ELSE DeviceAlarm(after[d - 1], d)
  IN  after[NDev]

SomeDue(g) == "due" \in {g.timer_recv, g.timer_dcoll} \cup {g.timer_rc[d] : d \in Devs}
=============================================================================
