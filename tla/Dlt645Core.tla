----------------------------- MODULE Dlt645Core -----------------------------
(***************************************************************************)
(* The handlers of unitlinks/src/dlt645.c as functions: the collector that *)
(* asks the meters of all its end-points for all their data, one request   *)
(* at a time, and starts again every t_dcoll_p seconds.                    *)
(*                                                                         *)
(* A handler is an operator from an effect record to an effect record:     *)
(*   g   the static variables of the file and the dlt645_ep_ext of every   *)
(*       device                                                            *)
(*   dn, up   messages handed down and up so far by the handler, in order  *)
(*                                                                         *)
(* Devices are the used entries of ep_exts and data identifiers those of   *)
(* data_ids, both counted from 1: the -1 of the code is 0 here.            *)
(* A timer is "off" (0 in the code), "on", or "due" once its period has    *)
(* passed.  Left out: data_ids' contents, allocation failures, logs.       *)
(***************************************************************************)
EXTENDS Integers, Sequences, FiniteSetsExt

CONSTANTS NDev,       \* devices in lowlevel.cfg
          MaxItems    \* bound: data identifiers of a device

ASSUME CollectorAssumption == /\ NDev \in Nat \ {0}
                              /\ MaxItems \in Nat

Devs == 1 .. NDev
TimerStates == {"off", "on", "due"}

\* What recv_buff holds, as dlt_frame_buff_parse sees it: nothing it could begin
\* a frame with, the beginning of an answer, or bytes in which it finds no frame
\* whatever follows.
NoAnswer == [kind |-> "none", dev |-> 0, item |-> 0]
Broken == [kind |-> "broken", dev |-> 0, item |-> 0]
Answers(kinds) == [kind : kinds, dev : Devs, item : 1 .. MaxItems]
Buffers == {NoAnswer, Broken} \cup Answers({"head"})

\* What one read of the tty may bring: an answer or a part of it, or a flood of
\* noise that no longer fits into recv_buff.
Flood == [kind |-> "flood", dev |-> 0, item |-> 0]
Chunks == Answers({"whole", "head", "tail"}) \cup {Flood}

Collector == [timer_recv : TimerStates, timer_dcoll : TimerStates, stopped : BOOLEAN,
              ep_idx : 0 .. NDev, data_idx : 0 .. MaxItems, buf : Buffers,
              tx_ready : [Devs -> BOOLEAN], timer_rc : [Devs -> TimerStates],
              timer_sync : [Devs -> TimerStates], n : [Devs -> 0 .. MaxItems]]

InitCollector ==
  [timer_recv |-> "off", timer_dcoll |-> "off", stopped |-> TRUE,
   ep_idx |-> 0, data_idx |-> 0, buf |-> NoAnswer,
   tx_ready |-> [d \in Devs |-> FALSE], timer_rc |-> [d \in Devs |-> "off"],
   timer_sync |-> [d \in Devs |-> "off"], n |-> [d \in Devs |-> 0]]

Handle(g) == [g |-> g, dn |-> <<>>, up |-> <<>>]

ReadData(d, i) == [type |-> "READ_DATA", dev |-> d, item |-> i]
TimeSync(d) == [type |-> "TIME_SYNC", dev |-> d, item |-> 0]
Sys(m, d) == [type |-> m, dev |-> d, item |-> 0]
Data(d, i) == [type |-> "DATA", dev |-> d, item |-> i]

ToDn(r, m) == [r EXCEPT !.dn = Append(@, m)]
ToUp(r, m) == [r EXCEPT !.up = Append(@, m)]

\* timer_recv runs: an answer is still waited for.
Waiting(g) == g.timer_recv = "on"

InitEpExt(r, d) == [r EXCEPT !.g.tx_ready[d] = FALSE, !.g.timer_sync[d] = "off",
                             !.g.timer_rc[d] = "off"]

(***************************************************************************)
(* Requests                                                                *)
(***************************************************************************)
\* dlt645_read_data_send: nothing is sent while an answer is waited for.
ReadDataSend(r, d, i) ==
  IF Waiting(r.g) THEN r
  ELSE IF r.g.tx_ready[d]
       THEN [ToDn(r, ReadData(d, i)) EXCEPT !.g.timer_recv = "on", !.g.buf = NoAnswer]
       ELSE [r EXCEPT !.g.timer_recv = "off", !.g.buf = NoAnswer]

\* Mutant: the last item is not asked for.
CollectDataNotLast(r) ==
  LET g == r.g
      later == {d \in Devs : d > g.ep_idx /\ g.tx_ready[d] /\ g.n[d] > 0}
      ask(d, i) == ReadDataSend([r EXCEPT !.g.ep_idx = d, !.g.data_idx = i], d, i)
  IN  IF g.stopped \/ g.timer_dcoll # "off" THEN r
      ELSE IF g.data_idx # 0 /\ g.tx_ready[g.ep_idx] /\ g.data_idx + 1 < g.n[g.ep_idx]
           THEN ask(g.ep_idx, g.data_idx + 1)
      ELSE IF later # {} THEN ask(Min(later), 1)
      ELSE [r EXCEPT !.g.ep_idx = 0, !.g.data_idx = 0, !.g.timer_dcoll = "on"]

\* dlt645_collect_data: the next item of this device, else the first item of the
\* next device that is ready and has one, else wait for the next collection.
\* The indexes move on whether or not the request can be sent.
CollectData(r) ==
  LET g == r.g
      later == {d \in Devs : d > g.ep_idx /\ g.tx_ready[d] /\ g.n[d] > 0}
      ask(d, i) == ReadDataSend([r EXCEPT !.g.ep_idx = d, !.g.data_idx = i], d, i)
  IN  IF g.stopped \/ g.timer_dcoll # "off" THEN r
      ELSE IF g.data_idx # 0 /\ g.tx_ready[g.ep_idx] /\ g.data_idx < g.n[g.ep_idx]
           THEN ask(g.ep_idx, g.data_idx + 1)
      ELSE IF later # {} THEN ask(Min(later), 1)
      ELSE [r EXCEPT !.g.ep_idx = 0, !.g.data_idx = 0, !.g.timer_dcoll = "on"]

\* Mutant: the time is sent although an answer is waited for.
TimeSyncSendAnyTime(r, d) ==
  LET r1 == IF r.g.tx_ready[d] THEN ToDn(r, TimeSync(d)) ELSE r
  IN  [r1 EXCEPT !.g.timer_dcoll = IF r.g.stopped THEN "off" ELSE "due",
                 !.g.timer_sync[d] = "on"]

\* dlt645_time_sync_send.  timer_dcoll is saved in a uint8_t: what is restored
\* is a time of 1970, so that, like the interrupted collection, the next one is
\* due at once.  An answer waited for makes it return early, with timer_sync as
\* it was.
TimeSyncSend(r, d) ==
  IF Waiting(r.g) THEN r
  ELSE LET r1 == IF r.g.tx_ready[d] THEN ToDn(r, TimeSync(d)) ELSE r
       IN  [r1 EXCEPT !.g.timer_dcoll = IF r.g.stopped THEN "off" ELSE "due",
                      !.g.timer_sync[d] = "on"]

(***************************************************************************)
(* Answers                                                                 *)
(***************************************************************************)
\* recv_buff with a chunk appended, as the parser will find it.
Appended(buf, c) ==
  CASE buf = Broken -> Broken
    [] buf = NoAnswer /\ c.kind = "tail" -> NoAnswer
    [] buf = NoAnswer /\ c.kind # "tail" -> c
    [] OTHER -> IF c = [buf EXCEPT !.kind = "tail"] THEN [buf EXCEPT !.kind = "whole"]
                ELSE Broken

\* A frame was found: it is passed up if it is from the device asked last, and
\* either way the collection goes on.
FrameFound(r, a) ==
  LET r1 == [r EXCEPT !.g.timer_recv = "off", !.g.buf = NoAnswer]
      r2 == IF a.dev = r.g.ep_idx THEN ToUp(r1, Data(a.dev, a.item)) ELSE r1
  IN  CollectData(r2)

\* dlt645_frame_recv on a chunk that phy_tty delivers under the address of adr.
\* Too late, or too much: the request is given up and nothing is asked next.
FrameRecv(r, adr, c) ==
  LET b == Appended(r.g.buf, c)
  IN  CASE ~Waiting(r.g) \/ c = Flood ->
             [r EXCEPT !.g.timer_recv = "off", !.g.buf = NoAnswer]
        [] Waiting(r.g) /\ c # Flood /\ adr # r.g.ep_idx -> r
        [] OTHER -> IF b.kind = "whole" THEN FrameFound(r, b)
                    ELSE [r EXCEPT !.g.buf = b]

\* The test above reads ep_exts[dcoll_ep_idx], which is outside the array after
\* DCOLL_STOP: the process dies or the address differs.
WildRead(g, c) == Waiting(g) /\ c # Flood /\ g.ep_idx = 0

(***************************************************************************)
(* System messages and the alarm                                           *)
(***************************************************************************)
\* EP_MSG_NEWDOBJ: an identifier the map knows and the device does not have yet.
NewDobj(r, d) == [r EXCEPT !.g.n[d] = @ + 1]

DcollStart(r) ==
  IF r.g.stopped THEN CollectData([r EXCEPT !.g.stopped = FALSE]) ELSE r

DcollStop(r) == [r EXCEPT !.g.stopped = TRUE, !.g.timer_dcoll = "off",
                          !.g.ep_idx = 0, !.g.data_idx = 0]

\* dlt645_test_connect: every device is asked for its address too.
TestConnect(r) ==
  CollectData([r EXCEPT !.g.n = [d \in Devs |-> r.g.n[d] + 1], !.g.stopped = FALSE])

ConnectAck(r, d) ==
  LET r1 == InitEpExt(ToUp(r, Sys("LOG_DEV_EVENT", d)), d)
  IN  TimeSyncSend([r1 EXCEPT !.g.tx_ready[d] = TRUE], d)

\* CONNECT_NACK and CONNECT_LOST.
ConnectGone(r, d) ==
  [InitEpExt(ToUp(r, Sys("LOG_DEV_EVENT", d)), d) EXCEPT !.g.timer_rc[d] = "on"]

\* A collection that is due begins.
CollectionAlarm(r) ==
  IF r.g.timer_dcoll = "due" THEN CollectData([r EXCEPT !.g.timer_dcoll = "off"]) ELSE r

\* Mutants: the collection starts again from the first device; nothing follows.
CollectorAlarmFromStart(r) ==
  LET late == r.g.timer_recv = "due"
      r1 == IF late THEN [r EXCEPT !.g.timer_recv = "off", !.g.buf = NoAnswer] ELSE r
  IN  CollectionAlarm(IF late /\ ~r.g.stopped /\ r.g.timer_dcoll = "off"
                      THEN CollectData([r1 EXCEPT !.g.ep_idx = 0, !.g.data_idx = 0]) ELSE r1)
CollectorAlarmNoNext(r) ==
  CollectionAlarm(IF r.g.timer_recv = "due"
                  THEN [r EXCEPT !.g.timer_recv = "off", !.g.buf = NoAnswer] ELSE r)

\* The part of dlt645_catch_alarm about the collection: the device that does not
\* answer is left for the next one.
CollectorAlarm(r) ==
  LET late == r.g.timer_recv = "due"
      r1 == IF late THEN [r EXCEPT !.g.timer_recv = "off", !.g.buf = NoAnswer] ELSE r
  IN  CollectionAlarm(IF late /\ ~r.g.stopped /\ r.g.timer_dcoll = "off"
                      THEN CollectData([r1 EXCEPT !.g.data_idx = 0]) ELSE r1)

\* The part about one device.
DeviceAlarm(r, d) ==
  LET r1 == IF r.g.timer_sync[d] = "due" THEN TimeSyncSend(r, d) ELSE r
  IN  IF r1.g.timer_rc[d] = "due" THEN ToDn(InitEpExt(r1, d), Sys("RECONNECT", d)) ELSE r1

\* dlt645_catch_alarm after the part about the collection.
DeviceAlarms(r) ==
  LET after[d \in 0 .. NDev] == IF d = 0 THEN r ELSE DeviceAlarm(after[d - 1], d)
  IN  after[NDev]

SomeDue(g) == \/ "due" \in {g.timer_recv, g.timer_dcoll}
              \/ \E d \in Devs : "due" \in {g.timer_sync[d], g.timer_rc[d]}
=============================================================================
