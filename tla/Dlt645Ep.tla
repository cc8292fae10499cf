------------------------------ MODULE Dlt645Ep ------------------------------
(***************************************************************************)
(* The process unitlink-dlt645: the collector of Dlt645Core driven by the  *)
(* process above, phy_tty below, and SIGALRM.  phy_tty is the environment  *)
(* here and may deliver any chunk under any address at any time.           *)
(*                                                                         *)
(* A handler is one step: the callback thread and the signal handler are   *)
(* taken to alternate.                                                     *)
(***************************************************************************)
EXTENDS Dlt645Core

CONSTANT Rough    \* TRUE: a chunk may come between the moment timer_recv is due
                  \* and the alarm that notices it, floods happen, and DCOLL_STOP
                  \* is sent, which no process of the repository does

ASSUME EnvironmentAssumption == Rough \in BOOLEAN

VARIABLES
  col,      \* the collector
  running,  \* the process: ~appexit and not killed
  stray,    \* history: the answer waited for was asked for before DCOLL_STOP
  dropped,  \* history: the collection stands still because dlt645_frame_recv
            \*   dropped the request: the chunk came too late, or was too much
  asked,    \* history: <<device, item>> asked for in this collection
  steady    \* history: [d -> items d had when this collection began, if d was
            \*   ready then and ever since and has always answered in time;
            \*   otherwise 0]

vars == <<col, running, stray, dropped, asked, steady>>

Init == /\ col = InitCollector
        /\ running = TRUE
        /\ stray = FALSE
        /\ dropped = FALSE
        /\ asked = {}
        /\ steady = [d \in Devs |-> 0]

Reads(r) == {<<r.dn[k].dev, r.dn[k].item>> :
               k \in {j \in 1 .. Len(r.dn) : r.dn[j].type = "READ_DATA"}}

\* A collection runs from the first request to the end of ep_exts.
Collecting(g) == g.ep_idx # 0

\* A collection has begun, and nobody will ask the next device.
StandsStill(g) == ~g.stopped /\ g.timer_recv = "off" /\ g.timer_dcoll = "off"

\* A handler; gaveUp says whether it took the awaited device for silent, drops
\* whether it gave up a request and may go on with none.  The first request of a
\* collection is refused while a stray answer is waited for.
Handler(r, gaveUp, drops) ==
  LET begins == ~Collecting(col) /\ Collecting(r.g)
      ready == [d \in Devs |-> IF r.g.tx_ready[d] /\ ~Waiting(col) THEN r.g.n[d] ELSE 0]
      still == [d \in Devs |-> IF r.g.tx_ready[d] /\ ~(gaveUp /\ d = col.ep_idx)
                               THEN steady[d] ELSE 0]
  IN  /\ col' = r.g
      /\ asked' = IF begins THEN Reads(r) ELSE asked \cup Reads(r)
      /\ steady' = IF begins THEN ready ELSE still
      /\ stray' = (Waiting(r.g) /\ Reads(r) = {} /\ (stray \/ r.g.ep_idx = 0))
      /\ dropped' = (StandsStill(r.g) /\ (dropped \/ drops))
      /\ UNCHANGED running

Step(r, gaveUp) == Handler(r, gaveUp, FALSE)

Cur == Handle(col)

(***************************************************************************)
(* dlt645_recv_data: a message from above or from below                    *)
(***************************************************************************)
NewDobjRecv(d) == col.n[d] < MaxItems /\ Step(NewDobj(Cur, d), FALSE)
DcollStartRecv == Step(DcollStart(Cur), FALSE)
DcollStopRecv == Rough /\ Step(DcollStop(Cur), FALSE)
ConnectCloseRecv(d) == Step(InitEpExt(Cur, d), FALSE)
QuitRecv == running' = FALSE /\ UNCHANGED <<col, stray, dropped, asked, steady>>

\* The manager tests a process it has just started and that nobody else uses.
TestConnRecv == /\ col.stopped /\ col.timer_recv = "off"
                /\ \A d \in Devs : col.n[d] < MaxItems
                /\ Step(TestConnect(Cur), FALSE)

ConnectAckRecv(d) == Step(ConnectAck(Cur, d), FALSE)
ConnectGoneRecv(d) == Step(ConnectGone(Cur, d), FALSE)

RecvChunk(d) == \E c \in Chunks :
  /\ ~Rough => c # Flood /\ col.timer_recv # "due"
  /\ ~WildRead(col, c)
  /\ Handler(FrameRecv(Cur, d, c), FALSE, c = Flood \/ col.timer_recv = "due")

\* A chunk after DCOLL_STOP: ignored, or the end of the process.
RecvChunkWild == /\ \E c \in Chunks : WildRead(col, c)
                 /\ running' = FALSE
                 /\ UNCHANGED <<col, stray, dropped, asked, steady>>

(***************************************************************************)
(* Time                                                                    *)
(***************************************************************************)
ExpireRecv == /\ col.timer_recv = "on"
              /\ col' = [col EXCEPT !.timer_recv = "due"]
              /\ UNCHANGED <<running, stray, dropped, asked, steady>>

ExpireDcoll == /\ col.timer_dcoll = "on"
               /\ col' = [col EXCEPT !.timer_dcoll = "due"]
               /\ UNCHANGED <<running, stray, dropped, asked, steady>>

ExpireDevice(d) == /\ \/ /\ col.timer_sync[d] = "on"
                         /\ col' = [col EXCEPT !.timer_sync[d] = "due"]
                      \/ /\ col.timer_rc[d] = "on"
                         /\ col' = [col EXCEPT !.timer_rc[d] = "due"]
                   /\ UNCHANGED <<running, stray, dropped, asked, steady>>

Alarm == /\ SomeDue(col)
         /\ \E mid \in {CollectorAlarm(Cur)} : \E r \in {DeviceAlarms(mid)} :
              Step(r, col.timer_recv = "due")

Next == running /\ \/ DcollStartRecv
                   \/ DcollStopRecv
                   \/ QuitRecv
                   \/ TestConnRecv
                   \/ RecvChunkWild
                   \/ ExpireRecv
                   \/ ExpireDcoll
                   \/ Alarm
                   \/ \E d \in Devs : \/ NewDobjRecv(d)
                                      \/ ConnectCloseRecv(d)
                                      \/ ConnectAckRecv(d)
                                      \/ ConnectGoneRecv(d)
                                      \/ RecvChunk(d)
                                      \/ ExpireDevice(d)

Spec == Init /\ [][Next]_vars

\* A wait for an answer comes to its end and SIGALRM comes every second; nothing
\* else is promised.
FairSpec == Spec /\ WF_vars(running /\ ExpireRecv) /\ WF_vars(running /\ Alarm)

(***************************************************************************)
(* Properties                                                              *)
(***************************************************************************)
\* The variables have their types, and the collector is at an item only of a
\* device.
TypeOK == /\ col \in Collector
          /\ col.data_idx # 0 => col.ep_idx # 0
          /\ {running, stray, dropped} \subseteq BOOLEAN
          /\ asked \subseteq Devs \X (1 .. MaxItems)
          /\ steady \in [Devs -> 0 .. MaxItems]

\* While the process waits for the next collection no answer is waited for, and
\* while an answer is waited for the collector is at the device that was asked:
\* otherwise a collection would begin with a request that is not sent, and a
\* chunk would be compared with an entry outside ep_exts.  Only DCOLL_STOP can
\* leave an answer waited for that belongs to no collection.
WaitingPlace == /\ (Waiting(col) /\ ~stray) => col.timer_dcoll = "off" /\ col.ep_idx # 0
                /\ col.stopped => col.timer_dcoll = "off"

\* No item is asked for twice in a collection.
AskedOnce == [][\A a \in Devs \X (1 .. MaxItems) :
  (Collecting(col) /\ a \in asked) =>
    ~(col'.timer_recv = "on" /\ <<col'.ep_idx, col'.data_idx>> = a
        /\ <<col.ep_idx, col.data_idx>> # a)]_vars

\* When a collection comes to the end of ep_exts, every device that was ready all
\* along and was not given up has been asked for everything it had, whatever
\* connections came and went and whatever arrived meanwhile.
AsksEverything == [][
  (Collecting(col) /\ col'.ep_idx = 0 /\ ~col'.stopped) =>
    \A d \in Devs : \A i \in 1 .. steady'[d] : <<d, i>> \in asked']_vars

\* Once started, a collection comes to its end and the next one is awaited,
\* over and over, unless it is stopped: whatever is silent, lost or added, someone
\* asks the next device.  Only a chunk that came between the timeout and its alarm,
\* or a flood, leaves the collection where it is, until a time synchronisation.
CollectsForEver == []<>(~running \/ col.stopped \/ col.timer_dcoll # "off" \/ dropped)

\* What the comments of dlt645_catch_alarm say of a device that does not answer
\* in time: if collection is in progress, data is collected from the next one.
\* A chunk that comes before the alarm makes dlt645_frame_recv drop the request
\* and ask nobody.
GivenUpMeansNext == [][
  (col.timer_recv = "due" /\ col'.timer_recv = "off" /\ ~col'.stopped)
     => col'.timer_dcoll # "off"]_vars
=============================================================================
