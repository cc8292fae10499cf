------------------------------ MODULE M700Bus ------------------------------
(***************************************************************************)
(* unitlink-m700, phy_tty and the meters: requests and answers over lines  *)
(* that several meters may share.  FIFOs keep order and lose nothing (see  *)
(* MfRing).  Processes are quick and meters are slow: seconds pass only    *)
(* while nothing but meters has something to do.                           *)
(***************************************************************************)
EXTENDS M700Core, PhyTty

CONSTANTS
  Wirings,     \* ways to connect the meters to lines, as phys.cfg and lowlevel.cfg may say
  Commands,    \* meter -> how many commands its objects need
  MaxWire      \* bound: pieces that wait to be read on a line

ASSUME BusAssumption == /\ NRoutes = NDev
                        /\ Wirings \subseteq [Devs -> Lines]
                        /\ Commands \in [Devs -> 0 .. MaxItems]
                        /\ MaxWire \in Nat

VARIABLES
  col,       \* the collector
  running,   \* EP_MSG_QUIT has not come
  down, up,  \* FIFOs between m700 and phy_tty
  heard,     \* meter -> the command it is about to answer, or 0
  passed,    \* history: <<meter, item>> passed up in this collection
  steady,    \* history: meter -> items it had when this collection began, or 0: see Steady
  late,      \* history: an answer came between its timeout and the alarm
  lost       \* history: a line was lost (at most one: a bound), and the route that was
             \*   told is "told", or "misled" when it is a route of another line

vars == <<col, running, down, up, heard, passed, steady, late, lost, ttyvars>>

\* The connections are asked for as main creates the end-points.
Init == /\ TtyInit
        /\ col = InitCollector
        /\ running = TRUE
        /\ down = [d \in Devs |-> Msg("CONNECT", d, 0)]
        /\ up = <<>>
        /\ heard = [d \in Devs |-> 0]
        /\ passed = {}
        /\ steady = [d \in Devs |-> 0]
        /\ late = FALSE
        /\ lost = "no"
        /\ devindex \in Wirings

SameLine(d) == {e \in Devs : devindex[e] = devindex[d]}
FirstOfLine(d) == d = Min(SameLine(d))

\* Whether nothing of an earlier collection is on its way from the meters of d's line.
Settled(d) == /\ \A e \in SameLine(d) : heard[e] = 0
              /\ wire[devindex[d]] = <<>> /\ scan = NoScan

\* A handler of m700; a meter is steady if it was ready when the collection began and
\* ever since, its line was settled then and nobody on it was given up.
Collecting(g) == g.ep_idx # 0
Step(r, rest) ==
  LET begins == ~Collecting(col) /\ Collecting(r.g)
      gaveUp(d) == col.timer_recv = "due" /\ r.g.timer_recv # "due" /\ col.ep_idx \in SameLine(d)
      data == {<<r.up[k].dev, r.up[k].item>> : k \in DOMAIN r.up}
  IN  /\ col' = r.g
      /\ down' = down \o r.dn
      /\ up' = rest
      /\ passed' = (IF begins THEN {} ELSE passed) \cup data
      /\ steady' = [d \in Devs |-> IF ~r.g.tx_ready[d] \/ gaveUp(d) THEN 0
                                   ELSE IF ~begins THEN steady[d]
                                   ELSE IF Settled(d) /\ ~Waiting(col) /\ rest = <<>> THEN r.g.n[d] ELSE 0]
      /\ UNCHANGED <<running, heard, lost, ttyvars>>
Cur == Handle(col)

(***************************************************************************)
(* m700                                                                    *)
(***************************************************************************)
\* From startiec, which names all objects before it starts the collection.
NewDobjRecv(d) == col.stopped /\ col.n[d] < Commands[d] /\ Step(NewDobj(Cur, d), up) /\ UNCHANGED late
DcollStartRecv == col.n = Commands /\ Step(DcollStart(Cur), up) /\ UNCHANGED late
QuitRecv == running' = FALSE
            /\ UNCHANGED <<col, down, up, heard, passed, steady, late, lost, ttyvars>>

\* From phy_tty.
UpRecv ==
  /\ up # <<>>
  /\ LET m == Head(up)
     IN  /\ Step(CASE m.type = "USER_DATA" -> FrameRecv(Cur, m.dev, m.chunk)
                   [] m.type = "CONNECT_ACK" -> ConnectAck(Cur, m.dev)
                   [] m.type \in {"CONNECT_NACK", "CONNECT_LOST"} -> ConnectGone(Cur, m.dev),
                 Tail(up))
         /\ late' = (late \/ (m.type = "USER_DATA" /\ col.timer_recv = "due"))

Idle == up = <<>> /\ down = <<>> /\ scan = NoScan /\ \A l \in Lines : wire[l] = <<>> \/ desc[l] = "none"
Expire(timer) == /\ Idle /\ timer = "on"
                 /\ UNCHANGED <<running, down, up, heard, passed, steady, late, lost, ttyvars>>
ExpireRecv == Expire(col.timer_recv) /\ col' = [col EXCEPT !.timer_recv = "due"]
ExpireDcoll == Expire(col.timer_dcoll) /\ col' = [col EXCEPT !.timer_dcoll = "due"]
ExpireRc(d) == Expire(col.timer_rc[d]) /\ col' = [col EXCEPT !.timer_rc[d] = "due"]

Alarm == SomeDue(col) /\ Step(CatchAlarm(Cur), up) /\ UNCHANGED late

(***************************************************************************)
(* phy_tty and the meters                                                  *)
(***************************************************************************)
Tty(sent) == /\ up' = up \o sent
             /\ UNCHANGED <<col, running, passed, steady, late>>

\* A meter that hears a request answers the last one or, busy, the one before; or it
\* has not understood.
DownRecv ==
  /\ down # <<>>
  /\ down' = Tail(down)
  /\ LET m == Head(down)
     IN  IF m.type = "READ_DATA"
         THEN \E reaches \in BOOLEAN, i \in {m.item, heard[m.dev]} :
                /\ TtyWrite(m, reaches)
                /\ ~reaches => i = heard[m.dev]
                /\ heard' = [heard EXCEPT ![m.dev] = i]
                /\ Tty(<<>>)
         ELSE \E ok \in BOOLEAN, sent \in {<<ToEp(t, m.dev, <<>>)>> : t \in {"CONNECT_ACK", "CONNECT_NACK"}} :
                TtyConnect(m, ok, sent) /\ Tty(sent) /\ UNCHANGED heard
  /\ UNCHANGED lost

TtyRead == (\E l \in Lines : Read(l)) /\ Tty(<<>>) /\ UNCHANGED <<down, heard, lost>>

TtyCopy == /\ \E sent \in {<<>>, <<ToEp("USER_DATA", scan.next, scan.chunk)>>} : Copy(sent) /\ Tty(sent)
           /\ UNCHANGED <<down, heard, lost>>

TtyLost(l) == /\ lost = "no"
              /\ \E sent \in {<<ToEp("CONNECT_LOST", pr, <<>>)>>} : Lost(l, sent) /\ Tty(sent)
              /\ lost' = IF devindex[pr] = l THEN "told" ELSE "misled"
              /\ UNCHANGED <<down, heard>>

\* A meter answers; what it says on a closed line is lost.
MeterAnswers(d) ==
  LET l == devindex[d]
  IN  /\ heard[d] # 0 /\ Len(wire[l]) + 2 <= MaxWire
      /\ heard' = [heard EXCEPT ![d] = 0]
      /\ wire' = IF desc[l] = "open" THEN [wire EXCEPT ![l] = @ \o Answer(d, heard[d])] ELSE wire
      /\ UNCHANGED <<col, running, down, up, passed, steady, late, lost, devindex, state, desc, scan, pr>>

Next == running /\ \/ DcollStartRecv
                   \/ QuitRecv
                   \/ UpRecv
                   \/ ExpireRecv
                   \/ ExpireDcoll
                   \/ Alarm
                   \/ DownRecv
                   \/ TtyRead
                   \/ TtyCopy
                   \/ \E l \in Lines : TtyLost(l)
                   \/ \E d \in Devs : NewDobjRecv(d) \/ ExpireRc(d) \/ MeterAnswers(d)

Spec == Init /\ [][Next]_vars

-----------------------------------------------------------------------------
TypeOK ==
  /\ {col.timer_recv, col.timer_dcoll} \cup {col.timer_rc[d] : d \in Devs} \subseteq TimerStates
  /\ col.ep_idx \in 0 .. NDev /\ col.data_idx \in 0 .. MaxItems
  /\ \A k \in DOMAIN col.buf : col.buf[k] \in Pieces
  /\ heard \in [Devs -> 0 .. MaxItems] /\ steady \in [Devs -> 0 .. MaxItems]
  /\ passed \subseteq Devs \X (1 .. MaxItems)
  /\ \A l \in Lines : Len(wire[l]) <= MaxWire
  /\ scan.next \in Routes \cup {NoRoute} /\ pr \in Routes \cup {NoRoute}

\* What is passed up as a meter's came from that meter: also when its neighbour's
\* answer is read from the line they share, in pieces or late.
Genuine == [][UpRecv => \A d \in Devs, i \in 1 .. MaxItems :
  (<<d, i>> \notin passed /\ <<d, i>> \in passed' /\ col.ep_idx # 0)
     => \E k \in DOMAIN (col.buf \o Head(up).chunk) :
          LET p == (col.buf \o Head(up).chunk)[k] IN p.dev = d /\ p.item = i]_vars

\* When a collection comes to its end, everything the first meter of a line was asked
\* and answered in time has been passed up, whatever the meters of other lines do.
\* The others lose data: the copy of their neighbour's last answer comes when they
\* have just been asked, and is taken for theirs.
AnsweredIsPassed == [][
  (Collecting(col) /\ ~Collecting(col'))
     => \A d \in Devs : FirstOfLine(d) => \A i \in 1 .. steady'[d] : <<d, i>> \in passed']_vars

\* A line that is not open has a meter that will have it opened, unless phy_tty has
\* told a meter of another line: its connection is asked for, its refusal is on the
\* way, or its reconnect timer runs.
SomeoneReopens ==
  \A l \in {devindex[d] : d \in Devs} :
    \/ desc[l] = "open" \/ lost = "misled"
    \/ \E d \in Devs : /\ devindex[d] = l
                       /\ \/ col.timer_rc[d] # "off"
                          \/ \E k \in DOMAIN down : down[k].dev = d /\ down[k].type # "READ_DATA"
                          \/ \E k \in DOMAIN up : up[k].dev = d /\ up[k].type \in {"CONNECT_NACK", "CONNECT_LOST"}

\* A collection that has begun has an answer it waits for, and a collector that is
\* not stopped a collection or the time of the next one: somebody goes on, whoever is
\* silent, lost or refused.  Except when an answer has come between its timeout and
\* the alarm, after which nobody asks anything any more: m700 has no time
\* synchronisation, which in dlt645 gets the collector going again.
SomeoneGoesOn == col.stopped \/ late \/ col.timer_recv # "off" \/ col.timer_dcoll # "off"
=============================================================================
