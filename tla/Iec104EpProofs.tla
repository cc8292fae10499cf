--------------------------- MODULE Iec104EpProofs ---------------------------
(***************************************************************************)
(* Proofs about Iec104Ep, for every modulus, window and set of end-points. *)
(*                                                                         *)
(* The inductive invariant speaks of one end-point at a time and of the    *)
(* effect record a handler works on, because a handler is a chain of calls *)
(* each of which keeps it.  Most calls only send: Sends says what such a   *)
(* call may do, and SendsGood that it then keeps the invariant.            *)
(***************************************************************************)
EXTENDS Iec104Ep, TLAPS

SysMsgs == {"RECONNECT", "DEV_ONLINE", "COMM_INTER", "TIME_SYNC", "USER_DATA",
            "LOG_DEV_EVENT"}
Msgs == Frames \cup {Sys(m) : m \in SysMsgs}
Effects == [ep : EpExt, open : BOOLEAN, dn : Seq(Msgs), up : Seq(Msgs)]

Window(p) == Dist(p.vs, p.as) <= K + 1
Acks(p)   == p.host_type = "MASTER" => Dist(p.vr, p.ar) < W
Started(p) == p.u_cmd = "STARTDT_CON" => {"t2", "t3"} \subseteq p.timers

\* What a handler keeps from call to call; Sound is the part about counters.
Sound(r) == r \in Effects /\ Window(r.ep) /\ Acks(r.ep)
Good(r) == Sound(r) /\ Started(r.ep)

\* A master with a channel down is watched by a timer or has just asked.
Watched(r) == (r.ep.host_type = "MASTER" /\ r.open)
                 => Asks(r) \/ r.ep.timers \cap {"t0", "t3", "rc"} # {}

\* What the sending functions may do to an effect record.
Sends(r, s) == /\ s \in Effects
               /\ s.open = r.open
               /\ s.ep.host_type = r.ep.host_type
               /\ s.ep.u_cmd = r.ep.u_cmd
               /\ s.ep.vr = r.ep.vr
               /\ s.ep.ar \in {r.ep.ar, r.ep.vr}
               /\ r.ep.timers \ {"t1"} \subseteq s.ep.timers
               /\ Window(r.ep) => Window(s.ep)
               /\ Asks(r) => Asks(s)

\* From r a handler that keeps the invariant may come to s.
Keeps(r, s) == /\ Good(s) /\ s.open = r.open
               /\ s.ep.host_type = r.ep.host_type
               /\ Watched(r) => Watched(s)

(***************************************************************************)
(* Arithmetic modulo SeqMod                                                *)
(***************************************************************************)
LEMMA ModFacts ==
  ASSUME NEW m \in Nat \ {0}, NEW x \in 0 .. 2 * m - 1
  PROVE  x % m = IF x < m THEN x ELSE x - m
  OBVIOUS

LEMMA DistFacts ==
  ASSUME NEW a \in SeqNums, NEW b \in SeqNums
  PROVE  /\ Dist(a, b) = IF a >= b THEN a - b ELSE a - b + SeqMod
         /\ Dist(a, b) \in SeqNums
<1> DEFINE x == a - b + SeqMod
<1>1. SeqMod \in Nat \ {0} BY SeqAssumption
<1>2. a \in Int /\ b \in Int /\ 0 <= a /\ a < SeqMod /\ 0 <= b /\ b < SeqMod
  BY <1>1 DEF SeqNums
<1>3. x \in 0 .. 2 * SeqMod - 1 BY <1>1, <1>2
<1>4. x % SeqMod = IF x < SeqMod THEN x ELSE x - SeqMod
  BY <1>1, <1>3, ModFacts
<1> QED BY <1>1, <1>2, <1>4 DEF SeqNums, Dist

LEMMA DistInt ==
  ASSUME NEW a \in SeqNums, NEW b \in SeqNums
  PROVE  Dist(a, b) \in Int
<1>1. Dist(a, b) \in SeqNums BY DistFacts
<1>2. \A x \in SeqNums : x \in Int BY SeqAssumption DEF SeqNums
<1> QED BY <1>1, <1>2

LEMMA NextFacts ==
  ASSUME NEW a \in SeqNums
  PROVE  /\ (a + 1) % SeqMod = IF a + 1 = SeqMod THEN 0 ELSE a + 1
         /\ (a + 1) % SeqMod \in SeqNums
<1> DEFINE x == a + 1
<1>1. SeqMod \in Nat \ {0} BY SeqAssumption
<1>2. a \in Int /\ 0 <= a /\ a < SeqMod
  BY <1>1 DEF SeqNums
<1>3. x \in 0 .. 2 * SeqMod - 1 BY <1>1, <1>2
<1>4. x % SeqMod = IF x < SeqMod THEN x ELSE x - SeqMod
  BY <1>1, <1>3, ModFacts
<1> QED BY <1>1, <1>2, <1>4 DEF SeqNums

\* Sending one frame widens the window by one, if it was at most K.
LEMMA WindowGrows ==
  ASSUME NEW a \in SeqNums, NEW b \in SeqNums, Dist(a, b) <= K
  PROVE  Dist((a + 1) % SeqMod, b) <= K + 1
<1> DEFINE n == (a + 1) % SeqMod
<1>1. n \in SeqNums /\ n = IF a + 1 = SeqMod THEN 0 ELSE a + 1 BY NextFacts
<1>2. /\ Dist(a, b) = IF a >= b THEN a - b ELSE a - b + SeqMod
      /\ Dist(n, b) = IF n >= b THEN n - b ELSE n - b + SeqMod
  BY <1>1, DistFacts
<1> HIDE DEF n
<1> QED BY <1>1, <1>2, SeqAssumption DEF SeqNums

\* An N(R) between as and vs narrows it.
LEMMA WindowShrinks ==
  ASSUME NEW s \in SeqNums, NEW a \in SeqNums, NEW n \in SeqNums,
         Dist(n, a) <= Dist(s, a)
  PROVE  Dist(s, n) <= Dist(s, a)
<1>1. /\ Dist(n, a) = IF n >= a THEN n - a ELSE n - a + SeqMod
      /\ Dist(s, a) = IF s >= a THEN s - a ELSE s - a + SeqMod
      /\ Dist(s, n) = IF s >= n THEN s - n ELSE s - n + SeqMod
  BY DistFacts
<1> QED BY <1>1, SeqAssumption DEF SeqNums

LEMMA DistZero == \A a \in SeqNums : Dist(a, a) = 0
<1> TAKE a \in SeqNums
<1>1. Dist(a, a) = a - a BY DistFacts, SeqAssumption DEF SeqNums
<1> QED BY <1>1, SeqAssumption DEF SeqNums

(***************************************************************************)
(* The sending functions                                                   *)
(***************************************************************************)
LEMMA MsgTypes == /\ \A c \in UCmds : UFrame(c) \in Msgs
                  /\ \A n \in SeqNums : SFrame(n) \in Msgs
                  /\ \A n, m \in SeqNums, a \in AsduTypes : IFrame(n, m, a) \in Msgs
                  /\ \A m \in SysMsgs : Sys(m) \in Msgs
  BY DEF Msgs, Frames

LEMMA ToDnSends ==
  ASSUME NEW r \in Effects, NEW m \in Msgs
  PROVE  /\ Sends(r, ToDn(r, m)) /\ ToDn(r, m).ep = r.ep
         /\ (r.open /\ m = Sys("RECONNECT")) => Asks(ToDn(r, m))
<1> DEFINE s == ToDn(r, m)
           q == Append(r.dn, m)
<1>2. r.dn \in Seq(Msgs) /\ q \in Seq(Msgs) BY DEF Effects
<1>0. s = IF r.open THEN [r EXCEPT !.dn = q] ELSE r BY DEF ToDn
<1>1. /\ s \in Effects /\ s.open = r.open /\ s.ep = r.ep
      /\ s.dn = IF r.open THEN q ELSE r.dn
  <2> HIDE DEF q, s
  <2> QED BY <1>0, <1>2 DEF Effects
<1> HIDE DEF s
<1>3. Asks(r) => Asks(s) BY <1>1, <1>2 DEF Asks
<1>4. (r.open /\ m = Sys("RECONNECT")) => Asks(s) BY <1>1, <1>2 DEF Asks
<1> QED BY <1>1, <1>3, <1>4 DEF Sends, Effects, EpExt, s

LEMMA ToUpSends ==
  ASSUME NEW r \in Effects, NEW m \in Msgs
  PROVE  Sends(r, ToUp(r, m)) /\ ToUp(r, m).ep = r.ep
<1> DEFINE q == Append(r.up, m)
<1>1. q \in Seq(Msgs) BY DEF Effects
<1>2. ToUp(r, m) = [r EXCEPT !.up = q] BY DEF ToUp
<1> HIDE DEF q
<1>3. /\ ToUp(r, m) \in Effects /\ ToUp(r, m).ep = r.ep
      /\ ToUp(r, m).open = r.open /\ ToUp(r, m).dn = r.dn
  BY <1>1, <1>2 DEF Effects
<1> QED BY <1>3 DEF Sends, Effects, EpExt, Asks

\* Starting and stopping a timer leaves everything else.
LEMMA StartFacts ==
  ASSUME NEW r \in Effects, NEW T \in SUBSET Timers
  PROVE  /\ Sends(r, StartTimers(r, T)) /\ StartTimers(r, T).dn = r.dn
         /\ StartTimers(r, T).ep = [r.ep EXCEPT !.timers = @ \cup T]
         /\ StartTimers(r, T).ep.timers = r.ep.timers \cup T
<1> DEFINE s == StartTimers(r, T)
<1>1. /\ s \in Effects /\ s.open = r.open /\ s.dn = r.dn
      /\ s.ep = [r.ep EXCEPT !.timers = @ \cup T]
  BY DEF StartTimers, Effects, EpExt
<1>2. r.ep \in EpExt BY DEF Effects
<1>3. /\ s.ep.host_type = r.ep.host_type /\ s.ep.u_cmd = r.ep.u_cmd
      /\ s.ep.vs = r.ep.vs /\ s.ep.vr = r.ep.vr
      /\ s.ep.as = r.ep.as /\ s.ep.ar = r.ep.ar
      /\ s.ep.timers = r.ep.timers \cup T
  BY <1>1, <1>2 DEF EpExt
<1> HIDE DEF s
<1>4. Sends(r, s) BY <1>1, <1>3 DEF Sends, Window, Asks
<1> QED BY <1>1, <1>3, <1>4 DEF s

LEMMA StopFacts ==
  ASSUME NEW r \in Effects, NEW t \in Timers
  PROVE  /\ StopTimer(r, t) \in Effects
         /\ StopTimer(r, t).open = r.open /\ StopTimer(r, t).dn = r.dn
         /\ StopTimer(r, t).ep = [r.ep EXCEPT !.timers = @ \ {t}]
         /\ StopTimer(r, t).ep.timers = r.ep.timers \ {t}
  BY DEF StopTimer, Effects, EpExt

\* So does writing a counter.
LEMMA CounterFacts ==
  ASSUME NEW r \in Effects, NEW n \in SeqNums
  PROVE  /\ [r EXCEPT !.ep.vs = n] \in Effects
         /\ [r EXCEPT !.ep.vs = n].open = r.open /\ [r EXCEPT !.ep.vs = n].dn = r.dn
         /\ [r EXCEPT !.ep.vs = n].ep = [r.ep EXCEPT !.vs = n]
         /\ [r EXCEPT !.ep.vr = n] \in Effects
         /\ [r EXCEPT !.ep.vr = n].open = r.open /\ [r EXCEPT !.ep.vr = n].dn = r.dn
         /\ [r EXCEPT !.ep.vr = n].ep = [r.ep EXCEPT !.vr = n]
         /\ [r EXCEPT !.ep.as = n] \in Effects
         /\ [r EXCEPT !.ep.as = n].open = r.open /\ [r EXCEPT !.ep.as = n].dn = r.dn
         /\ [r EXCEPT !.ep.as = n].ep = [r.ep EXCEPT !.as = n]
         /\ [r EXCEPT !.ep.ar = n] \in Effects
         /\ [r EXCEPT !.ep.ar = n].open = r.open /\ [r EXCEPT !.ep.ar = n].dn = r.dn
         /\ [r EXCEPT !.ep.ar = n].ep = [r.ep EXCEPT !.ar = n]
  BY DEF Effects, EpExt

LEMMA SetUCmdFacts ==
  ASSUME NEW r \in Effects, NEW c \in UStates
  PROVE  /\ SetUCmd(r, c) \in Effects
         /\ SetUCmd(r, c).open = r.open /\ SetUCmd(r, c).dn = r.dn
         /\ SetUCmd(r, c).ep = [r.ep EXCEPT !.u_cmd = c]
  BY DEF SetUCmd, Effects, EpExt

\* iec104_frame_s_send only sends; if it may send it leaves nothing owed.
LEMMA SSendSends ==
  ASSUME NEW r \in Effects
  PROVE  /\ Sends(r, FrameSSend(r))
         /\ (r.open /\ TxReady(r.ep)) => FrameSSend(r).ep.ar = r.ep.vr
         /\ FrameSSend(r).ep.vs = r.ep.vs /\ FrameSSend(r).ep.as = r.ep.as
<1>1. CASE ~(TxReady(r.ep) /\ r.ep.ar # r.ep.vr /\ r.open)
  BY <1>1 DEF FrameSSend, Sends, Effects, EpExt
<1>2. CASE TxReady(r.ep) /\ r.ep.ar # r.ep.vr /\ r.open
  <2> DEFINE d == ToDn(r, SFrame(r.ep.vr))
             s == StartTimers(d, {"t2"})
             f == FrameSSend(r)
             n == r.ep.vr
  <2>1. n \in SeqNums BY DEF Effects, EpExt
  <2>2. Sends(r, d) /\ d.ep = r.ep BY <2>1, MsgTypes, ToDnSends
  <2>3. d \in Effects /\ {"t2"} \in SUBSET Timers BY <2>2 DEF Sends, Timers
  <2>4. Sends(d, s) /\ s.ep = [d.ep EXCEPT !.timers = @ \cup {"t2"}]
    BY <2>3, StartFacts
  <2>5. f = [s EXCEPT !.ep.ar = n] BY <1>2 DEF FrameSSend
  <2>6. s \in Effects BY <2>4 DEF Sends
  <2> HIDE DEF d, s, f, n
  <2>7. f \in Effects /\ f.open = s.open /\ f.dn = s.dn /\ f.ep = [s.ep EXCEPT !.ar = n]
    BY <2>1, <2>5, <2>6, CounterFacts
  <2>8. /\ f.ep.ar = n /\ f.ep.vs = r.ep.vs /\ f.ep.as = r.ep.as /\ f.ep.vr = s.ep.vr
        /\ f.ep.u_cmd = s.ep.u_cmd /\ f.ep.host_type = s.ep.host_type
        /\ f.ep.timers = s.ep.timers
    BY <2>2, <2>4, <2>6, <2>7 DEF Effects, EpExt
  <2>9. Sends(r, f)
    BY <2>2, <2>4, <2>7, <2>8 DEF Sends, Window, Asks, n
  <2> QED BY <2>8, <2>9 DEF f, n
<1> QED BY <1>1, <1>2

LEMMA SendsTrans ==
  ASSUME NEW r, NEW s, NEW u, Sends(r, s), Sends(s, u)
  PROVE  Sends(r, u)
  BY DEF Sends

LEMMA SendsRefl == ASSUME NEW r \in Effects PROVE Sends(r, r)
  BY DEF Sends, Effects, EpExt

LEMMA StopT1Sends ==
  ASSUME NEW r \in Effects
  PROVE  Sends(r, StopTimer(r, "t1"))
<1> DEFINE s == StopTimer(r, "t1")
<1>1. /\ s \in Effects /\ s.open = r.open /\ s.dn = r.dn
      /\ s.ep = [r.ep EXCEPT !.timers = @ \ {"t1"}]
      /\ s.ep.timers = r.ep.timers \ {"t1"}
  BY StopFacts DEF Timers
<1> HIDE DEF s
<1>2. r.ep \in EpExt BY DEF Effects
<1>3. /\ s.ep.host_type = r.ep.host_type /\ s.ep.u_cmd = r.ep.u_cmd
      /\ s.ep.vs = r.ep.vs /\ s.ep.vr = r.ep.vr
      /\ s.ep.as = r.ep.as /\ s.ep.ar = r.ep.ar
  BY <1>1, <1>2 DEF EpExt
<1>4. Sends(r, s) BY <1>1, <1>3 DEF Sends, Window, Asks
<1> QED BY <1>4 DEF s

\* iec104_frame_i_send keeps the window: it sends only up to K, and then vs
\* moves one on.
LEMMA ISendSends ==
  ASSUME NEW r \in Effects, NEW a \in AsduTypes
  PROVE  Sends(r, FrameISend(r, a))
<1> DEFINE n == (r.ep.vs + 1) % SeqMod
           d == ToDn(r, IFrame(r.ep.vs, r.ep.vr, a))
           s == StartTimers(d, {"t1", "t2"})
           f == FrameISend(r, a)
<1>1. CASE ~(TxReady(r.ep) /\ Dist(r.ep.vs, r.ep.as) <= K /\ r.open)
  <2>1. f = r BY <1>1 DEF FrameISend
  <2> QED BY <2>1, SendsRefl
<1>2. CASE TxReady(r.ep) /\ Dist(r.ep.vs, r.ep.as) <= K /\ r.open
  <2>1. r.ep.vs \in SeqNums /\ r.ep.vr \in SeqNums /\ r.ep.as \in SeqNums
    BY DEF Effects, EpExt
  <2>2. n \in SeqNums /\ Dist(n, r.ep.as) <= K + 1
    BY <1>2, <2>1, NextFacts, WindowGrows
  <2>3. Sends(r, d) /\ d.ep = r.ep BY <2>1, MsgTypes, ToDnSends
  <2>4. d \in Effects /\ {"t1", "t2"} \in SUBSET Timers BY <2>3 DEF Sends, Timers
  <2>5. Sends(d, s) /\ s.ep = [d.ep EXCEPT !.timers = @ \cup {"t1", "t2"}]
    BY <2>4, StartFacts
  <2>6. f = [s EXCEPT !.ep.vs = n] BY <1>2 DEF FrameISend
  <2>7. s \in Effects BY <2>5 DEF Sends
  <2> HIDE DEF d, s, f, n
  <2>8. f \in Effects /\ f.open = s.open /\ f.dn = s.dn /\ f.ep = [s.ep EXCEPT !.vs = n]
    BY <2>2, <2>6, <2>7, CounterFacts
  <2>9. /\ f.ep.vs = n /\ f.ep.as = r.ep.as /\ f.ep.ar = s.ep.ar /\ f.ep.vr = s.ep.vr
        /\ f.ep.u_cmd = s.ep.u_cmd /\ f.ep.host_type = s.ep.host_type
        /\ f.ep.timers = s.ep.timers
    BY <2>3, <2>5, <2>7, <2>8 DEF Effects, EpExt
  <2>10. Sends(r, s) BY <2>3, <2>5, SendsTrans
  <2>11. Sends(r, f)
    BY <2>2, <2>8, <2>9, <2>10 DEF Sends, Window, Asks
  <2> QED BY <2>11 DEF f
<1> QED BY <1>1, <1>2

LEMMA USendSends ==
  ASSUME NEW r \in Effects, NEW c \in UCmds
  PROVE  Sends(r, FrameUSend(r, c))
<1> DEFINE s == CASE c \in {"STOPDT_ACT", "STOPDT_CON"} -> FrameSSend(r)
                  [] c = "TESTFR_ACT" -> StartTimers(r, {"t1", "t3"})
                  [] c = "TESTFR_CON" -> StopTimer(r, "t1")
                  [] OTHER -> r
<1>1. Sends(r, s)
  <2>1. CASE c \in {"STOPDT_ACT", "STOPDT_CON"} BY <2>1, SSendSends
  <2>2. CASE c = "TESTFR_ACT" BY <2>2, StartFacts DEF Timers
  <2>3. CASE c = "TESTFR_CON" BY <2>3, StopT1Sends
  <2>4. CASE c \in {"STARTDT_ACT", "STARTDT_CON"} BY <2>4, SendsRefl
  <2> QED BY <2>1, <2>2, <2>3, <2>4 DEF UCmds, UStates
<1>2. FrameUSend(r, c) = ToDn(s, UFrame(c)) BY DEF FrameUSend
<1> HIDE DEF s
<1>3. s \in Effects BY <1>1 DEF Sends
<1>4. Sends(s, ToDn(s, UFrame(c))) BY <1>3, MsgTypes, ToDnSends
<1> QED BY <1>1, <1>2, <1>4, SendsTrans

LEMMA TimeSyncSends ==
  ASSUME NEW r \in Effects
  PROVE  Sends(r, TimeSyncSend(r))
<1> DEFINE s == IF r.ep.host_type = "MASTER" THEN StartTimers(r, {"sync"}) ELSE r
<1>1. Sends(r, s) BY StartFacts, SendsRefl DEF Timers
<1>2. TimeSyncSend(r) = FrameISend(s, "C_CS") BY DEF TimeSyncSend
<1> HIDE DEF s
<1>3. s \in Effects BY <1>1 DEF Sends
<1>4. Sends(s, FrameISend(s, "C_CS")) BY <1>3, ISendSends DEF AsduTypes
<1> QED BY <1>1, <1>2, <1>4, SendsTrans

LEMMA CommInterSends ==
  ASSUME NEW r \in Effects PROVE Sends(r, CommInterSend(r))
  BY ISendSends DEF CommInterSend, AsduTypes

LEMMA SequenceErrorSends ==
  ASSUME NEW r \in Effects PROVE Sends(r, SequenceError(r))
<1>1. Sends(r, FrameSSend(r)) BY SSendSends
<1>2. FrameSSend(r) \in Effects BY <1>1 DEF Sends
<1>3. Sends(FrameSSend(r), SequenceError(r))
  BY <1>2, MsgTypes, ToDnSends DEF SequenceError, SysMsgs
<1> QED BY <1>1, <1>3, SendsTrans

(***************************************************************************)
(* What a handler keeps                                                    *)
(***************************************************************************)
LEMMA SendsGood ==
  ASSUME NEW r, NEW s, Sends(r, s)
  PROVE  (Sound(r) => Sound(s)) /\ (Good(r) => Good(s)) /\ (Watched(r) => Watched(s))
<1>1. ASSUME Sound(r) PROVE Sound(s)
  <2>1. s \in Effects /\ Window(s.ep) BY <1>1 DEF Sends, Sound
  <2>2. ASSUME s.ep.host_type = "MASTER" PROVE Dist(s.ep.vr, s.ep.ar) < W
    <3>2. Dist(r.ep.vr, r.ep.ar) < W BY <1>1, <2>2 DEF Sends, Sound, Acks
    <3>3. s.ep.vr = r.ep.vr /\ s.ep.ar \in {r.ep.ar, r.ep.vr} BY DEF Sends
    <3>4. r.ep.vr \in SeqNums BY <1>1 DEF Sound, Effects, EpExt
    <3>5. 0 < W BY SeqAssumption
    <3> QED BY <3>2, <3>3, <3>4, <3>5, DistZero
  <2> QED BY <2>1, <2>2 DEF Sound, Acks
<1>2. ASSUME Good(r) PROVE Good(s)
  <2>1. Sound(s) BY <1>1, <1>2 DEF Good
  <2>2. Started(s.ep) BY <1>2 DEF Sends, Good, Started
  <2> QED BY <2>1, <2>2 DEF Good
<1>3. ASSUME Watched(r) PROVE Watched(s) BY <1>3 DEF Sends, Watched
<1> QED BY <1>1, <1>2, <1>3

LEMMA SendsKeeps ==
  ASSUME NEW r, NEW s, Good(r), Sends(r, s)
  PROVE  Keeps(r, s)
  BY SendsGood DEF Keeps, Sends

LEMMA KeepsTrans ==
  ASSUME NEW r, NEW s, NEW u, Keeps(r, s), Keeps(s, u)
  PROVE  Keeps(r, u)
  BY DEF Keeps

\* Leaving data transfer asks nothing of the timers.
LEMMA SetUCmdKeeps ==
  ASSUME NEW r, Good(r), NEW c \in UStates \ {"STARTDT_CON"}
  PROVE  Keeps(r, SetUCmd(r, c))
<1> DEFINE s == SetUCmd(r, c)
<1>1. r \in Effects BY DEF Good, Sound
<1>2. s \in Effects /\ s.open = r.open /\ s.dn = r.dn /\ s.ep = [r.ep EXCEPT !.u_cmd = c]
  BY <1>1, SetUCmdFacts
<1> HIDE DEF s
<1>3. r.ep \in EpExt BY <1>1 DEF Effects
<1>4. /\ s.ep.host_type = r.ep.host_type /\ s.ep.u_cmd = c
      /\ s.ep.vs = r.ep.vs /\ s.ep.vr = r.ep.vr
      /\ s.ep.as = r.ep.as /\ s.ep.ar = r.ep.ar /\ s.ep.timers = r.ep.timers
  BY <1>2, <1>3 DEF EpExt
<1>5. Good(s) BY <1>2, <1>4 DEF Good, Sound, Window, Acks, Started
<1>6. Watched(r) => Watched(s) BY <1>2, <1>4 DEF Watched, Asks
<1> QED BY <1>2, <1>4, <1>5, <1>6 DEF Keeps, s

\* Entering it is sound once t2 and t3 run, and then the end-point is watched.
LEMMA StartTransfer ==
  ASSUME NEW r, Sound(r)
  PROVE  Good(StartTimers(r, {"t2", "t3"})) /\ Watched(StartTimers(r, {"t2", "t3"}))
<1> DEFINE s == StartTimers(r, {"t2", "t3"})
<1>1. r \in Effects /\ {"t2", "t3"} \in SUBSET Timers BY DEF Sound, Timers
<1>2. Sends(r, s) /\ s.ep.timers = r.ep.timers \cup {"t2", "t3"} BY <1>1, StartFacts
<1> HIDE DEF s
<1>3. Sound(s) BY <1>2, SendsGood
<1> QED BY <1>2, <1>3 DEF Good, Started, Watched, s

\* SetUCmd and StopTimer keep the counters.
LEMMA SetUCmdSound ==
  ASSUME NEW r, Sound(r), NEW c \in UStates
  PROVE  /\ Sound(SetUCmd(r, c)) /\ SetUCmd(r, c).open = r.open
         /\ SetUCmd(r, c).ep.host_type = r.ep.host_type
<1> DEFINE s == SetUCmd(r, c)
<1>1. r \in Effects BY DEF Sound
<1>2. s \in Effects /\ s.open = r.open /\ s.ep = [r.ep EXCEPT !.u_cmd = c]
  BY <1>1, SetUCmdFacts
<1> HIDE DEF s
<1>3. r.ep \in EpExt BY <1>1 DEF Effects
<1>4. /\ s.ep.host_type = r.ep.host_type
      /\ s.ep.vs = r.ep.vs /\ s.ep.vr = r.ep.vr
      /\ s.ep.as = r.ep.as /\ s.ep.ar = r.ep.ar
  BY <1>2, <1>3 DEF EpExt
<1> QED BY <1>2, <1>4 DEF Sound, Window, Acks, s

LEMMA StopTimerSound ==
  ASSUME NEW r, Sound(r), NEW t \in Timers
  PROVE  /\ Sound(StopTimer(r, t)) /\ StopTimer(r, t).open = r.open
         /\ StopTimer(r, t).dn = r.dn
         /\ StopTimer(r, t).ep.host_type = r.ep.host_type
         /\ StopTimer(r, t).ep.u_cmd = r.ep.u_cmd
         /\ StopTimer(r, t).ep.timers = r.ep.timers \ {t}
         /\ StopTimer(r, t).ep.vs = r.ep.vs /\ StopTimer(r, t).ep.vr = r.ep.vr
         /\ StopTimer(r, t).ep.as = r.ep.as /\ StopTimer(r, t).ep.ar = r.ep.ar
<1> DEFINE s == StopTimer(r, t)
<1>1. r \in Effects BY DEF Sound
<1>2. /\ s \in Effects /\ s.open = r.open /\ s.dn = r.dn
      /\ s.ep = [r.ep EXCEPT !.timers = @ \ {t}] /\ s.ep.timers = r.ep.timers \ {t}
  BY <1>1, StopFacts
<1> HIDE DEF s
<1>3. r.ep \in EpExt BY <1>1 DEF Effects
<1>4. /\ s.ep.host_type = r.ep.host_type /\ s.ep.u_cmd = r.ep.u_cmd
      /\ s.ep.vs = r.ep.vs /\ s.ep.vr = r.ep.vr
      /\ s.ep.as = r.ep.as /\ s.ep.ar = r.ep.ar
  BY <1>2, <1>3 DEF EpExt
<1> QED BY <1>2, <1>4 DEF Sound, Window, Acks, s

\* A forgotten session is a good one.
LEMMA InitGood ==
  ASSUME NEW r \in Effects
  PROVE  /\ Good(InitEpExt(r)) /\ InitEpExt(r).open = r.open /\ InitEpExt(r).dn = r.dn
         /\ InitEpExt(r).ep = NewEpExt(r.ep.host_type)
         /\ InitEpExt(r).ep.host_type = r.ep.host_type
<1> DEFINE s == InitEpExt(r)
           p == NewEpExt(r.ep.host_type)
<1>1. 0 \in SeqNums BY SeqAssumption DEF SeqNums
<1>2. p \in EpExt /\ p.host_type = r.ep.host_type /\ p.u_cmd = "STOPDT_CON"
      /\ p.vs = 0 /\ p.vr = 0 /\ p.as = 0 /\ p.ar = 0
  BY <1>1 DEF NewEpExt, EpExt, Effects, UStates
<1> HIDE DEF p
<1>3. s \in Effects /\ s.ep = p /\ s.open = r.open /\ s.dn = r.dn
  BY <1>2 DEF InitEpExt, Effects, p
<1>4. Dist(0, 0) = 0 BY <1>1, DistZero
<1>5. Window(p) /\ Acks(p) /\ Started(p)
  BY <1>2, <1>4, SeqAssumption DEF Window, Acks, Started
<1> QED BY <1>2, <1>3, <1>5 DEF Good, Sound, p

LEMMA ReconnectKeeps ==
  ASSUME NEW r, Sound(r), r.open \/ Started(r.ep)
  PROVE  /\ Good(Reconnect(r)) /\ Watched(Reconnect(r))
         /\ Reconnect(r).open = r.open
         /\ Reconnect(r).ep.host_type = r.ep.host_type
<1>1. r \in Effects BY DEF Sound
<1>2. CASE r.open
  <2> DEFINE d == ToDn(r, Sys("RECONNECT"))
             s == InitEpExt(d)
  <2>1. Sends(r, d) /\ d.ep = r.ep /\ Asks(d)
    BY <1>1, <1>2, MsgTypes, ToDnSends DEF SysMsgs
  <2>2. d \in Effects /\ d.open = r.open BY <2>1 DEF Sends
  <2> HIDE DEF d
  <2>3. Good(s) /\ s.open = d.open /\ s.dn = d.dn /\ s.ep.host_type = d.ep.host_type
    BY <2>2, InitGood
  <2>4. Reconnect(r) = s BY <1>2 DEF Reconnect, d
  <2> HIDE DEF s
  <2> QED BY <2>1, <2>2, <2>3, <2>4 DEF Watched, Asks
<1>3. CASE ~r.open
  <2> DEFINE s == StartTimers(r, {"rc"})
  <2>1. Sends(r, s) BY <1>1, StartFacts DEF Timers
  <2>2. Good(r) BY <1>3 DEF Good
  <2>3. Good(s) BY <2>1, <2>2, SendsGood
  <2>4. Reconnect(r) = s BY <1>3 DEF Reconnect
  <2> HIDE DEF s
  <2> QED BY <1>3, <2>1, <2>3, <2>4 DEF Watched, Sends
<1> QED BY <1>2, <1>3

(***************************************************************************)
(* Handlers of frames                                                      *)
(***************************************************************************)
LEMMA StartDtActKeeps ==
  ASSUME NEW r, Good(r), r.open
  PROVE  Keeps(r, StartDtAct(r))
<1> DEFINE a == ToUp(r, Sys("DEV_ONLINE"))
           b == SetUCmd(a, "STARTDT_ACT")
           c == FrameUSend(b, "STARTDT_CON")
           d == SetUCmd(c, "STARTDT_CON")
           e == StartTimers(d, {"t2", "t3"})
<1>1. r \in Effects BY DEF Good, Sound
<1>2. Sends(r, a) BY <1>1, MsgTypes, ToUpSends DEF SysMsgs
<1>3. Good(a) /\ a.open = r.open /\ a.ep.host_type = r.ep.host_type
  BY <1>2, SendsGood DEF Sends
<1> HIDE DEF a
<1>4. Sound(b) /\ b.open = a.open /\ b.ep.host_type = a.ep.host_type
  BY <1>3, SetUCmdSound DEF Good, UStates
<1> HIDE DEF b
<1>5. Sends(b, c) BY <1>4, USendSends DEF Sound, UCmds, UStates
<1>6. Sound(c) /\ c.open = b.open /\ c.ep.host_type = b.ep.host_type
  BY <1>4, <1>5, SendsGood DEF Sends
<1> HIDE DEF c
<1>7. Sound(d) /\ d.open = c.open /\ d.ep.host_type = c.ep.host_type
  BY <1>6, SetUCmdSound DEF UStates
<1> HIDE DEF d
<1>8. Good(e) /\ Watched(e) BY <1>7, StartTransfer
<1>9. Sends(d, e) BY <1>7, StartFacts DEF Sound, Timers
<1>10. StartDtAct(r) = e BY <1>3, <1>4, <1>6 DEF StartDtAct, a, b, c, d
<1> HIDE DEF e
<1> QED BY <1>3, <1>4, <1>6, <1>7, <1>8, <1>9, <1>10 DEF Keeps, Sends

LEMMA StartDtConKeeps ==
  ASSUME NEW r, Good(r)
  PROVE  Keeps(r, StartDtCon(r))
<1> DEFINE a == ToUp(r, Sys("DEV_ONLINE"))
           b == SetUCmd(a, "STARTDT_CON")
           c == StopTimer(b, "t0")
           d == TimeSyncSend(c)
           e == StartTimers(d, {"t2", "t3"})
<1>1. r \in Effects BY DEF Good, Sound
<1>2. Sends(r, a) BY <1>1, MsgTypes, ToUpSends DEF SysMsgs
<1>3. Good(a) /\ a.open = r.open /\ a.ep.host_type = r.ep.host_type
  BY <1>2, SendsGood DEF Sends
<1> HIDE DEF a
<1>4. Sound(b) /\ b.open = a.open /\ b.ep.host_type = a.ep.host_type
  BY <1>3, SetUCmdSound DEF Good, UStates
<1> HIDE DEF b
<1>5. Sound(c) /\ c.open = b.open /\ c.ep.host_type = b.ep.host_type
  BY <1>4, StopTimerSound DEF Timers
<1> HIDE DEF c
<1>6. Sends(c, d) BY <1>5, TimeSyncSends DEF Sound
<1>7. Sound(d) /\ d.open = c.open /\ d.ep.host_type = c.ep.host_type
  BY <1>5, <1>6, SendsGood DEF Sends
<1> HIDE DEF d
<1>8. Good(e) /\ Watched(e) BY <1>7, StartTransfer
<1>9. Sends(d, e) BY <1>7, StartFacts DEF Sound, Timers
<1>10. StartDtCon(r) = e BY DEF StartDtCon, a, b, c, d
<1> HIDE DEF e
<1> QED BY <1>3, <1>4, <1>5, <1>7, <1>8, <1>9, <1>10 DEF Keeps, Sends

LEMMA StopDtActKeeps ==
  ASSUME NEW r, Good(r)
  PROVE  Keeps(r, StopDtAct(r))
<1> DEFINE a == SetUCmd(r, "STOPDT_ACT")
           b == FrameUSend(a, "STOPDT_CON")
<1>1. Keeps(r, a) BY SetUCmdKeeps DEF UStates
<1> HIDE DEF a
<1>2. Good(a) /\ a \in Effects BY <1>1 DEF Keeps, Good, Sound
<1>3. Keeps(a, b) BY <1>2, USendSends, SendsKeeps DEF UCmds, UStates
<1> HIDE DEF b
<1>4. Keeps(b, SetUCmd(b, "STOPDT_CON")) BY <1>3, SetUCmdKeeps DEF Keeps, UStates
<1>5. StopDtAct(r) \in {b, SetUCmd(b, "STOPDT_CON")} BY DEF StopDtAct, a, b
<1> QED BY <1>1, <1>3, <1>4, <1>5, KeepsTrans

LEMMA URecvKeeps ==
  ASSUME NEW r, Good(r), r.open, NEW c \in UCmds
  PROVE  Keeps(r, FrameURecv(r, UFrame(c)))
<1> DEFINE f == UFrame(c)
           s == FrameURecv(r, f)
           slave == r.ep.host_type = "SLAVE"
<1>1. f.u_cmd = c BY DEF UFrame
<1>2. r \in Effects BY DEF Good, Sound
<1>3. Keeps(r, r) BY DEF Keeps
<1>4. CASE c = "STARTDT_ACT"
  BY <1>1, <1>3, <1>4, StartDtActKeeps DEF FrameURecv
<1>5. CASE c = "STARTDT_CON"
  BY <1>1, <1>3, <1>5, StartDtConKeeps DEF FrameURecv
<1>6. CASE c = "STOPDT_ACT"
  BY <1>1, <1>3, <1>6, StopDtActKeeps DEF FrameURecv
<1>7. CASE c = "STOPDT_CON"
  BY <1>1, <1>3, <1>7, SetUCmdKeeps DEF FrameURecv, UStates
<1>8. CASE c = "TESTFR_ACT"
  <2>1. s = FrameUSend(r, "TESTFR_CON") BY <1>1, <1>8 DEF FrameURecv
  <2> QED BY <1>2, <2>1, USendSends, SendsKeeps DEF UCmds
<1>9. CASE c = "TESTFR_CON"
  <2>1. s = StopTimer(r, "t1") BY <1>1, <1>9 DEF FrameURecv
  <2> QED BY <1>2, <2>1, StopT1Sends, SendsKeeps
<1> QED BY <1>4, <1>5, <1>6, <1>7, <1>8, <1>9 DEF UCmds, UStates

\* Taking an N(R) that passed the test moves as forward inside the window.
LEMMA ConfirmedKeeps ==
  ASSUME NEW r, Good(r), NEW n \in SeqNums, CheckRecvNum(r.ep, n)
  PROVE  /\ Keeps(r, Confirmed(r, n)) /\ Confirmed(r, n).ep.vr = r.ep.vr
         /\ Confirmed(r, n).ep.u_cmd = r.ep.u_cmd
<1> DEFINE a == [r EXCEPT !.ep.as = n]
           b == StopTimer(a, "t1")
<1>1. r \in Effects BY DEF Good, Sound
<1>2. a \in Effects /\ a.open = r.open /\ a.dn = r.dn /\ a.ep = [r.ep EXCEPT !.as = n]
  BY <1>1, CounterFacts
<1> HIDE DEF a
<1>3. r.ep \in EpExt BY <1>1 DEF Effects
<1>4. /\ a.ep.host_type = r.ep.host_type /\ a.ep.u_cmd = r.ep.u_cmd
      /\ a.ep.vs = r.ep.vs /\ a.ep.vr = r.ep.vr /\ a.ep.ar = r.ep.ar
      /\ a.ep.as = n /\ a.ep.timers = r.ep.timers
  BY <1>2, <1>3 DEF EpExt
<1>5. Window(a.ep)
  <2>1. Dist(r.ep.vs, n) <= Dist(r.ep.vs, r.ep.as)
    BY <1>3, WindowShrinks DEF CheckRecvNum, EpExt
  <2>2. Dist(r.ep.vs, r.ep.as) <= K + 1 BY DEF Good, Sound, Window
  <2>3. /\ Dist(r.ep.vs, n) \in Int /\ Dist(r.ep.vs, r.ep.as) \in Int
    BY <1>3, DistInt DEF EpExt
  <2> QED BY <1>4, <2>1, <2>2, <2>3, SeqAssumption DEF Window
<1>6. Good(a) BY <1>2, <1>4, <1>5 DEF Good, Sound, Acks, Started
<1>7. Keeps(r, a) BY <1>2, <1>4, <1>6 DEF Keeps, Watched, Asks
<1>8. a \in Effects BY <1>6 DEF Good, Sound
<1>9. Sends(a, b) BY <1>8, StopT1Sends
<1>10. Keeps(a, b) BY <1>6, <1>9, SendsKeeps
<1> HIDE DEF b
<1>11. Confirmed(r, n) \in {a, b} BY DEF Confirmed, a, b
<1> QED BY <1>4, <1>7, <1>9, <1>10, <1>11, KeepsTrans DEF Sends

LEMMA SRecvKeeps ==
  ASSUME NEW r, Good(r), NEW n \in SeqNums
  PROVE  Keeps(r, FrameSRecv(r, SFrame(n)))
<1>1. SFrame(n).recv_num = n BY DEF SFrame
<1>2. Keeps(r, r) BY DEF Keeps
<1> QED BY <1>1, <1>2, ConfirmedKeeps DEF FrameSRecv

\* An accepted ASDU moves vr; what it makes a slave send keeps the rest.  A
\* master may owe one confirmation too many until frame_i_recv has looked.
LEMMA AcceptSends ==
  ASSUME NEW r, Good(r), NEW a \in AsduTypes
  PROVE  /\ AsduAccept(r, a) \in Effects /\ AsduAccept(r, a).open = r.open
         /\ AsduAccept(r, a).ep.host_type = r.ep.host_type
         /\ AsduAccept(r, a).ep.u_cmd = r.ep.u_cmd
         /\ Window(AsduAccept(r, a).ep) /\ Started(AsduAccept(r, a).ep)
         /\ Watched(r) => Watched(AsduAccept(r, a))
<1> DEFINE n == (r.ep.vr + 1) % SeqMod
           b == [r EXCEPT !.ep.vr = n]
           s == AsduAccept(r, a)
<1>1. r \in Effects /\ r.ep \in EpExt /\ r.ep.vr \in SeqNums
  BY DEF Good, Sound, Effects, EpExt
<1>2. n \in SeqNums BY <1>1, NextFacts
<1> HIDE DEF n
<1>3. b \in Effects /\ b.open = r.open /\ b.dn = r.dn /\ b.ep = [r.ep EXCEPT !.vr = n]
  BY <1>1, <1>2, CounterFacts
<1>4. s \in {b, CommInterSend(ToUp(b, Sys("COMM_INTER"))),
             TimeSyncSend(ToUp(b, Sys("TIME_SYNC"))), ToUp(b, Sys("USER_DATA"))}
  BY DEF AsduAccept, n
<1> HIDE DEF b, s
<1>5. /\ b.ep.host_type = r.ep.host_type /\ b.ep.u_cmd = r.ep.u_cmd
      /\ b.ep.vs = r.ep.vs /\ b.ep.as = r.ep.as /\ b.ep.timers = r.ep.timers
  BY <1>1, <1>3 DEF EpExt
<1>6. Window(b.ep) /\ Started(b.ep) /\ (Watched(r) => Watched(b))
  BY <1>3, <1>5 DEF Good, Sound, Window, Started, Watched, Asks
<1>7. \A m \in SysMsgs : Sends(b, ToUp(b, Sys(m))) BY <1>3, MsgTypes, ToUpSends
<1>8. \A m \in SysMsgs : ToUp(b, Sys(m)) \in Effects BY <1>7 DEF Sends
<1>9. Sends(b, s)
  <2>1. CASE s = b BY <1>3, <2>1, SendsRefl
  <2>2. CASE s = CommInterSend(ToUp(b, Sys("COMM_INTER")))
    <3> DEFINE u == ToUp(b, Sys("COMM_INTER"))
    <3>1. Sends(b, u) /\ u \in Effects BY <1>7, <1>8 DEF SysMsgs
    <3> HIDE DEF u
    <3>2. Sends(u, CommInterSend(u)) BY <3>1, CommInterSends
    <3> QED BY <2>2, <3>1, <3>2, SendsTrans DEF u
  <2>3. CASE s = TimeSyncSend(ToUp(b, Sys("TIME_SYNC")))
    <3> DEFINE u == ToUp(b, Sys("TIME_SYNC"))
    <3>1. Sends(b, u) /\ u \in Effects BY <1>7, <1>8 DEF SysMsgs
    <3> HIDE DEF u
    <3>2. Sends(u, TimeSyncSend(u)) BY <3>1, TimeSyncSends
    <3> QED BY <2>3, <3>1, <3>2, SendsTrans DEF u
  <2>4. CASE s = ToUp(b, Sys("USER_DATA")) BY <1>7, <2>4 DEF SysMsgs
  <2> QED BY <1>4, <2>1, <2>2, <2>3, <2>4
<1>10. s \in Effects /\ s.open = r.open /\ s.ep.host_type = r.ep.host_type
       /\ s.ep.u_cmd = r.ep.u_cmd /\ Window(s.ep) /\ Started(s.ep)
  BY <1>3, <1>5, <1>6, <1>9 DEF Sends, Started
<1>11. Watched(r) => Watched(s) BY <1>6, <1>9 DEF Watched, Sends
<1> QED BY <1>10, <1>11 DEF s

LEMMA IRecvKeeps ==
  ASSUME NEW r, Good(r), r.open, NEW n \in SeqNums, NEW m \in SeqNums, NEW a \in AsduTypes
  PROVE  Keeps(r, FrameIRecv(r, IFrame(n, m, a)))
<1> DEFINE f == IFrame(n, m, a)
           c == Confirmed(r, m)
           d == AsduAccept(c, a)
           g == FrameSSend(d)
           s == FrameIRecv(r, f)
<1>1. f.send_num = n /\ f.recv_num = m /\ f.asdu = a BY DEF IFrame
<1>2. r \in Effects BY DEF Good, Sound
<1>3. CASE ~CheckRecvNum(r.ep, m)
  <2>1. s = SequenceError(r) BY <1>1, <1>3 DEF FrameIRecv
  <2> QED BY <1>2, <2>1, SequenceErrorSends, SendsKeeps
<1>4. CASE CheckRecvNum(r.ep, m)
  <2>1. Keeps(r, c) BY <1>4, ConfirmedKeeps
  <2>2. Good(c) /\ c.open /\ c \in Effects BY <2>1 DEF Keeps, Good, Sound
  <2>3. s = IF ~CheckSendNum(c.ep, n) THEN SequenceError(c)
            ELSE IF a = "BAD"
                 THEN IF Dist(c.ep.vr, c.ep.ar) >= W THEN FrameSSend(c) ELSE c
                 ELSE IF Dist(d.ep.vr, d.ep.ar) >= W THEN g ELSE d
    BY <1>1, <1>4 DEF FrameIRecv
  <2> HIDE DEF c, s
  <2>4. Keeps(c, c) BY <2>2 DEF Keeps
  <2>5. Keeps(c, FrameSSend(c)) BY <2>2, SSendSends, SendsKeeps
  <2>6. Keeps(c, SequenceError(c)) BY <2>2, SequenceErrorSends, SendsKeeps
  <2>7. /\ d \in Effects /\ d.open /\ d.ep.host_type = c.ep.host_type
        /\ Window(d.ep) /\ Started(d.ep) /\ (Watched(c) => Watched(d))
    BY <2>2, AcceptSends
  <2> HIDE DEF d
  <2>8. Sends(d, g) /\ (TxReady(d.ep) => g.ep.ar = d.ep.vr) BY <2>7, SSendSends
  <2> HIDE DEF g
  <2>9. Keeps(c, g)
    <3>1. ASSUME g.ep.host_type = "MASTER" PROVE Dist(g.ep.vr, g.ep.ar) < W
      <4>1. d.ep.host_type = "MASTER" BY <2>8, <3>1 DEF Sends
      <4>2. g.ep.ar = d.ep.vr /\ g.ep.vr = d.ep.vr BY <2>8, <4>1 DEF TxReady, Sends
      <4>3. d.ep.vr \in SeqNums BY <2>7 DEF Effects, EpExt
      <4>4. 0 < W BY SeqAssumption
      <4> QED BY <4>2, <4>3, <4>4, DistZero
    <3>2. Acks(g.ep) BY <3>1 DEF Acks
    <3>3. Good(g) BY <2>7, <2>8, <3>2 DEF Good, Sound, Sends, Started
    <3> QED BY <2>2, <2>7, <2>8, <3>3 DEF Keeps, Watched, Sends
  <2>10. ASSUME ~(Dist(d.ep.vr, d.ep.ar) >= W) PROVE Keeps(c, d)
    <3>1. Dist(d.ep.vr, d.ep.ar) \in Int
      <4>1. d.ep.vr \in SeqNums /\ d.ep.ar \in SeqNums BY <2>7 DEF Effects, EpExt
      <4> QED BY <4>1, DistInt
    <3>2. Dist(d.ep.vr, d.ep.ar) < W BY <2>10, <3>1, SeqAssumption
    <3>3. Good(d) BY <2>7, <3>2 DEF Good, Sound, Acks
    <3> QED BY <2>2, <2>7, <3>3 DEF Keeps
  <2>11. Keeps(c, s) BY <2>3, <2>4, <2>5, <2>6, <2>9, <2>10
  <2> QED BY <2>1, <2>11, KeepsTrans DEF s
<1> QED BY <1>3, <1>4

(***************************************************************************)
(* Handlers of system messages and of SIGALRM                              *)
(***************************************************************************)
LEMMA StopTransferKeeps ==
  ASSUME NEW r, Good(r)
  PROVE  Keeps(r, StopTransfer(r))
<1> DEFINE s == FrameUSend(r, "STOPDT_ACT")
<1>1. Sends(r, s) BY USendSends DEF Good, Sound, UCmds, UStates
<1>2. Keeps(r, s) BY <1>1, SendsKeeps
<1>3. StopTransfer(r) = SetUCmd(s, "STOPDT_ACT") BY DEF StopTransfer
<1> HIDE DEF s
<1>4. Keeps(s, SetUCmd(s, "STOPDT_ACT")) BY <1>2, SetUCmdKeeps DEF Keeps, UStates
<1> QED BY <1>2, <1>3, <1>4, KeepsTrans

LEMMA SysMsgUpKeeps ==
  ASSUME NEW r, Good(r), NEW m \in {"DCOLL_START", "CONNECT_CLOSE"}
  PROVE  Keeps(r, SysMsgFromUp(r, m))
<1>1. Keeps(r, r) BY DEF Keeps
<1>2. Keeps(r, CommInterSend(r)) BY CommInterSends, SendsKeeps DEF Good, Sound
<1>3. Keeps(r, StopTransfer(r)) BY StopTransferKeeps
<1> QED BY <1>1, <1>2, <1>3 DEF SysMsgFromUp

\* An answer of phy_tcp starts afresh and leaves a master watched.
LEMMA SysMsgDnKeeps ==
  ASSUME NEW r, Good(r), r.open,
         NEW m \in {"CONNECT_ACK", "CONNECT_NACK", "CONNECT_LOST"}
  PROVE  /\ Good(SysMsgFromDn(r, m)) /\ Watched(SysMsgFromDn(r, m))
         /\ SysMsgFromDn(r, m).open = r.open
         /\ SysMsgFromDn(r, m).ep.host_type = r.ep.host_type
<1> DEFINE a == ToUp(r, Sys("LOG_DEV_EVENT"))
           b == InitEpExt(a)
           s == SysMsgFromDn(r, m)
<1>1. Sends(r, a) BY MsgTypes, ToUpSends DEF SysMsgs, Good, Sound
<1>2. a \in Effects /\ a.open = r.open /\ a.ep.host_type = r.ep.host_type
  BY <1>1 DEF Sends
<1> HIDE DEF a
<1>3. Good(b) /\ b.open = r.open /\ b.ep.host_type = r.ep.host_type
  BY <1>2, InitGood
<1>4. CASE m # "CONNECT_ACK"
  <2> DEFINE u == StartTimers(b, {"rc"})
  <2>1. s = u BY <1>4 DEF SysMsgFromDn, a, b
  <2> HIDE DEF b
  <2>2. Sends(b, u) /\ u.ep.timers = b.ep.timers \cup {"rc"}
    BY <1>3, StartFacts DEF Good, Sound, Timers
  <2> HIDE DEF u
  <2>3. Good(u) BY <1>3, <2>2, SendsGood
  <2> QED BY <1>3, <2>1, <2>2, <2>3 DEF Watched, Sends
<1>5. CASE m = "CONNECT_ACK"
  <2> DEFINE c == FrameUSend(b, "STARTDT_ACT")
             d == SetUCmd(c, "STARTDT_ACT")
             u == StartTimers(d, {"t0"})
  <2>1. s = IF r.ep.host_type = "MASTER" THEN u ELSE b
    BY <1>5 DEF SysMsgFromDn, ConnectAck, a
  <2> HIDE DEF b
  <2>2. Sends(b, c) BY <1>3, USendSends DEF Good, Sound, UCmds, UStates
  <2>3. Good(c) /\ c.open = b.open /\ c.ep.host_type = b.ep.host_type
    BY <1>3, <2>2, SendsGood DEF Sends
  <2> HIDE DEF c
  <2>4. Keeps(c, d) BY <2>3, SetUCmdKeeps DEF UStates
  <2>5. Good(d) /\ d.open = c.open /\ d.ep.host_type = c.ep.host_type
    BY <2>4 DEF Keeps
  <2> HIDE DEF d
  <2>6. Sends(d, u) /\ u.ep.timers = d.ep.timers \cup {"t0"}
    BY <2>5, StartFacts DEF Good, Sound, Timers
  <2> HIDE DEF u
  <2>7. Good(u) BY <2>5, <2>6, SendsGood
  <2>8. Watched(u) /\ u.open = d.open /\ u.ep.host_type = d.ep.host_type
    BY <2>6 DEF Watched, Sends
  <2>9. CASE r.ep.host_type = "MASTER"
    BY <1>3, <2>1, <2>3, <2>5, <2>7, <2>8, <2>9
  <2>10. CASE r.ep.host_type # "MASTER"
    BY <1>3, <2>1, <2>10 DEF Watched
  <2> QED BY <2>9, <2>10
<1> QED BY <1>4, <1>5

LEMMA ExpiryKeeps ==
  ASSUME NEW r, Good(r), NEW t \in {"t0", "t1", "rc"}
  PROVE  Keeps(r, Reconnect(StopTimer(r, t)))
<1> DEFINE s == StopTimer(r, t)
<1>1. t \in Timers BY DEF Timers
<1>2. /\ Sound(s) /\ s.open = r.open /\ s.ep.host_type = r.ep.host_type
      /\ s.ep.u_cmd = r.ep.u_cmd /\ s.ep.timers = r.ep.timers \ {t}
  BY <1>1, StopTimerSound DEF Good
<1> HIDE DEF s
<1>3. Started(s.ep) BY <1>2 DEF Good, Started
<1>4. /\ Good(Reconnect(s)) /\ Watched(Reconnect(s)) /\ Reconnect(s).open = s.open
      /\ Reconnect(s).ep.host_type = s.ep.host_type
  BY <1>2, <1>3, ReconnectKeeps
<1> QED BY <1>2, <1>4 DEF Keeps, s

LEMMA AlarmKeeps ==
  ASSUME NEW r, Good(r), NEW expired
  PROVE  Keeps(r, CatchAlarm(r, expired))
<1> DEFINE fires(s, t) == t \in expired \cap s.ep.timers
           r0 == IF fires(r, "t0") THEN Reconnect(StopTimer(r, "t0")) ELSE r
           r1 == IF fires(r0, "t1") THEN Reconnect(StopTimer(r0, "t1")) ELSE r0
           r2 == IF fires(r1, "t2") THEN FrameSSend(r1) ELSE r1
           r3 == IF fires(r2, "t3") THEN FrameUSend(r2, "TESTFR_ACT") ELSE r2
           r4 == IF fires(r3, "sync") THEN TimeSyncSend(r3) ELSE r3
           r5 == IF fires(r4, "rc") /\ expired \cap {"t0", "t1"} = {}
                 THEN Reconnect(StopTimer(r4, "rc")) ELSE r4
<1>0. CatchAlarm(r, expired) = r5 BY DEF CatchAlarm
<1> HIDE DEF fires
<1>r. \A x : Good(x) => Keeps(x, x) BY DEF Keeps
<1>s. \A x, y : Good(x) /\ Sends(x, y) => Keeps(x, y) BY SendsKeeps
<1>1. Keeps(r, r0) BY <1>r, ExpiryKeeps
<1> HIDE DEF r0
<1>2. Good(r0) BY <1>1 DEF Keeps
<1>3. Keeps(r0, r1) BY <1>r, <1>2, ExpiryKeeps
<1> HIDE DEF r1
<1>4. Good(r1) /\ r1 \in Effects BY <1>3 DEF Keeps, Good, Sound
<1>5. Keeps(r1, r2) BY <1>r, <1>s, <1>4, SSendSends
<1> HIDE DEF r2
<1>6. Good(r2) /\ r2 \in Effects BY <1>5 DEF Keeps, Good, Sound
<1>7. Keeps(r2, r3) BY <1>r, <1>s, <1>6, USendSends DEF UCmds
<1> HIDE DEF r3
<1>8. Good(r3) /\ r3 \in Effects BY <1>7 DEF Keeps, Good, Sound
<1>9. Keeps(r3, r4) BY <1>r, <1>s, <1>8, TimeSyncSends
<1> HIDE DEF r4
<1>10. Good(r4) BY <1>9 DEF Keeps
<1>11. Keeps(r4, r5) BY <1>r, <1>10, ExpiryKeeps
<1> HIDE DEF r5
<1>12. Keeps(r, r2) BY <1>1, <1>3, <1>5, KeepsTrans
<1>13. Keeps(r2, r5) BY <1>7, <1>9, <1>11, KeepsTrans
<1> QED BY <1>0, <1>12, <1>13, KeepsTrans

(***************************************************************************)
(* The inductive invariant                                                 *)
(***************************************************************************)
\* Each end-point is good.  Supervised is there as it is checked.
IInv == /\ TypeOK
        /\ SendWindow /\ MasterAcks /\ StartedTimers
        /\ Supervised

\* The invariant of the state is that of the record a handler starts from.
LEMMA CurGood ==
  ASSUME IInv, NEW e \in Eps
  PROVE  /\ Good(Cur(e)) /\ Cur(e).ep = ep[e] /\ Cur(e).open = Open(e)
         /\ (main[e] = "connected" /\ ~asked[e]) => Watched(Cur(e))
<1> DEFINE r == Cur(e)
<1>1. ep[e] \in EpExt BY DEF IInv, TypeOK
<1>2. r = [ep |-> ep[e], open |-> Open(e), dn |-> <<>>, up |-> <<>>]
  BY DEF Cur, Handle
<1>3. r \in Effects BY <1>1, <1>2 DEF Effects, Open
<1>4. r.ep = ep[e] /\ r.open = Open(e) BY <1>2
<1> HIDE DEF r
<1>5. Good(r)
  BY <1>1, <1>3, <1>4 DEF Good, Sound, Window, Acks, Started,
                          IInv, SendWindow, MasterAcks, StartedTimers
<1>6. (main[e] = "connected" /\ ~asked[e]) => Watched(r)
  BY <1>1, <1>4 DEF IInv, Supervised, Watched
<1> QED BY <1>1, <1>4, <1>5, <1>6 DEF r

\* A handler that ends well leads to a state where the invariant holds again.
LEMMA StepKeeps ==
  ASSUME IInv, NEW e \in Eps, NEW r, NEW still \in BOOLEAN,
         Good(r), r.open = Open(e), r.ep.host_type = ep[e].host_type,
         (main[e] = "connected" /\ ~still) => Watched(r),
         Step(e, r, still)
  PROVE  IInv'
<1>1. /\ ep' = [ep EXCEPT ![e] = r.ep] /\ asked' = [asked EXCEPT ![e] = still \/ Asks(r)]
      /\ main' = main /\ running' = running
  BY DEF Step
<1>2. r \in Effects /\ r.ep \in EpExt BY DEF Good, Sound, Effects
<1>3. /\ ep \in [Eps -> EpExt] /\ main \in [Eps -> {"none", "created", "connected"}]
      /\ asked \in [Eps -> BOOLEAN] /\ running \in BOOLEAN
  BY DEF IInv, TypeOK
<1>4. ep'[e] = r.ep /\ \A x \in Eps \ {e} : ep'[x] = ep[x] BY <1>1, <1>3
<1>5. asked' \in [Eps -> BOOLEAN]
  <2>1. (still \/ Asks(r)) \in BOOLEAN BY DEF Asks
  <2> QED BY <1>1, <1>3, <2>1
<1>6. TypeOK' BY <1>1, <1>2, <1>3, <1>4, <1>5 DEF TypeOK
<1>7. SendWindow' /\ MasterAcks' /\ StartedTimers'
  BY <1>4 DEF IInv, SendWindow, MasterAcks, StartedTimers, Good, Sound, Window, Acks, Started
<1>8. Supervised'
  <2>1. SUFFICES ASSUME NEW x \in Eps, ep'[x].host_type = "MASTER", main'[x] = "connected"
                 PROVE  asked'[x] \/ ep'[x].timers \cap {"t0", "t3", "rc"} # {}
    BY DEF Supervised
  <2>2. CASE x # e
    BY <1>1, <1>3, <1>4, <2>1, <2>2 DEF IInv, Supervised
  <2>3. CASE x = e
    <3>1. asked'[e] = (still \/ Asks(r)) BY <1>1, <1>3
    <3>2. r.open BY <1>1, <2>1, <2>3 DEF Open
    <3> QED BY <1>1, <1>4, <2>1, <2>3, <3>1, <3>2 DEF Watched
  <2> QED BY <2>2, <2>3
<1> QED BY <1>6, <1>7, <1>8 DEF IInv

\* Init establishes the invariant.
LEMMA InitInv == Init => IInv
<1> SUFFICES ASSUME Init PROVE IInv OBVIOUS
<1>1. 0 \in SeqNums BY SeqAssumption DEF SeqNums
<1>2. \A h \in Hosts :
        /\ NewEpExt(h) \in EpExt /\ NewEpExt(h).host_type = h
        /\ NewEpExt(h).u_cmd = "STOPDT_CON"
        /\ NewEpExt(h).vs = 0 /\ NewEpExt(h).vr = 0
        /\ NewEpExt(h).as = 0 /\ NewEpExt(h).ar = 0
  BY <1>1 DEF NewEpExt, EpExt, UStates
<1>3. PICK h \in [Eps -> Hosts] : ep = [e \in Eps |-> NewEpExt(h[e])] BY DEF Init
<1>4. \A e \in Eps : h[e] \in Hosts /\ ep[e] = NewEpExt(h[e]) BY <1>3
<1>5. Dist(0, 0) = 0 BY <1>1, DistZero
<1>6. TypeOK BY <1>2, <1>3, <1>4 DEF Init, TypeOK
<1>7. SendWindow /\ MasterAcks /\ StartedTimers
  BY <1>2, <1>3, <1>4, <1>5, SeqAssumption DEF SendWindow, MasterAcks, StartedTimers
<1>8. Supervised BY DEF Init, Supervised
<1> QED BY <1>6, <1>7, <1>8 DEF IInv

\* A handler that keeps the invariant is a step that does.
LEMMA KeepsStep ==
  ASSUME IInv, NEW e \in Eps, NEW s, Keeps(Cur(e), s), Step(e, s, asked[e])
  PROVE  IInv'
<1>1. /\ Good(s) /\ s.open = Open(e) /\ s.ep.host_type = ep[e].host_type
      /\ (main[e] = "connected" /\ ~asked[e]) => Watched(s)
  BY CurGood DEF Keeps
<1>2. asked[e] \in BOOLEAN BY DEF IInv, TypeOK
<1> QED BY <1>1, <1>2, StepKeeps

LEMMA FrameRecvKeeps ==
  ASSUME NEW r, Good(r), r.open, NEW f \in Frames
  PROVE  Keeps(r, FrameRecv(r, f))
<1>1. CASE f \in {UFrame(c) : c \in UCmds}
  <2>1. PICK c \in UCmds : f = UFrame(c) BY <1>1
  <2>2. FrameRecv(r, f) = FrameURecv(r, f) BY <2>1 DEF FrameRecv, UFrame
  <2> QED BY <2>1, <2>2, URecvKeeps
<1>2. CASE f \in {SFrame(n) : n \in SeqNums}
  <2>1. PICK n \in SeqNums : f = SFrame(n) BY <1>2
  <2>2. FrameRecv(r, f) = FrameSRecv(r, f) BY <2>1 DEF FrameRecv, SFrame
  <2> QED BY <2>1, <2>2, SRecvKeeps
<1>3. CASE f \in {IFrame(n, m, a) : n \in SeqNums, m \in SeqNums, a \in AsduTypes}
  <2>1. PICK n \in SeqNums, m \in SeqNums, a \in AsduTypes : f = IFrame(n, m, a)
    BY <1>3
  <2>2. FrameRecv(r, f) = FrameIRecv(r, f) BY <2>1 DEF FrameRecv, IFrame
  <2> QED BY <2>1, <2>2, IRecvKeeps
<1> QED BY <1>1, <1>2, <1>3 DEF Frames

LEMMA NextInv == IInv /\ [Next]_vars => IInv'
<1> SUFFICES ASSUME IInv, [Next]_vars PROVE IInv' OBVIOUS
<1>0. CASE UNCHANGED vars
  BY <1>0 DEF vars, IInv, TypeOK, SendWindow, MasterAcks, StartedTimers, Supervised
<1> SUFFICES ASSUME NEW e \in Eps,
                    \/ NewEndpoint(e) \/ SendConnect(e) \/ AsduRecv(e) \/ SysMsgRecvUp(e)
                    \/ SysMsgRecvDn(e) \/ RecvFrame(e) \/ Quit(e) \/ Alarm(e)
             PROVE  IInv'
  BY <1>0 DEF Next
<1> DEFINE r == Cur(e)
<1>r. /\ Good(r) /\ r.open = Open(e) /\ r.ep.host_type = ep[e].host_type /\ r \in Effects
  BY CurGood DEF Good, Sound
<1>1. CASE NewEndpoint(e)
  <2>1. /\ main' = [main EXCEPT ![e] = "created"] /\ ep' = ep /\ asked' = asked
        /\ running' = running
    BY <1>1 DEF NewEndpoint
  <2>2. TypeOK' BY <2>1 DEF IInv, TypeOK
  <2>3. SendWindow' /\ MasterAcks' /\ StartedTimers'
    BY <2>1 DEF IInv, SendWindow, MasterAcks, StartedTimers
  <2>4. Supervised' BY <2>1 DEF IInv, TypeOK, Supervised
  <2> QED BY <2>2, <2>3, <2>4 DEF IInv
<1>2. CASE SendConnect(e)
  <2>1. /\ main' = [main EXCEPT ![e] = "connected"] /\ ep' = ep
        /\ asked' = [asked EXCEPT ![e] = TRUE] /\ running' = running
    BY <1>2 DEF SendConnect
  <2>2. TypeOK' BY <2>1 DEF IInv, TypeOK
  <2>3. SendWindow' /\ MasterAcks' /\ StartedTimers'
    BY <2>1 DEF IInv, SendWindow, MasterAcks, StartedTimers
  <2>4. Supervised' BY <2>1 DEF IInv, TypeOK, Supervised
  <2> QED BY <2>2, <2>3, <2>4 DEF IInv
<1>3. CASE AsduRecv(e)
  <2> DEFINE s == FrameISend(r, "DATA")
  <2>1. Sends(r, s) BY <1>r, ISendSends DEF AsduTypes
  <2>2. Keeps(r, s) BY <1>r, <2>1, SendsKeeps
  <2>3. Step(e, s, asked[e]) BY <1>3 DEF AsduRecv
  <2> QED BY <2>2, <2>3, KeepsStep
<1>4. CASE SysMsgRecvUp(e)
  <2>1. PICK m \in {"DCOLL_START", "CONNECT_CLOSE"} : Step(e, SysMsgFromUp(r, m), asked[e])
    BY <1>4 DEF SysMsgRecvUp
  <2>2. Keeps(r, SysMsgFromUp(r, m)) BY <1>r, SysMsgUpKeeps
  <2> QED BY <2>1, <2>2, KeepsStep
<1>5. CASE SysMsgRecvDn(e)
  <2>1. PICK m \in {"CONNECT_ACK", "CONNECT_NACK", "CONNECT_LOST"} :
          Open(e) /\ Step(e, SysMsgFromDn(r, m), FALSE)
    BY <1>5 DEF SysMsgRecvDn
  <2> DEFINE s == SysMsgFromDn(r, m)
  <2>2. Good(s) /\ Watched(s) /\ s.open = Open(e) /\ s.ep.host_type = ep[e].host_type
    BY <1>r, <2>1, SysMsgDnKeeps
  <2>3. Step(e, s, FALSE) BY <2>1
  <2> HIDE DEF s
  <2> QED BY <2>2, <2>3, StepKeeps
<1>6. CASE RecvFrame(e)
  <2>1. PICK f \in Frames : Open(e) /\ Step(e, FrameRecv(r, f), asked[e])
    BY <1>6 DEF RecvFrame
  <2>2. Keeps(r, FrameRecv(r, f)) BY <1>r, <2>1, FrameRecvKeeps
  <2> QED BY <2>1, <2>2, KeepsStep
<1>7. CASE Quit(e)
  <2> DEFINE h == ep[e].host_type = "MASTER"
  <2>1. /\ ep' = [x \in Eps |-> IF h THEN StopTransfer(Cur(x)).ep ELSE ep[x]]
        /\ running' = FALSE /\ main' = main /\ asked' = asked
    BY <1>7 DEF Quit
  <2>2. ASSUME NEW x \in Eps
        PROVE  /\ ep'[x] \in EpExt /\ ep'[x].host_type = ep[x].host_type
               /\ Window(ep'[x]) /\ Acks(ep'[x]) /\ Started(ep'[x])
               /\ (ep[x].host_type = "MASTER" /\ main[x] = "connected" /\ ~asked[x])
                    => ep'[x].timers \cap {"t0", "t3", "rc"} # {}
    <3>1. CASE ~h
      BY <2>1, <3>1 DEF IInv, TypeOK, SendWindow, MasterAcks, StartedTimers, Supervised,
                        Window, Acks, Started
    <3>2. CASE h
      <4> DEFINE c == Cur(x)
                 u == FrameUSend(c, "STOPDT_ACT")
                 s == StopTransfer(c)
      <4>1. /\ Good(c) /\ c.ep.host_type = ep[x].host_type /\ c.ep = ep[x]
            /\ c \in Effects
        BY CurGood DEF Good, Sound
      <4>2. Keeps(c, s) BY <4>1, StopTransferKeeps
      <4>3. Sends(c, u) BY <4>1, USendSends DEF UCmds, UStates
      <4>4. s.ep.timers = u.ep.timers
        <5>1. u \in Effects BY <4>3 DEF Sends
        <5>2. s = SetUCmd(u, "STOPDT_ACT") BY DEF StopTransfer
        <5> HIDE DEF u, s
        <5>3. s.ep = [u.ep EXCEPT !.u_cmd = "STOPDT_ACT"]
          BY <5>1, <5>2, SetUCmdFacts DEF UStates
        <5> QED BY <5>1, <5>3 DEF Effects, EpExt
      <4>5. ep'[x] = s.ep BY <2>1, <3>2
      <4> HIDE DEF c, u, s
      <4>6. s.ep \in EpExt BY <4>2 DEF Keeps, Good, Sound, Effects
      <4>7. (ep[x].host_type = "MASTER" /\ main[x] = "connected" /\ ~asked[x])
              => ep[x].timers \cap {"t0", "t3", "rc"} # {}
        BY DEF IInv, Supervised
      <4>8. ep[x].timers \ {"t1"} \subseteq s.ep.timers
        BY <4>1, <4>3, <4>4 DEF Sends
      <4> QED BY <4>1, <4>2, <4>5, <4>6, <4>7, <4>8 DEF Keeps, Good, Sound
    <3> QED BY <3>1, <3>2
  <2>3. TypeOK' BY <2>1, <2>2 DEF IInv, TypeOK
  <2>4. SendWindow' /\ MasterAcks' /\ StartedTimers'
    BY <2>2 DEF SendWindow, MasterAcks, StartedTimers, Window, Acks, Started
  <2>5. Supervised' BY <2>1, <2>2 DEF Supervised
  <2> QED BY <2>3, <2>4, <2>5 DEF IInv
<1>8. CASE Alarm(e)
  <2>1. PICK x \in SUBSET ep[e].timers : Step(e, CatchAlarm(r, x), asked[e])
    BY <1>8 DEF Alarm
  <2>2. Keeps(r, CatchAlarm(r, x)) BY <1>r, AlarmKeeps
  <2> QED BY <2>1, <2>2, KeepsStep
<1> QED BY <1>1, <1>2, <1>3, <1>4, <1>5, <1>6, <1>7, <1>8

(***************************************************************************)
(* The theorems                                                            *)
(***************************************************************************)
\* The inductive invariant holds in every reachable state of every instance.
THEOREM Invariance == Spec => []IInv
<1>1. Init => IInv BY InitInv
<1>2. IInv /\ [Next]_vars => IInv' BY NextInv
<1> QED BY <1>1, <1>2, PTL DEF Spec

\* Types, for every modulus, window and set of end-points.
THEOREM TypeCorrect == Spec => []TypeOK
<1>1. IInv => TypeOK BY DEF IInv
<1> QED BY <1>1, Invariance, PTL

\* No peer, however it answers, opens the send window of iec104_frame_i_send
\* beyond K + 1 frames.
THEOREM SendWindowHolds == Spec => []SendWindow
<1>1. IInv => SendWindow BY DEF IInv
<1> QED BY <1>1, Invariance, PTL

\* A master never owes W confirmations when iec104_frame_i_recv has returned.
THEOREM MasterAcksHolds == Spec => []MasterAcks
<1>1. IInv => MasterAcks BY DEF IInv
<1> QED BY <1>1, Invariance, PTL

\* t2 and t3 run throughout data transfer.
THEOREM StartedTimersHolds == Spec => []StartedTimers
<1>1. IInv => StartedTimers BY DEF IInv
<1> QED BY <1>1, Invariance, PTL

\* A connected master always has a running timer or an open request: no
\* sequence of frames, answers and alarms leaves it waiting for nothing.
THEOREM SupervisedHolds == Spec => []Supervised
<1>1. IInv => Supervised BY DEF IInv
<1> QED BY <1>1, Invariance, PTL

(***************************************************************************)
(* What a slave owes after a handler                                       *)
(***************************************************************************)
\* Once its handler has returned, a slave in data transfer that took a frame
\* owes fewer than W confirmations.
Paid(r, s) == (s.ep.vr # r.ep.vr /\ s.ep.u_cmd = "STARTDT_CON")
                => Dist(s.ep.vr, s.ep.ar) < W

\* No frame was taken, or the session was forgotten.
Stays(r, s) == \/ s.ep.vr = r.ep.vr /\ s.ep.u_cmd = r.ep.u_cmd
               \/ s.ep.u_cmd = "STOPDT_CON"

LEMMA SendsStays == ASSUME NEW r, NEW s, Sends(r, s) PROVE Stays(r, s)
  BY DEF Sends, Stays

LEMMA StaysPaid == ASSUME NEW r, NEW s, Stays(r, s) PROVE Paid(r, s)
  BY DEF Paid, Stays

LEMMA StaysTrans ==
  ASSUME NEW r, NEW s, NEW u, Stays(r, s), Stays(s, u)
  PROVE  Stays(r, u)
  BY DEF Stays

\* Writing u_cmd or the timers leaves vr.
LEMMA SameVr ==
  ASSUME NEW r \in Effects
  PROVE  /\ \A c \in UStates : SetUCmd(r, c).ep.vr = r.ep.vr
         /\ \A c \in UStates : SetUCmd(r, c).ep.u_cmd = c
         /\ \A t \in Timers : StopTimer(r, t).ep.vr = r.ep.vr
         /\ \A t \in Timers : StopTimer(r, t).ep.u_cmd = r.ep.u_cmd
<1>1. r.ep \in EpExt BY DEF Effects
<1>2. ASSUME NEW c \in UStates
      PROVE  SetUCmd(r, c).ep.vr = r.ep.vr /\ SetUCmd(r, c).ep.u_cmd = c
  <2>1. SetUCmd(r, c).ep = [r.ep EXCEPT !.u_cmd = c] BY SetUCmdFacts
  <2> QED BY <1>1, <2>1 DEF EpExt
<1>3. ASSUME NEW t \in Timers
      PROVE  StopTimer(r, t).ep.vr = r.ep.vr /\ StopTimer(r, t).ep.u_cmd = r.ep.u_cmd
  <2>1. StopTimer(r, t).ep = [r.ep EXCEPT !.timers = @ \ {t}] BY StopFacts
  <2> QED BY <1>1, <2>1 DEF EpExt
<1> QED BY <1>2, <1>3

LEMMA StartDtActVr ==
  ASSUME NEW r \in Effects
  PROVE  StartDtAct(r).ep.vr = r.ep.vr
<1> DEFINE a == ToUp(r, Sys("DEV_ONLINE"))
           b == SetUCmd(a, "STARTDT_ACT")
           c == FrameUSend(b, "STARTDT_CON")
           d == SetUCmd(c, "STARTDT_CON")
           e == StartTimers(d, {"t2", "t3"})
<1>1. a \in Effects /\ a.ep.vr = r.ep.vr BY MsgTypes, ToUpSends DEF SysMsgs, Sends
<1>2. StartDtAct(r) \in {c, e} BY DEF StartDtAct, a, b, c, d, e
<1> HIDE DEF a
<1>3. b \in Effects /\ b.ep.vr = a.ep.vr BY <1>1, SameVr, SetUCmdFacts DEF UStates
<1> HIDE DEF b
<1>4. c \in Effects /\ c.ep.vr = b.ep.vr BY <1>3, USendSends DEF Sends, UCmds, UStates
<1> HIDE DEF c
<1>5. d \in Effects /\ d.ep.vr = c.ep.vr BY <1>4, SameVr, SetUCmdFacts DEF UStates
<1> HIDE DEF d
<1>6. e.ep.vr = d.ep.vr BY <1>5, StartFacts DEF Sends, Timers
<1> HIDE DEF e
<1> QED BY <1>1, <1>2, <1>3, <1>4, <1>5, <1>6

LEMMA StopDtActVr ==
  ASSUME NEW r \in Effects
  PROVE  StopDtAct(r).ep.vr = r.ep.vr
<1> DEFINE a == SetUCmd(r, "STOPDT_ACT")
           b == FrameUSend(a, "STOPDT_CON")
           c == SetUCmd(b, "STOPDT_CON")
<1>1. StopDtAct(r) \in {b, c} BY DEF StopDtAct, a, b, c
<1>2. a \in Effects /\ a.ep.vr = r.ep.vr BY SameVr, SetUCmdFacts DEF UStates
<1> HIDE DEF a
<1>3. b \in Effects /\ b.ep.vr = a.ep.vr BY <1>2, USendSends DEF Sends, UCmds, UStates
<1> HIDE DEF b
<1>4. c.ep.vr = b.ep.vr BY <1>3, SameVr DEF UStates
<1> HIDE DEF c
<1> QED BY <1>1, <1>2, <1>3, <1>4

LEMMA URecvPays ==
  ASSUME NEW r \in Effects, r.ep.host_type = "SLAVE", NEW c \in UCmds
  PROVE  Paid(r, FrameURecv(r, UFrame(c)))
<1> DEFINE s == FrameURecv(r, UFrame(c))
<1>1. UFrame(c).u_cmd = c BY DEF UFrame
<1>2. SUFFICES s.ep.vr = r.ep.vr BY DEF Paid
<1>3. CASE c = "STARTDT_ACT" BY <1>1, <1>3, StartDtActVr DEF FrameURecv
<1>4. CASE c = "STOPDT_ACT" BY <1>1, <1>4, StopDtActVr DEF FrameURecv
<1>5. CASE c \in {"STARTDT_CON", "STOPDT_CON"} BY <1>1, <1>5 DEF FrameURecv
<1>6. CASE c = "TESTFR_ACT"
  <2>1. s = FrameUSend(r, "TESTFR_CON") BY <1>1, <1>6 DEF FrameURecv
  <2> QED BY <2>1, USendSends DEF Sends, UCmds
<1>7. CASE c = "TESTFR_CON"
  <2>1. s = StopTimer(r, "t1") BY <1>1, <1>7 DEF FrameURecv
  <2> QED BY <2>1, SameVr DEF Timers
<1> QED BY <1>3, <1>4, <1>5, <1>6, <1>7 DEF UCmds, UStates

\* The frame that makes W of them owed, or more since it was stopped, makes a
\* slave in data transfer confirm them all.
LEMMA IRecvPays ==
  ASSUME NEW r, Good(r), r.open, NEW n \in SeqNums, NEW m \in SeqNums, NEW a \in AsduTypes
  PROVE  Paid(r, FrameIRecv(r, IFrame(n, m, a)))
<1> DEFINE f == IFrame(n, m, a)
           c == Confirmed(r, m)
           d == AsduAccept(c, a)
           g == FrameSSend(d)
           s == FrameIRecv(r, f)
<1>1. f.send_num = n /\ f.recv_num = m /\ f.asdu = a BY DEF IFrame
<1>2. r \in Effects BY DEF Good, Sound
<1>3. CASE ~CheckRecvNum(r.ep, m)
  <2>1. s = SequenceError(r) BY <1>1, <1>3 DEF FrameIRecv
  <2> QED BY <1>2, <2>1, SequenceErrorSends, SendsStays, StaysPaid
<1>4. CASE CheckRecvNum(r.ep, m)
  <2>1. Keeps(r, c) /\ c.ep.vr = r.ep.vr BY <1>4, ConfirmedKeeps
  <2>2. Good(c) /\ c.open /\ c \in Effects BY <2>1 DEF Keeps, Good, Sound
  <2>3. s = IF ~CheckSendNum(c.ep, n) THEN SequenceError(c)
            ELSE IF a = "BAD"
                 THEN IF Dist(c.ep.vr, c.ep.ar) >= W THEN FrameSSend(c) ELSE c
                 ELSE IF Dist(d.ep.vr, d.ep.ar) >= W THEN g ELSE d
    BY <1>1, <1>4 DEF FrameIRecv
  <2> HIDE DEF c, s
  <2>4. SequenceError(c).ep.vr = c.ep.vr /\ FrameSSend(c).ep.vr = c.ep.vr
    BY <2>2, SequenceErrorSends, SSendSends DEF Sends
  <2>5. d \in Effects /\ d.open BY <2>2, AcceptSends
  <2>6. d.ep.vr \in SeqNums /\ d.ep.ar \in SeqNums BY <2>5 DEF Effects, EpExt
  <2> HIDE DEF d
  <2>7. Sends(d, g) /\ (TxReady(d.ep) => g.ep.ar = d.ep.vr) BY <2>5, SSendSends
  <2> HIDE DEF g
  <2>8. ASSUME g.ep.u_cmd = "STARTDT_CON" PROVE Dist(g.ep.vr, g.ep.ar) < W
    <3>1. TxReady(d.ep) BY <2>7, <2>8 DEF TxReady, Sends
    <3>2. g.ep.vr = d.ep.vr /\ g.ep.ar = d.ep.vr BY <2>7, <3>1 DEF Sends
    <3>3. 0 < W BY SeqAssumption
    <3> QED BY <2>6, <3>2, <3>3, DistZero
  <2>9. ~(Dist(d.ep.vr, d.ep.ar) >= W) => Dist(d.ep.vr, d.ep.ar) < W
    <3>1. Dist(d.ep.vr, d.ep.ar) \in Int BY <2>6, DistInt
    <3> QED BY <3>1, SeqAssumption
  <2> QED BY <2>1, <2>3, <2>4, <2>8, <2>9 DEF Paid, s
<1> QED BY <1>3, <1>4

LEMMA FrameRecvPays ==
  ASSUME NEW r, Good(r), r.open, r.ep.host_type = "SLAVE", NEW f \in Frames
  PROVE  Paid(r, FrameRecv(r, f))
<1>0. r \in Effects BY DEF Good, Sound
<1>1. CASE f \in {UFrame(c) : c \in UCmds}
  <2>1. PICK c \in UCmds : f = UFrame(c) BY <1>1
  <2>2. FrameRecv(r, f) = FrameURecv(r, f) BY <2>1 DEF FrameRecv, UFrame
  <2> QED BY <1>0, <2>1, <2>2, URecvPays
<1>2. CASE f \in {SFrame(n) : n \in SeqNums}
  <2>1. PICK n \in SeqNums : f = SFrame(n) BY <1>2
  <2>2. FrameRecv(r, f) = FrameSRecv(r, f) BY <2>1 DEF FrameRecv, SFrame
  <2>3. f.recv_num = n BY <2>1 DEF SFrame
  <2>4. FrameRecv(r, f).ep.vr = r.ep.vr BY <2>2, <2>3, ConfirmedKeeps DEF FrameSRecv
  <2> QED BY <2>4 DEF Paid
<1>3. CASE f \in {IFrame(n, m, a) : n \in SeqNums, m \in SeqNums, a \in AsduTypes}
  <2>1. PICK n \in SeqNums, m \in SeqNums, a \in AsduTypes : f = IFrame(n, m, a)
    BY <1>3
  <2>2. FrameRecv(r, f) = FrameIRecv(r, f) BY <2>1 DEF FrameRecv, IFrame
  <2> QED BY <2>1, <2>2, IRecvPays
<1> QED BY <1>1, <1>2, <1>3 DEF Frames

\* An answer of phy_tcp makes a slave forget its session.
LEMMA SysMsgDnStays ==
  ASSUME NEW r \in Effects, r.ep.host_type = "SLAVE",
         NEW m \in {"CONNECT_ACK", "CONNECT_NACK", "CONNECT_LOST"}
  PROVE  Stays(r, SysMsgFromDn(r, m))
<1> DEFINE a == ToUp(r, Sys("LOG_DEV_EVENT"))
           b == InitEpExt(a)
           u == StartTimers(b, {"rc"})
<1>1. a \in Effects BY MsgTypes, ToUpSends DEF SysMsgs, Sends
<1>2. SysMsgFromDn(r, m) \in {b, u} BY DEF SysMsgFromDn, ConnectAck, a, b, u
<1> HIDE DEF a
<1>3. b.ep = NewEpExt(a.ep.host_type) /\ b \in Effects BY <1>1, InitGood DEF Good, Sound
<1>4. b.ep.u_cmd = "STOPDT_CON" BY <1>3 DEF NewEpExt
<1> HIDE DEF b
<1>5. u.ep.u_cmd = b.ep.u_cmd BY <1>3, StartFacts DEF Sends, Timers
<1> HIDE DEF u
<1> QED BY <1>2, <1>4, <1>5 DEF Stays

LEMMA ExpiryStays ==
  ASSUME NEW r \in Effects, NEW t \in {"t0", "t1", "rc"}
  PROVE  Stays(r, Reconnect(StopTimer(r, t))) /\ Reconnect(StopTimer(r, t)) \in Effects
<1> DEFINE a == StopTimer(r, t)
           d == ToDn(a, Sys("RECONNECT"))
           b == InitEpExt(d)
           u == StartTimers(a, {"rc"})
<1>0. t \in Timers BY DEF Timers
<1>1. a \in Effects /\ a.ep.vr = r.ep.vr /\ a.ep.u_cmd = r.ep.u_cmd
  BY <1>0, StopFacts, SameVr
<1>2. Reconnect(a) = IF a.open THEN b ELSE u BY DEF Reconnect
<1> HIDE DEF a
<1>3. d \in Effects BY <1>1, MsgTypes, ToDnSends DEF SysMsgs, Sends
<1> HIDE DEF d
<1>4. b \in Effects /\ b.ep.u_cmd = "STOPDT_CON"
  <2>1. b \in Effects /\ b.ep = NewEpExt(d.ep.host_type)
    BY <1>3, InitGood DEF Good, Sound
  <2> HIDE DEF b
  <2> QED BY <2>1 DEF NewEpExt
<1>5. u \in Effects /\ u.ep.vr = a.ep.vr /\ u.ep.u_cmd = a.ep.u_cmd
  BY <1>1, StartFacts DEF Sends, Timers
<1> HIDE DEF b, u
<1> QED BY <1>1, <1>2, <1>4, <1>5 DEF Stays, a

\* SIGALRM takes no frame.
LEMMA AlarmStays ==
  ASSUME NEW r \in Effects, NEW expired
  PROVE  Stays(r, CatchAlarm(r, expired))
<1> DEFINE fires(s, t) == t \in expired \cap s.ep.timers
           r0 == IF fires(r, "t0") THEN Reconnect(StopTimer(r, "t0")) ELSE r
           r1 == IF fires(r0, "t1") THEN Reconnect(StopTimer(r0, "t1")) ELSE r0
           r2 == IF fires(r1, "t2") THEN FrameSSend(r1) ELSE r1
           r3 == IF fires(r2, "t3") THEN FrameUSend(r2, "TESTFR_ACT") ELSE r2
           r4 == IF fires(r3, "sync") THEN TimeSyncSend(r3) ELSE r3
           r5 == IF fires(r4, "rc") /\ expired \cap {"t0", "t1"} = {}
                 THEN Reconnect(StopTimer(r4, "rc")) ELSE r4
<1>0. CatchAlarm(r, expired) = r5 BY DEF CatchAlarm
<1> HIDE DEF fires
<1>r. \A x : Stays(x, x) BY DEF Stays
<1>s. \A x, y : Sends(x, y) => Stays(x, y) /\ y \in Effects BY SendsStays DEF Sends
<1>1. Stays(r, r0) /\ r0 \in Effects BY <1>r, ExpiryStays
<1> HIDE DEF r0
<1>2. Stays(r0, r1) /\ r1 \in Effects BY <1>1, <1>r, ExpiryStays
<1> HIDE DEF r1
<1>3. Stays(r1, r2) /\ r2 \in Effects BY <1>2, <1>r, <1>s, SSendSends
<1> HIDE DEF r2
<1>4. Stays(r2, r3) /\ r3 \in Effects BY <1>3, <1>r, <1>s, USendSends DEF UCmds
<1> HIDE DEF r3
<1>5. Stays(r3, r4) /\ r4 \in Effects BY <1>4, <1>r, <1>s, TimeSyncSends
<1> HIDE DEF r4
<1>6. Stays(r4, r5) BY <1>5, <1>r, ExpiryStays
<1> HIDE DEF r5
<1>7. Stays(r, r2) BY <1>1, <1>2, <1>3, StaysTrans
<1>8. Stays(r2, r5) BY <1>4, <1>5, <1>6, StaysTrans
<1> QED BY <1>0, <1>7, <1>8, StaysTrans

LEMMA SlavePays ==
  ASSUME IInv, [Next]_vars, NEW x \in Eps, ep[x].host_type = "SLAVE",
         ep'[x].vr # ep[x].vr, ep'[x].u_cmd = "STARTDT_CON"
  PROVE  Dist(ep'[x].vr, ep'[x].ar) < W
<1> DEFINE r == Cur(x)
<1>r. /\ Good(r) /\ r.open = Open(x) /\ r.ep = ep[x] /\ r \in Effects
      /\ r.ep.host_type = "SLAVE"
  BY CurGood DEF Good, Sound
<1>e. ep' # ep BY DEF vars
<1> SUFFICES ASSUME NEW e \in Eps,
                    \/ NewEndpoint(e) \/ SendConnect(e) \/ AsduRecv(e) \/ SysMsgRecvUp(e)
                    \/ SysMsgRecvDn(e) \/ RecvFrame(e) \/ Quit(e) \/ Alarm(e)
             PROVE  Dist(ep'[x].vr, ep'[x].ar) < W
  BY <1>e DEF Next, vars
<1>d. ep \in [Eps -> EpExt] BY DEF IInv, TypeOK
\* Only the end-point a handler runs for changes.
<1>h. ASSUME NEW s, NEW still, Step(e, s, still), e = x => Paid(r, s)
      PROVE  Dist(ep'[x].vr, ep'[x].ar) < W
  <2>1. ep' = [ep EXCEPT ![e] = s.ep] BY <1>h DEF Step
  <2>2. e = x BY <1>d, <2>1
  <2>3. ep'[x] = s.ep BY <1>d, <2>1, <2>2
  <2> QED BY <1>r, <1>h, <2>2, <2>3 DEF Paid
<1>1. CASE NewEndpoint(e) \/ SendConnect(e)
  BY <1>e, <1>1 DEF NewEndpoint, SendConnect
<1>2. CASE AsduRecv(e)
  <2>1. Paid(r, FrameISend(r, "DATA"))
    BY <1>r, ISendSends, SendsStays, StaysPaid DEF AsduTypes
  <2> QED BY <1>2, <1>h, <2>1 DEF AsduRecv
<1>3. CASE SysMsgRecvUp(e)
  <2>1. PICK m \in {"DCOLL_START", "CONNECT_CLOSE"} :
          Step(e, SysMsgFromUp(Cur(e), m), asked[e])
    BY <1>3 DEF SysMsgRecvUp
  <2>2. Paid(r, SysMsgFromUp(r, m))
    <3> HIDE DEF r
    <3>1. SysMsgFromUp(r, m) = r BY <1>r DEF SysMsgFromUp
    <3> QED BY <3>1 DEF Paid
  <2> QED BY <1>h, <2>1, <2>2
<1>4. CASE SysMsgRecvDn(e)
  <2>1. PICK m \in {"CONNECT_ACK", "CONNECT_NACK", "CONNECT_LOST"} :
          Step(e, SysMsgFromDn(Cur(e), m), FALSE)
    BY <1>4 DEF SysMsgRecvDn
  <2>2. Paid(r, SysMsgFromDn(r, m)) BY <1>r, SysMsgDnStays, StaysPaid
  <2> QED BY <1>h, <2>1, <2>2
<1>5. CASE RecvFrame(e)
  <2>1. PICK f \in Frames : Open(e) /\ Step(e, FrameRecv(Cur(e), f), asked[e])
    BY <1>5 DEF RecvFrame
  <2>2. e = x => Paid(r, FrameRecv(r, f)) BY <1>r, <2>1, FrameRecvPays
  <2> QED BY <1>h, <2>1, <2>2
<1>6. CASE Quit(e)
  <2>1. ep'[x] = StopTransfer(r).ep \/ ep'[x] = ep[x] BY <1>6 DEF Quit
  <2>2. FrameUSend(r, "STOPDT_ACT") \in Effects
    BY <1>r, USendSends DEF Sends, UCmds, UStates
  <2>3. StopTransfer(r).ep.u_cmd = "STOPDT_ACT" BY <2>2, SameVr DEF StopTransfer, UStates
  <2> QED BY <2>1, <2>3
<1>7. CASE Alarm(e)
  <2>1. PICK t \in SUBSET ep[e].timers : Step(e, CatchAlarm(Cur(e), t), asked[e])
    BY <1>7 DEF Alarm
  <2>2. Paid(r, CatchAlarm(r, t)) BY <1>r, AlarmStays, StaysPaid
  <2> QED BY <1>h, <2>1, <2>2
<1> QED BY <1>1, <1>2, <1>3, <1>4, <1>5, <1>6, <1>7

\* However many frames a slave took while it was stopped, taking one in data
\* transfer leaves it owing fewer than W confirmations.
THEOREM SlaveAcksHolds == Spec => SlaveAcks
<1> DEFINE A == \A e \in Eps :
             (ep[e].host_type = "SLAVE" /\ ep'[e].vr # ep[e].vr /\ ep'[e].u_cmd = "STARTDT_CON")
               => Dist(ep'[e].vr, ep'[e].ar) < W
<1>1. IInv /\ [Next]_vars => [A]_vars BY SlavePays
<1>2. SlaveAcks <=> [][A]_vars BY DEF SlaveAcks
<1> HIDE DEF A
<1> QED BY <1>1, <1>2, Invariance, PTL DEF Spec
=============================================================================
