--------------------------- MODULE M700BusProofs ---------------------------
(***************************************************************************)
(* Proofs about unitlink-m700 on shared lines, for any number of meters,   *)
(* commands and lines, and any wiring: a closed line has a meter that will *)
(* have it opened, somebody goes on with the collection, what is passed up *)
(* as a meter's came from it, and at the end of a collection everything    *)
(* that the first meter of a line answered has been passed up.             *)
(*                                                                         *)
(* A handler of m700 extends an effect record (Goes).  The line of a meter *)
(* is opened again because its last message is a refusal, or it remembers  *)
(* one in its timer, or it has asked (Reopens): an acknowledgement counts  *)
(* only if nothing comes after it.                                         *)
(*                                                                         *)
(* The answer to the request under way is followed (Under) from the        *)
(* request over the meter that hears it, the wire, what was read last, its *)
(* copies in the FIFO and recv_buff: nothing else is on its way to the     *)
(* first meter of a line, and nothing is behind its end.                   *)
(***************************************************************************)
EXTENDS M700Bus, SequenceTheorems, WellFoundedInduction, TLAPS

(***************************************************************************)
(* Numbers                                                                 *)
(***************************************************************************)
\* A set of natural numbers that is not empty has a least element.
LEMMA LeastElement ==
  ASSUME NEW T, T \subseteq Nat, T # {}
  PROVE  \E x \in T : \A y \in T : x <= y
<1> DEFINE R == OpToRel(<, Nat)
<1>1. IsWellFoundedOn(R, Nat) BY NatLessThanWellFounded
<1>2. \A x, y \in Nat : x < y => <<x, y>> \in R BY DEF OpToRel
<1> HIDE DEF R
<1>3. PICK x \in T : \A y \in T : ~ (<<y, x>> \in R) BY <1>1, WFMin
<1>4. ASSUME NEW y \in T PROVE x <= y
  <2>1. ~(y < x) BY <1>2, <1>3
  <2> QED BY <2>1
<1> QED BY <1>4

\* Min of the community modules is the least element.
LEMMA MinIsLeast ==
  ASSUME NEW S, S \subseteq Nat, S # {}
  PROVE  Min(S) \in S /\ \A x \in S : Min(S) <= x
<1>1. \E x \in S : \A y \in S : x <= y BY LeastElement
<1> QED BY <1>1 DEF Min

\* Induction: a set that holds 0 and with every natural number the next one holds
\* them all.
LEMMA Induct ==
  ASSUME NEW S, 0 \in S, \A n \in Nat : n \in S => n + 1 \in S
  PROVE  Nat \subseteq S
<1> DEFINE T == Nat \ S
<1> SUFFICES ASSUME T # {} PROVE FALSE OBVIOUS
<1>1. PICK x \in T : \A y \in T : x <= y BY LeastElement
<1>2. x # 0 /\ x - 1 \in Nat OBVIOUS
<1>3. x - 1 \notin T BY <1>1, <1>2
<1>4. (x - 1) + 1 \in S BY <1>2, <1>3
<1> QED BY <1>2, <1>4

(***************************************************************************)
(* The types and operators                                                 *)
(***************************************************************************)
DnMsgs == [type : {"READ_DATA", "CONNECT", "RECONNECT"}, dev : Devs, item : 0 .. MaxItems]
Datas == [type : {"DATA"}, dev : Devs, item : 1 .. MaxItems]
UpMsgs == [type : {"USER_DATA", "CONNECT_ACK", "CONNECT_NACK", "CONNECT_LOST"}, dev : Devs,
           chunk : Seq(Pieces)]

Collector ==
  [timer_recv : TimerStates, timer_dcoll : TimerStates, stopped : BOOLEAN,
   ep_idx : 0 .. NDev, data_idx : 0 .. MaxItems, buf : Seq(Pieces),
   tx_ready : [Devs -> BOOLEAN], timer_rc : [Devs -> TimerStates], n : [Devs -> 0 .. MaxItems]]

Effects == [g : Collector, dn : Seq(DnMsgs), up : Seq(Datas)]

\* An item is collected of a meter.
Placed(g) == g.data_idx # 0 => g.ep_idx # 0

GoesOn(g) == g.stopped \/ g.timer_recv # "off" \/ g.timer_dcoll # "off"

\* A connection is asked for.
Asked(q, d) == \E k \in 1 .. Len(q) : q[k].type # "READ_DATA" /\ q[k].dev = d

LEMMA Constants == /\ NDev \in Nat /\ NDev > 0 /\ MaxItems \in Nat /\ MaxWire \in Nat
                   /\ Devs = 1 .. NDev /\ Routes = Devs /\ NoRoute = 0
  BY CollectorAssumption, BusAssumption DEF Devs, Routes, NoRoute

(***************************************************************************)
(* The operators                                                           *)
(***************************************************************************)
\* How a handler goes from one effect record to the next.
Goes(r, s) ==
  /\ s \in Effects
  /\ \A d \in Devs : \/ s.g.timer_rc[d] = r.g.timer_rc[d] \/ Asked(s.dn, d)
  /\ \A d \in Devs : Asked(r.dn, d) => Asked(s.dn, d)

LEMMA GoesTrans ==
  ASSUME NEW r, NEW s, NEW t, Goes(r, s), Goes(s, t)
  PROVE  Goes(r, t)
  BY DEF Goes

LEMMA AppendFacts ==
  ASSUME NEW S, NEW q \in Seq(S), NEW m
  PROVE  /\ Len(q) \in Nat /\ Len(Append(q, m)) = Len(q) + 1
         /\ \A k \in 1 .. Len(q) : Append(q, m)[k] = q[k]
         /\ Append(q, m)[Len(q) + 1] = m
         /\ m \in S => Append(q, m) \in Seq(S)
  OBVIOUS

LEMMA ToDnFacts ==
  ASSUME NEW r \in Effects, NEW m \in DnMsgs
  PROVE  /\ ToDn(r, m) \in Effects /\ ToDn(r, m).g = r.g /\ ToDn(r, m).up = r.up
         /\ ToDn(r, m).dn # r.dn
         /\ m.type # "READ_DATA" => Asked(ToDn(r, m).dn, m.dev)
         /\ Goes(r, ToDn(r, m))
<1> DEFINE q == r.dn
           p == Append(q, m)
           s == ToDn(r, m)
<1>1. q \in Seq(DnMsgs) BY DEF Effects
<1>2. s = [r EXCEPT !.dn = p] BY DEF ToDn
<1> HIDE DEF q, p, s
<1>3. /\ Len(q) \in Nat /\ Len(p) = Len(q) + 1
      /\ \A k \in 1 .. Len(q) : p[k] = q[k]
      /\ p[Len(q) + 1] = m
      /\ p \in Seq(DnMsgs)
  BY <1>1, AppendFacts DEF p
<1>4. s \in Effects /\ s.g = r.g /\ s.up = r.up /\ s.dn = p BY <1>2, <1>3 DEF Effects
<1>5. Len(p) # Len(q) BY <1>3
<1>6. ASSUME NEW d \in Devs, Asked(q, d) PROVE Asked(p, d)
  <2>1. PICK k \in 1 .. Len(q) : q[k].type # "READ_DATA" /\ q[k].dev = d BY <1>6 DEF Asked
  <2>2. k \in 1 .. Len(p) /\ p[k] = q[k] BY <1>3
  <2> QED BY <2>1, <2>2 DEF Asked
<1>7. m.type # "READ_DATA" => Asked(p, m.dev)
  <2>1. Len(q) + 1 \in 1 .. Len(p) BY <1>3
  <2> QED BY <1>3, <2>1 DEF Asked
<1> QED BY <1>4, <1>5, <1>6, <1>7 DEF Goes, s, q

LEMMA DroppedFacts ==
  ASSUME NEW r \in Effects
  PROVE  /\ Dropped(r) \in Effects
         /\ Dropped(r).dn = r.dn /\ Dropped(r).up = r.up
         /\ Dropped(r).g = [r.g EXCEPT !.timer_recv = "off", !.buf = <<>>]
         /\ Goes(r, Dropped(r))
<1> DEFINE s == Dropped(r)
<1>1. <<>> \in Seq(Pieces) OBVIOUS
<1>2. s \in Effects BY <1>1 DEF Dropped, Effects, Collector, TimerStates
<1>3. s.dn = r.dn /\ s.up = r.up /\ s.g = [r.g EXCEPT !.timer_recv = "off", !.buf = <<>>]
  BY DEF Dropped, Effects
<1>4. s.g.timer_rc = r.g.timer_rc BY <1>3 DEF Effects, Collector
<1> HIDE DEF s
<1>5. Goes(r, s) BY <1>2, <1>3, <1>4 DEF Goes
<1> QED BY <1>2, <1>3, <1>5 DEF s
\* Whatever m700 does to the collection, somebody goes on with it; what has been
\* passed up and who is connected stay.
Collects(r, s) == /\ Goes(r, s) /\ s.up = r.up
                  /\ s.g.tx_ready = r.g.tx_ready /\ s.g.timer_rc = r.g.timer_rc /\ s.g.n = r.g.n
                  /\ Placed(s.g) /\ GoesOn(s.g)

LEMMA AskFacts ==
  ASSUME NEW r \in Effects, NEW d \in Devs, NEW i \in 1 .. MaxItems, r.g.tx_ready[d]
  PROVE  Collects(r, ReadDataSend([r EXCEPT !.g.ep_idx = d, !.g.data_idx = i], d, i))
<1> DEFINE x == [r EXCEPT !.g.ep_idx = d, !.g.data_idx = i]
           m == Msg("READ_DATA", d, i)
           y == Dropped(x)
           t == ToDn(y, m)
           u == [t EXCEPT !.g.timer_recv = "on"]
           s == ReadDataSend(x, d, i)
<1>1. d \in 0 .. NDev /\ i \in 0 .. MaxItems /\ d # 0 /\ m.dev = d BY Constants DEF Msg
<1>2. m \in DnMsgs BY <1>1 DEF Msg, DnMsgs
<1>3. x \in Effects BY <1>1 DEF Effects, Collector
<1>4. /\ x.dn = r.dn /\ x.up = r.up /\ x.g.ep_idx = d
      /\ x.g.timer_recv = r.g.timer_recv /\ x.g.timer_rc = r.g.timer_rc
      /\ x.g.n = r.g.n /\ x.g.tx_ready = r.g.tx_ready
  BY <1>1 DEF Effects, Collector
<1> HIDE DEF x, m
<1>5. Goes(r, x) BY <1>3, <1>4 DEF Goes
<1>6. CASE Waiting(x.g)
  <2>1. s = x BY <1>6 DEF ReadDataSend
  <2>2. GoesOn(x.g) BY <1>6 DEF GoesOn, Waiting
  <2>3. Placed(x.g) BY <1>1, <1>4 DEF Placed
  <2> HIDE DEF s
  <2>4. Collects(r, s) BY <1>4, <1>5, <2>1, <2>2, <2>3 DEF Collects
  <2> QED BY <2>4 DEF s, x
<1>7. CASE ~Waiting(x.g)
  <2>1. /\ y \in Effects /\ y.dn = x.dn /\ y.up = x.up
        /\ y.g = [x.g EXCEPT !.timer_recv = "off", !.buf = <<>>]
        /\ Goes(x, y)
    BY <1>3, DroppedFacts
  <2>2. /\ y.g.ep_idx = x.g.ep_idx /\ y.g.timer_rc = x.g.timer_rc
        /\ y.g.n = x.g.n /\ y.g.tx_ready = x.g.tx_ready
    BY <1>3, <2>1 DEF Effects, Collector
  <2>3. y.g.tx_ready[m.dev] BY <1>1, <1>4, <2>2
  <2>4. s = IF t.dn # x.dn THEN u ELSE t BY <1>7, <2>3 DEF ReadDataSend, FrameSend, m
  <2> HIDE DEF y
  <2>5. t \in Effects /\ t.g = y.g /\ t.up = y.up /\ t.dn # y.dn /\ Goes(y, t)
    BY <1>2, <2>1, ToDnFacts
  <2> HIDE DEF t, s
  <2>6. s = u BY <2>1, <2>4, <2>5
  <2>7. u \in Effects BY <2>5 DEF Effects, Collector, TimerStates
  <2>8. /\ u.dn = t.dn /\ u.up = t.up /\ u.g.ep_idx = t.g.ep_idx /\ u.g.timer_recv = "on"
        /\ u.g.timer_rc = t.g.timer_rc /\ u.g.n = t.g.n /\ u.g.tx_ready = t.g.tx_ready
    BY <2>5 DEF Effects, Collector
  <2> HIDE DEF u
  <2>9. Goes(t, u) BY <2>7, <2>8 DEF Goes
  <2>10. Goes(r, u) BY <1>5, <2>1, <2>5, <2>9, GoesTrans
  <2>11. Placed(u.g) /\ GoesOn(u.g) BY <1>1, <1>4, <2>2, <2>5, <2>8 DEF Placed, GoesOn
  <2>12. Collects(r, s) BY <1>4, <2>1, <2>2, <2>5, <2>6, <2>8, <2>10, <2>11 DEF Collects
  <2> QED BY <2>12 DEF s, x
<1> QED BY <1>6, <1>7

LEMMA CollectDataFacts ==
  ASSUME NEW r \in Effects, Placed(r.g)
  PROVE  Collects(r, CollectData(r))
<1> DEFINE g == r.g
           later == {d \in Devs : d > g.ep_idx /\ g.tx_ready[d] /\ g.n[d] > 0}
           more == g.data_idx # 0 /\ g.tx_ready[g.ep_idx] /\ g.data_idx < g.n[g.ep_idx]
           end == [r EXCEPT !.g.ep_idx = 0, !.g.data_idx = 0, !.g.timer_dcoll = "on"]
           ask(d, i) == ReadDataSend([r EXCEPT !.g.ep_idx = d, !.g.data_idx = i], d, i)
<1>1. CollectData(r) = IF g.stopped \/ g.timer_dcoll # "off" THEN r
                       ELSE IF more THEN ask(g.ep_idx, g.data_idx + 1)
                       ELSE IF later # {} THEN ask(Min(later), 1) ELSE end
  BY DEF CollectData
<1>2. /\ g.ep_idx \in 0 .. NDev /\ g.data_idx \in 0 .. MaxItems
      /\ g.n \in [Devs -> 0 .. MaxItems] /\ g.tx_ready \in [Devs -> BOOLEAN]
  BY DEF Effects, Collector
<1>3. ASSUME NEW d \in Devs, NEW i \in 1 .. MaxItems, g.tx_ready[d] PROVE Collects(r, ask(d, i))
  BY <1>3, AskFacts
<1> HIDE DEF ask
<1>4. CASE g.stopped \/ g.timer_dcoll # "off"
  <2>1. Goes(r, r) BY DEF Goes
  <2>2. GoesOn(r.g) BY <1>4 DEF GoesOn
  <2>3. Collects(r, r) BY <2>1, <2>2 DEF Collects
  <2> QED BY <1>1, <1>4, <2>3
<1>5. CASE ~(g.stopped \/ g.timer_dcoll # "off") /\ more
  <2>1. g.ep_idx \in Devs BY <1>2, <1>5, Constants DEF Placed
  <2>2. g.data_idx + 1 \in 1 .. MaxItems
    <3>1. g.n[g.ep_idx] \in 0 .. MaxItems BY <1>2, <2>1
    <3>2. g.data_idx < g.n[g.ep_idx] BY <1>5
    <3>3. ASSUME NEW k \in 0 .. MaxItems, NEW n \in 0 .. MaxItems, k < n
          PROVE  k + 1 \in 1 .. MaxItems
      BY <3>3, Constants
    <3> HIDE DEF g, more
    <3> QED BY <1>2, <3>1, <3>2, <3>3
  <2>0. g.tx_ready[g.ep_idx] BY <1>5
  <2> HIDE DEF g, more
  <2>3. Collects(r, ask(g.ep_idx, g.data_idx + 1)) BY <1>3, <2>0, <2>1, <2>2
  <2> QED BY <1>1, <1>5, <2>3
<1>6. CASE ~(g.stopped \/ g.timer_dcoll # "off") /\ ~more /\ later # {}
  <2>1. later \subseteq Nat BY Constants
  <2>2. Min(later) \in later BY <1>6, <2>1, MinIsLeast
  <2> DEFINE e == Min(later)
  <2> HIDE DEF e
  <2>3. e \in Devs /\ g.tx_ready[e] /\ g.n[e] > 0 BY <2>2 DEF e
  <2>4. 1 \in 1 .. MaxItems
    <3>1. g.n[e] \in 0 .. MaxItems BY <1>2, <2>3
    <3> QED BY <2>3, <3>1, Constants
  <2>5. Collects(r, ask(e, 1)) BY <1>3, <2>3, <2>4
  <2> QED BY <1>1, <1>6, <2>5 DEF e
<1>7. CASE ~(g.stopped \/ g.timer_dcoll # "off") /\ ~more /\ later = {}
  <2>1. 0 \in 0 .. NDev /\ 0 \in 0 .. MaxItems BY Constants
  <2>2. end \in Effects BY <2>1 DEF Effects, Collector, TimerStates
  <2>3. /\ end.dn = r.dn /\ end.up = r.up /\ end.g.timer_rc = r.g.timer_rc
        /\ end.g.n = r.g.n /\ end.g.tx_ready = r.g.tx_ready
        /\ end.g.data_idx = 0 /\ end.g.timer_dcoll = "on"
    BY DEF Effects, Collector
  <2>4. CollectData(r) = end BY <1>1, <1>7
  <2> HIDE DEF end
  <2>5. Goes(r, end) BY <2>2, <2>3 DEF Goes
  <2>6. Collects(r, end) BY <2>3, <2>5 DEF Collects, Placed, GoesOn
  <2> QED BY <2>4, <2>6
<1> QED BY <1>4, <1>5, <1>6, <1>7
\* What a handler that is not about one meter does: it goes on if somebody did.
Keeps(r, s) == /\ Goes(r, s) /\ s.up = r.up
               /\ Placed(s.g)
               /\ GoesOn(r.g) => GoesOn(s.g)

LEMMA KeepsTrans ==
  ASSUME NEW r, NEW s, NEW t, Keeps(r, s), Keeps(s, t)
  PROVE  Keeps(r, t)
  BY GoesTrans DEF Keeps

LEMMA InitEpExtFacts ==
  ASSUME NEW r \in Effects, NEW d \in Devs
  PROVE  /\ InitEpExt(r, d) \in Effects
         /\ InitEpExt(r, d).dn = r.dn /\ InitEpExt(r, d).up = r.up
         /\ InitEpExt(r, d).g = [r.g EXCEPT !.tx_ready[d] = FALSE, !.timer_rc[d] = "off"]
<1> DEFINE s == InitEpExt(r, d)
<1>1. s \in Effects BY DEF InitEpExt, Effects, Collector, TimerStates
<1>2. s.dn = r.dn /\ s.up = r.up /\ s.g = [r.g EXCEPT !.tx_ready[d] = FALSE, !.timer_rc[d] = "off"]
  BY DEF InitEpExt, Effects, Collector
<1> QED BY <1>1, <1>2

LEMMA CollectorAlarmKeeps ==
  ASSUME NEW r \in Effects, Placed(r.g)
  PROVE  Keeps(r, CollectorAlarm(r))
<1> DEFINE missed == r.g.timer_recv = "due"
           r1 == IF missed THEN Dropped(r) ELSE r
           asks == missed /\ ~r.g.stopped /\ r.g.timer_dcoll = "off"
           skip == [r1 EXCEPT !.g.data_idx = 0]
           r2 == IF asks THEN CollectData(skip) ELSE r1
           wake == [r2 EXCEPT !.g.timer_dcoll = "off"]
<1>1. CollectorAlarm(r) = IF r2.g.timer_dcoll = "due" THEN CollectData(wake) ELSE r2
  BY DEF CollectorAlarm
<1>2. /\ r1 \in Effects /\ r1.up = r.up /\ Goes(r, r1)
      /\ r1.g.ep_idx = r.g.ep_idx /\ r1.g.data_idx = r.g.data_idx
      /\ r1.g.stopped = r.g.stopped /\ r1.g.timer_dcoll = r.g.timer_dcoll
      /\ ~missed => r1 = r
  <2>1. CASE missed
    <3>1. /\ r1 \in Effects /\ r1.up = r.up /\ Goes(r, r1)
          /\ r1.g = [r.g EXCEPT !.timer_recv = "off", !.buf = <<>>]
      BY <2>1, DroppedFacts
    <3> HIDE DEF r1
    <3> QED BY <2>1, <3>1 DEF Effects, Collector
  <2>2. CASE ~missed BY <2>2 DEF Goes
  <2> QED BY <2>1, <2>2
<1> HIDE DEF r1
<1>3. Keeps(r, r2)
  <2>1. CASE asks
    <3>1. 0 \in 0 .. MaxItems BY Constants
    <3>2. skip \in Effects BY <1>2, <3>1 DEF Effects, Collector
    <3>3. /\ skip.dn = r1.dn /\ skip.up = r1.up /\ skip.g.timer_rc = r1.g.timer_rc
          /\ skip.g.data_idx = 0
      BY <1>2 DEF Effects, Collector
    <3>4. r2 = CollectData(skip) BY <2>1
    <3> HIDE DEF skip, r2
    <3>5. Goes(r1, skip) /\ Placed(skip.g) BY <3>2, <3>3 DEF Goes, Placed
    <3>6. Collects(skip, r2) BY <3>2, <3>4, <3>5, CollectDataFacts
    <3>7. Goes(r, r2) BY <1>2, <3>5, <3>6, GoesTrans DEF Collects
    <3> QED BY <1>2, <3>3, <3>6, <3>7 DEF Collects, Keeps
  <2>2. CASE ~asks
    <3>1. r2 = r1 BY <2>2
    <3>2. Placed(r1.g) BY <1>2 DEF Placed
    <3>3. GoesOn(r.g) => GoesOn(r1.g) BY <1>2, <2>2 DEF GoesOn
    <3> HIDE DEF r2
    <3> QED BY <1>2, <3>1, <3>2, <3>3 DEF Keeps
  <2> QED BY <2>1, <2>2
<1> HIDE DEF r2
<1>4. CASE r2.g.timer_dcoll = "due"
  <2>0. r2 \in Effects BY <1>3 DEF Keeps, Goes
  <2>1. wake \in Effects BY <2>0 DEF Effects, Collector, TimerStates
  <2>2. /\ wake.dn = r2.dn /\ wake.up = r2.up /\ wake.g.timer_rc = r2.g.timer_rc
        /\ wake.g.data_idx = r2.g.data_idx /\ wake.g.ep_idx = r2.g.ep_idx
    BY <2>0 DEF Effects, Collector
  <2> HIDE DEF wake
  <2>3. Goes(r2, wake) /\ Placed(wake.g) BY <1>3, <2>1, <2>2 DEF Goes, Keeps, Placed
  <2>4. Collects(wake, CollectData(wake)) BY <2>1, <2>3, CollectDataFacts
  <2> DEFINE s == CollectData(wake)
  <2> HIDE DEF s
  <2>5. Collects(wake, s) BY <2>4 DEF s
  <2>6. Keeps(r2, s) BY <2>2, <2>3, <2>5, GoesTrans DEF Collects, Keeps
  <2>7. Keeps(r, s) BY <1>3, <2>6, KeepsTrans
  <2> QED BY <1>1, <1>4, <2>7 DEF s
<1>5. CASE r2.g.timer_dcoll # "due" BY <1>1, <1>3, <1>5
<1> QED BY <1>4, <1>5

LEMMA DeviceAlarmKeeps ==
  ASSUME NEW r \in Effects, Placed(r.g), NEW d \in Devs
  PROVE  Keeps(r, DeviceAlarm(r, d))
<1>1. Keeps(r, r) BY DEF Keeps, Goes
<1> DEFINE m == Msg("RECONNECT", d, 0)
           x == InitEpExt(r, d)
           s == ToDn(x, m)
<1>2. m \in DnMsgs /\ m.type # "READ_DATA" /\ m.dev = d BY Constants DEF Msg, DnMsgs
<1>3. DeviceAlarm(r, d) = IF r.g.timer_rc[d] = "due" THEN s ELSE r BY DEF DeviceAlarm
<1> HIDE DEF m
<1>4. /\ x \in Effects /\ x.dn = r.dn /\ x.up = r.up
      /\ x.g = [r.g EXCEPT !.tx_ready[d] = FALSE, !.timer_rc[d] = "off"]
  BY InitEpExtFacts
<1> HIDE DEF x
<1>5. /\ x.g.ep_idx = r.g.ep_idx /\ x.g.data_idx = r.g.data_idx /\ x.g.stopped = r.g.stopped
      /\ x.g.timer_recv = r.g.timer_recv /\ x.g.timer_dcoll = r.g.timer_dcoll
      /\ \A e \in Devs : e # d => x.g.timer_rc[e] = r.g.timer_rc[e]
  BY <1>4 DEF Effects, Collector
<1>6. /\ s \in Effects /\ s.g = x.g /\ s.up = x.up
      /\ Asked(s.dn, d) /\ Goes(x, s)
  BY <1>2, <1>4, ToDnFacts
<1> HIDE DEF s
<1>7. Goes(r, s) BY <1>4, <1>5, <1>6 DEF Goes
<1>8. Keeps(r, s) BY <1>4, <1>5, <1>6, <1>7 DEF Keeps, Placed, GoesOn
<1> QED BY <1>1, <1>3, <1>8

\* The loop over ep_exts, unfolded: the collector's alarm, and one meter's after the other.
LEMMA CatchAlarmLoop ==
  ASSUME NEW r
  PROVE  \E f : /\ f[0] = CollectorAlarm(r)
                /\ \A d \in 1 .. NDev : f[d] = DeviceAlarm(f[d - 1], d)
                /\ CatchAlarm(r) = f[NDev]
<1> DEFINE c == CollectorAlarm(r)
           Is(f, n) == f = [d \in 0 .. n |-> IF d = 0 THEN c ELSE DeviceAlarm(f[d - 1], d)]
           S == {n \in Nat : \E f : Is(f, n)}
<1> HIDE DEF c
<1>1. 0 \in S
  <2> DEFINE f == [d \in 0 .. 0 |-> c]
  <2>1. f = [d \in 0 .. 0 |-> IF d = 0 THEN c ELSE DeviceAlarm(f[d - 1], d)] OBVIOUS
  <2>2. Is(f, 0) BY <2>1
  <2> QED BY <2>2
<1>2. ASSUME NEW n \in Nat, n \in S PROVE n + 1 \in S
  <2>1. PICK f : Is(f, n) BY <1>2
  <2> DEFINE g == [d \in 0 .. n + 1 |-> IF d <= n THEN f[d] ELSE DeviceAlarm(f[n], n + 1)]
             h == [d \in 0 .. n + 1 |-> IF d = 0 THEN c ELSE DeviceAlarm(g[d - 1], d)]
  <2>2. \A d \in 0 .. n : f[d] = IF d = 0 THEN c ELSE DeviceAlarm(f[d - 1], d) BY <2>1
  <2>3. ASSUME NEW d \in 0 .. n + 1 PROVE g[d] = h[d]
    <3>1. CASE d = 0 BY <3>1, <2>2
    <3>2. CASE d \in 1 .. n BY <3>2, <2>2
    <3>3. CASE d = n + 1 BY <3>3, <2>2
    <3> QED BY <3>1, <3>2, <3>3
  <2>4. g = h BY <2>3
  <2>5. Is(g, n + 1) BY <2>4
  <2> HIDE DEF g, h, Is
  <2>6. \E x : Is(x, n + 1) BY <2>5
  <2>7. n + 1 \in Nat OBVIOUS
  <2> QED BY <2>6, <2>7
<1> HIDE DEF S
<1>3. NDev \in S BY <1>1, <1>2, Induct, Constants
<1>4. PICK f : Is(f, NDev) BY <1>3 DEF S
<1> DEFINE after == CHOOSE x : Is(x, NDev)
<1>5. Is(after, NDev) BY <1>4
<1>6. CatchAlarm(r) = after[NDev] BY DEF CatchAlarm, c
<1> HIDE DEF after
<1>7. after[0] = c BY <1>5, Constants
<1>8. \A d \in 1 .. NDev : after[d] = DeviceAlarm(after[d - 1], d) BY <1>5, Constants
<1> QED BY <1>6, <1>7, <1>8 DEF c

LEMMA CatchAlarmKeeps ==
  ASSUME NEW r \in Effects, Placed(r.g)
  PROVE  Keeps(r, CatchAlarm(r))
<1>1. PICK f : /\ f[0] = CollectorAlarm(r)
               /\ \A d \in 1 .. NDev : f[d] = DeviceAlarm(f[d - 1], d)
               /\ CatchAlarm(r) = f[NDev]
  BY CatchAlarmLoop
<1> DEFINE S == {n \in Nat : n <= NDev => Keeps(r, f[n])}
<1>2. 0 \in S BY <1>1, CollectorAlarmKeeps
<1>3. ASSUME NEW n \in Nat, n \in S PROVE n + 1 \in S
  <2>1. SUFFICES ASSUME n + 1 <= NDev PROVE Keeps(r, f[n + 1]) OBVIOUS
  <2>2. n <= NDev /\ n + 1 \in 1 .. NDev /\ (n + 1) - 1 = n BY <2>1, Constants
  <2>3. Keeps(r, f[n]) BY <1>3, <2>2
  <2>4. f[n + 1] = DeviceAlarm(f[n], n + 1) BY <1>1, <2>2
  <2>5. f[n] \in Effects /\ Placed(f[n].g) BY <2>3 DEF Keeps, Goes
  <2>6. Keeps(f[n], f[n + 1]) BY <2>2, <2>4, <2>5, DeviceAlarmKeeps, Constants
  <2> QED BY <2>3, <2>6, KeepsTrans
<1> HIDE DEF S
<1>4. NDev \in S BY <1>2, <1>3, Induct, Constants
<1> QED BY <1>1, <1>4, Constants DEF S
(***************************************************************************)
(* What is read                                                            *)
(***************************************************************************)
\* A piece of the meter, about the item, is among those read.
Comes(buf, f) == \E k \in 1 .. Len(buf) : buf[k].dev = f.dev /\ buf[k].item = f.item

LEMMA FoundFacts ==
  ASSUME NEW buf \in Seq(Pieces), NEW f \in Found(buf)
  PROVE  f.dev \in Devs /\ f.item \in 1 .. MaxItems /\ Comes(buf, f)
<1> DEFINE heads == {k \in DOMAIN buf : buf[k].part = "head"}
           h == Min(heads)
           F == [dev |-> buf[h].dev, item |-> buf[h].item]
<1>1. DOMAIN buf = 1 .. Len(buf) /\ Len(buf) \in Nat OBVIOUS
<1>2. heads # {} /\ f \in {x \in {F} : SubSeq(buf, h, h + 1) = Answer(x.dev, x.item)} BY DEF Found
<1>3. f = F BY <1>2
<1>4. heads \subseteq Nat BY <1>1
<1>5. h \in heads BY <1>2, <1>4, MinIsLeast
<1> HIDE DEF h
<1>6. h \in 1 .. Len(buf) /\ buf[h] \in Pieces BY <1>1, <1>5
<1> QED BY <1>3, <1>6 DEF Pieces, Comes

LEMMA ToUpFacts ==
  ASSUME NEW r \in Effects, r.up = <<>>, NEW m \in Datas
  PROVE  Goes(r, ToUp(r, m)) /\ ToUp(r, m).g = r.g /\ ToUp(r, m).up = <<m>>
<1> DEFINE q == <<m>>
           s == ToUp(r, m)
<1>1. Append(<<>>, m) = q OBVIOUS
<1>2. q \in Seq(Datas) OBVIOUS
<1>3. s = [r EXCEPT !.up = q] BY <1>1 DEF ToUp
<1> HIDE DEF q, s
<1>4. s \in Effects /\ s.g = r.g /\ s.dn = r.dn /\ s.up = q BY <1>2, <1>3 DEF Effects
<1>5. Goes(r, s) BY <1>4 DEF Goes
<1> QED BY <1>4, <1>5 DEF q, s

\* A frame passes up at most one datum, of a meter from which a piece was read.
LEMMA FrameRecvFacts ==
  ASSUME NEW r \in Effects, Placed(r.g), r.up = <<>>, NEW adr \in Devs, NEW chunk \in Seq(Pieces)
  PROVE  /\ Goes(r, FrameRecv(r, adr, chunk)) /\ Placed(FrameRecv(r, adr, chunk).g)
         /\ GoesOn(r.g) => GoesOn(FrameRecv(r, adr, chunk).g) \/ r.g.timer_recv = "due"
         /\ \/ FrameRecv(r, adr, chunk).up = <<>>
            \/ \E f : /\ f.dev \in Devs /\ f.item \in 1 .. MaxItems /\ Comes(r.g.buf \o chunk, f)
                      /\ FrameRecv(r, adr, chunk).up = <<Msg("DATA", f.dev, f.item)>>
<1> DEFINE buf == r.g.buf \o chunk
           of == CHOOSE f \in Found(buf) : TRUE
           m == Msg("DATA", of.dev, of.item)
           x == Dropped(r)
           y == IF of.dev = r.g.ep_idx THEN ToUp(x, m) ELSE x
           s == FrameRecv(r, adr, chunk)
<1>1. s = IF ~Waiting(r.g) THEN x
          ELSE IF adr # r.g.ep_idx THEN r
          ELSE IF Found(buf) = {} THEN [r EXCEPT !.g.buf = buf]
          ELSE CollectData(y)
  BY DEF FrameRecv
<1>2. /\ x \in Effects /\ x.up = <<>> /\ Goes(r, x)
      /\ x.g = [r.g EXCEPT !.timer_recv = "off", !.buf = <<>>]
  BY DroppedFacts
<1>3. /\ x.g.timer_recv = "off" /\ x.g.timer_dcoll = r.g.timer_dcoll /\ x.g.stopped = r.g.stopped
      /\ Placed(x.g)
  BY <1>2 DEF Effects, Collector, Placed
<1> HIDE DEF x
<1>4. buf \in Seq(Pieces) BY DEF Effects, Collector
<1>5. CASE ~Waiting(r.g)
  <2>1. s = x BY <1>1, <1>5
  <2>2. GoesOn(r.g) => GoesOn(x.g) \/ r.g.timer_recv = "due"
    <3>1. r.g.timer_recv \in {"off", "due"} BY <1>5 DEF Effects, Collector, TimerStates, Waiting
    <3> QED BY <1>3, <3>1 DEF GoesOn
  <2> HIDE DEF s
  <2>3. Goes(r, s) /\ Placed(s.g) /\ s.up = <<>> /\ (GoesOn(r.g) => GoesOn(s.g) \/ r.g.timer_recv = "due")
    BY <1>2, <1>3, <2>1, <2>2
  <2> QED BY <2>3 DEF s
<1>6. CASE Waiting(r.g) /\ adr # r.g.ep_idx
  <2>1. s = r /\ Goes(r, r) BY <1>1, <1>6 DEF Goes
  <2> QED BY <2>1
<1>7. CASE Waiting(r.g) /\ adr = r.g.ep_idx /\ Found(buf) = {}
  <2> HIDE DEF buf
  <2> DEFINE z == [r EXCEPT !.g.buf = buf]
  <2>1. s = z BY <1>1, <1>7
  <2>2. z \in Effects BY <1>4 DEF Effects, Collector
  <2>3. /\ z.dn = r.dn /\ z.up = r.up /\ z.g.timer_rc = r.g.timer_rc
        /\ z.g.ep_idx = r.g.ep_idx /\ z.g.data_idx = r.g.data_idx
        /\ z.g.timer_recv = r.g.timer_recv /\ z.g.timer_dcoll = r.g.timer_dcoll
        /\ z.g.stopped = r.g.stopped
    BY DEF Effects, Collector
  <2> HIDE DEF z, s
  <2>4. Goes(r, s) /\ Placed(s.g) /\ s.up = <<>> /\ (GoesOn(r.g) => GoesOn(s.g))
    BY <2>1, <2>2, <2>3 DEF Goes, Placed, GoesOn
  <2> QED BY <2>4 DEF s
<1>8. CASE Waiting(r.g) /\ adr = r.g.ep_idx /\ Found(buf) # {}
  <2>1. of \in Found(buf) BY <1>8
  <2> HIDE DEF buf
  <2>2. of.dev \in Devs /\ of.item \in 1 .. MaxItems /\ Comes(buf, of) BY <1>4, <2>1, FoundFacts
  <2>3. m \in Datas BY <2>2 DEF Msg, Datas
  <2>4. s = CollectData(y) BY <1>1, <1>8
  <2> HIDE DEF of
  <2>5. Goes(x, x) BY <1>2 DEF Goes
  <2>6. Goes(x, y) /\ y.g = x.g /\ y.up \in {<<>>, <<m>>} BY <1>2, <2>3, <2>5, ToUpFacts
  <2> HIDE DEF y
  <2>7. Collects(y, CollectData(y)) BY <1>3, <2>6, CollectDataFacts DEF Goes
  <2> HIDE DEF s
  <2>8. Goes(r, s) /\ Placed(s.g) /\ GoesOn(s.g) /\ s.up \in {<<>>, <<m>>}
    BY <1>2, <2>4, <2>6, <2>7, GoesTrans DEF Collects
  <2>9. \/ s.up = <<>>
        \/ \E f : /\ f.dev \in Devs /\ f.item \in 1 .. MaxItems /\ Comes(buf, f)
                  /\ s.up = <<Msg("DATA", f.dev, f.item)>>
    BY <2>2, <2>8
  <2> QED BY <2>8, <2>9 DEF s, buf
<1> QED BY <1>5, <1>6, <1>7, <1>8
(***************************************************************************)
(* The inductive invariant                                                 *)
(***************************************************************************)
\* An acknowledgement of meter d comes after place k; d is refused and nothing
\* acknowledges it afterwards.
AckAfter(q, d, k) == \E j \in 1 .. Len(q) : j > k /\ q[j].type = "CONNECT_ACK" /\ q[j].dev = d
Refuses(m, d) == m.type \in {"CONNECT_NACK", "CONNECT_LOST"} /\ m.dev = d
Refused(q, d) == \E k \in 1 .. Len(q) : Refuses(q[k], d) /\ ~AckAfter(q, d, k)

\* Meter d will have its line opened.
Reopens(d) == \/ Asked(down, d)
              \/ Refused(up, d)
              \/ col.timer_rc[d] # "off" /\ ~AckAfter(up, d, 0)

Reopening == \A e \in Devs : \/ desc[devindex[e]] = "open" \/ lost = "misled"
                             \/ \E d \in Devs : devindex[d] = devindex[e] /\ Reopens(d)

TtyTypes ==
  /\ devindex \in [Devs -> Lines] /\ state \in [Devs -> BOOLEAN] /\ desc \in [Lines -> {"open", "none"}]
  /\ wire \in [Lines -> Seq(Pieces)] /\ \A l \in Lines : Len(wire[l]) <= MaxWire
  /\ scan \in [line : Lines, chunk : Seq(Pieces), next : 0 .. NDev]
  /\ scan # NoScan => scan.next \in Devs
  /\ pr \in 0 .. NDev

Types ==
  /\ col \in Collector /\ down \in Seq(DnMsgs) /\ up \in Seq(UpMsgs)
  /\ heard \in [Devs -> 0 .. MaxItems] /\ steady \in [Devs -> 0 .. MaxItems]
  /\ passed \subseteq Devs \X (1 .. MaxItems)

IInv == Types /\ TtyTypes /\ Placed(col) /\ Reopening /\ SomeoneGoesOn

(***************************************************************************)
(* Messages in order                                                       *)
(***************************************************************************)
LEMMA AskedLater ==
  ASSUME NEW q \in Seq(DnMsgs), NEW p \in Seq(DnMsgs), NEW d \in Devs, Asked(q, d) \/ Asked(p, d)
  PROVE  Asked(q \o p, d)
<1>1. /\ Len(q) \in Nat /\ Len(p) \in Nat /\ Len(q \o p) = Len(q) + Len(p)
      /\ \A k \in 1 .. Len(q) : (q \o p)[k] = q[k]
      /\ \A k \in 1 .. Len(p) : (q \o p)[Len(q) + k] = p[k]
  OBVIOUS
<1> DEFINE c == q \o p
<1> HIDE DEF c
<1>2. CASE Asked(q, d)
  <2>1. PICK k \in 1 .. Len(q) : q[k].type # "READ_DATA" /\ q[k].dev = d BY <1>2 DEF Asked
  <2>2. k \in 1 .. Len(c) /\ c[k] = q[k] BY <1>1 DEF c
  <2>3. Asked(c, d) BY <2>1, <2>2 DEF Asked
  <2> QED BY <2>3 DEF c
<1>3. CASE Asked(p, d)
  <2>1. PICK k \in 1 .. Len(p) : p[k].type # "READ_DATA" /\ p[k].dev = d BY <1>3 DEF Asked
  <2>2. Len(q) + k \in 1 .. Len(c) /\ c[Len(q) + k] = p[k] BY <1>1 DEF c
  <2>3. Asked(c, d) BY <2>1, <2>2 DEF Asked
  <2> QED BY <2>3 DEF c
<1> QED BY <1>2, <1>3

LEMMA TailFacts ==
  ASSUME NEW S, NEW q \in Seq(S), q # <<>>
  PROVE  /\ Len(q) \in Nat /\ Len(q) > 0 /\ Head(q) \in S /\ Head(q) = q[1]
         /\ Tail(q) \in Seq(S) /\ Len(Tail(q)) = Len(q) - 1
         /\ \A k \in 1 .. Len(q) - 1 : Tail(q)[k] = q[k + 1]
  OBVIOUS

LEMMA AskedNow ==
  ASSUME NEW q \in Seq(DnMsgs), q # <<>>, NEW d \in Devs, Asked(q, d)
  PROVE  Asked(Tail(q), d) \/ (Head(q).type # "READ_DATA" /\ Head(q).dev = d)
<1>1. PICK k \in 1 .. Len(q) : q[k].type # "READ_DATA" /\ q[k].dev = d BY DEF Asked
<1> DEFINE t == Tail(q)
<1>2. /\ Len(q) \in Nat /\ Len(t) = Len(q) - 1 /\ Head(q) = q[1]
      /\ \A j \in 1 .. Len(q) - 1 : t[j] = q[j + 1]
  BY TailFacts
<1> HIDE DEF t
<1>3. CASE k = 1 BY <1>1, <1>2, <1>3
<1>4. CASE k # 1
  <2>1. k - 1 \in 1 .. Len(t) /\ t[k - 1] = q[k] BY <1>2, <1>4
  <2>2. Asked(t, d) BY <1>1, <2>1 DEF Asked
  <2> QED BY <2>2 DEF t
<1> QED BY <1>3, <1>4

\* A message that does not acknowledge d changes nothing for it, and a refusal is one.
LEMMA RefusedLater ==
  ASSUME NEW q \in Seq(UpMsgs), NEW m \in UpMsgs, NEW d \in Devs,
         ~(m.type = "CONNECT_ACK" /\ m.dev = d)
  PROVE  /\ Refused(q, d) => Refused(q \o <<m>>, d)
         /\ ~AckAfter(q, d, 0) => ~AckAfter(q \o <<m>>, d, 0)
         /\ Refuses(m, d) => Refused(q \o <<m>>, d)
<1> DEFINE c == q \o <<m>>
<1>1. /\ Len(q) \in Nat /\ Len(c) = Len(q) + 1
      /\ \A k \in 1 .. Len(q) : c[k] = q[k]
      /\ c[Len(q) + 1] = m
  OBVIOUS
<1> HIDE DEF c
<1>2. ASSUME NEW k \in Nat, AckAfter(c, d, k) PROVE AckAfter(q, d, k) /\ k < Len(q)
  <2>1. PICK j \in 1 .. Len(c) : j > k /\ c[j].type = "CONNECT_ACK" /\ c[j].dev = d
    BY <1>2 DEF AckAfter
  <2>2. j # Len(q) + 1 BY <1>1, <2>1
  <2>3. j \in 1 .. Len(q) /\ c[j] = q[j] BY <1>1, <2>2
  <2> QED BY <2>1, <2>3, <1>1 DEF AckAfter
<1>3. ASSUME Refused(q, d) PROVE Refused(c, d)
  <2>1. PICK k \in 1 .. Len(q) : Refuses(q[k], d) /\ ~AckAfter(q, d, k) BY <1>3 DEF Refused
  <2>2. k \in 1 .. Len(c) /\ c[k] = q[k] /\ k \in Nat BY <1>1
  <2>3. ~AckAfter(c, d, k) BY <1>2, <2>1, <2>2
  <2> QED BY <2>1, <2>2, <2>3 DEF Refused
<1>4. ASSUME Refuses(m, d) PROVE Refused(c, d)
  <2>1. Len(q) + 1 \in 1 .. Len(c) /\ Len(q) + 1 \in Nat /\ ~(Len(q) + 1 < Len(q)) BY <1>1
  <2>2. ~AckAfter(c, d, Len(q) + 1) BY <1>2, <2>1
  <2> QED BY <1>1, <1>4, <2>1, <2>2 DEF Refused
<1>5. ~AckAfter(q, d, 0) => ~AckAfter(c, d, 0) BY <1>2
<1> QED BY <1>3, <1>4, <1>5 DEF c

LEMMA RefusedNow ==
  ASSUME NEW q \in Seq(UpMsgs), q # <<>>, NEW d \in Devs
  PROVE  /\ Refused(q, d) => \/ Refused(Tail(q), d)
                             \/ Refuses(Head(q), d) /\ ~AckAfter(Tail(q), d, 0)
         /\ ~AckAfter(q, d, 0) => /\ ~AckAfter(Tail(q), d, 0)
                                  /\ ~(Head(q).type = "CONNECT_ACK" /\ Head(q).dev = d)
<1> DEFINE t == Tail(q)
<1>1. /\ Len(q) \in Nat /\ Len(q) > 0 /\ Len(t) = Len(q) - 1 /\ Head(q) = q[1]
      /\ \A j \in 1 .. Len(q) - 1 : t[j] = q[j + 1]
  BY TailFacts
<1> HIDE DEF t
<1>2. ASSUME NEW k \in Nat, AckAfter(t, d, k) PROVE AckAfter(q, d, k + 1)
  <2>1. PICK j \in 1 .. Len(t) : j > k /\ t[j].type = "CONNECT_ACK" /\ t[j].dev = d
    BY <1>2 DEF AckAfter
  <2>2. j + 1 \in 1 .. Len(q) /\ q[j + 1] = t[j] /\ j + 1 > k + 1 BY <1>1, <2>1
  <2> QED BY <2>1, <2>2 DEF AckAfter
<1>3. ASSUME Refused(q, d) PROVE Refused(t, d) \/ (Refuses(Head(q), d) /\ ~AckAfter(t, d, 0))
  <2>1. PICK k \in 1 .. Len(q) : Refuses(q[k], d) /\ ~AckAfter(q, d, k) BY <1>3 DEF Refused
  <2>2. k - 1 \in Nat /\ ~AckAfter(t, d, k - 1)
    <3>1. k - 1 \in Nat /\ (k - 1) + 1 = k BY <1>1
    <3> QED BY <1>2, <2>1, <3>1
  <2>3. CASE k = 1 BY <1>1, <2>1, <2>2, <2>3
  <2>4. CASE k # 1
    <3>1. k - 1 \in 1 .. Len(t) /\ t[k - 1] = q[k] BY <1>1, <2>4
    <3> QED BY <2>1, <2>2, <3>1 DEF Refused
  <2> QED BY <2>3, <2>4
<1>4. ASSUME ~AckAfter(q, d, 0) PROVE ~AckAfter(t, d, 0) /\ ~(Head(q).type = "CONNECT_ACK" /\ Head(q).dev = d)
  <2>1. AckAfter(t, d, 0) => AckAfter(q, d, 0 + 1) BY <1>2
  <2>2. AckAfter(q, d, 0 + 1) => AckAfter(q, d, 0) BY <1>1 DEF AckAfter
  <2>3. 1 \in 1 .. Len(q) /\ 1 > 0 BY <1>1
  <2>4. (q[1].type = "CONNECT_ACK" /\ q[1].dev = d) => AckAfter(q, d, 0) BY <2>3 DEF AckAfter
  <2> QED BY <1>1, <1>4, <2>1, <2>2, <2>4
<1> QED BY <1>3, <1>4 DEF t
(***************************************************************************)
(* The steps of m700                                                       *)
(***************************************************************************)
LEMMA CurFacts ==
  ASSUME Types
  PROVE  Cur \in Effects /\ Cur.g = col /\ Cur.dn = <<>> /\ Cur.up = <<>>
<1>1. <<>> \in Seq(DnMsgs) /\ <<>> \in Seq(Datas) OBVIOUS
<1> QED BY <1>1 DEF Types, Effects, Cur, Handle

LEMMA StepFacts ==
  ASSUME IInv, NEW r \in Effects, NEW rest \in Seq(UpMsgs), Step(r, rest)
  PROVE  /\ Types' /\ TtyTypes'
         /\ col' = r.g /\ down' = down \o r.dn /\ up' = rest
         /\ UNCHANGED <<desc, devindex, lost>>
<1>1. /\ col' = r.g /\ down' = down \o r.dn /\ up' = rest
      /\ UNCHANGED <<running, heard, lost, ttyvars>>
  BY DEF Step
<1>2. TtyTypes' BY <1>1 DEF IInv, TtyTypes, ttyvars, NoScan
<1>3. r.g \in Collector /\ r.dn \in Seq(DnMsgs) /\ r.up \in Seq(Datas) BY DEF Effects
<1>4. down \o r.dn \in Seq(DnMsgs) BY <1>3 DEF IInv, Types
<1>5. passed' \subseteq Devs \X (1 .. MaxItems)
  <2>1. {<<r.up[k].dev, r.up[k].item>> : k \in DOMAIN r.up} \subseteq Devs \X (1 .. MaxItems)
    <3>1. \A k \in DOMAIN r.up : r.up[k] \in Datas BY <1>3
    <3> QED BY <3>1 DEF Datas
  <2>2. passed \subseteq Devs \X (1 .. MaxItems) BY DEF IInv, Types
  <2> QED BY <2>1, <2>2 DEF Step
<1>6. steady' \in [Devs -> 0 .. MaxItems]
  <2>1. \A d \in Devs : r.g.n[d] \in 0 .. MaxItems /\ steady[d] \in 0 .. MaxItems /\ 0 \in 0 .. MaxItems
    <3>1. r.g.n \in [Devs -> 0 .. MaxItems] BY <1>3 DEF Collector
    <3>2. steady \in [Devs -> 0 .. MaxItems] BY DEF IInv, Types
    <3> QED BY <3>1, <3>2, Constants
  <2> DEFINE S(d) == IF ~r.g.tx_ready[d] \/ (col.timer_recv = "due" /\ r.g.timer_recv # "due" /\ col.ep_idx \in SameLine(d))
                     THEN 0
                     ELSE IF ~(~Collecting(col) /\ Collecting(r.g)) THEN steady[d]
                     ELSE IF Settled(d) /\ ~Waiting(col) /\ rest = <<>> THEN r.g.n[d] ELSE 0
  <2>2. steady' = [d \in Devs |-> S(d)] BY DEF Step
  <2>3. \A d \in Devs : S(d) \in {0, steady[d], r.g.n[d]} OBVIOUS
  <2> HIDE DEF S
  <2>4. \A d \in Devs : S(d) \in 0 .. MaxItems BY <2>1, <2>3
  <2> QED BY <2>2, <2>4
<1>7. Types' BY <1>1, <1>3, <1>4, <1>5, <1>6 DEF IInv, Types
<1> QED BY <1>1, <1>2, <1>7 DEF ttyvars

\* Whoever would have its line opened does so after a handler, if its timer is kept or
\* it has asked.
LEMMA GoesReopens ==
  ASSUME IInv, NEW r \in Effects, Goes(Cur, r), down' = down \o r.dn, col' = r.g, up' = up,
         UNCHANGED <<desc, devindex, lost>>
  PROVE  Reopening'
<1>1. Cur.g = col BY DEF Cur, Handle
<1>2. down \in Seq(DnMsgs) /\ r.dn \in Seq(DnMsgs) BY DEF IInv, Types, Effects
<1>3. ASSUME NEW d \in Devs, Reopens(d) PROVE Reopens(d)'
  <2>1. Asked(down, d) \/ Asked(r.dn, d) => Asked(down', d) BY <1>2, AskedLater
  <2>2. r.g.timer_rc[d] = col.timer_rc[d] \/ Asked(r.dn, d) BY <1>1 DEF Goes
  <2> QED BY <1>3, <2>1, <2>2 DEF Reopens
<1> QED BY <1>3 DEF Reopening, IInv

LEMMA KeepsKeeps ==
  ASSUME IInv, NEW r, Keeps(Cur, r), Step(r, up), UNCHANGED late
  PROVE  IInv'
<1>1. Cur.g = col BY DEF Cur, Handle
<1>2. r \in Effects /\ Goes(Cur, r) BY DEF Keeps, Goes
<1>3. up \in Seq(UpMsgs) BY DEF IInv, Types
<1>4. /\ Types' /\ TtyTypes'
      /\ col' = r.g /\ down' = down \o r.dn /\ up' = up
      /\ UNCHANGED <<desc, devindex, lost>>
  BY <1>2, <1>3, StepFacts
<1>5. Reopening' BY <1>2, <1>4, GoesReopens
<1>6. Placed(col)' BY <1>4 DEF Keeps, Placed
<1>7. SomeoneGoesOn' BY <1>1, <1>4 DEF Keeps, GoesOn, IInv, SomeoneGoesOn
<1> QED BY <1>4, <1>5, <1>6, <1>7 DEF IInv

LEMMA NewDobjRecvKeeps ==
  ASSUME IInv, NEW d \in Devs, NewDobjRecv(d)
  PROVE  IInv'
<1>1. Cur \in Effects /\ Cur.g = col /\ Cur.dn = <<>> /\ Cur.up = <<>> BY CurFacts DEF IInv
<1>2. Step(NewDobj(Cur, d), up) /\ col.n[d] < Commands[d] /\ UNCHANGED late BY DEF NewDobjRecv
<1>3. Placed(col) BY DEF IInv
<1> HIDE DEF Cur
<1> DEFINE r == NewDobj(Cur, d)
<1>4. col.n[d] + 1 \in 0 .. MaxItems
  <2>1. Commands[d] \in 0 .. MaxItems /\ col.n[d] \in 0 .. MaxItems
    BY BusAssumption DEF IInv, Types, Collector
  <2> QED BY <1>2, <2>1, Constants
<1>5. r = [Cur EXCEPT !.g.n[d] = col.n[d] + 1]
  <2>1. Cur.g.n[d] = col.n[d] BY <1>1
  <2> QED BY <2>1 DEF NewDobj
<1>6. r \in Effects
  <2>1. PICK v \in 0 .. MaxItems : v = col.n[d] + 1 BY <1>4
  <2>2. r = [Cur EXCEPT !.g.n[d] = v] BY <1>5, <2>1
  <2> HIDE DEF r
  <2> QED BY <1>1, <2>2 DEF Effects, Collector
<1>7. /\ r.dn = Cur.dn /\ r.up = Cur.up /\ r.g.timer_rc = col.timer_rc
      /\ r.g.timer_recv = col.timer_recv /\ r.g.timer_dcoll = col.timer_dcoll
      /\ r.g.stopped = col.stopped /\ r.g.ep_idx = col.ep_idx /\ r.g.data_idx = col.data_idx
  BY <1>1, <1>5 DEF Effects, Collector
<1> HIDE DEF r
<1>8. Keeps(Cur, r) BY <1>1, <1>3, <1>6, <1>7 DEF Keeps, Goes, Placed, GoesOn
<1> QED BY <1>2, <1>8, KeepsKeeps DEF r

LEMMA DcollStartRecvKeeps ==
  ASSUME IInv, DcollStartRecv
  PROVE  IInv'
<1>1. Cur \in Effects /\ Cur.g = col /\ Placed(Cur.g) BY CurFacts DEF IInv
<1>2. Step(DcollStart(Cur), up) /\ UNCHANGED late BY DEF DcollStartRecv
<1> HIDE DEF Cur
<1> DEFINE x == [Cur EXCEPT !.g.stopped = FALSE]
           r == DcollStart(Cur)
<1>3. CASE Cur.g.stopped
  <2>1. r = CollectData(x) BY <1>3 DEF DcollStart
  <2>2. x \in Effects BY <1>1 DEF Effects, Collector
  <2>3. /\ x.dn = Cur.dn /\ x.up = Cur.up /\ x.g.timer_rc = Cur.g.timer_rc
        /\ x.g.ep_idx = Cur.g.ep_idx /\ x.g.data_idx = Cur.g.data_idx
    BY <1>1 DEF Effects, Collector
  <2> HIDE DEF x, r
  <2>4. Goes(Cur, x) /\ Placed(x.g) BY <1>1, <2>2, <2>3 DEF Goes, Placed
  <2>5. Collects(x, r) BY <2>1, <2>2, <2>4, CollectDataFacts
  <2>6. Keeps(Cur, r) BY <2>3, <2>4, <2>5, GoesTrans DEF Collects, Keeps
  <2> QED BY <1>2, <2>6, KeepsKeeps DEF r
<1>4. CASE ~Cur.g.stopped
  <2>1. r = Cur BY <1>4 DEF DcollStart
  <2>2. Keeps(Cur, Cur) BY <1>1 DEF Keeps, Goes
  <2> QED BY <1>2, <2>1, <2>2, KeepsKeeps
<1> QED BY <1>3, <1>4

LEMMA AlarmKeeps ==
  ASSUME IInv, Alarm
  PROVE  IInv'
<1>1. Cur \in Effects /\ Cur.g = col /\ Placed(Cur.g) BY CurFacts DEF IInv
<1>2. Step(CatchAlarm(Cur), up) /\ UNCHANGED late BY DEF Alarm
<1> HIDE DEF Cur
<1>3. Keeps(Cur, CatchAlarm(Cur)) BY <1>1, CatchAlarmKeeps
<1> QED BY <1>2, <1>3, KeepsKeeps

LEMMA ExpireKeeps ==
  ASSUME IInv, ExpireRecv \/ ExpireDcoll \/ \E d \in Devs : ExpireRc(d)
  PROVE  IInv'
<1>1. UNCHANGED <<running, down, up, heard, passed, steady, late, lost, ttyvars>>
  BY DEF ExpireRecv, ExpireDcoll, ExpireRc, Expire
<1>2. UNCHANGED <<desc, devindex>> BY <1>1 DEF ttyvars
<1>3. col \in Collector BY DEF IInv, Types
<1>4. /\ col' \in Collector
      /\ col'.stopped = col.stopped /\ col'.ep_idx = col.ep_idx /\ col'.data_idx = col.data_idx
      /\ col.timer_recv # "off" => col'.timer_recv # "off"
      /\ col.timer_dcoll # "off" => col'.timer_dcoll # "off"
      /\ \A d \in Devs : col.timer_rc[d] # "off" => col'.timer_rc[d] # "off"
  <2>1. CASE ExpireRecv BY <1>3, <2>1 DEF ExpireRecv, Collector, TimerStates
  <2>2. CASE ExpireDcoll BY <1>3, <2>2 DEF ExpireDcoll, Collector, TimerStates
  <2>3. CASE \E d \in Devs : ExpireRc(d)
    <3>1. PICK d \in Devs : ExpireRc(d) BY <2>3
    <3>2. col' = [col EXCEPT !.timer_rc[d] = "due"] BY <3>1 DEF ExpireRc
    <3> QED BY <1>3, <3>2 DEF Collector, TimerStates
  <2> QED BY <2>1, <2>2, <2>3
<1>5. Types' /\ TtyTypes' BY <1>1, <1>4 DEF IInv, Types, TtyTypes, ttyvars, NoScan
<1>6. \A d \in Devs : Reopens(d) => Reopens(d)' BY <1>1, <1>4 DEF Reopens
<1>7. Reopening' BY <1>1, <1>2, <1>6 DEF IInv, Reopening
<1>8. Placed(col)' /\ SomeoneGoesOn' BY <1>1, <1>4 DEF IInv, Placed, SomeoneGoesOn
<1> QED BY <1>5, <1>7, <1>8 DEF IInv
\* A meter's connection comes or goes: only its timer and its readiness change.
LEMMA ConnectFacts ==
  ASSUME NEW r \in Effects, NEW d \in Devs, NEW s,
         \/ s = ConnectAck(r, d)
         \/ s = ConnectGone(r, d)
  PROVE  /\ s \in Effects /\ s.dn = r.dn /\ s.up = r.up
         /\ s.g.stopped = r.g.stopped /\ s.g.ep_idx = r.g.ep_idx /\ s.g.data_idx = r.g.data_idx
         /\ s.g.timer_recv = r.g.timer_recv /\ s.g.timer_dcoll = r.g.timer_dcoll
         /\ \A e \in Devs \ {d} : s.g.timer_rc[e] = r.g.timer_rc[e]
         /\ s = ConnectGone(r, d) => s.g.timer_rc[d] = "on"
<1> DEFINE x == InitEpExt(r, d)
           a == [x EXCEPT !.g.tx_ready[d] = TRUE]
           b == [x EXCEPT !.g.timer_rc[d] = "on"]
<1>1. /\ x \in Effects /\ x.dn = r.dn /\ x.up = r.up
      /\ x.g = [r.g EXCEPT !.tx_ready[d] = FALSE, !.timer_rc[d] = "off"]
  BY InitEpExtFacts
<1>2. ConnectAck(r, d) = a /\ ConnectGone(r, d) = b BY DEF ConnectAck, ConnectGone
<1> HIDE DEF x
<1>3. /\ x.g.stopped = r.g.stopped /\ x.g.ep_idx = r.g.ep_idx /\ x.g.data_idx = r.g.data_idx
      /\ x.g.timer_recv = r.g.timer_recv /\ x.g.timer_dcoll = r.g.timer_dcoll
      /\ \A e \in Devs \ {d} : x.g.timer_rc[e] = r.g.timer_rc[e]
      /\ x.g.timer_rc[d] = "off"
  BY <1>1 DEF Effects, Collector
<1>4. /\ a \in Effects /\ a.dn = x.dn /\ a.up = x.up
      /\ a.g.stopped = x.g.stopped /\ a.g.ep_idx = x.g.ep_idx /\ a.g.data_idx = x.g.data_idx
      /\ a.g.timer_recv = x.g.timer_recv /\ a.g.timer_dcoll = x.g.timer_dcoll
      /\ a.g.timer_rc = x.g.timer_rc
  BY <1>1 DEF Effects, Collector
<1>5. /\ b \in Effects /\ b.dn = x.dn /\ b.up = x.up
      /\ b.g.stopped = x.g.stopped /\ b.g.ep_idx = x.g.ep_idx /\ b.g.data_idx = x.g.data_idx
      /\ b.g.timer_recv = x.g.timer_recv /\ b.g.timer_dcoll = x.g.timer_dcoll
      /\ \A e \in Devs \ {d} : b.g.timer_rc[e] = x.g.timer_rc[e]
      /\ b.g.timer_rc[d] = "on"
  BY <1>1 DEF Effects, Collector, TimerStates
<1> HIDE DEF a, b
<1>6. CASE s = a
  <2>1. a # b BY <1>3, <1>4, <1>5
  <2> QED BY <1>1, <1>2, <1>3, <1>4, <1>6, <2>1
<1>7. CASE s = b BY <1>1, <1>2, <1>3, <1>5, <1>7
<1> QED BY <1>2, <1>6, <1>7

LEMMA UpRecvKeeps ==
  ASSUME IInv, UpRecv
  PROVE  IInv'
<1> DEFINE m == Head(up)
           t == Tail(up)
<1>1. Cur \in Effects /\ Cur.g = col /\ Cur.dn = <<>> /\ Cur.up = <<>> BY CurFacts DEF IInv
<1>2. Placed(Cur.g) /\ (late \/ GoesOn(Cur.g)) BY <1>1 DEF IInv, SomeoneGoesOn, GoesOn
<1>3. up # <<>> /\ up \in Seq(UpMsgs) /\ down \in Seq(DnMsgs) BY DEF UpRecv, IInv, Types
<1>4. m \in UpMsgs /\ t \in Seq(UpMsgs) BY <1>3, TailFacts
<1>5. \A d \in Devs : /\ Refused(up, d) => Refused(t, d) \/ (Refuses(m, d) /\ ~AckAfter(t, d, 0))
                      /\ ~AckAfter(up, d, 0) => /\ ~AckAfter(t, d, 0)
                                                /\ ~(m.type = "CONNECT_ACK" /\ m.dev = d)
  BY <1>3, RefusedNow
<1> DEFINE r == CASE m.type = "USER_DATA" -> FrameRecv(Cur, m.dev, m.chunk)
                  [] m.type = "CONNECT_ACK" -> ConnectAck(Cur, m.dev)
                  [] m.type \in {"CONNECT_NACK", "CONNECT_LOST"} -> ConnectGone(Cur, m.dev)
<1>6. Step(r, t) /\ late' = (late \/ (m.type = "USER_DATA" /\ col.timer_recv = "due")) BY DEF UpRecv
<1>7. /\ m.dev \in Devs /\ m.chunk \in Seq(Pieces)
      /\ m.type \in {"USER_DATA", "CONNECT_ACK", "CONNECT_NACK", "CONNECT_LOST"}
  BY <1>4 DEF UpMsgs
<1>8. /\ m.type = "USER_DATA" => r = FrameRecv(Cur, m.dev, m.chunk)
      /\ m.type = "CONNECT_ACK" => r = ConnectAck(Cur, m.dev)
      /\ m.type \in {"CONNECT_NACK", "CONNECT_LOST"} => r = ConnectGone(Cur, m.dev)
  OBVIOUS
<1> HIDE DEF r, m, t, Cur
<1>9. /\ r \in Effects /\ Placed(r.g)
      /\ GoesOn(Cur.g) => GoesOn(r.g) \/ (m.type = "USER_DATA" /\ col.timer_recv = "due")
      /\ \A d \in Devs : Asked(r.dn, d) \/ r.g.timer_rc[d] = col.timer_rc[d]
                         \/ (m.type # "USER_DATA" /\ m.dev = d)
      /\ \A d \in Devs : Refuses(m, d) => r.g.timer_rc[d] = "on"
  <2>1. CASE m.type = "USER_DATA"
    <3>1. /\ Goes(Cur, r) /\ Placed(r.g)
          /\ GoesOn(Cur.g) => GoesOn(r.g) \/ Cur.g.timer_recv = "due"
      BY <1>1, <1>2, <1>7, <1>8, <2>1, FrameRecvFacts
    <3>2. \A d \in Devs : ~Refuses(m, d) BY <2>1 DEF Refuses
    <3> QED BY <1>1, <2>1, <3>1, <3>2 DEF Goes
  <2>2. CASE m.type = "CONNECT_ACK"
    <3>1. /\ r \in Effects
          /\ r.g.stopped = Cur.g.stopped /\ r.g.ep_idx = Cur.g.ep_idx /\ r.g.data_idx = Cur.g.data_idx
          /\ r.g.timer_recv = Cur.g.timer_recv /\ r.g.timer_dcoll = Cur.g.timer_dcoll
          /\ \A e \in Devs \ {m.dev} : r.g.timer_rc[e] = Cur.g.timer_rc[e]
      BY <1>1, <1>7, <1>8, <2>2, ConnectFacts
    <3>2. \A d \in Devs : ~Refuses(m, d) BY <2>2 DEF Refuses
    <3> QED BY <1>1, <1>2, <2>2, <3>1, <3>2 DEF Placed, GoesOn
  <2>3. CASE m.type \in {"CONNECT_NACK", "CONNECT_LOST"}
    <3>1. /\ r \in Effects
          /\ r.g.stopped = Cur.g.stopped /\ r.g.ep_idx = Cur.g.ep_idx /\ r.g.data_idx = Cur.g.data_idx
          /\ r.g.timer_recv = Cur.g.timer_recv /\ r.g.timer_dcoll = Cur.g.timer_dcoll
          /\ \A e \in Devs \ {m.dev} : r.g.timer_rc[e] = Cur.g.timer_rc[e]
          /\ r.g.timer_rc[m.dev] = "on"
      BY <1>1, <1>7, <1>8, <2>3, ConnectFacts
    <3>2. \A d \in Devs : Refuses(m, d) => d = m.dev BY DEF Refuses
    <3> QED BY <1>1, <1>2, <2>3, <3>1, <3>2 DEF Placed, GoesOn
  <2> QED BY <1>7, <2>1, <2>2, <2>3
<1>10. /\ Types' /\ TtyTypes'
       /\ col' = r.g /\ down' = down \o r.dn /\ up' = t
       /\ UNCHANGED <<desc, devindex, lost>>
  BY <1>4, <1>6, <1>9, StepFacts
<1>11. ASSUME NEW d \in Devs, Reopens(d) PROVE Reopens(d)'
  <2>1. Asked(down, d) \/ Asked(r.dn, d) => Asked(down', d)
    <3>1. r.dn \in Seq(DnMsgs) BY <1>9 DEF Effects
    <3> QED BY <1>3, <1>10, <3>1, AskedLater
  <2>2. CASE Asked(down, d) \/ Asked(r.dn, d) BY <2>1, <2>2 DEF Reopens
  <2>3. CASE Refused(t, d) BY <1>10, <2>3 DEF Reopens
  <2>4. CASE Refuses(m, d) /\ ~AckAfter(t, d, 0) BY <1>9, <1>10, <2>4 DEF Reopens
  \* Its timer runs; the message is not an acknowledgement.
  <2>5. CASE col.timer_rc[d] # "off" /\ ~AckAfter(up, d, 0)
    <3>1. ~AckAfter(t, d, 0) /\ ~(m.type = "CONNECT_ACK" /\ m.dev = d) BY <1>5, <2>5
    <3>2. Asked(r.dn, d) \/ r.g.timer_rc[d] = col.timer_rc[d] \/ Refuses(m, d)
      BY <1>7, <1>9, <3>1 DEF Refuses
    <3> QED BY <1>9, <1>10, <2>1, <2>5, <3>1, <3>2 DEF Reopens
  <2> QED BY <1>5, <1>11, <2>2, <2>3, <2>4, <2>5 DEF Reopens
<1>12. Reopening' BY <1>10, <1>11 DEF IInv, Reopening
<1>13. Placed(col)' BY <1>9, <1>10
<1>14. SomeoneGoesOn' BY <1>2, <1>6, <1>9, <1>10 DEF SomeoneGoesOn, GoesOn
<1> QED BY <1>10, <1>12, <1>13, <1>14 DEF IInv

(***************************************************************************)
(* The steps of phy_tty and the meters                                     *)
(***************************************************************************)
\* Whoever would have its line opened does so after a message that does not
\* acknowledge it.
LEMMA SentReopens ==
  ASSUME IInv, NEW m \in UpMsgs, up' = up \o <<m>>, UNCHANGED <<col, down>>,
         NEW d \in Devs, Reopens(d), ~(m.type = "CONNECT_ACK" /\ m.dev = d)
  PROVE  Reopens(d)'
<1>1. up \in Seq(UpMsgs) BY DEF IInv, Types
<1> QED BY <1>1, RefusedLater DEF Reopens

LEMMA ToEpFacts ==
  ASSUME NEW type \in {"USER_DATA", "CONNECT_ACK", "CONNECT_NACK", "CONNECT_LOST"},
         NEW d \in Devs, NEW chunk \in Seq(Pieces)
  PROVE  /\ ToEp(type, d, chunk) \in UpMsgs
         /\ ToEp(type, d, chunk).type = type /\ ToEp(type, d, chunk).dev = d
  BY DEF ToEp, UpMsgs

LEMMA SeqFacts ==
  /\ <<>> \in Seq(Pieces) /\ Len(<<>>) = 0
  /\ \A q \in Seq(UpMsgs), m \in UpMsgs : q \o <<m>> \in Seq(UpMsgs)
  /\ \A q \in Seq(UpMsgs) : q \o <<>> = q
  OBVIOUS

LEMMA QuitRecvKeeps ==
  ASSUME IInv, QuitRecv
  PROVE  IInv'
<1>1. UNCHANGED <<col, down, up, heard, passed, steady, late, lost, ttyvars>> BY DEF QuitRecv
<1> QED BY <1>1 DEF IInv, Types, TtyTypes, NoScan, Placed, Reopening, Reopens, SomeoneGoesOn, ttyvars
LEMMA DownRecvKeeps ==
  ASSUME IInv, DownRecv
  PROVE  IInv'
<1> DEFINE m == Head(down)
           t == Tail(down)
<1>1. down # <<>> /\ down \in Seq(DnMsgs) /\ up \in Seq(UpMsgs) BY DEF DownRecv, IInv, Types
<1>2. m \in DnMsgs /\ t \in Seq(DnMsgs) BY <1>1, TailFacts
<1>3. \A d \in Devs : Asked(down, d) => Asked(t, d) \/ (m.type # "READ_DATA" /\ m.dev = d)
  BY <1>1, AskedNow
<1>4. /\ down' = t /\ lost' = lost
      /\ IF m.type = "READ_DATA"
         THEN \E reaches \in BOOLEAN, i \in {m.item, heard[m.dev]} :
                /\ TtyWrite(m, reaches)
                /\ heard' = [heard EXCEPT ![m.dev] = i]
                /\ Tty(<<>>)
         ELSE \E ok \in BOOLEAN, sent \in {<<ToEp(x, m.dev, <<>>)>> : x \in {"CONNECT_ACK", "CONNECT_NACK"}} :
                TtyConnect(m, ok, sent) /\ Tty(sent) /\ UNCHANGED heard
  BY DEF DownRecv
<1>5. m.dev \in Devs /\ m.item \in 0 .. MaxItems BY <1>2 DEF DnMsgs
<1> HIDE DEF m, t
<1>6. CASE m.type = "READ_DATA"
  <2>1. PICK i \in {m.item, heard[m.dev]} :
          /\ UNCHANGED ttyvars /\ heard' = [heard EXCEPT ![m.dev] = i] /\ Tty(<<>>)
    BY <1>4, <1>6 DEF TtyWrite
  <2>2. up' = up /\ UNCHANGED <<col, running, passed, steady, late>> BY <1>1, <2>1, SeqFacts DEF Tty
  <2>3. i \in 0 .. MaxItems BY <1>5 DEF IInv, Types
  <2>4. heard' \in [Devs -> 0 .. MaxItems] BY <2>1, <2>3 DEF IInv, Types
  <2>5. Types' BY <1>2, <1>4, <2>2, <2>4 DEF IInv, Types
  <2>6. TtyTypes' BY <2>1 DEF IInv, TtyTypes, ttyvars, NoScan
  <2>7. \A d \in Devs : Reopens(d) => Reopens(d)' BY <1>3, <1>4, <1>6, <2>2 DEF Reopens
  <2>8. Reopening' BY <1>4, <2>1, <2>7 DEF IInv, Reopening, ttyvars
  <2> QED BY <2>2, <2>5, <2>6, <2>8 DEF IInv, Placed, SomeoneGoesOn
<1>7. CASE m.type # "READ_DATA"
  <2>1. PICK ok \in BOOLEAN, sent \in {<<ToEp(x, m.dev, <<>>)>> : x \in {"CONNECT_ACK", "CONNECT_NACK"}} :
          TtyConnect(m, ok, sent) /\ Tty(sent) /\ UNCHANGED heard
    BY <1>4, <1>7
  <2> DEFINE a == ToEp(IF ok THEN "CONNECT_ACK" ELSE "CONNECT_NACK", m.dev, <<>>)
             l == devindex[m.dev]
  <2>2. /\ desc' = [desc EXCEPT ![l] = IF ok THEN "open" ELSE "none"]
        /\ wire' = IF ok \/ desc[l] = "none" THEN [wire EXCEPT ![l] = <<>>] ELSE wire
        /\ state' = [state EXCEPT ![m.dev] = ok \/ (@ /\ m.type = "CONNECT")]
        /\ sent = <<a>>
        /\ UNCHANGED <<devindex, scan, pr>>
    BY <2>1 DEF TtyConnect, Start
  <2>3. up' = up \o <<a>> /\ UNCHANGED <<col, running, passed, steady, late>> BY <2>1, <2>2 DEF Tty
  <2>4. /\ a \in UpMsgs /\ a.dev = m.dev /\ a.type = IF ok THEN "CONNECT_ACK" ELSE "CONNECT_NACK"
    <3>1. <<>> \in Seq(Pieces) BY SeqFacts
    <3> DEFINE x == IF ok THEN "CONNECT_ACK" ELSE "CONNECT_NACK"
    <3>2. x \in {"USER_DATA", "CONNECT_ACK", "CONNECT_NACK", "CONNECT_LOST"} OBVIOUS
    <3> HIDE DEF x
    <3>3. a.dev = m.dev /\ a.type = x /\ a.chunk = <<>> /\ a \in UpMsgs
      BY <1>5, <3>1, <3>2 DEF ToEp, UpMsgs, x
    <3> QED BY <3>3 DEF x
  <2> HIDE DEF a
  <2>5. l \in Lines BY <1>5 DEF IInv, TtyTypes
  <2>6. Types' BY <1>1, <1>2, <1>4, <2>1, <2>3, <2>4, SeqFacts DEF IInv, Types
  <2>7. TtyTypes'
    <3>1. state' \in [Devs -> BOOLEAN]
      <4>1. state \in [Devs -> BOOLEAN] BY DEF IInv, TtyTypes
      <4> QED BY <2>2, <4>1
    <3>2. desc' \in [Lines -> {"open", "none"}] BY <2>2 DEF IInv, TtyTypes
    <3>3. wire' \in [Lines -> Seq(Pieces)] /\ \A x \in Lines : Len(wire'[x]) <= MaxWire
      <4>1. wire \in [Lines -> Seq(Pieces)] /\ \A x \in Lines : Len(wire[x]) <= MaxWire
        BY DEF IInv, TtyTypes
      <4>2. <<>> \in Seq(Pieces) /\ Len(<<>>) <= MaxWire BY SeqFacts, Constants
      <4>3. wire' \in {wire, [wire EXCEPT ![l] = <<>>]} BY <2>2
      <4> HIDE DEF l
      <4> QED BY <2>5, <4>1, <4>2, <4>3
    <3> QED BY <2>2, <3>1, <3>2, <3>3 DEF IInv, TtyTypes, NoScan
  <2>8. ASSUME NEW d \in Devs, devindex[d] # l, Reopens(d) PROVE Reopens(d)'
    <3>1. d # m.dev BY <2>8
    <3>2. Asked(down, d) => Asked(t, d) BY <1>3, <3>1
    <3>3. /\ Refused(up, d) => Refused(up', d)
          /\ ~AckAfter(up, d, 0) => ~AckAfter(up', d, 0)
      BY <1>1, <2>3, <2>4, <3>1, RefusedLater
    <3> QED BY <1>4, <2>3, <2>8, <3>2, <3>3 DEF Reopens
  <2>9. ASSUME ~ok PROVE \E d \in Devs : devindex[d] = l /\ Reopens(d)'
    <3>1. PICK d \in Devs : d = m.dev BY <1>5
    <3>2. a.type = "CONNECT_NACK" BY <2>4, <2>9
    <3>3. Refused(up', d) BY <1>1, <2>3, <2>4, <3>1, <3>2, RefusedLater DEF Refuses
    <3>4. Reopens(d)' BY <3>3 DEF Reopens
    <3> QED BY <3>1, <3>4
  <2>10. Reopening'
    <3>1. SUFFICES ASSUME NEW e \in Devs
                   PROVE  \/ desc'[devindex[e]] = "open" \/ lost = "misled"
                          \/ \E d \in Devs : devindex[d] = devindex[e] /\ Reopens(d)'
      BY <1>4, <2>2 DEF Reopening
    <3>2. devindex[e] \in Lines /\ desc \in [Lines -> {"open", "none"}] BY DEF IInv, TtyTypes
    <3>3. CASE devindex[e] = l
      <4>1. CASE ok BY <2>2, <3>2, <3>3, <4>1
      <4>2. CASE ~ok BY <2>9, <3>3, <4>2
      <4> QED BY <4>1, <4>2
    <3>4. CASE devindex[e] # l
      <4>1. desc'[devindex[e]] = desc[devindex[e]] BY <2>2, <3>2, <3>4
      <4> HIDE DEF l
      <4>2. \/ desc[devindex[e]] = "open" \/ lost = "misled"
            \/ \E d \in Devs : devindex[d] = devindex[e] /\ Reopens(d)
        BY DEF IInv, Reopening
      <4> QED BY <2>8, <3>4, <4>1, <4>2
    <3> QED BY <3>3, <3>4
  <2> QED BY <2>3, <2>6, <2>7, <2>10 DEF IInv, Placed, SomeoneGoesOn
<1> QED BY <1>6, <1>7

LEMMA TtyReadKeeps ==
  ASSUME IInv, TtyRead
  PROVE  IInv'
<1>1. PICK l \in Lines : Read(l) BY DEF TtyRead
<1>2. up' = up /\ UNCHANGED <<col, running, passed, steady, late, down, heard, lost>>
  <2>1. up \in Seq(UpMsgs) BY DEF IInv, Types
  <2> QED BY <2>1, SeqFacts DEF TtyRead, Tty
<1>3. PICK k \in DOMAIN wire[l] :
        /\ scan' = [line |-> l, chunk |-> SubSeq(wire[l], 1, k), next |-> 1]
        /\ wire' = [wire EXCEPT ![l] = SubSeq(@, k + 1, Len(@))]
  BY <1>1 DEF Read
<1>4. UNCHANGED <<devindex, state, desc, pr>> BY <1>1 DEF Read
<1>5. wire \in [Lines -> Seq(Pieces)] /\ \A x \in Lines : Len(wire[x]) <= MaxWire BY DEF IInv, TtyTypes
<1> DEFINE w == wire[l]
           c == SubSeq(w, 1, k)
           v == SubSeq(w, k + 1, Len(w))
<1>6. w \in Seq(Pieces) /\ Len(w) <= MaxWire /\ k \in 1 .. Len(w) /\ Len(w) \in Nat BY <1>5
<1>7. scan' = [line |-> l, chunk |-> c, next |-> 1] /\ wire' = [wire EXCEPT ![l] = v] BY <1>3
<1> HIDE DEF w
<1>8. c \in Seq(Pieces) BY <1>6
<1>9. v \in Seq(Pieces) /\ Len(v) <= MaxWire
  <2>1. v \in Seq(Pieces) BY <1>6
  <2>2. Len(v) = Len(w) - k BY <1>6
  <2> QED BY <1>6, <2>1, <2>2, Constants
<1> HIDE DEF c, v
<1>10. TtyTypes'
  <2>1. wire' \in [Lines -> Seq(Pieces)] /\ \A x \in Lines : Len(wire'[x]) <= MaxWire
    BY <1>5, <1>7, <1>9
  <2>2. scan' \in [line : Lines, chunk : Seq(Pieces), next : 0 .. NDev] /\ scan'.next \in Devs
    BY <1>7, <1>8, Constants
  <2> QED BY <1>4, <2>1, <2>2 DEF IInv, TtyTypes
<1>11. Types' BY <1>2 DEF IInv, Types
<1>12. Reopening' BY <1>2, <1>4 DEF IInv, Reopening, Reopens
<1> QED BY <1>2, <1>10, <1>11, <1>12 DEF IInv, Placed, SomeoneGoesOn

LEMMA TtyCopyKeeps ==
  ASSUME IInv, TtyCopy
  PROVE  IInv'
<1>1. PICK sent \in {<<>>, <<ToEp("USER_DATA", scan.next, scan.chunk)>>} : Copy(sent) /\ Tty(sent)
  BY DEF TtyCopy
<1>2. UNCHANGED <<col, running, passed, steady, late, down, heard, lost>> BY <1>1 DEF TtyCopy, Tty
<1>3. /\ scan # NoScan
      /\ pr' = scan.next
      /\ scan' = IF scan.next + 1 \in Routes THEN [scan EXCEPT !.next = scan.next + 1] ELSE NoScan
      /\ UNCHANGED <<devindex, state, desc, wire>>
  BY <1>1 DEF Copy
<1>4. /\ scan \in [line : Lines, chunk : Seq(Pieces), next : 0 .. NDev] /\ scan.next \in Devs
      /\ Lines # {}
  <2>1. scan \in [line : Lines, chunk : Seq(Pieces), next : 0 .. NDev] /\ scan.next \in Devs
    BY <1>3 DEF IInv, TtyTypes
  <2> QED BY <2>1
<1>5. TtyTypes'
  <2>1. pr' \in 0 .. NDev BY <1>3, <1>4
  <2>2. CASE scan.next + 1 \in Routes
    <3>1. PICK x \in Devs : x = scan.next + 1 BY <2>2, Constants
    <3>2. scan' = [scan EXCEPT !.next = x] /\ x \in 0 .. NDev BY <1>3, <2>2, <3>1, Constants
    <3>3. scan' \in [line : Lines, chunk : Seq(Pieces), next : 0 .. NDev] /\ scan'.next \in Devs
      BY <1>4, <3>2
    <3> QED BY <1>3, <2>1, <3>3 DEF IInv, TtyTypes
  <2>3. CASE scan.next + 1 \notin Routes
    <3>1. scan' = NoScan BY <1>3, <2>3
    <3>2. NoScan \in [line : Lines, chunk : Seq(Pieces), next : 0 .. NDev]
      <4>1. 0 \in 0 .. NDev /\ <<>> \in Seq(Pieces) BY SeqFacts, Constants
      <4> QED BY <1>4, <4>1 DEF NoScan, NoRoute
    <3> QED BY <1>3, <2>1, <3>1, <3>2 DEF IInv, TtyTypes, NoScan
  <2> QED BY <2>2, <2>3
<1>6. up \in Seq(UpMsgs) BY DEF IInv, Types
<1>7. CASE sent = <<>>
  <2>1. up' = up BY <1>1, <1>6, <1>7, SeqFacts DEF Tty
  <2>2. Types' BY <1>2, <2>1 DEF IInv, Types
  <2>3. Reopening' BY <1>2, <1>3, <2>1 DEF IInv, Reopening, Reopens
  <2> QED BY <1>2, <1>5, <2>2, <2>3 DEF IInv, Placed, SomeoneGoesOn
<1>8. CASE sent # <<>>
  <2> DEFINE m == ToEp("USER_DATA", scan.next, scan.chunk)
  <2>1. up' = up \o <<m>> BY <1>1, <1>8 DEF Tty
  <2>2. m \in UpMsgs /\ m.type = "USER_DATA"
    <3>1. scan.chunk \in Seq(Pieces) BY <1>4
    <3> QED BY <1>4, <3>1, ToEpFacts
  <2> HIDE DEF m
  <2>3. Types' BY <1>2, <1>6, <2>1, <2>2, SeqFacts DEF IInv, Types
  <2>4. \A d \in Devs : Reopens(d) => Reopens(d)' BY <1>2, <2>1, <2>2, SentReopens
  <2>5. Reopening' BY <1>2, <1>3, <2>4 DEF IInv, Reopening
  <2> QED BY <1>2, <1>5, <2>3, <2>5 DEF IInv, Placed, SomeoneGoesOn
<1> QED BY <1>7, <1>8
LEMMA TtyLostKeeps ==
  ASSUME IInv, NEW l \in Lines, TtyLost(l)
  PROVE  IInv'
<1> DEFINE m == ToEp("CONNECT_LOST", pr, <<>>)
<1>1. /\ up' = up \o <<m>> /\ UNCHANGED <<col, running, passed, steady, late, down, heard>>
      /\ lost' = IF devindex[pr] = l THEN "told" ELSE "misled"
  BY DEF TtyLost, Tty
<1>2. /\ pr # NoRoute /\ desc' = [desc EXCEPT ![l] = "none"]
      /\ state' = [state EXCEPT ![pr] = FALSE]
      /\ UNCHANGED <<devindex, wire, scan, pr>>
  BY DEF TtyLost, Lost
<1>3. PICK p \in Devs : p = pr
  <2>1. pr \in 0 .. NDev BY DEF IInv, TtyTypes
  <2> QED BY <1>2, <2>1, Constants
<1>4. m \in UpMsgs /\ m.type = "CONNECT_LOST" /\ m.dev = p
  <2>1. <<>> \in Seq(Pieces) BY SeqFacts
  <2>2. m = ToEp("CONNECT_LOST", p, <<>>) BY <1>3
  <2> QED BY <2>1, <2>2 DEF ToEp, UpMsgs
<1> HIDE DEF m
<1>5. up \in Seq(UpMsgs) BY DEF IInv, Types
<1>6. Types' BY <1>1, <1>4, <1>5, SeqFacts DEF IInv, Types
<1>7. TtyTypes' BY <1>2 DEF IInv, TtyTypes, NoScan
<1>8. \A d \in Devs : Reopens(d) => Reopens(d)' BY <1>1, <1>4, SentReopens
<1>9. Reopens(p)'
  <2>1. Refused(up', p) BY <1>1, <1>4, <1>5, RefusedLater DEF Refuses
  <2> QED BY <2>1 DEF Reopens
<1>10. Reopening'
  <2>1. SUFFICES ASSUME NEW e \in Devs, lost' # "misled", desc'[devindex[e]] # "open"
                 PROVE  \E d \in Devs : devindex[d] = devindex[e] /\ Reopens(d)'
    BY <1>2 DEF Reopening
  <2>2. devindex[p] = l BY <1>1, <1>3, <2>1
  <2>3. CASE devindex[e] = l BY <1>9, <2>2, <2>3
  <2>4. CASE devindex[e] # l
    <3>1. devindex[e] \in Lines /\ desc \in [Lines -> {"open", "none"}] BY DEF IInv, TtyTypes
    <3>2. desc[devindex[e]] # "open" BY <1>2, <2>1, <2>4, <3>1
    <3>3. lost = "no" BY DEF TtyLost
    <3>4. \E d \in Devs : devindex[d] = devindex[e] /\ Reopens(d) BY <3>2, <3>3 DEF IInv, Reopening
    <3> QED BY <1>8, <3>4
  <2> QED BY <2>3, <2>4
<1> QED BY <1>1, <1>6, <1>7, <1>10 DEF IInv, Placed, SomeoneGoesOn

LEMMA MeterAnswersKeeps ==
  ASSUME IInv, NEW d \in Devs, MeterAnswers(d)
  PROVE  IInv'
<1> DEFINE l == devindex[d]
           a == Answer(d, heard[d])
           v == wire[l] \o a
<1>1. /\ heard[d] # 0 /\ Len(wire[l]) + 2 <= MaxWire
      /\ heard' = [heard EXCEPT ![d] = 0]
      /\ wire' = IF desc[l] = "open" THEN [wire EXCEPT ![l] = v] ELSE wire
      /\ UNCHANGED <<col, running, down, up, passed, steady, late, lost, devindex, state, desc, scan, pr>>
  BY DEF MeterAnswers
<1>2. heard[d] \in 1 .. MaxItems BY <1>1, Constants DEF IInv, Types
<1>3. /\ l \in Lines /\ wire \in [Lines -> Seq(Pieces)]
      /\ \A x \in Lines : Len(wire[x]) <= MaxWire
  BY DEF IInv, TtyTypes
<1>4. a \in Seq(Pieces) /\ Len(a) = 2
  <2>1. [part |-> "head", dev |-> d, item |-> heard[d]] \in Pieces
        /\ [part |-> "tail", dev |-> d, item |-> heard[d]] \in Pieces
    BY <1>2 DEF Pieces
  <2> QED BY <2>1 DEF Answer
<1> HIDE DEF a, l
<1>5. v \in Seq(Pieces) /\ Len(v) <= MaxWire
  <2>1. PICK w \in Seq(Pieces) : w = wire[l] BY <1>3
  <2>2. w \o a \in Seq(Pieces) /\ Len(w \o a) = Len(w) + Len(a)
    BY <1>4, ConcatProperties
  <2> QED BY <1>1, <1>4, <2>1, <2>2
<1> HIDE DEF v
<1>6. wire' \in [Lines -> Seq(Pieces)] /\ \A x \in Lines : Len(wire'[x]) <= MaxWire
  BY <1>1, <1>3, <1>5
<1>7. TtyTypes' BY <1>1, <1>6 DEF IInv, TtyTypes, NoScan
<1>8. heard' \in [Devs -> 0 .. MaxItems] BY <1>1, Constants DEF IInv, Types
<1>9. Types' BY <1>1, <1>8 DEF IInv, Types
<1>10. Reopening' BY <1>1 DEF IInv, Reopening, Reopens
<1> QED BY <1>1, <1>7, <1>9, <1>10 DEF IInv, Placed, SomeoneGoesOn

(***************************************************************************)
(* The theorems                                                            *)
(***************************************************************************)
LEMMA InitInv == Init => IInv
<1> SUFFICES ASSUME Init PROVE IInv OBVIOUS
<1>1. <<>> \in Seq(Pieces) /\ <<>> \in Seq(UpMsgs) /\ Len(<<>>) = 0 OBVIOUS
<1>2. InitCollector \in Collector
  <2>1. 0 \in 0 .. NDev /\ 0 \in 0 .. MaxItems BY Constants
  <2> QED BY <1>1, <2>1 DEF InitCollector, Collector, TimerStates
<1>3. /\ down \in [1 .. NDev -> DnMsgs]
      /\ \A d \in Devs : down[d] = Msg("CONNECT", d, 0)
  <2>1. \A d \in Devs : Msg("CONNECT", d, 0) \in DnMsgs
    <3>1. 0 \in 0 .. MaxItems BY Constants
    <3> QED BY <3>1 DEF Msg, DnMsgs
  <2> QED BY <2>1, Constants DEF Init
<1>4. down \in Seq(DnMsgs) /\ Len(down) = NDev
  <2>1. down \in Seq(DnMsgs)
    <3>1. NDev \in Nat BY Constants
    <3> QED BY <1>3, <3>1, SeqDef
  <2>2. DOMAIN down = 1 .. NDev /\ DOMAIN down = 1 .. Len(down) /\ Len(down) \in Nat BY <1>3, <2>1
  <2>3. \A k \in Nat : k \in 1 .. NDev <=> k \in 1 .. Len(down) BY <2>2
  <2>4. NDev <= Len(down) /\ Len(down) <= NDev BY <2>2, <2>3, Constants
  <2> QED BY <2>1, <2>2, <2>4, Constants
<1>5. \A d \in Devs : Asked(down, d)
  <2>1. SUFFICES ASSUME NEW d \in Devs PROVE Asked(down, d) OBVIOUS
  <2>2. d \in 1 .. Len(down) BY <1>4, Constants
  <2>3. down[d] = Msg("CONNECT", d, 0) BY <1>3
  <2>4. down[d].type # "READ_DATA" /\ down[d].dev = d BY <2>3 DEF Msg
  <2> QED BY <2>2, <2>4 DEF Asked
<1>6. Types
  <2>1. heard \in [Devs -> 0 .. MaxItems] /\ steady \in [Devs -> 0 .. MaxItems] BY Constants DEF Init
  <2> QED BY <1>1, <1>2, <1>4, <2>1 DEF Init, Types
<1>7. devindex \in [Devs -> Lines] BY BusAssumption DEF Init
<1>8. TtyTypes
  <2>1. \E l : l \in Lines
    <3>1. 1 \in Devs BY Constants
    <3> QED BY <1>7, <3>1
  <2>2. NoScan \in [line : Lines, chunk : Seq(Pieces), next : 0 .. NDev]
    <3>1. 0 \in 0 .. NDev BY Constants
    <3> QED BY <1>1, <2>1, <3>1 DEF NoScan, NoRoute
  <2>3. /\ desc = [l \in Lines |-> "none"] /\ wire = [l \in Lines |-> <<>>]
        /\ state = [d \in Devs |-> FALSE] /\ scan = NoScan /\ pr = 0
    BY Constants DEF Init, TtyInit
  <2>4. wire \in [Lines -> Seq(Pieces)] /\ \A l \in Lines : Len(wire[l]) <= MaxWire
    BY <1>1, <2>3, Constants
  <2>5. pr \in 0 .. NDev BY <2>3, Constants
  <2> QED BY <1>7, <2>2, <2>3, <2>4, <2>5 DEF TtyTypes
<1>9. Placed(col) /\ SomeoneGoesOn BY DEF Init, InitCollector, Placed, SomeoneGoesOn
<1>10. Reopening BY <1>5 DEF Reopening, Reopens
<1> QED BY <1>6, <1>8, <1>9, <1>10 DEF IInv

LEMMA NextInv == IInv /\ [Next]_vars => IInv'
<1> SUFFICES ASSUME IInv, [Next]_vars PROVE IInv' OBVIOUS
<1>1. CASE UNCHANGED vars
  BY <1>1 DEF vars, ttyvars, IInv, Types, TtyTypes, NoScan, Placed, Reopening, Reopens, SomeoneGoesOn
<1>2. CASE DcollStartRecv BY <1>2, DcollStartRecvKeeps
<1>3. CASE QuitRecv BY <1>3, QuitRecvKeeps
<1>4. CASE UpRecv BY <1>4, UpRecvKeeps
<1>5. CASE ExpireRecv BY <1>5, ExpireKeeps
<1>6. CASE ExpireDcoll BY <1>6, ExpireKeeps
<1>7. CASE Alarm BY <1>7, AlarmKeeps
<1>8. CASE DownRecv BY <1>8, DownRecvKeeps
<1>9. CASE TtyRead BY <1>9, TtyReadKeeps
<1>10. CASE TtyCopy BY <1>10, TtyCopyKeeps
<1>11. ASSUME NEW l \in Lines, TtyLost(l) PROVE IInv' BY <1>11, TtyLostKeeps
<1>12. ASSUME NEW d \in Devs, NewDobjRecv(d) \/ ExpireRc(d) \/ MeterAnswers(d) PROVE IInv'
  BY <1>12, NewDobjRecvKeeps, ExpireKeeps, MeterAnswersKeeps
<1> QED BY <1>1, <1>2, <1>3, <1>4, <1>5, <1>6, <1>7, <1>8, <1>9, <1>10, <1>11, <1>12 DEF Next

\* The inductive invariant holds: of any meters on any lines.
THEOREM Invariance == Spec => []IInv
<1>1. Init => IInv BY InitInv
<1>2. IInv /\ [Next]_vars => IInv' BY NextInv
<1> QED BY <1>1, <1>2, PTL DEF Spec

\* The variables of m700, phy_tty and the meters keep their types, and no more pieces
\* wait on a line than its bound allows.
THEOREM TypeCorrect == Spec => []TypeOK
<1>1. IInv => TypeOK
  <2>1. SUFFICES ASSUME IInv PROVE TypeOK OBVIOUS
  <2>2. /\ col \in Collector /\ heard \in [Devs -> 0 .. MaxItems] /\ steady \in [Devs -> 0 .. MaxItems]
        /\ passed \subseteq Devs \X (1 .. MaxItems)
        /\ \A l \in Lines : Len(wire[l]) <= MaxWire
        /\ scan \in [line : Lines, chunk : Seq(Pieces), next : 0 .. NDev] /\ pr \in 0 .. NDev
    BY <2>1 DEF IInv, Types, TtyTypes
  <2>3. {col.timer_recv, col.timer_dcoll} \cup {col.timer_rc[d] : d \in Devs} \subseteq TimerStates
    BY <2>2 DEF Collector
  <2>4. /\ col.ep_idx \in 0 .. NDev /\ col.data_idx \in 0 .. MaxItems
        /\ \A k \in DOMAIN col.buf : col.buf[k] \in Pieces
    BY <2>2 DEF Collector
  <2>5. \A x \in 0 .. NDev : x \in Routes \cup {NoRoute} BY Constants
  <2> QED BY <2>2, <2>3, <2>4, <2>5 DEF TypeOK
<1> QED BY <1>1, Invariance, PTL

\* A line that is not open has a meter that will have it opened, unless phy_tty has
\* told a meter of another line: m700_sys_msg_recv and m700_catch_alarm lose no
\* refusal, whatever acknowledgements overtake or follow it.
THEOREM SomeoneReopensHolds == Spec => []SomeoneReopens
<1>1. IInv => SomeoneReopens
  <2>1. SUFFICES ASSUME IInv, NEW e \in Devs, desc[devindex[e]] # "open", lost # "misled"
                 PROVE  \E d \in Devs :
                          /\ devindex[d] = devindex[e]
                          /\ \/ col.timer_rc[d] # "off"
                             \/ \E k \in DOMAIN down : down[k].dev = d /\ down[k].type # "READ_DATA"
                             \/ \E k \in DOMAIN up : up[k].dev = d /\ up[k].type \in {"CONNECT_NACK", "CONNECT_LOST"}
    BY DEF SomeoneReopens
  <2>2. PICK d \in Devs : devindex[d] = devindex[e] /\ Reopens(d) BY <2>1 DEF IInv, Reopening
  <2>3. DOMAIN down = 1 .. Len(down) /\ DOMAIN up = 1 .. Len(up) BY <2>1 DEF IInv, Types
  <2> QED BY <2>2, <2>3 DEF Reopens, Asked, Refused, Refuses
<1> QED BY <1>1, Invariance, PTL

\* Somebody goes on with the collection, whoever is silent, lost or refused, until an
\* answer comes between its timeout and the alarm.
THEOREM SomeoneGoesOnHolds == Spec => []SomeoneGoesOn
<1>1. IInv => SomeoneGoesOn BY DEF IInv
<1> QED BY <1>1, Invariance, PTL

\* What is passed up as a meter's came from that meter: m700_frame_recv goes by the
\* address in the frame, and the frame begins with a piece of what was read.
THEOREM GenuineHolds == Spec => Genuine
<1> DEFINE buf == col.buf \o Head(up).chunk
           Came == \A d \in Devs, i \in 1 .. MaxItems :
             (<<d, i>> \notin passed /\ <<d, i>> \in passed' /\ col.ep_idx # 0)
               => \E k \in DOMAIN buf : LET p == buf[k] IN p.dev = d /\ p.item = i
<1>1. ASSUME IInv, UpRecv PROVE Came
  <2>1. SUFFICES ASSUME NEW d \in Devs, NEW i \in 1 .. MaxItems,
                        <<d, i>> \notin passed, <<d, i>> \in passed'
                 PROVE  \E k \in DOMAIN buf : buf[k].dev = d /\ buf[k].item = i
    OBVIOUS
  <2> DEFINE m == Head(up)
             r == CASE m.type = "USER_DATA" -> FrameRecv(Cur, m.dev, m.chunk)
                    [] m.type = "CONNECT_ACK" -> ConnectAck(Cur, m.dev)
                    [] m.type \in {"CONNECT_NACK", "CONNECT_LOST"} -> ConnectGone(Cur, m.dev)
  <2>2. Cur \in Effects /\ Cur.g = col /\ Cur.up = <<>> /\ Placed(Cur.g)
    BY <1>1, CurFacts DEF IInv
  <2>3. up # <<>> /\ up \in Seq(UpMsgs) BY <1>1 DEF UpRecv, IInv, Types
  <2>4. m \in UpMsgs BY <2>3, TailFacts
  <2>5. /\ m.dev \in Devs /\ m.chunk \in Seq(Pieces)
        /\ m.type \in {"USER_DATA", "CONNECT_ACK", "CONNECT_NACK", "CONNECT_LOST"}
    BY <2>4 DEF UpMsgs
  <2>6. Step(r, Tail(up)) BY <1>1 DEF UpRecv
  <2>7. /\ m.type = "USER_DATA" => r = FrameRecv(Cur, m.dev, m.chunk)
        /\ m.type = "CONNECT_ACK" => r = ConnectAck(Cur, m.dev)
        /\ m.type \in {"CONNECT_NACK", "CONNECT_LOST"} => r = ConnectGone(Cur, m.dev)
    OBVIOUS
  <2> HIDE DEF r, Cur
  <2>8. PICK k \in DOMAIN r.up : <<d, i>> = <<r.up[k].dev, r.up[k].item>> BY <2>1, <2>6 DEF Step
  <2>9. r.up # <<>> BY <2>8
  <2>10. CASE m.type = "USER_DATA"
    <3>1. \/ r.up = <<>>
          \/ \E f : /\ Comes(buf, f) /\ r.up = <<Msg("DATA", f.dev, f.item)>>
      BY <2>2, <2>5, <2>7, <2>10, FrameRecvFacts
    <3>2. PICK f : Comes(buf, f) /\ r.up = <<Msg("DATA", f.dev, f.item)>> BY <2>9, <3>1
    <3>3. f.dev = d /\ f.item = i BY <2>8, <3>2 DEF Msg
    <3>4. buf \in Seq(Pieces) BY <2>2, <2>5 DEF Effects, Collector
    <3>5. DOMAIN buf = 1 .. Len(buf) BY <3>4
    <3> HIDE DEF buf
    <3> QED BY <3>2, <3>3, <3>5 DEF Comes
  <2>11. CASE m.type # "USER_DATA"
    <3>1. r.up = Cur.up BY <2>2, <2>5, <2>7, <2>11, ConnectFacts
    <3> QED BY <2>2, <2>9, <3>1
  <2> QED BY <2>10, <2>11
<1>2. IInv /\ [Next]_vars => [UpRecv => Came]_vars BY <1>1
<1> HIDE DEF Came
<1>3. Spec => [][UpRecv => Came]_vars BY <1>2, Invariance, PTL DEF Spec
<1> QED BY <1>3 DEF Genuine, Came

(***************************************************************************)
(* Whom a handler asks                                                     *)
(***************************************************************************)
\* The messages q hold one request, for item i of meter d; or none.
Asks(q, d, i) == \E k \in 1 .. Len(q) : /\ q[k] = Msg("READ_DATA", d, i)
                                        /\ \A j \in 1 .. Len(q) : q[j].type = "READ_DATA" => j = k
AsksNot(q) == \A k \in 1 .. Len(q) : q[k].type # "READ_DATA"

\* The collection is at item i of meter d, which has just been asked for; or at its end.
AtPlace(s, d, i) == /\ s.g.ep_idx = d /\ s.g.data_idx = i /\ s.g.buf = <<>>
                    /\ s.g.timer_recv = "on" /\ s.g.timer_dcoll = "off" /\ Asks(s.dn, d, i)
AtEnd(s) == /\ s.g.ep_idx = 0 /\ s.g.data_idx = 0
            /\ s.g.timer_recv = "off" /\ s.g.timer_dcoll = "on" /\ AsksNot(s.dn)

\* There is something to collect of a meter; of none between c and d.
Something(g, e) == g.tx_ready[e] /\ g.n[e] > 0
Nobody(g, c, d) == \A e \in Devs : c < e /\ e < d => ~Something(g, e)

\* The collection goes on with the first meter behind c that has something.
LooksOn(s, c) == \/ \E d \in Devs : c < d /\ 1 <= s.g.n[d] /\ AtPlace(s, d, 1) /\ Nobody(s.g, c, d)
                 \/ AtEnd(s) /\ Nobody(s.g, c, NDev + 1)

LEMMA AskPlace ==
  ASSUME NEW x \in Effects, NEW d \in Devs, NEW i \in 1 .. MaxItems,
         x.g.ep_idx = d, x.g.data_idx = i, x.g.tx_ready[d],
         x.g.timer_recv = "off", x.g.timer_dcoll = "off", x.dn = <<>>,
         NEW s, s = ReadDataSend(x, d, i)
  PROVE  /\ s \in Effects /\ AtPlace(s, d, i)
         /\ s.up = x.up /\ s.g.n = x.g.n /\ s.g.tx_ready = x.g.tx_ready /\ s.g.stopped = x.g.stopped
<1> DEFINE m == Msg("READ_DATA", d, i)
           y == Dropped(x)
           t == ToDn(y, m)
           u == [t EXCEPT !.g.timer_recv = "on"]
<1>1. d \in 0 .. NDev /\ i \in 0 .. MaxItems /\ m.dev = d BY Constants DEF Msg
<1>2. m \in DnMsgs /\ m.type = "READ_DATA" BY <1>1 DEF Msg, DnMsgs
<1>6. ~Waiting(x.g) BY DEF Waiting
<1>7. y.dn = <<>> /\ y.g = [x.g EXCEPT !.timer_recv = "off", !.buf = <<>>] /\ y \in Effects /\ y.up = x.up
  BY DroppedFacts
<1>a. x.g \in Collector /\ y.g \in Collector BY <1>7 DEF Effects
<1>8. /\ y.g.ep_idx = d /\ y.g.data_idx = i /\ y.g.buf = <<>> /\ y.g.timer_dcoll = "off"
      /\ y.g.stopped = x.g.stopped /\ y.g.n = x.g.n /\ y.g.tx_ready = x.g.tx_ready
  BY <1>7, <1>a DEF Collector
<1>9. y.g.tx_ready[m.dev] BY <1>1, <1>8
<1>10. s = IF t.dn # x.dn THEN u ELSE t BY <1>6, <1>9 DEF ReadDataSend, FrameSend
<1> HIDE DEF y, m
<1>11. t.dn = <<m>> /\ t.g = y.g /\ t.up = y.up /\ t \in Effects
  <2>1. t = [y EXCEPT !.dn = Append(@, m)] BY DEF ToDn
  <2>2. Append(<<>>, m) = <<m>> /\ <<m>> \in Seq(DnMsgs) BY <1>2
  <2>3. t = [y EXCEPT !.dn = <<m>>] BY <1>7, <2>1, <2>2
  <2> HIDE DEF t
  <2> QED BY <1>7, <2>2, <2>3 DEF Effects
<1>12. <<m>> # <<>> OBVIOUS
<1>13. s = u BY <1>10, <1>11, <1>12
<1> HIDE DEF t
<1>14. u.dn = <<m>> /\ u.up = x.up /\ u.g = [t.g EXCEPT !.timer_recv = "on"] /\ u \in Effects
  BY <1>7, <1>11 DEF Effects, Collector, TimerStates
<1> HIDE DEF u
<1>15. /\ u.g.ep_idx = d /\ u.g.data_idx = i /\ u.g.buf = <<>> /\ u.g.timer_recv = "on"
       /\ u.g.timer_dcoll = "off" /\ u.g.stopped = x.g.stopped /\ u.g.n = x.g.n
       /\ u.g.tx_ready = x.g.tx_ready
  BY <1>8, <1>11, <1>14, <1>a DEF Collector
<1>16. Asks(u.dn, d, i)
  <2>1. Len(<<m>>) = 1 /\ <<m>>[1] = m /\ \A k \in 1 .. 1 : k = 1 OBVIOUS
  <2>2. m = Msg("READ_DATA", d, i) BY DEF m
  <2>3. 1 \in 1 .. Len(u.dn) /\ u.dn[1] = m /\ \A j \in 1 .. Len(u.dn) : j = 1 BY <1>14, <2>1
  <2> QED BY <2>2, <2>3 DEF Asks
<1> QED BY <1>13, <1>14, <1>15, <1>16 DEF AtPlace

\* m700_collect_data, when nothing is waited for: the next item of this meter, or the
\* next meter that has something.
LEMMA CollectDataLooks ==
  ASSUME NEW r \in Effects, Placed(r.g), ~r.g.stopped, r.g.timer_recv = "off",
         r.g.timer_dcoll = "off", r.dn = <<>>,
         NEW s, s = CollectData(r)
  PROVE  /\ s \in Effects /\ s.up = r.up /\ s.g.n = r.g.n /\ s.g.tx_ready = r.g.tx_ready /\ ~s.g.stopped
         /\ \/ /\ r.g.data_idx # 0 /\ r.g.data_idx + 1 <= r.g.n[r.g.ep_idx]
               /\ AtPlace(s, r.g.ep_idx, r.g.data_idx + 1)
            \/ /\ r.g.data_idx = 0 \/ ~r.g.tx_ready[r.g.ep_idx] \/ ~(r.g.data_idx < r.g.n[r.g.ep_idx])
               /\ LooksOn(s, r.g.ep_idx)
<1> DEFINE g == r.g
           c == g.ep_idx
           later == {d \in Devs : d > c /\ g.tx_ready[d] /\ g.n[d] > 0}
           more == g.data_idx # 0 /\ g.tx_ready[c] /\ g.data_idx < g.n[c]
           end == [r EXCEPT !.g.ep_idx = 0, !.g.data_idx = 0, !.g.timer_dcoll = "on"]
           ask(d, i) == ReadDataSend([r EXCEPT !.g.ep_idx = d, !.g.data_idx = i], d, i)
<1>1. s = IF more THEN ask(c, g.data_idx + 1)
          ELSE IF later # {} THEN ask(Min(later), 1) ELSE end
  BY DEF CollectData
<1>2. /\ c \in 0 .. NDev /\ g.data_idx \in 0 .. MaxItems
      /\ g.n \in [Devs -> 0 .. MaxItems] /\ g.tx_ready \in [Devs -> BOOLEAN]
  BY DEF Effects, Collector
<1>3. ASSUME NEW d \in Devs, NEW i \in 1 .. MaxItems, g.tx_ready[d], s = ask(d, i)
      PROVE  /\ s \in Effects /\ AtPlace(s, d, i)
             /\ s.up = r.up /\ s.g.n = g.n /\ s.g.tx_ready = g.tx_ready /\ ~s.g.stopped
  <2> DEFINE x == [r EXCEPT !.g.ep_idx = d, !.g.data_idx = i]
  <2>1. s = ReadDataSend(x, d, i) /\ r.g.tx_ready[d] BY <1>3
  <2>2. d \in 0 .. NDev /\ i \in 0 .. MaxItems BY Constants
  <2> HIDE DEF g, ask
  <2>3. /\ x \in Effects /\ x.dn = r.dn /\ x.up = r.up
        /\ x.g = [r.g EXCEPT !.ep_idx = d, !.data_idx = i]
    BY <2>2 DEF Effects, Collector
  <2>4. r.g \in Collector BY DEF Effects
  <2> HIDE DEF x
  <2>5. /\ x.g.ep_idx = d /\ x.g.data_idx = i /\ x.g.tx_ready = r.g.tx_ready /\ x.g.n = r.g.n
        /\ x.g.timer_recv = "off" /\ x.g.timer_dcoll = "off" /\ x.g.stopped = r.g.stopped
    BY <2>3, <2>4 DEF Collector
  <2>6. /\ s \in Effects /\ AtPlace(s, d, i)
        /\ s.up = x.up /\ s.g.n = x.g.n /\ s.g.tx_ready = x.g.tx_ready /\ s.g.stopped = x.g.stopped
  <3>1. x \in Effects /\ d \in Devs /\ i \in 1 .. MaxItems BY <2>3
  <3>2. x.g.ep_idx = d /\ x.g.data_idx = i /\ x.g.tx_ready[d] BY <2>1, <2>5
  <3>3. x.g.timer_recv = "off" /\ x.g.timer_dcoll = "off" /\ x.dn = <<>> BY <2>3, <2>5
  <3>4. s = ReadDataSend(x, d, i) BY <2>1
  <3> QED BY <3>1, <3>2, <3>3, <3>4, AskPlace
  <2> QED BY <2>3, <2>5, <2>6 DEF g
<1> HIDE DEF ask
<1>4. ASSUME NEW d \in Devs, NEW k \in Nat, k < g.n[d] PROVE k + 1 \in 1 .. MaxItems /\ k + 1 <= g.n[d]
  <2>1. g.n[d] \in 0 .. MaxItems BY <1>2
  <2> HIDE DEF g
  <2> QED BY <1>4, <2>1, Constants
<1>5. CASE more
  <2>1. c \in Devs /\ g.data_idx \in Nat BY <1>2, <1>5, Constants DEF Placed
  <2>2. g.data_idx + 1 \in 1 .. MaxItems /\ g.data_idx + 1 <= g.n[c] BY <1>4, <1>5, <2>1
  <2>3. s = ask(c, g.data_idx + 1) /\ g.tx_ready[c] /\ g.data_idx # 0 BY <1>1, <1>5
  <2> HIDE DEF g, more
  <2>4. /\ s \in Effects /\ AtPlace(s, c, g.data_idx + 1)
        /\ s.up = r.up /\ s.g.n = g.n /\ s.g.tx_ready = g.tx_ready /\ ~s.g.stopped
    BY <1>3, <2>1, <2>2, <2>3
  <2> QED BY <2>2, <2>3, <2>4 DEF g
<1>6. CASE ~more /\ later # {}
  <2>1. later \subseteq Nat BY Constants
  <2>2. Min(later) \in later /\ \A x \in later : Min(later) <= x BY <1>6, <2>1, MinIsLeast
  <2> DEFINE e == Min(later)
  <2> HIDE DEF e
  <2>3. e \in Devs /\ c < e /\ g.tx_ready[e] /\ 0 < g.n[e] BY <2>2 DEF e
  <2>4. 1 \in 1 .. MaxItems /\ 1 <= g.n[e] BY <1>4, <2>3
  <2>5. s = ask(e, 1) BY <1>1, <1>6 DEF e
  <2>6. /\ s \in Effects /\ AtPlace(s, e, 1)
        /\ s.up = r.up /\ s.g.n = g.n /\ s.g.tx_ready = g.tx_ready /\ ~s.g.stopped
    BY <1>3, <2>3, <2>4, <2>5
  <2>7. Nobody(s.g, c, e)
    <3>1. SUFFICES ASSUME NEW x \in Devs, c < x, x < e, g.tx_ready[x], g.n[x] > 0 PROVE FALSE
      BY <2>6 DEF Nobody, Something
    <3>2. x \in later BY <3>1
    <3>3. e <= x BY <2>2, <3>2 DEF e
    <3> QED BY <2>3, <3>1, <3>3, Constants
  <2>8. LooksOn(s, c) BY <2>3, <2>4, <2>6, <2>7 DEF LooksOn
  <2> QED BY <1>6, <2>6, <2>8
<1>7. CASE ~more /\ later = {}
  <2>1. 0 \in 0 .. NDev /\ 0 \in 0 .. MaxItems BY Constants
  <2>2. s = end BY <1>1, <1>7
  <2>3. /\ end \in Effects
        /\ end.dn = <<>> /\ end.up = r.up /\ end.g.ep_idx = 0 /\ end.g.data_idx = 0
        /\ end.g.timer_recv = "off" /\ end.g.timer_dcoll = "on"
        /\ end.g.n = g.n /\ end.g.tx_ready = g.tx_ready /\ ~end.g.stopped
    BY <2>1 DEF Effects, Collector, TimerStates
  <2> HIDE DEF end
  <2>4. /\ s.dn = <<>> /\ s.up = r.up /\ s.g.ep_idx = 0 /\ s.g.data_idx = 0
        /\ s.g.timer_recv = "off" /\ s.g.timer_dcoll = "on"
        /\ s.g.n = g.n /\ s.g.tx_ready = g.tx_ready /\ ~s.g.stopped
    BY <2>2, <2>3
  <2>5. AtEnd(s) BY <2>4 DEF AtEnd, AsksNot
  <2>6. Nobody(s.g, c, NDev + 1)
    <3>1. SUFFICES ASSUME NEW x \in Devs, c < x, g.tx_ready[x], g.n[x] > 0 PROVE FALSE
      BY <2>4 DEF Nobody, Something
    <3>2. x \in later BY <3>1
    <3> QED BY <1>7, <3>2
  <2>7. LooksOn(s, c) BY <2>5, <2>6 DEF LooksOn
  <2> QED BY <1>7, <2>2, <2>3, <2>4, <2>7
<1> QED BY <1>5, <1>6, <1>7

LEMMA AsksMore ==
  ASSUME NEW q \in Seq(DnMsgs), NEW m \in DnMsgs, m.type # "READ_DATA"
  PROVE  /\ AsksNot(q) => AsksNot(Append(q, m))
         /\ \A d, i : Asks(q, d, i) => Asks(Append(q, m), d, i)
<1> DEFINE p == Append(q, m)
<1>1. /\ Len(q) \in Nat /\ Len(p) = Len(q) + 1
      /\ \A k \in 1 .. Len(q) : p[k] = q[k]
      /\ p[Len(q) + 1] = m
  BY AppendFacts
<1> HIDE DEF p
<1>2. ASSUME NEW k \in 1 .. Len(p) PROVE k \in 1 .. Len(q) \/ p[k] = m BY <1>1
<1>3. AsksNot(q) => AsksNot(p) BY <1>1, <1>2 DEF AsksNot
<1>4. ASSUME NEW d, NEW i, Asks(q, d, i) PROVE Asks(p, d, i)
  <2>1. PICK k \in 1 .. Len(q) : /\ q[k] = Msg("READ_DATA", d, i)
                                 /\ \A j \in 1 .. Len(q) : q[j].type = "READ_DATA" => j = k
    BY <1>4 DEF Asks
  <2>2. k \in 1 .. Len(p) /\ p[k] = Msg("READ_DATA", d, i) BY <1>1, <2>1
  <2>3. ASSUME NEW j \in 1 .. Len(p), p[j].type = "READ_DATA" PROVE j = k
    BY <1>1, <1>2, <2>1, <2>3
  <2> QED BY <2>2, <2>3 DEF Asks
<1> QED BY <1>3, <1>4 DEF p

\* The alarms of the meters: they ask for connections, and the collection stays.
Calm(r, s) ==
  /\ s \in Effects /\ s.up = r.up
  /\ s.g.ep_idx = r.g.ep_idx /\ s.g.data_idx = r.g.data_idx /\ s.g.buf = r.g.buf
  /\ s.g.timer_recv = r.g.timer_recv /\ s.g.timer_dcoll = r.g.timer_dcoll
  /\ s.g.stopped = r.g.stopped /\ s.g.n = r.g.n
  /\ \A e \in Devs : s.g.tx_ready[e] => r.g.tx_ready[e]
  /\ AsksNot(r.dn) => AsksNot(s.dn)
  /\ \A d, i : Asks(r.dn, d, i) => Asks(s.dn, d, i)

LEMMA CalmTrans ==
  ASSUME NEW r, NEW s, NEW t, Calm(r, s), Calm(s, t)
  PROVE  Calm(r, t)
  BY DEF Calm

LEMMA DeviceAlarmCalm ==
  ASSUME NEW r \in Effects, NEW d \in Devs
  PROVE  Calm(r, DeviceAlarm(r, d))
<1> DEFINE m == Msg("RECONNECT", d, 0)
           x == InitEpExt(r, d)
           s == ToDn(x, m)
<1>1. DeviceAlarm(r, d) = IF r.g.timer_rc[d] = "due" THEN s ELSE r BY DEF DeviceAlarm
<1>2. m \in DnMsgs /\ m.type # "READ_DATA" BY Constants DEF Msg, DnMsgs
<1>3. /\ x \in Effects /\ x.dn = r.dn /\ x.up = r.up
      /\ x.g = [r.g EXCEPT !.tx_ready[d] = FALSE, !.timer_rc[d] = "off"]
  BY InitEpExtFacts
<1>4. r.g \in Collector /\ r.dn \in Seq(DnMsgs) BY DEF Effects
<1> HIDE DEF x, m
<1>5. s \in Effects /\ s.g = x.g /\ s.up = x.up BY <1>2, <1>3, ToDnFacts
<1>6. s.dn = Append(r.dn, m) BY <1>3 DEF ToDn, Effects
<1> HIDE DEF s
<1>7. /\ s.g.ep_idx = r.g.ep_idx /\ s.g.data_idx = r.g.data_idx /\ s.g.buf = r.g.buf
      /\ s.g.timer_recv = r.g.timer_recv /\ s.g.timer_dcoll = r.g.timer_dcoll
      /\ s.g.stopped = r.g.stopped /\ s.g.n = r.g.n
      /\ \A e \in Devs : s.g.tx_ready[e] => r.g.tx_ready[e]
  BY <1>3, <1>4, <1>5 DEF Collector
<1>8. /\ AsksNot(r.dn) => AsksNot(s.dn)
      /\ \A e, i : Asks(r.dn, e, i) => Asks(s.dn, e, i)
  BY <1>2, <1>4, <1>6, AsksMore
<1>9. Calm(r, s) BY <1>3, <1>5, <1>7, <1>8 DEF Calm
<1>10. Calm(r, r) BY DEF Calm
<1> QED BY <1>1, <1>9, <1>10

LEMMA CatchAlarmCalm ==
  ASSUME NEW r \in Effects, Placed(r.g)
  PROVE  Calm(CollectorAlarm(r), CatchAlarm(r))
<1> DEFINE c == CollectorAlarm(r)
<1>1. PICK f : /\ f[0] = c
               /\ \A d \in 1 .. NDev : f[d] = DeviceAlarm(f[d - 1], d)
               /\ CatchAlarm(r) = f[NDev]
  BY CatchAlarmLoop
<1>2. c \in Effects BY CollectorAlarmKeeps DEF Keeps, Goes
<1> HIDE DEF c
<1> DEFINE S == {n \in Nat : n <= NDev => Calm(c, f[n])}
<1>3. 0 \in S BY <1>1, <1>2 DEF Calm
<1>4. ASSUME NEW n \in Nat, n \in S PROVE n + 1 \in S
  <2>1. SUFFICES ASSUME n + 1 <= NDev PROVE Calm(c, f[n + 1]) OBVIOUS
  <2>2. n <= NDev /\ n + 1 \in 1 .. NDev /\ (n + 1) - 1 = n BY <2>1, Constants
  <2>3. Calm(c, f[n]) BY <1>4, <2>2
  <2>4. f[n + 1] = DeviceAlarm(f[n], n + 1) BY <1>1, <2>2
  <2>5. f[n] \in Effects BY <2>3 DEF Calm
  <2>6. Calm(f[n], f[n + 1]) BY <2>2, <2>4, <2>5, DeviceAlarmCalm, Constants
  <2> QED BY <2>3, <2>6, CalmTrans
<1> HIDE DEF S
<1>5. NDev \in S BY <1>3, <1>4, Induct, Constants
<1> QED BY <1>1, <1>5, Constants DEF S, c

LEMMA CalmLooks ==
  ASSUME NEW r, NEW s, Calm(r, s), NEW c, LooksOn(r, c)
  PROVE  LooksOn(s, c)
<1>1. ASSUME NEW d, Nobody(r.g, c, d) PROVE Nobody(s.g, c, d)
  BY <1>1 DEF Nobody, Something, Calm
<1>2. ASSUME NEW d, AtPlace(r, d, 1) PROVE AtPlace(s, d, 1) BY <1>2 DEF AtPlace, Calm
<1>3. AtEnd(r) => AtEnd(s) BY DEF AtEnd, Calm
<1>4. s.g.n = r.g.n BY DEF Calm
<1> QED BY <1>1, <1>2, <1>3, <1>4 DEF LooksOn

(***************************************************************************)
(* The handlers that go on with the collection                             *)
(***************************************************************************)
\* A collection goes on, or its time comes, or the collector is stopped.
InTime(g) == /\ g.ep_idx # 0 <=> ~g.stopped /\ g.timer_dcoll = "off"
             /\ g.ep_idx = 0 => g.timer_recv = "off" /\ g.data_idx = 0
             /\ g.ep_idx # 0 => g.data_idx \in 1 .. g.n[g.ep_idx]
             /\ g.stopped => g.timer_dcoll = "off"

LEMMA CollectorAlarmLooks ==
  ASSUME NEW r \in Effects, Placed(r.g), InTime(r.g), r.dn = <<>>,
         NEW s, s = CollectorAlarm(r)
  PROVE  /\ s \in Effects /\ s.up = r.up /\ s.g.n = r.g.n /\ s.g.tx_ready = r.g.tx_ready
         /\ \/ r.g.timer_recv = "due" /\ r.g.ep_idx # 0 /\ ~s.g.stopped /\ LooksOn(s, r.g.ep_idx)
            \/ r.g.timer_dcoll = "due" /\ r.g.ep_idx = 0 /\ ~s.g.stopped /\ LooksOn(s, 0)
            \/ r.g.timer_recv # "due" /\ r.g.timer_dcoll # "due" /\ s = r
<1> DEFINE missed == r.g.timer_recv = "due"
           d1 == Dropped(r)
           r1 == IF missed THEN d1 ELSE r
           asks == missed /\ ~r.g.stopped /\ r.g.timer_dcoll = "off"
           skip == [r1 EXCEPT !.g.data_idx = 0]
           r2 == IF asks THEN CollectData(skip) ELSE r1
           wake == [r2 EXCEPT !.g.timer_dcoll = "off"]
<1>1. s = IF r2.g.timer_dcoll = "due" THEN CollectData(wake) ELSE r2
  BY DEF CollectorAlarm
<1>2. r.g \in Collector /\ 0 \in 0 .. MaxItems BY Constants DEF Effects
<1>3. CASE missed
  <2>1. asks /\ r.g.ep_idx # 0 BY <1>3 DEF InTime
  <2>2. /\ d1 \in Effects /\ d1.dn = <<>> /\ d1.up = r.up
        /\ d1.g = [r.g EXCEPT !.timer_recv = "off", !.buf = <<>>]
    BY DroppedFacts
  <2>3. r1 = d1 BY <1>3
  <2> DEFINE y == [d1 EXCEPT !.g.data_idx = 0]
  <2>4. skip = y BY <2>3
  <2> HIDE DEF d1, r1
  <2>5. y \in Effects /\ y.dn = <<>> /\ y.up = r.up /\ y.g = [d1.g EXCEPT !.data_idx = 0]
    BY <1>2, <2>2 DEF Effects, Collector
  <2>6. r2 = CollectData(y) BY <2>1, <2>4
  <2> HIDE DEF y, skip, r2, asks
  <2>7. /\ y.g.ep_idx = r.g.ep_idx /\ y.g.data_idx = 0 /\ y.g.timer_recv = "off"
        /\ y.g.timer_dcoll = "off" /\ ~y.g.stopped /\ y.g.n = r.g.n /\ y.g.tx_ready = r.g.tx_ready
    <3>1. d1.g \in Collector BY <2>2 DEF Effects
    <3>2. r.g.timer_dcoll = "off" /\ ~r.g.stopped BY <2>1 DEF InTime
    <3> QED BY <1>2, <2>2, <2>5, <3>1, <3>2 DEF Collector
  <2>8. Placed(y.g) BY <2>7 DEF Placed
  <2>9. /\ r2 \in Effects /\ r2.up = y.up /\ r2.g.n = y.g.n /\ r2.g.tx_ready = y.g.tx_ready /\ ~r2.g.stopped
        /\ \/ y.g.data_idx # 0
           \/ LooksOn(r2, y.g.ep_idx)
    BY <2>5, <2>6, <2>7, <2>8, CollectDataLooks
  <2>10. LooksOn(r2, r.g.ep_idx) BY <2>7, <2>9
  <2>11. r2.g.timer_dcoll # "due" BY <2>10 DEF LooksOn, AtPlace, AtEnd
  <2>12. s = r2 BY <1>1, <2>11
  <2>13. ~r.g.stopped BY <2>1 DEF InTime
  <2> QED BY <1>3, <2>1, <2>5, <2>7, <2>9, <2>10, <2>12, <2>13
<1>4. CASE ~missed
  <2>1. r2 = r BY <1>4
  <2> DEFINE w == [r EXCEPT !.g.timer_dcoll = "off"]
  <2>2. wake = w BY <2>1
  <2> HIDE DEF wake, r1, r2, asks
  <2>3. CASE r.g.timer_dcoll = "due"
    <3>1. s = CollectData(w) BY <1>1, <2>1, <2>2, <2>3
    <3>2. w \in Effects /\ w.dn = <<>> /\ w.up = r.up /\ w.g = [r.g EXCEPT !.timer_dcoll = "off"]
      BY DEF Effects, Collector, TimerStates
    <3>3. r.g.ep_idx = 0 /\ r.g.timer_recv = "off" /\ r.g.data_idx = 0 BY <2>3 DEF InTime
    <3> HIDE DEF w
    <3>4. /\ w.g.ep_idx = 0 /\ w.g.data_idx = 0 /\ w.g.timer_recv = "off"
          /\ w.g.timer_dcoll = "off" /\ w.g.stopped = r.g.stopped
          /\ w.g.n = r.g.n /\ w.g.tx_ready = r.g.tx_ready
      BY <1>2, <3>2, <3>3 DEF Collector
    <3>5. Placed(w.g) BY <3>4 DEF Placed
    <3>6. ~r.g.stopped BY <2>3 DEF InTime
    <3>7. /\ s \in Effects /\ s.up = w.up /\ s.g.n = w.g.n /\ s.g.tx_ready = w.g.tx_ready /\ ~s.g.stopped
          /\ \/ w.g.data_idx # 0
             \/ LooksOn(s, w.g.ep_idx)
      BY <3>1, <3>2, <3>4, <3>5, <3>6, CollectDataLooks
    <3> QED BY <2>3, <3>2, <3>3, <3>4, <3>6, <3>7
  <2>4. CASE r.g.timer_dcoll # "due" BY <1>1, <1>4, <2>1, <2>4
  <2> QED BY <2>3, <2>4
<1> QED BY <1>3, <1>4

LEMMA DcollStartLooks ==
  ASSUME NEW r \in Effects, Placed(r.g), InTime(r.g), r.dn = <<>>, r.g.stopped,
         NEW s, s = DcollStart(r)
  PROVE  /\ s \in Effects /\ s.up = r.up /\ s.g.n = r.g.n /\ s.g.tx_ready = r.g.tx_ready
         /\ ~s.g.stopped /\ r.g.ep_idx = 0 /\ LooksOn(s, 0)
<1> DEFINE w == [r EXCEPT !.g.stopped = FALSE]
<1>1. s = CollectData(w) BY DEF DcollStart
<1>2. w \in Effects /\ w.dn = <<>> /\ w.up = r.up /\ w.g = [r.g EXCEPT !.stopped = FALSE]
  BY DEF Effects, Collector
<1>3. r.g.ep_idx = 0 /\ r.g.timer_recv = "off" /\ r.g.data_idx = 0 /\ r.g.timer_dcoll = "off"
  BY DEF InTime
<1>4. r.g \in Collector BY DEF Effects
<1> HIDE DEF w
<1>5. /\ w.g.ep_idx = 0 /\ w.g.data_idx = 0 /\ w.g.timer_recv = "off" /\ ~w.g.stopped
      /\ w.g.timer_dcoll = "off" /\ w.g.n = r.g.n /\ w.g.tx_ready = r.g.tx_ready
  BY <1>2, <1>3, <1>4 DEF Collector
<1>6. Placed(w.g) BY <1>5 DEF Placed
<1>7. /\ s \in Effects /\ s.up = w.up /\ s.g.n = w.g.n /\ s.g.tx_ready = w.g.tx_ready /\ ~s.g.stopped
      /\ \/ w.g.data_idx # 0
         \/ LooksOn(s, w.g.ep_idx)
  BY <1>1, <1>2, <1>5, <1>6, CollectDataLooks
<1> QED BY <1>2, <1>3, <1>5, <1>7

\* Where the pieces come from, and whether an answer is complete.
From(q, d, i) == \A k \in 1 .. Len(q) : q[k].dev = d /\ q[k].item = i
HasTail(q) == \E k \in 1 .. Len(q) : q[k].part = "tail"

LEMMA FoundFrom ==
  ASSUME NEW buf \in Seq(Pieces), NEW f \in Found(buf)
  PROVE  /\ HasTail(buf)
         /\ \A d, i : From(buf, d, i) => f.dev = d /\ f.item = i
<1> DEFINE heads == {k \in DOMAIN buf : buf[k].part = "head"}
           h == Min(heads)
           F == [dev |-> buf[h].dev, item |-> buf[h].item]
<1>1. DOMAIN buf = 1 .. Len(buf) /\ Len(buf) \in Nat OBVIOUS
<1>2. /\ heads # {} /\ h # Len(buf)
      /\ f \in {x \in {F} : SubSeq(buf, h, h + 1) = Answer(x.dev, x.item)}
  BY DEF Found
<1>3. f = F /\ SubSeq(buf, h, h + 1) = Answer(f.dev, f.item) BY <1>2
<1>4. heads \subseteq Nat BY <1>1
<1>5. h \in heads BY <1>2, <1>4, MinIsLeast
<1> HIDE DEF h
<1>6. h \in 1 .. Len(buf) /\ h + 1 \in 1 .. Len(buf) /\ h \in Nat BY <1>1, <1>2, <1>5
<1>7. f.dev = buf[h].dev /\ f.item = buf[h].item BY <1>3
<1>8. buf[h + 1].part = "tail"
  <2>1. SubSeq(buf, h, h + 1)[2] = buf[h + 1] BY <1>6
  <2>2. Answer(f.dev, f.item)[2].part = "tail" BY DEF Answer
  <2> QED BY <1>3, <2>1, <2>2
<1> QED BY <1>6, <1>7, <1>8 DEF HasTail, From

\* m700_frame_recv: the request is given up, or goes on, or the frame is complete.
FrameLooks(r, adr, chunk, s) ==
  \/ s = Dropped(r) /\ ~Waiting(r.g)
  \/ s = r /\ adr # r.g.ep_idx
  \/ s = [r EXCEPT !.g.buf = @ \o chunk] /\ adr = r.g.ep_idx
  \/ /\ Waiting(r.g) /\ adr = r.g.ep_idx
     /\ \E f \in Found(r.g.buf \o chunk) :
          s.up = IF f.dev = adr THEN <<Msg("DATA", f.dev, f.item)>> ELSE <<>>
     /\ ~s.g.stopped
     /\ \/ r.g.data_idx + 1 <= r.g.n[adr] /\ AtPlace(s, adr, r.g.data_idx + 1)
        \/ /\ r.g.tx_ready[adr] => ~(r.g.data_idx < r.g.n[adr])
           /\ LooksOn(s, adr)

LEMMA FrameRecvLooks ==
  ASSUME NEW r \in Effects, Placed(r.g), InTime(r.g), r.dn = <<>>, r.up = <<>>,
         NEW adr \in Devs, NEW chunk \in Seq(Pieces),
         NEW s, s = FrameRecv(r, adr, chunk)
  PROVE  s \in Effects /\ s.g.n = r.g.n /\ s.g.tx_ready = r.g.tx_ready /\ FrameLooks(r, adr, chunk, s)
<1> DEFINE buf == r.g.buf \o chunk
           of == CHOOSE f \in Found(buf) : TRUE
           m == Msg("DATA", of.dev, of.item)
           x == Dropped(r)
           y == IF of.dev = r.g.ep_idx THEN ToUp(x, m) ELSE x
           z == [r EXCEPT !.g.buf = @ \o chunk]
<1>1. s = IF ~Waiting(r.g) THEN x
          ELSE IF adr # r.g.ep_idx THEN r
          ELSE IF Found(buf) = {} THEN z
          ELSE CollectData(y)
  BY DEF FrameRecv
<1>2. /\ x \in Effects /\ x.up = <<>> /\ x.dn = <<>>
      /\ x.g = [r.g EXCEPT !.timer_recv = "off", !.buf = <<>>]
  BY DroppedFacts
<1>3. r.g \in Collector /\ x.g \in Collector BY <1>2 DEF Effects
<1>4. buf \in Seq(Pieces) BY <1>3 DEF Collector
<1>5. CASE ~Waiting(r.g)
  <2>1. s = x BY <1>1, <1>5
  <2>2. x.g.n = r.g.n /\ x.g.tx_ready = r.g.tx_ready BY <1>2, <1>3 DEF Collector
  <2> QED BY <1>2, <1>5, <2>1, <2>2 DEF FrameLooks
<1>6. CASE Waiting(r.g) /\ adr # r.g.ep_idx
  <2>1. s = r BY <1>1, <1>6
  <2> QED BY <1>6, <2>1 DEF FrameLooks
<1>7. CASE Waiting(r.g) /\ adr = r.g.ep_idx /\ Found(buf) = {}
  <2>1. s = z BY <1>1, <1>7
  <2>2. z \in Effects /\ z.g.n = r.g.n /\ z.g.tx_ready = r.g.tx_ready BY <1>4 DEF Effects, Collector
  <2> QED BY <1>7, <2>1, <2>2 DEF FrameLooks
<1>8. CASE Waiting(r.g) /\ adr = r.g.ep_idx /\ Found(buf) # {}
  <2>1. of \in Found(buf) BY <1>8
  <2>2. s = CollectData(y) BY <1>1, <1>8
  <2> HIDE DEF buf, of
  <2>3. of.dev \in Devs /\ of.item \in 1 .. MaxItems BY <1>4, <2>1, FoundFacts
  <2>4. m \in Datas BY <2>3 DEF Msg, Datas
  <2>5. /\ y.g = x.g /\ y \in Effects /\ y.dn = <<>>
        /\ y.up = IF of.dev = adr THEN <<m>> ELSE <<>>
    <3>1. ToUp(x, m).dn = x.dn BY <1>2 DEF ToUp, Effects
    <3>2. Goes(x, ToUp(x, m)) /\ ToUp(x, m).g = x.g /\ ToUp(x, m).up = <<m>> BY <1>2, <2>4, ToUpFacts
    <3> QED BY <1>2, <1>8, <3>1, <3>2 DEF Goes
  <2> HIDE DEF y
  <2>6. /\ x.g.timer_recv = "off" /\ x.g.n = r.g.n /\ x.g.tx_ready = r.g.tx_ready
        /\ x.g.ep_idx = adr /\ x.g.data_idx = r.g.data_idx
        /\ x.g.timer_dcoll = r.g.timer_dcoll /\ x.g.stopped = r.g.stopped
    BY <1>2, <1>3, <1>8 DEF Collector
  <2>7. adr # 0 BY Constants
  <2>8. r.g.timer_dcoll = "off" /\ ~r.g.stopped BY <1>8, <2>7 DEF InTime
  <2>9. Placed(x.g) BY <2>6, <2>7 DEF Placed
  <2>10. x.g.timer_dcoll = "off" /\ ~x.g.stopped BY <2>6, <2>8
  <2>11. Placed(y.g) /\ ~y.g.stopped /\ y.g.timer_recv = "off" /\ y.g.timer_dcoll = "off"
    BY <2>5, <2>6, <2>9, <2>10
  <2>12. /\ s \in Effects /\ s.up = y.up /\ s.g.n = y.g.n /\ s.g.tx_ready = y.g.tx_ready /\ ~s.g.stopped
         /\ \/ /\ y.g.data_idx # 0 /\ y.g.data_idx + 1 <= y.g.n[y.g.ep_idx]
               /\ AtPlace(s, y.g.ep_idx, y.g.data_idx + 1)
            \/ /\ y.g.data_idx = 0 \/ ~y.g.tx_ready[y.g.ep_idx] \/ ~(y.g.data_idx < y.g.n[y.g.ep_idx])
               /\ LooksOn(s, y.g.ep_idx)
    BY <2>2, <2>5, <2>11, CollectDataLooks
  <2>13. r.g.data_idx # 0
    <3>1. r.g.data_idx \in 1 .. r.g.n[adr] BY <1>8, <2>7 DEF InTime
    <3>2. r.g.n[adr] \in Nat BY <1>3 DEF Collector
    <3> QED BY <3>1, <3>2
  <2>14. \/ r.g.data_idx + 1 <= r.g.n[adr] /\ AtPlace(s, adr, r.g.data_idx + 1)
         \/ /\ r.g.tx_ready[adr] => ~(r.g.data_idx < r.g.n[adr])
            /\ LooksOn(s, adr)
    BY <2>5, <2>6, <2>12, <2>13
  <2>15. s.up = IF of.dev = adr THEN <<Msg("DATA", of.dev, of.item)>> ELSE <<>> BY <2>5, <2>12
  <2>16. s.g.n = r.g.n /\ s.g.tx_ready = r.g.tx_ready BY <2>5, <2>6, <2>12
  <2> QED BY <1>8, <2>1, <2>12, <2>14, <2>15, <2>16 DEF buf, FrameLooks
<1> QED BY <1>5, <1>6, <1>7, <1>8

(***************************************************************************)
(* What the first meter of a line was asked, and what it answers           *)
(***************************************************************************)
\* A request to the line of meter d; none in q; or one, for item i of d itself.
Req(m, d) == m.type = "READ_DATA" /\ devindex[m.dev] = devindex[d]
NoReq(q, d) == \A k \in 1 .. Len(q) : ~Req(q[k], d)
OneReq(q, d, i) == \E k \in 1 .. Len(q) : /\ q[k] = Msg("READ_DATA", d, i)
                                          /\ \A j \in 1 .. Len(q) : Req(q[j], d) => j = k

\* No meter of the line of d is about to answer; d is, about item i.
Deaf(d) == \A e \in SameLine(d) : heard[e] = 0
Hearing(d, i) == heard[d] = i /\ \A e \in SameLine(d) \ {d} : heard[e] = 0

\* A copy for d; none in q; all of them from d about i; the end of the answer in the last.
Chunk(m, d) == m.type = "USER_DATA" /\ m.dev = d
NoChunk(q, d) == \A k \in 1 .. Len(q) : ~Chunk(q[k], d)
ChunksFrom(q, d, i) == \A k \in 1 .. Len(q) : Chunk(q[k], d) => From(q[k].chunk, d, i)
TailIn(q, d) == \E k \in 1 .. Len(q) : Chunk(q[k], d) /\ HasTail(q[k].chunk)
TailLast(q, d) == \A j, k \in 1 .. Len(q) : /\ j < k /\ Chunk(q[j], d) /\ HasTail(q[j].chunk)
                                            => ~Chunk(q[k], d)

\* d will get a copy of what was read last.
Pending(d) == scan.line = devindex[d] /\ 1 <= scan.next /\ scan.next <= d

AtItsEnd(w) == \A k \in 1 .. Len(w) : w[k].part = "tail" => k = Len(w)

\* Nothing on its way from the line of d; nothing to it or from it.
Silent(d) == NoChunk(up, d) /\ ~Pending(d) /\ wire[devindex[d]] = <<>>
Quiet(d) == NoReq(down, d) /\ Deaf(d) /\ Silent(d)

\* Item i of d: asked for, heard, or answered, as far as the answer has not been lost.
\* What is behind the end of an answer would be taken for the answer to the next
\* request: there is nothing.
Wanted(d, i) == OneReq(down, d, i) /\ Deaf(d) /\ Silent(d) /\ col.buf = <<>>
Hears(d, i) == NoReq(down, d) /\ Hearing(d, i) /\ Silent(d) /\ col.buf = <<>>
Says(d, i) ==
  LET w == wire[devindex[d]]
  IN  /\ NoReq(down, d) /\ Deaf(d)
      /\ From(col.buf, d, i) /\ ChunksFrom(up, d, i) /\ From(w, d, i)
      /\ Pending(d) => From(scan.chunk, d, i)
      /\ HasTail(col.buf) => Silent(d)
      /\ TailLast(up, d)
      /\ TailIn(up, d) => ~Pending(d) /\ w = <<>>
      /\ Pending(d) /\ HasTail(scan.chunk) => w = <<>>
      /\ AtItsEnd(w)
Under(d, i) == Wanted(d, i) \/ Hears(d, i) \/ Says(d, i)

\* A steady meter that is the first of its line: its line is quiet until it is asked, then
\* one item after the other is, and it has been passed up when the next is asked for.
Follows(d) ==
  /\ steady[d] = col.n[d] /\ col.tx_ready[d]
  /\ col.ep_idx < d => Quiet(d)
  /\ col.ep_idx = d => /\ \A i \in 1 .. col.data_idx - 1 : <<d, i>> \in passed
                       /\ col.timer_recv = "on" => \A i \in 1 .. MaxItems : i = col.data_idx => Under(d, i)
  /\ col.ep_idx > d => \A i \in 1 .. steady[d] : <<d, i>> \in passed
Steady(d) == FirstOfLine(d) /\ steady[d] # 0
Following == Collecting(col) => \A d \in Devs : Steady(d) => Follows(d)

\* Before a collection begins no request is on its way.
Resting == col.stopped \/ col.timer_dcoll = "due" => AsksNot(down)

AInv == IInv /\ InTime(col) /\ Resting /\ Following

(***************************************************************************)
(* Messages and pieces in order                                            *)
(***************************************************************************)
LEMMA ConcatFacts ==
  ASSUME NEW S, NEW q \in Seq(S), NEW p \in Seq(S)
  PROVE  /\ q \o p \in Seq(S) /\ Len(q) \in Nat /\ Len(p) \in Nat /\ Len(q \o p) = Len(q) + Len(p)
         /\ \A k \in 1 .. Len(q) : (q \o p)[k] = q[k]
         /\ \A k \in 1 .. Len(p) : (q \o p)[Len(q) + k] = p[k]
         /\ \A k \in 1 .. Len(q \o p) : \/ k \in 1 .. Len(q)
                                        \/ \E j \in 1 .. Len(p) : k = Len(q) + j
<1>1. /\ q \o p \in Seq(S) /\ Len(q) \in Nat /\ Len(p) \in Nat /\ Len(q \o p) = Len(q) + Len(p)
      /\ \A k \in 1 .. Len(q) : (q \o p)[k] = q[k]
      /\ \A k \in 1 .. Len(p) : (q \o p)[Len(q) + k] = p[k]
  OBVIOUS
<1>2. ASSUME NEW k \in 1 .. Len(q \o p), k \notin 1 .. Len(q)
      PROVE  \E j \in 1 .. Len(p) : k = Len(q) + j
  <2>1. k - Len(q) \in 1 .. Len(p) /\ k = Len(q) + (k - Len(q)) BY <1>1, <1>2
  <2> QED BY <2>1
<1> QED BY <1>1, <1>2

LEMMA ReqConcat ==
  ASSUME NEW q \in Seq(DnMsgs), NEW p \in Seq(DnMsgs), NEW d \in Devs
  PROVE  /\ NoReq(q, d) /\ AsksNot(p) => NoReq(q \o p, d)
         /\ AsksNot(q) /\ AsksNot(p) => AsksNot(q \o p)
         /\ \A i : OneReq(q, d, i) /\ AsksNot(p) => OneReq(q \o p, d, i)
         /\ \A i : NoReq(q, d) /\ Asks(p, d, i) => OneReq(q \o p, d, i)
         /\ \A e, i : NoReq(q, d) /\ Asks(p, e, i) /\ devindex[e] # devindex[d] => NoReq(q \o p, d)
<1>0. /\ Len(q) \in Nat /\ Len(p) \in Nat /\ Len(q \o p) = Len(q) + Len(p)
      /\ \A k \in 1 .. Len(q) : (q \o p)[k] = q[k]
      /\ \A k \in 1 .. Len(p) : (q \o p)[Len(q) + k] = p[k]
  OBVIOUS
<1> DEFINE c == q \o p
<1>1. /\ Len(q) \in Nat /\ Len(p) \in Nat /\ Len(c) = Len(q) + Len(p)
      /\ \A k \in 1 .. Len(q) : c[k] = q[k]
      /\ \A k \in 1 .. Len(p) : c[Len(q) + k] = p[k]
  BY <1>0, Zenon
<1>2. \A k \in 1 .. Len(c) : \/ k \in 1 .. Len(q)
                             \/ \E j \in 1 .. Len(p) : k = Len(q) + j
  BY ConcatFacts, Zenon
<1> HIDE DEF c
<1>3. ASSUME NoReq(q, d), AsksNot(p), NEW k \in 1 .. Len(c) PROVE ~Req(c[k], d)
  <2>1. CASE k \in 1 .. Len(q)
    <3>1. c[k] = q[k] BY <1>1, <2>1
    <3> QED BY <1>3, <2>1, <3>1 DEF NoReq
  <2>2. ASSUME NEW j \in 1 .. Len(p), k = Len(q) + j PROVE ~Req(c[k], d)
    <3>1. c[k] = p[j] BY <1>1, <2>2
    <3> QED BY <1>3, <3>1 DEF AsksNot, Req
  <2> QED BY <1>2, <2>1, <2>2
<1>4. ASSUME AsksNot(q), AsksNot(p), NEW k \in 1 .. Len(c) PROVE c[k].type # "READ_DATA"
  BY <1>1, <1>2, <1>4 DEF AsksNot
<1>5. ASSUME NEW i, OneReq(q, d, i), AsksNot(p) PROVE OneReq(c, d, i)
  <2>1. PICK k \in 1 .. Len(q) : /\ q[k] = Msg("READ_DATA", d, i)
                                 /\ \A j \in 1 .. Len(q) : Req(q[j], d) => j = k
    BY <1>5 DEF OneReq
  <2>2. k \in 1 .. Len(c) /\ c[k] = Msg("READ_DATA", d, i) BY <1>1, <2>1
  <2>3. ASSUME NEW j \in 1 .. Len(c), Req(c[j], d) PROVE j = k
    BY <1>1, <1>2, <1>5, <2>1, <2>3 DEF AsksNot, Req
  <2> QED BY <2>2, <2>3 DEF OneReq
<1>6. ASSUME NEW e, NEW i, NoReq(q, d), Asks(p, e, i)
      PROVE  /\ e = d => OneReq(c, d, i)
             /\ devindex[e] # devindex[d] => NoReq(c, d)
  <2>1. PICK k \in 1 .. Len(p) : /\ p[k] = Msg("READ_DATA", e, i)
                                 /\ \A j \in 1 .. Len(p) : p[j].type = "READ_DATA" => j = k
    BY <1>6 DEF Asks
  <2>2. Len(q) + k \in 1 .. Len(c) /\ c[Len(q) + k] = Msg("READ_DATA", e, i) BY <1>1, <2>1
  <2>3. ASSUME NEW j \in 1 .. Len(c), Req(c[j], d) PROVE j = Len(q) + k
    <3>1. j \notin 1 .. Len(q) BY <1>1, <1>6, <2>3 DEF NoReq
    <3>2. PICK l \in 1 .. Len(p) : j = Len(q) + l BY <1>2, <3>1
    <3>3. p[l].type = "READ_DATA" BY <1>1, <2>3, <3>2 DEF Req
    <3> QED BY <2>1, <3>2, <3>3
  <2>4. e = d => OneReq(c, d, i) BY <2>2, <2>3 DEF OneReq
  <2>5. Msg("READ_DATA", e, i).dev = e BY DEF Msg
  <2>6. devindex[e] # devindex[d] => NoReq(c, d)
    <3>1. SUFFICES ASSUME devindex[e] # devindex[d], NEW j \in 1 .. Len(c), Req(c[j], d) PROVE FALSE
      BY DEF NoReq
    <3>2. c[j] = Msg("READ_DATA", e, i) BY <2>2, <2>3, <3>1
    <3> QED BY <2>5, <3>1, <3>2 DEF Req
  <2> QED BY <2>4, <2>6
<1>7. /\ NoReq(q, d) /\ AsksNot(p) => NoReq(c, d)
      /\ AsksNot(q) /\ AsksNot(p) => AsksNot(c)
  BY <1>3, <1>4 DEF NoReq, AsksNot
<1> QED BY <1>5, <1>6, <1>7 DEF c

LEMMA ReqTail ==
  ASSUME NEW q \in Seq(DnMsgs), q # <<>>, NEW d \in Devs
  PROVE  /\ AsksNot(q) => AsksNot(Tail(q))
         /\ NoReq(q, d) => NoReq(Tail(q), d) /\ ~Req(Head(q), d)
         /\ \A i : OneReq(q, d, i) =>
              \/ Head(q) = Msg("READ_DATA", d, i) /\ NoReq(Tail(q), d)
              \/ ~Req(Head(q), d) /\ OneReq(Tail(q), d, i)
<1> DEFINE t == Tail(q)
<1>1. /\ Len(q) \in Nat /\ Len(q) > 0 /\ Head(q) = q[1] /\ Len(t) = Len(q) - 1
      /\ \A k \in 1 .. Len(q) - 1 : t[k] = q[k + 1]
  BY TailFacts
<1> HIDE DEF t
<1>2. \A k \in 1 .. Len(t) : k + 1 \in 1 .. Len(q) /\ t[k] = q[k + 1] /\ k + 1 # 1 BY <1>1
<1>3. 1 \in 1 .. Len(q) BY <1>1
<1>4. AsksNot(q) => AsksNot(t) BY <1>2 DEF AsksNot
<1>5. NoReq(q, d) => NoReq(t, d) /\ ~Req(Head(q), d) BY <1>1, <1>2, <1>3 DEF NoReq
<1>6. ASSUME NEW i, OneReq(q, d, i)
      PROVE  \/ Head(q) = Msg("READ_DATA", d, i) /\ NoReq(t, d)
             \/ ~Req(Head(q), d) /\ OneReq(t, d, i)
  <2>1. PICK k \in 1 .. Len(q) : /\ q[k] = Msg("READ_DATA", d, i)
                                 /\ \A j \in 1 .. Len(q) : Req(q[j], d) => j = k
    BY <1>6 DEF OneReq
  <2>2. CASE k = 1
    <3>1. NoReq(t, d) BY <1>2, <2>1, <2>2 DEF NoReq
    <3> QED BY <1>1, <2>1, <2>2, <3>1
  <2>3. CASE k # 1
    <3>1. k - 1 \in 1 .. Len(t) /\ t[k - 1] = q[k] BY <1>1, <2>3
    <3>2. \A j \in 1 .. Len(t) : Req(t[j], d) => j = k - 1 BY <1>1, <1>2, <2>1
    <3>3. OneReq(t, d, i) BY <2>1, <3>1, <3>2 DEF OneReq
    <3>4. ~Req(Head(q), d) BY <1>1, <1>3, <2>1, <2>3
    <3> QED BY <3>3, <3>4
  <2> QED BY <2>2, <2>3
<1> QED BY <1>4, <1>5, <1>6 DEF t

LEMMA UpMore ==
  ASSUME NEW q \in Seq(UpMsgs), NEW m \in UpMsgs, NEW d \in Devs
  PROVE  /\ NoChunk(q, d) /\ ~Chunk(m, d) => NoChunk(q \o <<m>>, d)
         /\ \A i : ChunksFrom(q, d, i) /\ (Chunk(m, d) => From(m.chunk, d, i)) => ChunksFrom(q \o <<m>>, d, i)
         /\ TailLast(q, d) /\ (Chunk(m, d) => ~TailIn(q, d)) => TailLast(q \o <<m>>, d)
         /\ TailIn(q \o <<m>>, d) => TailIn(q, d) \/ (Chunk(m, d) /\ HasTail(m.chunk))
<1>0. /\ Len(q) \in Nat /\ Len(q \o <<m>>) = Len(q) + 1
      /\ \A k \in 1 .. Len(q) : (q \o <<m>>)[k] = q[k]
      /\ (q \o <<m>>)[Len(q) + 1] = m
  OBVIOUS
<1> DEFINE c == q \o <<m>>
<1>1. /\ Len(q) \in Nat /\ Len(c) = Len(q) + 1
      /\ \A k \in 1 .. Len(q) : c[k] = q[k]
      /\ c[Len(q) + 1] = m
  BY <1>0, Zenon
<1> HIDE DEF c
<1>2. ASSUME NEW k \in 1 .. Len(c)
      PROVE  \/ k \in 1 .. Len(q) /\ c[k] = q[k]
             \/ k = Len(q) + 1 /\ c[k] = m
  BY <1>1
<1>3. ASSUME NoChunk(q, d), ~Chunk(m, d), NEW k \in 1 .. Len(c) PROVE ~Chunk(c[k], d)
  <2>1. CASE k \in 1 .. Len(q) /\ c[k] = q[k] BY <1>3, <2>1 DEF NoChunk
  <2>2. CASE c[k] = m BY <1>3, <2>2
  <2> QED BY <1>2, <2>1, <2>2
<1>4. ASSUME NEW i, ChunksFrom(q, d, i), Chunk(m, d) => From(m.chunk, d, i),
             NEW k \in 1 .. Len(c), Chunk(c[k], d)
      PROVE  From(c[k].chunk, d, i)
  <2>1. CASE k \in 1 .. Len(q) /\ c[k] = q[k] BY <1>4, <2>1 DEF ChunksFrom
  <2>2. CASE c[k] = m BY <1>4, <2>2
  <2> QED BY <1>2, <2>1, <2>2
<1>5. ASSUME TailLast(q, d), Chunk(m, d) => ~TailIn(q, d), NEW j \in 1 .. Len(c), NEW k \in 1 .. Len(c),
             j < k, Chunk(c[j], d), HasTail(c[j].chunk), Chunk(c[k], d)
      PROVE  FALSE
  <2>1. j \in 1 .. Len(q) /\ c[j] = q[j] BY <1>1, <1>5
  <2>2. TailIn(q, d) BY <1>5, <2>1 DEF TailIn
  <2>3. CASE k \in 1 .. Len(q) /\ c[k] = q[k] BY <1>5, <2>1, <2>3 DEF TailLast
  <2>4. CASE c[k] = m BY <1>5, <2>2, <2>4
  <2> QED BY <1>2, <2>3, <2>4
<1>6. ASSUME NEW k \in 1 .. Len(c), Chunk(c[k], d), HasTail(c[k].chunk)
      PROVE  TailIn(q, d) \/ (Chunk(m, d) /\ HasTail(m.chunk))
  <2>1. CASE k \in 1 .. Len(q) /\ c[k] = q[k] BY <1>6, <2>1 DEF TailIn
  <2>2. CASE c[k] = m BY <1>6, <2>2
  <2> QED BY <1>2, <2>1, <2>2
<1>7. NoChunk(q, d) /\ ~Chunk(m, d) => NoChunk(c, d) BY <1>3 DEF NoChunk
<1>8. \A i : ChunksFrom(q, d, i) /\ (Chunk(m, d) => From(m.chunk, d, i)) => ChunksFrom(c, d, i)
  BY <1>4 DEF ChunksFrom
<1>9. TailLast(q, d) /\ (Chunk(m, d) => ~TailIn(q, d)) => TailLast(c, d) BY <1>5 DEF TailLast
<1>10. TailIn(c, d) => TailIn(q, d) \/ (Chunk(m, d) /\ HasTail(m.chunk))
  <2>1. SUFFICES ASSUME TailIn(c, d) PROVE TailIn(q, d) \/ (Chunk(m, d) /\ HasTail(m.chunk)) OBVIOUS
  <2>2. PICK k \in 1 .. Len(c) : Chunk(c[k], d) /\ HasTail(c[k].chunk) BY <2>1 DEF TailIn
  <2> QED BY <1>6, <2>2
<1> QED BY <1>7, <1>8, <1>9, <1>10 DEF c

LEMMA UpLess ==
  ASSUME NEW q \in Seq(UpMsgs), q # <<>>, NEW d \in Devs
  PROVE  /\ NoChunk(q, d) => NoChunk(Tail(q), d) /\ ~Chunk(Head(q), d)
         /\ \A i : ChunksFrom(q, d, i) => /\ ChunksFrom(Tail(q), d, i)
                                          /\ Chunk(Head(q), d) => From(Head(q).chunk, d, i)
         /\ TailLast(q, d) => /\ TailLast(Tail(q), d)
                              /\ Chunk(Head(q), d) /\ HasTail(Head(q).chunk) => NoChunk(Tail(q), d)
         /\ TailIn(Tail(q), d) => TailIn(q, d)
         /\ Chunk(Head(q), d) /\ HasTail(Head(q).chunk) => TailIn(q, d)
<1> DEFINE t == Tail(q)
<1>1. /\ Len(q) \in Nat /\ Len(q) > 0 /\ Head(q) = q[1] /\ Len(t) = Len(q) - 1
      /\ \A k \in 1 .. Len(q) - 1 : t[k] = q[k + 1]
  BY TailFacts
<1> HIDE DEF t
<1>2. \A k \in 1 .. Len(t) : k + 1 \in 1 .. Len(q) /\ t[k] = q[k + 1] /\ 1 < k + 1 BY <1>1
<1>3. 1 \in 1 .. Len(q) BY <1>1
<1>4. NoChunk(q, d) => NoChunk(t, d) /\ ~Chunk(Head(q), d) BY <1>1, <1>2, <1>3 DEF NoChunk
<1>5. \A i : ChunksFrom(q, d, i) => /\ ChunksFrom(t, d, i)
                                    /\ Chunk(Head(q), d) => From(Head(q).chunk, d, i)
  BY <1>1, <1>2, <1>3 DEF ChunksFrom
<1>6. ASSUME TailLast(q, d)
      PROVE  /\ TailLast(t, d)
             /\ Chunk(Head(q), d) /\ HasTail(Head(q).chunk) => NoChunk(t, d)
  <2>1. ASSUME NEW j \in 1 .. Len(t), NEW k \in 1 .. Len(t), j < k, Chunk(t[j], d), HasTail(t[j].chunk)
        PROVE  ~Chunk(t[k], d)
    <3>1. j + 1 \in 1 .. Len(q) /\ k + 1 \in 1 .. Len(q) /\ t[j] = q[j + 1] /\ t[k] = q[k + 1] /\ j + 1 < k + 1
      BY <1>2, <2>1
    <3> QED BY <1>6, <2>1, <3>1 DEF TailLast
  <2>2. ASSUME Chunk(Head(q), d), HasTail(Head(q).chunk), NEW k \in 1 .. Len(t) PROVE ~Chunk(t[k], d)
    BY <1>1, <1>2, <1>3, <1>6, <2>2 DEF TailLast
  <2> QED BY <2>1, <2>2 DEF TailLast, NoChunk
<1>7. TailIn(t, d) => TailIn(q, d) BY <1>2 DEF TailIn
<1>8. Chunk(Head(q), d) /\ HasTail(Head(q).chunk) => TailIn(q, d) BY <1>1, <1>3 DEF TailIn
<1> QED BY <1>4, <1>5, <1>6, <1>7, <1>8 DEF t

\* What is read of an answer, and what waits.
LEMMA ReadParts ==
  ASSUME NEW w \in Seq(Pieces), NEW k \in 1 .. Len(w)
  PROVE  LET first == SubSeq(w, 1, k)
             rest == SubSeq(w, k + 1, Len(w))
         IN  /\ \A d, i : From(w, d, i) => From(first, d, i) /\ From(rest, d, i)
             /\ AtItsEnd(w) => AtItsEnd(rest) /\ (HasTail(first) => rest = <<>>)
<1> DEFINE first == SubSeq(w, 1, k)
           rest == SubSeq(w, k + 1, Len(w))
<1>1. /\ Len(w) \in Nat /\ k \in Nat /\ Len(first) = k /\ Len(rest) = Len(w) - k /\ rest \in Seq(Pieces)
      /\ \A j \in 1 .. k : first[j] = w[j]
      /\ \A j \in 1 .. Len(w) - k : rest[j] = w[k + j]
  OBVIOUS
<1> HIDE DEF first, rest
<1>2. ASSUME NEW d, NEW i, From(w, d, i) PROVE From(first, d, i) /\ From(rest, d, i)
  <2>1. ASSUME NEW j \in 1 .. Len(first) PROVE first[j].dev = d /\ first[j].item = i
    <3>1. j \in 1 .. Len(w) /\ first[j] = w[j] BY <1>1
    <3> QED BY <1>2, <3>1 DEF From
  <2>2. ASSUME NEW j \in 1 .. Len(rest) PROVE rest[j].dev = d /\ rest[j].item = i
    <3>1. k + j \in 1 .. Len(w) /\ rest[j] = w[k + j] BY <1>1
    <3> QED BY <1>2, <3>1 DEF From
  <2> QED BY <2>1, <2>2 DEF From
<1>3. ASSUME AtItsEnd(w) PROVE AtItsEnd(rest) /\ (HasTail(first) => rest = <<>>)
  <2>1. ASSUME NEW j \in 1 .. Len(rest), rest[j].part = "tail" PROVE j = Len(rest)
    <3>1. k + j \in 1 .. Len(w) /\ rest[j] = w[k + j] BY <1>1
    <3>2. k + j = Len(w) BY <1>3, <2>1, <3>1 DEF AtItsEnd
    <3>3. j \in Nat /\ k \in Nat /\ Len(w) \in Nat /\ Len(rest) = Len(w) - k BY <1>1
    <3>4. \A x, y, z \in Nat : x + y = z => y = z - x OBVIOUS
    <3>5. j = Len(w) - k BY <3>2, <3>3, <3>4, Zenon
    <3> QED BY <3>3, <3>5, Zenon
  <2>2. ASSUME NEW j \in 1 .. Len(first), first[j].part = "tail" PROVE rest = <<>>
    <3>1. j \in 1 .. Len(w) /\ first[j] = w[j] BY <1>1
    <3>2. j = Len(w) BY <1>3, <2>2, <3>1 DEF AtItsEnd
    <3>3. Len(rest) = 0 BY <1>1, <3>2
    <3> QED BY <1>1, <3>3
  <2> QED BY <2>1, <2>2 DEF AtItsEnd, HasTail
<1> QED BY <1>2, <1>3 DEF first, rest

LEMMA AnswerFrom ==
  ASSUME NEW d, NEW i
  PROVE  From(<<>> \o Answer(d, i), d, i) /\ AtItsEnd(<<>> \o Answer(d, i))
<1> DEFINE h == [part |-> "head", dev |-> d, item |-> i]
           t == [part |-> "tail", dev |-> d, item |-> i]
<1>1. Answer(d, i) = <<h, t>> BY DEF Answer
<1>2. h.dev = d /\ h.item = i /\ h.part = "head" /\ t.dev = d /\ t.item = i OBVIOUS
<1> HIDE DEF h, t
<1>3. <<>> \o <<h, t>> = <<h, t>> OBVIOUS
<1>4. Len(<<h, t>>) = 2 /\ <<h, t>>[1] = h /\ <<h, t>>[2] = t OBVIOUS
<1>5. \A k \in 1 .. 2 : k = 1 \/ k = 2 OBVIOUS
<1> DEFINE a == <<h, t>>
<1>6. Len(a) = 2 /\ a[1] = h /\ a[2] = t BY <1>4
<1> HIDE DEF a
<1>7. From(a, d, i) /\ AtItsEnd(a) BY <1>2, <1>5, <1>6 DEF From, AtItsEnd
<1> QED BY <1>1, <1>3, <1>7 DEF a

LEMMA PiecesConcat ==
  ASSUME NEW b \in Seq(Pieces), NEW c \in Seq(Pieces)
  PROVE  /\ \A d, i : From(b, d, i) /\ From(c, d, i) => From(b \o c, d, i)
         /\ HasTail(b \o c) => HasTail(b) \/ HasTail(c)
<1>1. /\ Len(b) \in Nat /\ Len(c) \in Nat /\ Len(b \o c) = Len(b) + Len(c)
      /\ \A k \in 1 .. Len(b) : (b \o c)[k] = b[k]
      /\ \A k \in 1 .. Len(c) : (b \o c)[Len(b) + k] = c[k]
  OBVIOUS
<1> DEFINE a == b \o c
<1>2. /\ Len(b) \in Nat /\ Len(c) \in Nat /\ Len(a) = Len(b) + Len(c)
      /\ \A k \in 1 .. Len(b) : a[k] = b[k]
      /\ \A k \in 1 .. Len(c) : a[Len(b) + k] = c[k]
  BY <1>1, Zenon
<1> HIDE DEF a
<1>3. ASSUME NEW k \in 1 .. Len(a), k \notin 1 .. Len(b)
      PROVE  k - Len(b) \in 1 .. Len(c) /\ a[k] = c[k - Len(b)]
  <2>1. k - Len(b) \in 1 .. Len(c) /\ k = Len(b) + (k - Len(b)) BY <1>2, <1>3
  <2> QED BY <1>2, <2>1
<1>4. ASSUME NEW d, NEW i, From(b, d, i), From(c, d, i) PROVE From(a, d, i)
  <2>1. SUFFICES ASSUME NEW k \in 1 .. Len(a) PROVE a[k].dev = d /\ a[k].item = i BY DEF From
  <2>2. CASE k \in 1 .. Len(b) BY <1>2, <1>4, <2>2 DEF From
  <2>3. CASE k \notin 1 .. Len(b) BY <1>3, <1>4, <2>3 DEF From
  <2> QED BY <2>2, <2>3
<1>5. ASSUME HasTail(a) PROVE HasTail(b) \/ HasTail(c)
  <2>1. PICK k \in 1 .. Len(a) : a[k].part = "tail" BY <1>5 DEF HasTail
  <2>2. CASE k \in 1 .. Len(b) BY <1>2, <2>1, <2>2 DEF HasTail
  <2>3. CASE k \notin 1 .. Len(b) BY <1>3, <2>1, <2>3 DEF HasTail
  <2> QED BY <2>2, <2>3
<1> QED BY <1>4, <1>5 DEF a

(***************************************************************************)
(* The steps of phy_tty and of the meters                                  *)
(***************************************************************************)
\* A quiet line stays so, and the item d is asked for stays under way.
Undisturbed == /\ \A d \in Devs : Quiet(d) => Quiet(d)'
               /\ \A d \in Devs, i \in 1 .. MaxItems : Under(d, i) => Under(d, i)'

LEMMA SilentSays ==
  ASSUME NEW d \in Devs, NEW i \in 1 .. MaxItems,
         NoReq(down, d)', Deaf(d)', Silent(d)', col'.buf = <<>>
  PROVE  Says(d, i)'
<1>1. wire'[devindex'[d]] = <<>> /\ ~Pending(d)' /\ NoChunk(up', d) BY DEF Silent
<1>2. \A x, y : From(<<>>, x, y) /\ ~HasTail(<<>>) /\ AtItsEnd(<<>>) BY DEF From, HasTail, AtItsEnd
<1>3. ChunksFrom(up', d, i) /\ TailLast(up', d) /\ ~TailIn(up', d)
  BY <1>1 DEF NoChunk, ChunksFrom, TailLast, TailIn
<1> QED BY <1>1, <1>2, <1>3 DEF Says

\* Pieces may be lost and messages without pieces come behind; requests are as before.
LEMMA Loses ==
  ASSUME IInv, UNCHANGED <<col, heard, devindex, scan>>, NEW m \in UpMsgs, m.type # "USER_DATA",
         up' = up \o <<m>>, \A l \in Lines : wire'[l] = wire[l] \/ wire'[l] = <<>>,
         \A d \in Devs : NoReq(down, d) => NoReq(down', d),
         \A d \in Devs, i \in 1 .. MaxItems : OneReq(down, d, i) => OneReq(down', d, i)
  PROVE  Undisturbed
<1>1. up \in Seq(UpMsgs) /\ devindex \in [Devs -> Lines] BY DEF IInv, Types, TtyTypes
<1>2. ASSUME NEW d \in Devs PROVE ~Chunk(m, d) BY DEF Chunk
<1>3. ASSUME NEW d \in Devs PROVE wire'[devindex[d]] = wire[devindex[d]] \/ wire'[devindex[d]] = <<>>
  BY <1>1
<1>4. ASSUME NEW d \in Devs PROVE Silent(d) => Silent(d)'
  <2>1. NoChunk(up, d) => NoChunk(up', d) BY <1>1, <1>2, UpMore
  <2>2. Pending(d)' <=> Pending(d) BY DEF Pending
  <2> QED BY <1>3, <2>1, <2>2 DEF Silent, NoChunk, Chunk
<1>5. ASSUME NEW d \in Devs PROVE Deaf(d)' <=> Deaf(d) BY DEF Deaf, SameLine
<1>6. ASSUME NEW d \in Devs PROVE NoReq(down, d) => NoReq(down, d)' BY DEF NoReq, Req
<1>7. ASSUME NEW d \in Devs, Quiet(d) PROVE Quiet(d)' BY <1>4, <1>5, <1>6, <1>7 DEF Quiet
<1>8. ASSUME NEW d \in Devs, NEW i \in 1 .. MaxItems, Under(d, i) PROVE Under(d, i)'
  <2>1. CASE Wanted(d, i)
    <3>1. OneReq(down, d, i)' BY <2>1 DEF Wanted, OneReq, Req
    <3> QED BY <1>4, <1>5, <2>1, <3>1 DEF Wanted, Under
  <2>2. CASE Hears(d, i)
    <3>1. Hearing(d, i)' BY <2>2 DEF Hears, Hearing, SameLine
    <3> QED BY <1>4, <1>6, <2>2, <3>1 DEF Hears, Under
  <2>3. CASE Says(d, i)
    <3> DEFINE w == wire[devindex[d]]
    <3>1. /\ ChunksFrom(up, d, i) => ChunksFrom(up', d, i)
          /\ TailLast(up, d) => TailLast(up', d)
          /\ TailIn(up', d) => TailIn(up, d)
      BY <1>1, <1>2, UpMore
    <3>2. \A x, y : From(<<>>, x, y) /\ AtItsEnd(<<>>) BY DEF From, AtItsEnd
    <3>3. w' = w \/ w' = <<>> BY <1>3
    <3>4. Pending(d)' <=> Pending(d) BY DEF Pending
    <3>5. /\ NoReq(down, d) /\ Deaf(d)
          /\ From(col.buf, d, i) /\ ChunksFrom(up, d, i) /\ From(w, d, i)
          /\ Pending(d) => From(scan.chunk, d, i)
          /\ HasTail(col.buf) => Silent(d)
          /\ TailLast(up, d)
          /\ TailIn(up, d) => ~Pending(d) /\ w = <<>>
          /\ Pending(d) /\ HasTail(scan.chunk) => w = <<>>
          /\ AtItsEnd(w)
      BY <2>3 DEF Says
    <3>6. From(w', d, i) /\ AtItsEnd(w') BY <3>2, <3>3, <3>5
    <3>7. w = <<>> => w' = <<>> BY <3>3
    <3>8. NoReq(down, d)' /\ Deaf(d)' BY <1>5, <1>6, <3>5
    <3>9. ChunksFrom(up', d, i) /\ TailLast(up', d) /\ (TailIn(up', d) => ~Pending(d)' /\ w' = <<>>)
      BY <3>1, <3>4, <3>5, <3>7
    <3>10. HasTail(col.buf) => Silent(d)' BY <1>4, <3>5
    <3> HIDE DEF w
    <3> QED BY <3>4, <3>5, <3>6, <3>7, <3>8, <3>9, <3>10 DEF Says, Under, w
  <2> QED BY <1>8, <2>1, <2>2, <2>3 DEF Under
<1> QED BY <1>7, <1>8 DEF Undisturbed

LEMMA TtyLostDisturbs ==
  ASSUME IInv, NEW l \in Lines, TtyLost(l)
  PROVE  Undisturbed
<1> DEFINE m == ToEp("CONNECT_LOST", pr, <<>>)
<1>1. up' = up \o <<m>> /\ UNCHANGED <<col, down, heard>> BY DEF TtyLost, Tty
<1>2. pr # NoRoute /\ UNCHANGED <<devindex, wire, scan, pr>> BY DEF TtyLost, Lost
<1>3. pr \in Devs
  <2>1. pr \in 0 .. NDev BY DEF IInv, TtyTypes
  <2> QED BY <1>2, <2>1, Constants
<1>4. m \in UpMsgs /\ m.type # "USER_DATA" BY <1>3, SeqFacts DEF ToEp, UpMsgs
<1> HIDE DEF m
<1> QED BY <1>1, <1>2, <1>4, Loses

LEMMA DownRecvDisturbs ==
  ASSUME IInv, DownRecv
  PROVE  Undisturbed
<1> DEFINE m == Head(down)
           t == Tail(down)
<1>1. down # <<>> /\ down \in Seq(DnMsgs) /\ up \in Seq(UpMsgs) BY DEF DownRecv, IInv, Types
<1>2. m \in DnMsgs BY <1>1, TailFacts
<1>3. /\ down' = t
      /\ IF m.type = "READ_DATA"
         THEN \E reaches \in BOOLEAN, i \in {m.item, heard[m.dev]} :
                /\ TtyWrite(m, reaches)
                /\ heard' = [heard EXCEPT ![m.dev] = i]
                /\ Tty(<<>>)
         ELSE \E ok \in BOOLEAN, sent \in {<<ToEp(x, m.dev, <<>>)>> : x \in {"CONNECT_ACK", "CONNECT_NACK"}} :
                TtyConnect(m, ok, sent) /\ Tty(sent) /\ UNCHANGED heard
  BY DEF DownRecv
<1>4. m.dev \in Devs BY <1>2 DEF DnMsgs
<1>5. ASSUME NEW d \in Devs
      PROVE  /\ NoReq(down, d) => NoReq(t, d) /\ ~Req(m, d)
             /\ \A i : OneReq(down, d, i) =>
                  \/ m = Msg("READ_DATA", d, i) /\ NoReq(t, d)
                  \/ ~Req(m, d) /\ OneReq(t, d, i)
  BY <1>1, ReqTail
<1> HIDE DEF m, t
<1>6. CASE m.type = "READ_DATA"
  <2>1. PICK j \in {m.item, heard[m.dev]} :
          /\ UNCHANGED ttyvars /\ heard' = [heard EXCEPT ![m.dev] = j] /\ Tty(<<>>)
    BY <1>3, <1>6 DEF TtyWrite
  <2>2. up' = up /\ UNCHANGED col BY <1>1, <2>1, SeqFacts DEF Tty
  <2>3. UNCHANGED <<devindex, wire, scan>> BY <2>1 DEF ttyvars
  <2>4. heard \in [Devs -> 0 .. MaxItems] BY DEF IInv, Types
  <2>5. ASSUME NEW d \in Devs PROVE Silent(d)' <=> Silent(d)
    BY <2>2, <2>3 DEF Silent, NoChunk, Chunk, Pending
  <2>6. ASSUME NEW d \in Devs, ~Req(m, d)
        PROVE  /\ Deaf(d)' <=> Deaf(d)
               /\ \A i : Hearing(d, i)' <=> Hearing(d, i)
    <3>1. devindex[m.dev] # devindex[d] BY <1>6, <2>6 DEF Req
    <3>2. \A e \in SameLine(d) : e \in Devs /\ e # m.dev BY <3>1 DEF SameLine
    <3>3. \A e \in SameLine(d) : heard'[e] = heard[e] BY <2>1, <2>4, <3>2
    <3>4. SameLine(d)' = SameLine(d) /\ d \in SameLine(d) BY <2>3 DEF SameLine
    <3> QED BY <3>3, <3>4 DEF Deaf, Hearing
  <2>7. ASSUME NEW d \in Devs PROVE NoReq(t, d) => NoReq(down, d)' BY <1>3, <2>3 DEF NoReq, Req
  <2>8. ASSUME NEW d \in Devs, Quiet(d) PROVE Quiet(d)' BY <1>5, <2>5, <2>6, <2>7, <2>8 DEF Quiet
  <2>9. ASSUME NEW d \in Devs, NEW i \in 1 .. MaxItems, Under(d, i) PROVE Under(d, i)'
    <3>1. CASE Wanted(d, i)
      <4>1. CASE ~Req(m, d) /\ OneReq(t, d, i)
        <5>1. OneReq(down, d, i)' BY <1>3, <2>3, <4>1 DEF OneReq, Req
        <5> QED BY <2>2, <2>5, <2>6, <3>1, <4>1, <5>1 DEF Wanted, Under
      <4>2. CASE m = Msg("READ_DATA", d, i) /\ NoReq(t, d)
        <5>1. m.dev = d /\ m.item = i BY <4>2 DEF Msg
        <5>2. Deaf(d) /\ d \in SameLine(d) BY <3>1 DEF Wanted, SameLine
        <5>3. heard[d] = 0 BY <5>2 DEF Deaf
        <5>4. heard'[d] \in {i, 0} /\ \A e \in SameLine(d) \ {d} : heard'[e] = 0
          BY <2>1, <2>4, <5>1, <5>2, <5>3 DEF Deaf, SameLine
        <5>5. SameLine(d)' = SameLine(d) BY <2>3 DEF SameLine
        <5>6. NoReq(down, d)' /\ Silent(d)' /\ col'.buf = <<>> BY <2>2, <2>5, <2>7, <3>1, <4>2 DEF Wanted
        <5>7. CASE heard'[d] = i
          <6>1. Hearing(d, i)' BY <5>4, <5>5, <5>7 DEF Hearing
          <6> QED BY <5>6, <6>1 DEF Hears, Under
        <5>8. CASE heard'[d] = 0
          <6>1. Deaf(d)' BY <5>4, <5>5, <5>8 DEF Deaf
          <6>2. Says(d, i)' BY <5>6, <6>1, SilentSays
          <6> QED BY <6>2 DEF Under
        <5> QED BY <5>4, <5>7, <5>8
      <4> QED BY <1>5, <3>1, <4>1, <4>2 DEF Wanted
    <3>2. CASE Hears(d, i)
      <4>1. ~Req(m, d) /\ NoReq(t, d) BY <1>5, <3>2 DEF Hears
      <4> QED BY <2>2, <2>5, <2>6, <2>7, <3>2, <4>1 DEF Hears, Under
    <3>3. CASE Says(d, i)
      <4>1. ~Req(m, d) /\ NoReq(t, d) BY <1>5, <3>3 DEF Says
      <4>2. NoReq(down, d)' /\ Deaf(d)' BY <2>6, <2>7, <3>3, <4>1 DEF Says
      <4>3. (Pending(d)' <=> Pending(d)) /\ wire'[devindex'[d]] = wire[devindex[d]] BY <2>3 DEF Pending
      <4>4. HasTail(col.buf) => Silent(d)' BY <2>5, <3>3 DEF Says
      <4> QED BY <2>2, <2>3, <3>3, <4>2, <4>3, <4>4 DEF Says, Under, ChunksFrom, TailLast, TailIn, Chunk
    <3> QED BY <2>9, <3>1, <3>2, <3>3 DEF Under
  <2> QED BY <2>8, <2>9 DEF Undisturbed
<1>7. CASE m.type # "READ_DATA"
  <2>1. PICK ok \in BOOLEAN, sent \in {<<ToEp(x, m.dev, <<>>)>> : x \in {"CONNECT_ACK", "CONNECT_NACK"}} :
          TtyConnect(m, ok, sent) /\ Tty(sent) /\ UNCHANGED heard
    BY <1>3, <1>7
  <2> DEFINE x == IF ok THEN "CONNECT_ACK" ELSE "CONNECT_NACK"
             a == ToEp(x, m.dev, <<>>)
             l == devindex[m.dev]
  <2>2. /\ wire' = IF ok \/ desc[l] = "none" THEN [wire EXCEPT ![l] = <<>>] ELSE wire
        /\ sent = <<a>>
        /\ UNCHANGED <<devindex, scan>>
    BY <2>1 DEF TtyConnect, Start
  <2>3. up' = up \o <<a>> /\ UNCHANGED <<col, heard>> BY <2>1, <2>2 DEF Tty
  <2>4. a \in UpMsgs /\ a.type # "USER_DATA"
    <3>1. x \in {"USER_DATA", "CONNECT_ACK", "CONNECT_NACK", "CONNECT_LOST"} /\ x # "USER_DATA" OBVIOUS
    <3> HIDE DEF x
    <3> QED BY <1>4, <3>1, SeqFacts DEF ToEp, UpMsgs
  <2> HIDE DEF a
  <2>5. wire \in [Lines -> Seq(Pieces)] BY DEF IInv, TtyTypes
  <2>6. \A k \in Lines : wire'[k] = wire[k] \/ wire'[k] = <<>> BY <2>2, <2>5
  <2>7. \A d \in Devs : ~Req(m, d) BY <1>7 DEF Req
  <2>8. \A d \in Devs, i \in 1 .. MaxItems : m = Msg("READ_DATA", d, i) => FALSE BY <1>7 DEF Msg
  <2>9. /\ \A d \in Devs : NoReq(down, d) => NoReq(down', d)
        /\ \A d \in Devs, i \in 1 .. MaxItems : OneReq(down, d, i) => OneReq(down', d, i)
    BY <1>3, <1>5, <2>8
  <2> QED BY <2>2, <2>3, <2>4, <2>6, <2>9, Loses
<1> QED BY <1>6, <1>7

LEMMA TtyReadDisturbs ==
  ASSUME IInv, TtyRead
  PROVE  Undisturbed
<1>1. PICK l \in Lines : Read(l) BY DEF TtyRead
<1>2. up' = up /\ UNCHANGED <<col, down, heard>>
  <2>1. up \in Seq(UpMsgs) BY DEF IInv, Types
  <2> QED BY <2>1, SeqFacts DEF TtyRead, Tty
<1>3. PICK k \in DOMAIN wire[l] :
        /\ scan' = [line |-> l, chunk |-> SubSeq(wire[l], 1, k), next |-> 1]
        /\ wire' = [wire EXCEPT ![l] = SubSeq(@, k + 1, Len(@))]
  BY <1>1 DEF Read
<1>4. scan = NoScan /\ UNCHANGED devindex /\ wire[l] # <<>> BY <1>1 DEF Read
<1>5. wire \in [Lines -> Seq(Pieces)] /\ devindex \in [Devs -> Lines] BY DEF IInv, TtyTypes
<1> DEFINE v == wire[l]
           first == SubSeq(v, 1, k)
           rest == SubSeq(v, k + 1, Len(v))
<1>6. v \in Seq(Pieces) /\ k \in 1 .. Len(v) BY <1>5
<1>7. /\ \A d, i : From(v, d, i) => From(first, d, i) /\ From(rest, d, i)
      /\ AtItsEnd(v) => AtItsEnd(rest) /\ (HasTail(first) => rest = <<>>)
  BY <1>6, ReadParts
<1>8. scan'.line = l /\ scan'.chunk = first /\ scan'.next = 1 /\ wire' = [wire EXCEPT ![l] = rest] BY <1>3
<1> HIDE DEF first, rest
<1>9. ASSUME NEW d \in Devs PROVE ~Pending(d) /\ (Pending(d)' <=> devindex[d] = l)
  <2>1. scan.next = 0 BY <1>4 DEF NoScan, NoRoute
  <2> QED BY <1>4, <1>8, <2>1, Constants DEF Pending
<1>10. ASSUME NEW d \in Devs
       PROVE  wire'[devindex'[d]] = IF devindex[d] = l THEN rest ELSE wire[devindex[d]]
  BY <1>4, <1>5, <1>8
<1>11. ASSUME NEW d \in Devs, Silent(d) PROVE Silent(d)' /\ devindex[d] # l
  <2>1. devindex[d] # l BY <1>4, <1>11 DEF Silent
  <2> QED BY <1>2, <1>9, <1>10, <1>11, <2>1 DEF Silent, NoChunk, Chunk
<1>12. ASSUME NEW d \in Devs
       PROVE  /\ NoReq(down, d)' <=> NoReq(down, d)
              /\ Deaf(d)' <=> Deaf(d)
              /\ \A i : /\ Hearing(d, i)' <=> Hearing(d, i)
                        /\ OneReq(down, d, i)' <=> OneReq(down, d, i)
  BY <1>2, <1>4 DEF NoReq, Req, Deaf, Hearing, SameLine, OneReq
<1>13. ASSUME NEW d \in Devs, Quiet(d) PROVE Quiet(d)' BY <1>11, <1>12, <1>13 DEF Quiet
<1>14. ASSUME NEW d \in Devs, NEW i \in 1 .. MaxItems, Under(d, i) PROVE Under(d, i)'
  <2>1. CASE Wanted(d, i) BY <1>2, <1>11, <1>12, <2>1 DEF Wanted, Under
  <2>2. CASE Hears(d, i) BY <1>2, <1>11, <1>12, <2>2 DEF Hears, Under
  <2>3. CASE Says(d, i)
    <3> DEFINE w == wire[devindex[d]]
    <3>1. /\ NoReq(down, d)' /\ Deaf(d)'
          /\ From(col.buf, d, i) /\ ChunksFrom(up, d, i) /\ From(w, d, i)
          /\ HasTail(col.buf) => Silent(d)
          /\ TailLast(up, d)
          /\ TailIn(up, d) => w = <<>>
          /\ AtItsEnd(w)
      BY <1>9, <1>12, <2>3 DEF Says
    <3>2. CASE devindex[d] = l
      <4>1. w = v /\ w' = rest BY <1>10, <3>2
      <4>2. ~HasTail(col.buf) /\ ~TailIn(up, d) BY <1>4, <1>11, <3>1, <3>2, <4>1
      <4>3. From(first, d, i) /\ From(rest, d, i) /\ AtItsEnd(rest) /\ (HasTail(first) => rest = <<>>)
        BY <1>7, <3>1, <4>1
      <4> HIDE DEF w
      <4> QED BY <1>2, <1>8, <3>1, <4>1, <4>2, <4>3 DEF Says, Under, w
    <3>3. CASE devindex[d] # l
      <4>1. w' = w BY <1>10, <3>3
      <4>2. ~Pending(d)' BY <1>9, <3>3
      <4>3. HasTail(col.buf) => Silent(d)' BY <1>11, <3>1
      <4> HIDE DEF w
      <4> QED BY <1>2, <3>1, <4>1, <4>2, <4>3 DEF Says, Under, w
    <3> QED BY <3>2, <3>3
  <2> QED BY <1>14, <2>1, <2>2, <2>3 DEF Under
<1> QED BY <1>13, <1>14 DEF Undisturbed

LEMMA TtyCopyDisturbs ==
  ASSUME IInv, TtyCopy
  PROVE  Undisturbed
<1> DEFINE c == scan.next
           m == ToEp("USER_DATA", c, scan.chunk)
<1>1. PICK sent \in {<<>>, <<m>>} : Copy(sent) /\ Tty(sent) BY DEF TtyCopy
<1>2. UNCHANGED <<col, down, heard>> /\ up' = up \o sent BY <1>1 DEF TtyCopy, Tty
<1>3. /\ scan # NoScan
      /\ sent = IF CopyTo(c) THEN <<m>> ELSE <<>>
      /\ scan' = IF c + 1 \in Routes THEN [scan EXCEPT !.next = c + 1] ELSE NoScan
      /\ UNCHANGED <<devindex, state, desc, wire>>
  BY <1>1 DEF Copy
<1>4. /\ scan \in [line : Lines, chunk : Seq(Pieces), next : 0 .. NDev] /\ c \in Devs
  BY <1>3 DEF IInv, TtyTypes
<1>5. up \in Seq(UpMsgs) BY DEF IInv, Types
<1>6. m \in UpMsgs /\ m.type = "USER_DATA" /\ m.dev = c /\ m.chunk = scan.chunk
  BY <1>4 DEF ToEp, UpMsgs
<1> HIDE DEF m
\* A copy is still to come for the meters behind c of the line.
<1>7. ASSUME NEW d \in Devs
      PROVE  /\ Pending(d)' <=> Pending(d) /\ c # d
             /\ Pending(d)' => scan'.chunk = scan.chunk
  <2>1. CASE c + 1 \in Routes
    <3>1. scan' = [scan EXCEPT !.next = c + 1] BY <1>3, <2>1
    <3>2. scan'.line = scan.line /\ scan'.chunk = scan.chunk /\ scan'.next = c + 1 BY <1>4, <3>1
    <3> QED BY <1>3, <1>4, <3>2, Constants DEF Pending
  <2>2. CASE c + 1 \notin Routes
    <3>1. scan' = NoScan /\ c = NDev BY <1>3, <1>4, <2>2, Constants
    <3>2. scan'.next = 0 BY <3>1 DEF NoScan, NoRoute
    <3> QED BY <1>3, <1>4, <3>1, <3>2, Constants DEF Pending
  <2> QED BY <2>1, <2>2
\* d gets one if it is its turn.
<1>8. ASSUME NEW d \in Devs
      PROVE  /\ ~(Pending(d) /\ c = d) => /\ NoChunk(up, d) => NoChunk(up', d)
                                          /\ \A i : ChunksFrom(up, d, i) => ChunksFrom(up', d, i)
                                          /\ TailLast(up, d) => TailLast(up', d)
                                          /\ TailIn(up', d) => TailIn(up, d)
             /\ \A i : ChunksFrom(up, d, i) /\ From(scan.chunk, d, i) => ChunksFrom(up', d, i)
             /\ TailLast(up, d) /\ ~TailIn(up, d) => TailLast(up', d)
             /\ TailIn(up', d) => TailIn(up, d) \/ HasTail(scan.chunk)
  <2>1. CASE CopyTo(c)
    <3>1. up' = up \o <<m>> BY <1>2, <1>3, <2>1
    <3>2. ~(Pending(d) /\ c = d) => ~Chunk(m, d)
      <4>1. c = d => Pending(d) BY <1>4, <2>1, Constants DEF CopyTo, Pending
      <4> QED BY <1>6, <4>1 DEF Chunk
    <3> QED BY <1>5, <1>6, <3>1, <3>2, UpMore
  <2>2. CASE ~CopyTo(c)
    <3>1. up' = up BY <1>2, <1>3, <1>5, <2>2, SeqFacts
    <3> QED BY <3>1
  <2> QED BY <2>1, <2>2
<1>9. ASSUME NEW d \in Devs, Silent(d) PROVE Silent(d)'
  <2>1. NoChunk(up', d) BY <1>8, <1>9 DEF Silent
  <2> QED BY <1>3, <1>7, <1>9, <2>1 DEF Silent, NoChunk, Chunk
<1>10. ASSUME NEW d \in Devs
       PROVE  /\ NoReq(down, d)' <=> NoReq(down, d)
              /\ Deaf(d)' <=> Deaf(d)
              /\ \A i : /\ Hearing(d, i)' <=> Hearing(d, i)
                        /\ OneReq(down, d, i)' <=> OneReq(down, d, i)
  BY <1>2, <1>3 DEF NoReq, Req, Deaf, Hearing, SameLine, OneReq
<1>11. ASSUME NEW d \in Devs, Quiet(d) PROVE Quiet(d)' BY <1>9, <1>10, <1>11 DEF Quiet
<1>12. ASSUME NEW d \in Devs, NEW i \in 1 .. MaxItems, Under(d, i) PROVE Under(d, i)'
  <2>1. CASE Wanted(d, i) BY <1>2, <1>9, <1>10, <2>1 DEF Wanted, Under
  <2>2. CASE Hears(d, i) BY <1>2, <1>9, <1>10, <2>2 DEF Hears, Under
  <2>3. CASE Says(d, i)
    <3> DEFINE w == wire[devindex[d]]
    <3>1. /\ NoReq(down, d)' /\ Deaf(d)'
          /\ From(col.buf, d, i) /\ ChunksFrom(up, d, i) /\ From(w, d, i)
          /\ Pending(d) => From(scan.chunk, d, i)
          /\ HasTail(col.buf) => Silent(d)
          /\ TailLast(up, d)
          /\ TailIn(up, d) => ~Pending(d) /\ w = <<>>
          /\ Pending(d) /\ HasTail(scan.chunk) => w = <<>>
          /\ AtItsEnd(w)
      BY <1>10, <2>3 DEF Says
    <3>2. w' = w BY <1>3
    <3>3. HasTail(col'.buf) => Silent(d)' BY <1>2, <1>9, <3>1
    <3>4. /\ ChunksFrom(up', d, i) /\ TailLast(up', d)
          /\ TailIn(up', d) => ~Pending(d)' /\ w = <<>>
          /\ Pending(d)' => From(scan'.chunk, d, i)
          /\ Pending(d)' /\ HasTail(scan'.chunk) => w = <<>>
      <4>1. CASE Pending(d) /\ c = d BY <1>7, <1>8, <3>1, <4>1
      <4>2. CASE ~(Pending(d) /\ c = d) BY <1>7, <1>8, <3>1, <4>2
      <4> QED BY <4>1, <4>2
    <3> HIDE DEF w
    <3> QED BY <1>2, <3>1, <3>2, <3>3, <3>4 DEF Says, Under, w
  <2> QED BY <1>12, <2>1, <2>2, <2>3 DEF Under
<1> QED BY <1>11, <1>12 DEF Undisturbed

LEMMA MeterAnswersDisturbs ==
  ASSUME IInv, NEW e \in Devs, MeterAnswers(e)
  PROVE  Undisturbed
<1> DEFINE l == devindex[e]
           a == Answer(e, heard[e])
<1>1. /\ heard[e] # 0
      /\ heard' = [heard EXCEPT ![e] = 0]
      /\ wire' = IF desc[l] = "open" THEN [wire EXCEPT ![l] = @ \o a] ELSE wire
      /\ UNCHANGED <<col, down, up, devindex, scan>>
  BY DEF MeterAnswers
<1>2. /\ wire \in [Lines -> Seq(Pieces)] /\ devindex \in [Devs -> Lines]
      /\ heard \in [Devs -> 0 .. MaxItems]
  BY DEF IInv, TtyTypes, Types
<1> HIDE DEF a
<1>3. ASSUME NEW d \in Devs, devindex[d] # l
      PROVE  /\ wire'[devindex'[d]] = wire[devindex[d]]
             /\ Deaf(d)' <=> Deaf(d)
             /\ \A i : Hearing(d, i)' <=> Hearing(d, i)
  <2>1. wire'[devindex[d]] = wire[devindex[d]] BY <1>1, <1>2, <1>3
  <2>2. \A x \in SameLine(d) : x \in Devs /\ x # e BY <1>3 DEF SameLine
  <2>3. \A x \in SameLine(d) : heard'[x] = heard[x] BY <1>1, <1>2, <2>2
  <2>4. SameLine(d)' = SameLine(d) /\ d \in SameLine(d) BY <1>1 DEF SameLine
  <2> QED BY <1>1, <2>1, <2>3, <2>4 DEF Deaf, Hearing
<1>4. ASSUME NEW d \in Devs, Deaf(d) PROVE devindex[d] # l
  <2>1. e \notin SameLine(d) BY <1>1, <1>4 DEF Deaf
  <2> QED BY <2>1 DEF SameLine
<1>5. ASSUME NEW d \in Devs
      PROVE  /\ NoReq(down, d)' <=> NoReq(down, d)
             /\ \A i : OneReq(down, d, i)' <=> OneReq(down, d, i)
             /\ Pending(d)' <=> Pending(d)
             /\ NoChunk(up, d)' <=> NoChunk(up, d)
  BY <1>1 DEF NoReq, Req, OneReq, Pending, NoChunk, Chunk
<1>6. ASSUME NEW d \in Devs, devindex[d] # l PROVE Silent(d)' <=> Silent(d)
  BY <1>3, <1>5, <1>6 DEF Silent
<1>7. ASSUME NEW d \in Devs, Quiet(d) PROVE Quiet(d)' BY <1>3, <1>4, <1>5, <1>6, <1>7 DEF Quiet
<1>8. ASSUME NEW d \in Devs, NEW i \in 1 .. MaxItems, Under(d, i) PROVE Under(d, i)'
  <2>1. CASE Wanted(d, i) BY <1>1, <1>3, <1>4, <1>5, <1>6, <2>1 DEF Wanted, Under
  <2>2. CASE Hears(d, i) /\ devindex[d] # l BY <1>1, <1>3, <1>5, <1>6, <2>2 DEF Hears, Under
  <2>3. CASE Hears(d, i) /\ devindex[d] = l
    <3>1. e \in SameLine(d) BY <2>3 DEF SameLine
    <3>2. e = d /\ heard[e] = i BY <1>1, <2>3, <3>1 DEF Hears, Hearing
    <3>3. Deaf(d)'
      <4>1. \A x \in SameLine(d) : x \in Devs /\ (x # d => heard[x] = 0) BY <2>3 DEF Hears, Hearing, SameLine
      <4>2. SameLine(d)' = SameLine(d) BY <1>1 DEF SameLine
      <4>3. \A x \in SameLine(d) : heard'[x] = 0 BY <1>1, <1>2, <3>2, <4>1
      <4> QED BY <4>2, <4>3 DEF Deaf
    <3>4. wire[l] = <<>> /\ ~Pending(d) /\ NoChunk(up, d) BY <2>3 DEF Hears, Silent
    <3> DEFINE w == wire[devindex[d]]
    <3>5. w' \in {<<>>, <<>> \o a} BY <1>1, <1>2, <2>3, <3>4
    <3>6. \A x, y : From(<<>>, x, y) /\ ~HasTail(<<>>) /\ AtItsEnd(<<>>) BY DEF From, HasTail, AtItsEnd
    <3>7. From(w', d, i) /\ AtItsEnd(w') BY <3>2, <3>5, <3>6, AnswerFrom DEF a
    <3>8. ChunksFrom(up, d, i) /\ TailLast(up, d) /\ ~TailIn(up, d)
      BY <3>4 DEF NoChunk, ChunksFrom, TailLast, TailIn
    <3>9. NoReq(down, d)' /\ ~Pending(d)' /\ col'.buf = <<>> BY <1>1, <1>5, <2>3, <3>4 DEF Hears
    <3> HIDE DEF w
    <3> QED BY <1>1, <3>3, <3>6, <3>7, <3>8, <3>9 DEF Says, Under, w
  <2>4. CASE Says(d, i)
    <3>1. Deaf(d) BY <2>4 DEF Says
    <3>2. devindex[d] # l BY <1>4, <3>1
    <3>3. (Silent(d)' <=> Silent(d)) /\ Deaf(d)' /\ wire'[devindex'[d]] = wire[devindex[d]]
      BY <1>3, <1>6, <3>1, <3>2
    <3> QED BY <1>1, <1>5, <2>4, <3>3 DEF Says, Under
  <2> QED BY <1>8, <2>1, <2>2, <2>3, <2>4 DEF Under
<1> QED BY <1>7, <1>8 DEF Undisturbed

(***************************************************************************)
(* The steps of m700                                                       *)
(***************************************************************************)
\* As Quiet, when q is what is left to m700.
QuietOn(q, d) == /\ NoReq(down, d) /\ Deaf(d)
                 /\ NoChunk(q, d) /\ ~Pending(d) /\ wire[devindex[d]] = <<>>

\* At the end of a collection everything is passed up that a steady meter was asked.
Ends == Collecting(col) /\ ~Collecting(col')
          => \A d \in Devs : FirstOfLine(d) => \A i \in 1 .. steady'[d] : <<d, i>> \in passed'

\* What a handler makes of the history.
LEMMA StepSteady ==
  ASSUME IInv, NEW r \in Effects, NEW rest, Step(r, rest)
  PROVE  /\ col' = r.g /\ down' = down \o r.dn /\ up' = rest /\ down \in Seq(DnMsgs) /\ r.dn \in Seq(DnMsgs)
         /\ UNCHANGED <<devindex, heard, scan, wire>>
         /\ \A d \in Devs : steady'[d] # 0 =>
              /\ r.g.tx_ready[d]
              /\ ~(col.timer_recv = "due" /\ r.g.timer_recv # "due" /\ col.ep_idx \in SameLine(d))
              /\ ~Collecting(col) /\ Collecting(r.g) =>
                   steady'[d] = r.g.n[d] /\ Settled(d) /\ ~Waiting(col) /\ rest = <<>>
              /\ ~(~Collecting(col) /\ Collecting(r.g)) => steady'[d] = steady[d]
         /\ ~(~Collecting(col) /\ Collecting(r.g)) =>
              passed' = passed \cup {<<r.up[k].dev, r.up[k].item>> : k \in DOMAIN r.up}
<1>1. down \in Seq(DnMsgs) /\ r.dn \in Seq(DnMsgs) BY DEF IInv, Types, Effects
<1>2. col' = r.g /\ down' = down \o r.dn /\ up' = rest BY DEF Step
<1>3. UNCHANGED <<devindex, heard, scan, wire>> BY DEF Step, ttyvars
<1> DEFINE begins == ~Collecting(col) /\ Collecting(r.g)
           gaveUp(d) == col.timer_recv = "due" /\ r.g.timer_recv # "due" /\ col.ep_idx \in SameLine(d)
           data == {<<r.up[k].dev, r.up[k].item>> : k \in DOMAIN r.up}
<1>4. /\ passed' = (IF begins THEN {} ELSE passed) \cup data
      /\ steady' = [d \in Devs |-> IF ~r.g.tx_ready[d] \/ gaveUp(d) THEN 0
                                   ELSE IF ~begins THEN steady[d]
                                   ELSE IF Settled(d) /\ ~Waiting(col) /\ rest = <<>> THEN r.g.n[d] ELSE 0]
  BY Zenon DEF Step
<1>5. ~begins => passed' = passed \cup data BY <1>4
<1> HIDE DEF begins, gaveUp, data
<1>6. ASSUME NEW d \in Devs, steady'[d] # 0
      PROVE  /\ r.g.tx_ready[d] /\ ~gaveUp(d)
             /\ begins => steady'[d] = r.g.n[d] /\ Settled(d) /\ ~Waiting(col) /\ rest = <<>>
             /\ ~begins => steady'[d] = steady[d]
  BY <1>4, <1>6
<1> QED BY <1>1, <1>2, <1>3, <1>5, <1>6 DEF begins, gaveUp, data

\* The collection stays where it is.
LEMMA Carry ==
  ASSUME Following, UNCHANGED devindex, passed \subseteq passed',
         col'.ep_idx = col.ep_idx, col'.data_idx = col.data_idx, col'.n = col.n,
         col'.timer_recv = "on" => col.timer_recv = "on",
         \A d \in Devs : steady'[d] # 0 => steady'[d] = steady[d] /\ col'.tx_ready[d],
         \A d \in Devs : Quiet(d) => Quiet(d)',
         col'.timer_recv = "on" =>
           \A d \in Devs, i \in 1 .. MaxItems : d = col.ep_idx /\ Under(d, i) => Under(d, i)'
  PROVE  Following' /\ Ends
<1>1. Collecting(col') <=> Collecting(col) BY DEF Collecting
<1>2. SUFFICES ASSUME Collecting(col), NEW d \in Devs, FirstOfLine(d)', steady'[d] # 0
               PROVE  Follows(d)'
  BY <1>1 DEF Following, Ends, Steady
<1>3. FirstOfLine(d) BY <1>2 DEF FirstOfLine, SameLine
<1>4. Follows(d) /\ steady'[d] = steady[d] /\ col'.tx_ready[d] BY <1>2, <1>3 DEF Following, Steady
<1>5. steady'[d] = col'.n[d] BY <1>4 DEF Follows
<1>6. col'.ep_idx < d => Quiet(d)' BY <1>4 DEF Follows
<1>7. ASSUME col'.ep_idx = d PROVE \A i \in 1 .. col'.data_idx - 1 : <<d, i>> \in passed'
  BY <1>4, <1>7 DEF Follows
<1>8. ASSUME col'.ep_idx = d, col'.timer_recv = "on", NEW i \in 1 .. MaxItems, i = col'.data_idx
      PROVE  Under(d, i)'
  <2>1. Under(d, i) BY <1>4, <1>8 DEF Follows
  <2> QED BY <1>8, <2>1
<1>9. ASSUME col'.ep_idx > d PROVE \A i \in 1 .. steady'[d] : <<d, i>> \in passed'
  BY <1>4, <1>9 DEF Follows
<1> QED BY <1>4, <1>5, <1>6, <1>7, <1>8, <1>9 DEF Follows

LEMMA FirstAlone ==
  ASSUME NEW d \in Devs, FirstOfLine(d), NEW e \in Devs, e < d
  PROVE  devindex[e] # devindex[d]
<1>1. SameLine(d) \subseteq Nat /\ d \in SameLine(d) BY Constants DEF SameLine
<1>2. \A x \in SameLine(d) : Min(SameLine(d)) <= x BY <1>1, MinIsLeast
<1>3. e \notin SameLine(d) BY <1>1, <1>2, Constants DEF FirstOfLine
<1> QED BY <1>3 DEF SameLine

\* Item i of meter e has just been asked for.
LEMMA Placing ==
  ASSUME IInv, NEW r \in Effects, NEW rest, Step(r, rest),
         NEW e \in Devs, NEW i \in 1 .. MaxItems, AtPlace(r, e, i),
         \A d \in Devs : FirstOfLine(d) /\ steady'[d] # 0 =>
           /\ steady'[d] = r.g.n[d]
           /\ e <= d => QuietOn(rest, d)
           /\ e = d => \A j \in 1 .. i - 1 : <<d, j>> \in passed'
           /\ d < e => \A j \in 1 .. steady'[d] : <<d, j>> \in passed'
  PROVE  Following'
<1>1. /\ col' = r.g /\ down' = down \o r.dn /\ up' = rest /\ down \in Seq(DnMsgs) /\ r.dn \in Seq(DnMsgs)
      /\ UNCHANGED <<devindex, heard, scan, wire>>
      /\ \A d \in Devs : steady'[d] # 0 => r.g.tx_ready[d]
  BY StepSteady
<1>2. /\ col'.ep_idx = e /\ col'.data_idx = i /\ col'.buf = <<>> /\ Asks(r.dn, e, i)
  BY <1>1 DEF AtPlace
<1>3. SUFFICES ASSUME NEW d \in Devs, FirstOfLine(d)', steady'[d] # 0 PROVE Follows(d)'
  BY DEF Following, Steady
<1>4. FirstOfLine(d) BY <1>1, <1>3 DEF FirstOfLine, SameLine
<1>5. /\ steady'[d] = r.g.n[d] /\ r.g.tx_ready[d]
      /\ e <= d => QuietOn(rest, d)
      /\ e = d => \A j \in 1 .. i - 1 : <<d, j>> \in passed'
      /\ d < e => \A j \in 1 .. steady'[d] : <<d, j>> \in passed'
  BY <1>1, <1>3, <1>4
<1>6. ASSUME e <= d PROVE Deaf(d)' /\ Silent(d)'
  <2>1. QuietOn(rest, d) BY <1>5, <1>6
  <2>2. Deaf(d)' BY <1>1, <2>1 DEF QuietOn, Deaf, SameLine
  <2>3. ~Pending(d)' BY <1>1, <2>1 DEF QuietOn, Pending
  <2>4. NoChunk(rest, d) BY <2>1 DEF QuietOn
  <2>5. NoChunk(up', d) BY <1>1, <2>4
  <2>6. wire'[devindex'[d]] = <<>> BY <1>1, <2>1 DEF QuietOn
  <2> QED BY <2>2, <2>3, <2>5, <2>6 DEF Silent, NoChunk, Chunk
<1>7. ASSUME e < d PROVE Quiet(d)'
  <2>1. NoReq(down, d) /\ e <= d BY <1>5, <1>7, Constants DEF QuietOn
  <2>2. devindex[e] # devindex[d] BY <1>4, <1>7, FirstAlone
  <2>3. NoReq(down', d) BY <1>1, <1>2, <2>1, <2>2, ReqConcat
  <2>4. NoReq(down, d)' BY <1>1, <2>3 DEF NoReq, Req
  <2> QED BY <1>6, <2>1, <2>4 DEF Quiet
<1>8. ASSUME e = d PROVE Under(d, i)'
  <2>1. NoReq(down, d) /\ e <= d BY <1>5, <1>8, Constants DEF QuietOn
  <2>2. OneReq(down', d, i) BY <1>1, <1>2, <1>8, <2>1, ReqConcat
  <2>3. OneReq(down, d, i)' BY <1>1, <2>2 DEF OneReq, Req
  <2> QED BY <1>2, <1>6, <2>1, <2>3 DEF Wanted, Under
<1> QED BY <1>1, <1>2, <1>5, <1>7, <1>8 DEF Follows

\* The collection goes on behind meter c, or begins, c = 0, or ends.
LEMMA Advance ==
  ASSUME IInv, NEW r \in Effects, NEW rest, Step(r, rest), NEW c \in 0 .. NDev, LooksOn(r, c),
         Collecting(col) \/ Collecting(r.g) => \A d \in Devs : FirstOfLine(d) /\ steady'[d] # 0 =>
           /\ steady'[d] = r.g.n[d]
           /\ c < d => QuietOn(rest, d)
           /\ d <= c => \A j \in 1 .. steady'[d] : <<d, j>> \in passed'
  PROVE  Following' /\ Ends
<1>1. /\ col' = r.g
      /\ \A d \in Devs : steady'[d] # 0 => r.g.tx_ready[d]
  BY StepSteady
<1>2. r.g.n \in [Devs -> 0 .. MaxItems] BY DEF Effects, Collector
<1>3. ASSUME NEW e, Nobody(r.g, c, e), NEW d \in Devs, c < d, d < e, steady'[d] = r.g.n[d]
      PROVE  steady'[d] = 0
  <2>1. ~Something(r.g, d) BY <1>3 DEF Nobody
  <2>2. r.g.n[d] \in 0 .. MaxItems BY <1>2
  <2> QED BY <1>1, <1>3, <2>1, <2>2, Constants DEF Something
<1>4. CASE \E d \in Devs : c < d /\ 1 <= r.g.n[d] /\ AtPlace(r, d, 1) /\ Nobody(r.g, c, d)
  <2>1. PICK e \in Devs : c < e /\ 1 <= r.g.n[e] /\ AtPlace(r, e, 1) /\ Nobody(r.g, c, e) BY <1>4
  <2>2. r.g.ep_idx = e /\ e # 0 BY <2>1, Constants DEF AtPlace
  <2>3. Collecting(r.g) BY <2>2 DEF Collecting
  <2>4. 1 \in 1 .. MaxItems
    <3>1. r.g.n[e] \in 0 .. MaxItems BY <1>2
    <3> QED BY <2>1, <3>1, Constants
  <2>5. ASSUME NEW d \in Devs, FirstOfLine(d), steady'[d] # 0
        PROVE  /\ steady'[d] = r.g.n[d]
               /\ e <= d => QuietOn(rest, d)
               /\ e = d => \A j \in 1 .. 1 - 1 : <<d, j>> \in passed'
               /\ d < e => \A j \in 1 .. steady'[d] : <<d, j>> \in passed'
    <3>1. /\ steady'[d] = r.g.n[d]
          /\ c < d => QuietOn(rest, d)
          /\ d <= c => \A j \in 1 .. steady'[d] : <<d, j>> \in passed'
      BY <2>3, <2>5
    <3>2. e <= d => c < d BY <2>1, Constants
    <3>3. d < e => d <= c BY <1>3, <2>1, <2>5, <3>1, Constants
    <3> QED BY <3>1, <3>2, <3>3
  <2>6. Following' BY <2>1, <2>4, <2>5, Placing
  <2>7. Ends BY <1>1, <2>3 DEF Ends
  <2> QED BY <2>6, <2>7
<1>5. CASE AtEnd(r) /\ Nobody(r.g, c, NDev + 1)
  <2>1. ~Collecting(col') BY <1>1, <1>5 DEF AtEnd, Collecting
  <2>2. ASSUME Collecting(col), NEW d \in Devs, FirstOfLine(d), NEW i \in 1 .. steady'[d]
        PROVE  <<d, i>> \in passed'
    <3>1. CASE steady'[d] = 0 BY <2>2, <3>1
    <3>2. CASE steady'[d] # 0
      <4>1. /\ steady'[d] = r.g.n[d]
            /\ d <= c => \A j \in 1 .. steady'[d] : <<d, j>> \in passed'
        BY <2>2, <3>2
      <4>2. d < NDev + 1 BY Constants
      <4>3. d <= c BY <1>3, <1>5, <3>2, <4>1, <4>2, Constants
      <4> QED BY <2>2, <4>1, <4>3
    <3> QED BY <3>1, <3>2
  <2> QED BY <2>1, <2>2 DEF Following, Ends
<1> QED BY <1>4, <1>5 DEF LooksOn

\* Where a handler that looks on leaves the timers.
LEMMA LooksInTime ==
  ASSUME NEW s \in Effects, NEW c, ~s.g.stopped,
         \/ LooksOn(s, c)
         \/ \E d \in Devs : \E i \in 1 .. s.g.n[d] : AtPlace(s, d, i)
  PROVE  InTime(s.g) /\ s.g.timer_dcoll # "due"
<1>1. ASSUME NEW d \in Devs, NEW i \in 1 .. s.g.n[d], AtPlace(s, d, i)
      PROVE  InTime(s.g) /\ s.g.timer_dcoll # "due"
  BY <1>1, Constants DEF AtPlace, InTime
<1>2. AtEnd(s) => InTime(s.g) /\ s.g.timer_dcoll # "due" BY DEF AtEnd, InTime
<1>3. ASSUME NEW d \in Devs, 1 <= s.g.n[d] PROVE 1 \in 1 .. s.g.n[d]
  <2>1. s.g.n[d] \in 0 .. MaxItems BY DEF Effects, Collector
  <2> QED BY <1>3, <2>1, Constants
<1> QED BY <1>1, <1>2, <1>3 DEF LooksOn

\* phy_tty and the meters.
LEMMA TtyFollows ==
  ASSUME AInv, UNCHANGED <<col, passed, steady, devindex>>, Undisturbed,
         down' = down \/ (down # <<>> /\ down' = Tail(down))
  PROVE  InTime(col)' /\ Resting' /\ Following' /\ Ends
<1>1. IInv /\ InTime(col) /\ Resting /\ Following BY DEF AInv
<1>2. ASSUME NEW d \in Devs, steady'[d] # 0, Collecting(col), FirstOfLine(d)
      PROVE  steady'[d] = steady[d] /\ col'.tx_ready[d]
  BY <1>1, <1>2 DEF Following, Steady, Follows
<1>3. CASE Collecting(col)
  <2>1. SUFFICES ASSUME NEW d \in Devs, FirstOfLine(d)', steady'[d] # 0
                 PROVE  Follows(d)'
    BY <1>1, <1>3 DEF InTime, Resting, Collecting, Following, Ends, Steady
  <2>2. FirstOfLine(d) BY <2>1 DEF FirstOfLine, SameLine
  <2>3. Follows(d) BY <1>1, <1>3, <2>1, <2>2 DEF Following, Steady
  <2> QED BY <2>3 DEF Follows, Undisturbed
<1>4. CASE ~Collecting(col)
  <2>1. AsksNot(down) => AsksNot(down')
    <3>1. down \in Seq(DnMsgs) BY <1>1 DEF IInv, Types
    <3>2. 1 \in Devs BY Constants
    <3> QED BY <3>1, <3>2, ReqTail
  <2> QED BY <1>1, <1>4, <2>1 DEF InTime, Resting, Collecting, Following, Ends, AsksNot
<1> QED BY <1>3, <1>4

\* The collector's timers.
LEMMA ExpireFollows ==
  ASSUME AInv, ExpireRecv \/ ExpireDcoll \/ \E d \in Devs : ExpireRc(d)
  PROVE  InTime(col)' /\ Resting' /\ Following' /\ Ends
<1>1. IInv /\ InTime(col) /\ Resting /\ Following BY DEF AInv
<1>2. col \in Collector BY <1>1 DEF IInv, Types
<1>3. /\ UNCHANGED <<down, up, heard, passed, steady, ttyvars>> /\ down = <<>>
      /\ \/ col.timer_recv = "on" /\ col' = [col EXCEPT !.timer_recv = "due"]
         \/ col.timer_dcoll = "on" /\ col' = [col EXCEPT !.timer_dcoll = "due"]
         \/ \E d \in Devs : col' = [col EXCEPT !.timer_rc[d] = "due"]
  BY DEF ExpireRecv, ExpireDcoll, ExpireRc, Expire, Idle
<1>4. UNCHANGED <<devindex, wire, scan>> BY <1>3 DEF ttyvars
<1>5. /\ col'.ep_idx = col.ep_idx /\ col'.data_idx = col.data_idx /\ col'.n = col.n
      /\ col'.buf = col.buf /\ col'.tx_ready = col.tx_ready /\ col'.stopped = col.stopped
      /\ \/ col'.timer_recv = col.timer_recv
         \/ col.timer_recv = "on" /\ col'.timer_recv = "due"
      /\ \/ col'.timer_dcoll = col.timer_dcoll
         \/ col.timer_dcoll = "on" /\ col'.timer_dcoll = "due"
  BY <1>2, <1>3 DEF Collector
<1>6. InTime(col') BY <1>1, <1>5 DEF InTime
<1>7. AsksNot(down') BY <1>3 DEF AsksNot
<1>8. ASSUME NEW d \in Devs
      PROVE  /\ Quiet(d) => Quiet(d)'
             /\ \A i \in 1 .. MaxItems : Under(d, i) => Under(d, i)'
  <2>1. Silent(d)' <=> Silent(d) BY <1>3, <1>4 DEF Silent, Pending, NoChunk, Chunk
  <2>2. Deaf(d)' <=> Deaf(d) BY <1>3, <1>4 DEF Deaf, SameLine
  <2>3. NoReq(down, d)' <=> NoReq(down, d) BY <1>3, <1>4 DEF NoReq, Req
  <2>4. ASSUME NEW i \in 1 .. MaxItems, Under(d, i) PROVE Under(d, i)'
    <3>1. CASE Wanted(d, i)
      <4>1. OneReq(down, d, i)' BY <1>3, <1>4, <3>1 DEF Wanted, OneReq, Req
      <4> QED BY <1>5, <2>1, <2>2, <3>1, <4>1 DEF Wanted, Under
    <3>2. CASE Hears(d, i)
      <4>1. Hearing(d, i)' BY <1>3, <1>4, <3>2 DEF Hears, Hearing, SameLine
      <4> QED BY <1>5, <2>1, <2>3, <3>2, <4>1 DEF Hears, Under
    <3>3. CASE Says(d, i)
      <4>1. Pending(d)' <=> Pending(d) BY <1>4 DEF Pending
      <4>2. Says(d, i)'
        BY <1>3, <1>4, <1>5, <2>1, <2>2, <2>3, <3>3, <4>1 DEF Says, ChunksFrom, TailLast, TailIn, Chunk
      <4> QED BY <4>2 DEF Under
    <3> QED BY <2>4, <3>1, <3>2, <3>3 DEF Under
  <2> QED BY <2>1, <2>2, <2>3, <2>4 DEF Quiet
<1>9. CASE Collecting(col)
  <2>1. SUFFICES ASSUME NEW d \in Devs, FirstOfLine(d)', steady'[d] # 0
                 PROVE  Follows(d)'
    BY <1>5, <1>6, <1>7, <1>9 DEF Resting, Collecting, Following, Ends, Steady
  <2>2. FirstOfLine(d) BY <1>4, <2>1 DEF FirstOfLine, SameLine
  <2>3. Follows(d) BY <1>1, <1>3, <1>9, <2>1, <2>2 DEF Following, Steady
  <2> QED BY <1>3, <1>5, <1>8, <2>3 DEF Follows
<1>10. CASE ~Collecting(col)
  BY <1>5, <1>6, <1>7, <1>10 DEF Resting, Collecting, Following, Ends
<1> QED BY <1>9, <1>10

\* A handler that asks for nothing disturbs no line, and takes a message at most.
LEMMA HandlerDisturbs ==
  ASSUME IInv, NEW r \in Effects, NEW rest, Step(r, rest), AsksNot(r.dn),
         rest = up \/ (up # <<>> /\ rest = Tail(up))
  PROVE  /\ \A d \in Devs : /\ NoReq(down, d) => NoReq(down, d)'
                            /\ Deaf(d)' <=> Deaf(d)
                            /\ Silent(d) => Silent(d)'
         /\ r.g.buf = col.buf => Undisturbed
<1>1. /\ col' = r.g /\ down' = down \o r.dn /\ up' = rest /\ down \in Seq(DnMsgs) /\ r.dn \in Seq(DnMsgs)
      /\ UNCHANGED <<devindex, heard, scan, wire>>
  BY StepSteady
<1>2. up \in Seq(UpMsgs) BY DEF IInv, Types
<1>3. ASSUME NEW d \in Devs
      PROVE  /\ NoChunk(up, d) => NoChunk(rest, d)
             /\ \A i : ChunksFrom(up, d, i) => ChunksFrom(rest, d, i)
             /\ TailLast(up, d) => TailLast(rest, d)
             /\ TailIn(rest, d) => TailIn(up, d)
  <2>1. CASE rest = up BY <2>1
  <2>2. CASE up # <<>> /\ rest = Tail(up) BY <1>2, <2>2, UpLess
  <2> QED BY <2>1, <2>2
<1>4. ASSUME NEW d \in Devs
      PROVE  /\ NoReq(down, d) => NoReq(down, d)'
             /\ \A i : OneReq(down, d, i) => OneReq(down, d, i)'
  <2>1. /\ NoReq(down, d) => NoReq(down', d)
        /\ \A i : OneReq(down, d, i) => OneReq(down', d, i)
    BY <1>1, ReqConcat
  <2> QED BY <1>1, <2>1 DEF NoReq, OneReq, Req
<1>5. ASSUME NEW d \in Devs
      PROVE  /\ Deaf(d)' <=> Deaf(d)
             /\ \A i : Hearing(d, i)' <=> Hearing(d, i)
             /\ Pending(d)' <=> Pending(d)
  BY <1>1 DEF Deaf, Hearing, SameLine, Pending
<1>6. ASSUME NEW d \in Devs, Silent(d) PROVE Silent(d)'
  <2>1. NoChunk(up', d) BY <1>1, <1>3, <1>6 DEF Silent
  <2> QED BY <1>1, <1>5, <1>6, <2>1 DEF Silent, NoChunk, Chunk
<1>7. ASSUME r.g.buf = col.buf PROVE Undisturbed
  <2>1. ASSUME NEW d \in Devs, Quiet(d) PROVE Quiet(d)' BY <1>4, <1>5, <1>6, <2>1 DEF Quiet
  <2>2. ASSUME NEW d \in Devs, NEW i \in 1 .. MaxItems, Under(d, i) PROVE Under(d, i)'
    <3>1. CASE Wanted(d, i) BY <1>1, <1>4, <1>5, <1>6, <1>7, <3>1 DEF Wanted, Under
    <3>2. CASE Hears(d, i) BY <1>1, <1>4, <1>5, <1>6, <1>7, <3>2 DEF Hears, Under
    <3>3. CASE Says(d, i)
      <4>1. /\ NoReq(down, d) /\ Deaf(d)
            /\ ChunksFrom(up, d, i) /\ HasTail(col.buf) => Silent(d)
            /\ TailLast(up, d)
            /\ TailIn(up, d) => ~Pending(d) /\ wire[devindex[d]] = <<>>
        BY <3>3 DEF Says
      <4>2. NoReq(down, d)' /\ Deaf(d)' BY <1>4, <1>5, <4>1
      <4>3. ChunksFrom(up', d, i) /\ TailLast(up', d) /\ (TailIn(up', d) => TailIn(up, d))
        BY <1>1, <1>3, <3>3 DEF Says
      <4>4. HasTail(col'.buf) => Silent(d)' BY <1>1, <1>6, <1>7, <3>3 DEF Says
      <4> QED BY <1>1, <1>5, <1>7, <3>3, <4>2, <4>3, <4>4 DEF Says, Under
    <3> QED BY <2>2, <3>1, <3>2, <3>3 DEF Under
  <2> QED BY <2>1, <2>2 DEF Undisturbed
<1> QED BY <1>4, <1>5, <1>6, <1>7

\* A handler that leaves the collection where it is.
LEMMA Stays ==
  ASSUME AInv, NEW r \in Effects, NEW rest, Step(r, rest), AsksNot(r.dn),
         rest = up \/ (up # <<>> /\ rest = Tail(up)),
         r.g.ep_idx = col.ep_idx, r.g.data_idx = col.data_idx, r.g.n = col.n,
         r.g.timer_dcoll = col.timer_dcoll, r.g.stopped = col.stopped,
         r.g.timer_recv = col.timer_recv \/ r.g.timer_recv = "off",
         r.g.timer_recv = "on" =>
           \A d \in Devs, i \in 1 .. MaxItems : d = col.ep_idx /\ Under(d, i) => Under(d, i)'
  PROVE  InTime(col)' /\ Resting' /\ Following' /\ Ends
<1>1. IInv /\ InTime(col) /\ Resting /\ Following BY DEF AInv
<1>2. /\ col' = r.g /\ down' = down \o r.dn /\ up' = rest /\ down \in Seq(DnMsgs) /\ r.dn \in Seq(DnMsgs)
      /\ UNCHANGED devindex
      /\ \A d \in Devs : steady'[d] # 0 =>
           /\ r.g.tx_ready[d]
           /\ ~(~Collecting(col) /\ Collecting(r.g)) => steady'[d] = steady[d]
      /\ ~(~Collecting(col) /\ Collecting(r.g)) =>
              passed' = passed \cup {<<r.up[k].dev, r.up[k].item>> : k \in DOMAIN r.up}
  BY <1>1, StepSteady
<1>3. Collecting(r.g) <=> Collecting(col) BY DEF Collecting
<1>4. InTime(r.g) BY <1>1 DEF InTime
<1>5. Resting'
  <2>1. 1 \in Devs BY Constants
  <2>2. AsksNot(down) => AsksNot(down') BY <1>2, <2>1, ReqConcat
  <2> QED BY <1>1, <1>2, <2>2 DEF Resting, AsksNot
<1>6. \A d \in Devs : Quiet(d) => Quiet(d)' BY <1>1, HandlerDisturbs DEF Quiet
<1>7. passed \subseteq passed' BY <1>2, <1>3
<1>8. \A d \in Devs : steady'[d] # 0 => steady'[d] = steady[d] /\ col'.tx_ready[d] BY <1>2, <1>3
<1>9. /\ col'.ep_idx = col.ep_idx /\ col'.data_idx = col.data_idx /\ col'.n = col.n
      /\ col'.timer_recv = "on" => col.timer_recv = "on"
  BY <1>2
<1>10. col'.timer_recv = "on" =>
         \A d \in Devs, i \in 1 .. MaxItems : d = col.ep_idx /\ Under(d, i) => Under(d, i)'
  BY <1>2
<1>11. Following' /\ Ends BY <1>1, <1>2, <1>6, <1>7, <1>8, <1>9, <1>10, Carry
<1> QED BY <1>2, <1>4, <1>5, <1>11

\* A collection begins: nothing of an earlier one is on its way, as far as a meter is
\* steady.
LEMMA Begins ==
  ASSUME AInv, NEW r \in Effects, Step(r, up), LooksOn(r, 0), ~r.g.stopped,
         col.ep_idx = 0, AsksNot(down)
  PROVE  InTime(col)' /\ Resting' /\ Following' /\ Ends
<1>1. IInv BY DEF AInv
<1>2. /\ col' = r.g
      /\ \A d \in Devs : steady'[d] # 0 =>
              /\ r.g.tx_ready[d]
              /\ ~Collecting(col) /\ Collecting(r.g) =>
                   steady'[d] = r.g.n[d] /\ Settled(d) /\ ~Waiting(col) /\ up = <<>>
  BY <1>1, StepSteady
<1>3. InTime(r.g) /\ r.g.timer_dcoll # "due" BY LooksInTime
<1>4. ~Collecting(col) BY DEF Collecting
<1>5. ASSUME Collecting(r.g), NEW d \in Devs, FirstOfLine(d), steady'[d] # 0
      PROVE  /\ steady'[d] = r.g.n[d]
             /\ 0 < d => QuietOn(up, d)
             /\ d <= 0 => \A j \in 1 .. steady'[d] : <<d, j>> \in passed'
  <2>1. steady'[d] = r.g.n[d] /\ Settled(d) /\ up = <<>> BY <1>2, <1>4, <1>5
  <2>2. Deaf(d) /\ wire[devindex[d]] = <<>> BY <2>1 DEF Settled, Deaf
  <2>3. ~Pending(d)
    <3>1. scan.next = 0 BY <2>1 DEF Settled, NoScan, NoRoute
    <3> QED BY <3>1 DEF Pending
  <2>4. NoChunk(up, d) BY <2>1 DEF NoChunk
  <2>5. NoReq(down, d) BY DEF AsksNot, NoReq, Req
  <2>6. 0 < d BY Constants
  <2> QED BY <2>1, <2>2, <2>3, <2>4, <2>5, <2>6, Constants DEF QuietOn
<1>6. 0 \in 0 .. NDev BY Constants
<1>7. Collecting(col) \/ Collecting(r.g) => \A d \in Devs : FirstOfLine(d) /\ steady'[d] # 0 =>
        /\ steady'[d] = r.g.n[d]
        /\ 0 < d => QuietOn(up, d)
        /\ d <= 0 => \A j \in 1 .. steady'[d] : <<d, j>> \in passed'
  BY <1>4, <1>5
<1>8. Following' /\ Ends BY <1>1, <1>6, <1>7, Advance
<1>9. Resting' BY <1>2, <1>3 DEF Resting
<1> QED BY <1>2, <1>3, <1>8, <1>9

LEMMA NewDobjRecvFollows ==
  ASSUME AInv, NEW d \in Devs, NewDobjRecv(d)
  PROVE  InTime(col)' /\ Resting' /\ Following' /\ Ends
<1>1. IInv /\ InTime(col) /\ Resting BY DEF AInv
<1>2. Step(NewDobj(Cur, d), up) /\ col.stopped BY DEF NewDobjRecv
<1>3. Cur \in Effects /\ Cur.g = col /\ Cur.dn = <<>> BY <1>1, CurFacts DEF IInv
<1>4. col \in Collector BY <1>1 DEF IInv, Types
<1> DEFINE r == NewDobj(Cur, d)
<1>5. r.dn = <<>> /\ r.g = [col EXCEPT !.n[d] = @ + 1] BY <1>3 DEF NewDobj, Effects
<1>6. col' = r.g /\ down' = down \o r.dn BY <1>2 DEF Step
<1> HIDE DEF r
<1>7. /\ col'.ep_idx = col.ep_idx /\ col'.data_idx = col.data_idx /\ col'.stopped = col.stopped
      /\ col'.timer_recv = col.timer_recv /\ col'.timer_dcoll = col.timer_dcoll
  BY <1>4, <1>5, <1>6 DEF Collector
<1>8. col.ep_idx = 0 BY <1>1, <1>2 DEF InTime
<1>9. down' = down
  <2>1. down \in Seq(DnMsgs) BY <1>1 DEF IInv, Types
  <2> QED BY <1>5, <1>6, <2>1
<1>10. InTime(col') BY <1>1, <1>7, <1>8 DEF InTime
<1>11. Resting' BY <1>1, <1>7, <1>9 DEF Resting, AsksNot
<1> QED BY <1>7, <1>8, <1>10, <1>11 DEF Following, Ends, Collecting

LEMMA DcollStartRecvFollows ==
  ASSUME AInv, DcollStartRecv
  PROVE  InTime(col)' /\ Resting' /\ Following' /\ Ends
<1>1. IInv /\ InTime(col) /\ Resting BY DEF AInv
<1>2. Step(DcollStart(Cur), up) BY DEF DcollStartRecv
<1>3. Cur \in Effects /\ Cur.g = col /\ Cur.dn = <<>> BY <1>1, CurFacts DEF IInv
<1>4. Placed(col) BY <1>1 DEF IInv
<1> HIDE DEF Cur
<1> DEFINE r == DcollStart(Cur)
<1>5. CASE col.stopped
  <2> HIDE DEF r
  <2>1. r \in Effects /\ ~r.g.stopped /\ col.ep_idx = 0 /\ LooksOn(r, 0)
    BY <1>1, <1>3, <1>4, <1>5, DcollStartLooks DEF r
  <2>2. AsksNot(down) BY <1>1, <1>5 DEF Resting
  <2> QED BY <1>2, <2>1, <2>2, Begins DEF r
<1>6. CASE ~col.stopped
  <2>1. r = Cur BY <1>3, <1>6 DEF DcollStart
  <2> HIDE DEF r
  <2>2. AsksNot(r.dn) BY <1>3, <2>1 DEF AsksNot
  <2>3. Undisturbed BY <1>1, <1>2, <1>3, <2>1, <2>2, HandlerDisturbs DEF r
  <2> QED BY <1>2, <1>3, <2>1, <2>2, <2>3, Stays DEF Undisturbed, r
<1> QED BY <1>5, <1>6

LEMMA AlarmFollows ==
  ASSUME AInv, Alarm
  PROVE  InTime(col)' /\ Resting' /\ Following' /\ Ends
<1>1. IInv /\ InTime(col) /\ Resting /\ Following BY DEF AInv
<1>2. Step(CatchAlarm(Cur), up) BY DEF Alarm
<1>3. Cur \in Effects /\ Cur.g = col /\ Cur.dn = <<>> BY <1>1, CurFacts DEF IInv
<1>4. Placed(col) BY <1>1 DEF IInv
<1> HIDE DEF Cur
<1> DEFINE s == CollectorAlarm(Cur)
           r == CatchAlarm(Cur)
<1>5. Calm(s, r) BY <1>3, <1>4, CatchAlarmCalm
<1>6. /\ s \in Effects /\ s.g.n = col.n /\ s.g.tx_ready = col.tx_ready
      /\ \/ col.timer_recv = "due" /\ col.ep_idx # 0 /\ ~s.g.stopped /\ LooksOn(s, col.ep_idx)
         \/ col.timer_dcoll = "due" /\ col.ep_idx = 0 /\ ~s.g.stopped /\ LooksOn(s, 0)
         \/ col.timer_recv # "due" /\ col.timer_dcoll # "due" /\ s = Cur
  BY <1>1, <1>3, <1>4, CollectorAlarmLooks
<1> HIDE DEF s, r
<1>7. Step(r, up) BY <1>2 DEF r
<1>8. /\ r \in Effects /\ r.g.n = s.g.n /\ r.g.stopped = s.g.stopped
      /\ r.g.timer_recv = s.g.timer_recv /\ r.g.timer_dcoll = s.g.timer_dcoll
      /\ AsksNot(s.dn) => AsksNot(r.dn)
  BY <1>5 DEF Calm
\* The request is given up, and nobody on its line is steady any more.
<1>9. CASE col.timer_recv = "due" /\ col.ep_idx # 0 /\ ~s.g.stopped /\ LooksOn(s, col.ep_idx)
  <2> DEFINE c == col.ep_idx
  <2>1. LooksOn(r, c) BY <1>5, <1>9, CalmLooks
  <2>2. c \in Devs /\ c \in 0 .. NDev
    <3>1. c \in 0 .. NDev BY <1>1 DEF IInv, Types, Collector
    <3> QED BY <1>9, <3>1, Constants
  <2>3. InTime(r.g) /\ r.g.timer_dcoll # "due" BY <1>8, <1>9, <2>1, LooksInTime
  <2>4. /\ col' = r.g
        /\ \A d \in Devs : steady'[d] # 0 =>
              /\ ~(col.timer_recv = "due" /\ r.g.timer_recv # "due" /\ col.ep_idx \in SameLine(d))
              /\ ~(~Collecting(col) /\ Collecting(r.g)) => steady'[d] = steady[d]
        /\ ~(~Collecting(col) /\ Collecting(r.g)) =>
              passed' = passed \cup {<<r.up[k].dev, r.up[k].item>> : k \in DOMAIN r.up}
    BY <1>1, <1>7, <1>8, StepSteady
  <2>5. Collecting(col) BY <1>9 DEF Collecting
  <2>6. r.g.timer_recv # "due" BY <2>1 DEF LooksOn, AtPlace, AtEnd
  <2>7. ASSUME NEW d \in Devs, FirstOfLine(d), steady'[d] # 0
        PROVE  /\ steady'[d] = r.g.n[d]
               /\ c < d => QuietOn(up, d)
               /\ d <= c => \A j \in 1 .. steady'[d] : <<d, j>> \in passed'
    <3>1. steady'[d] = steady[d] /\ col.ep_idx \notin SameLine(d) BY <1>9, <2>4, <2>5, <2>6, <2>7
    <3>2. Follows(d) BY <1>1, <2>5, <2>7, <3>1 DEF Following, Steady
    <3>3. steady'[d] = r.g.n[d] BY <1>6, <1>8, <3>1, <3>2 DEF Follows
    <3>4. c # d BY <3>1 DEF SameLine
    <3>5. c < d => QuietOn(up, d) BY <3>2 DEF Follows, Quiet, Silent, QuietOn
    <3>6. ASSUME d < c, NEW j \in 1 .. steady'[d] PROVE <<d, j>> \in passed'
      <4>1. <<d, j>> \in passed BY <3>1, <3>2, <3>6 DEF Follows
      <4> QED BY <2>4, <2>5, <4>1
    <3>7. d <= c => d < c BY <2>2, <3>4, Constants
    <3> QED BY <3>3, <3>5, <3>6, <3>7
  <2> HIDE DEF c
  <2>8. Following' /\ Ends BY <1>1, <1>7, <1>8, <2>1, <2>2, <2>7, Advance
  <2>9. Resting'
    <3>1. ~r.g.stopped BY <1>8, <1>9
    <3> QED BY <2>3, <2>4, <3>1 DEF Resting
  <2> QED BY <2>3, <2>4, <2>8, <2>9
<1>10. CASE col.timer_dcoll = "due" /\ col.ep_idx = 0 /\ ~s.g.stopped /\ LooksOn(s, 0)
  <2>1. LooksOn(r, 0) /\ ~r.g.stopped BY <1>5, <1>8, <1>10, CalmLooks
  <2>2. AsksNot(down) BY <1>1, <1>10 DEF Resting
  <2> QED BY <1>7, <1>8, <1>10, <2>1, <2>2, Begins
<1>11. CASE col.timer_recv # "due" /\ col.timer_dcoll # "due" /\ s = Cur
  <2>1. AsksNot(r.dn) BY <1>3, <1>8, <1>11 DEF AsksNot
  <2>2. /\ r.g.ep_idx = col.ep_idx /\ r.g.data_idx = col.data_idx /\ r.g.n = col.n /\ r.g.buf = col.buf
        /\ r.g.timer_dcoll = col.timer_dcoll /\ r.g.stopped = col.stopped /\ r.g.timer_recv = col.timer_recv
    BY <1>3, <1>5, <1>11 DEF Calm
  <2>3. Undisturbed BY <1>1, <1>7, <1>8, <2>1, <2>2, HandlerDisturbs
  <2> QED BY <1>7, <1>8, <2>1, <2>2, <2>3, Stays DEF Undisturbed
<1> QED BY <1>6, <1>9, <1>10, <1>11

\* A connection that comes or goes leaves the collection.
LEMMA ConnectLooks ==
  ASSUME NEW r \in Effects, NEW d \in Devs, NEW s,
         \/ s = ConnectAck(r, d)
         \/ s = ConnectGone(r, d)
  PROVE  s.g.buf = r.g.buf /\ s.g.n = r.g.n
<1> DEFINE x == InitEpExt(r, d)
           a == [x EXCEPT !.g.tx_ready[d] = TRUE]
           b == [x EXCEPT !.g.timer_rc[d] = "on"]
<1>1. x \in Effects /\ x.g = [r.g EXCEPT !.tx_ready[d] = FALSE, !.timer_rc[d] = "off"]
  BY InitEpExtFacts
<1>2. ConnectAck(r, d) = a /\ ConnectGone(r, d) = b BY DEF ConnectAck, ConnectGone
<1> HIDE DEF x
<1>3. x.g.buf = r.g.buf /\ x.g.n = r.g.n BY <1>1 DEF Effects, Collector
<1>4. a.g.buf = x.g.buf /\ a.g.n = x.g.n /\ b.g.buf = x.g.buf /\ b.g.n = x.g.n
  BY <1>1 DEF Effects, Collector
<1> HIDE DEF a, b
<1> QED BY <1>2, <1>3, <1>4

\* A copy for the steady meter that is being asked is a piece of its answer.
LEMMA ChunkSays ==
  ASSUME IInv, NEW d \in Devs, NEW i \in 1 .. MaxItems, Under(d, i), up # <<>>, Chunk(Head(up), d)
  PROVE  /\ Says(d, i) /\ From(col.buf \o Head(up).chunk, d, i)
         /\ HasTail(col.buf \o Head(up).chunk) => QuietOn(Tail(up), d)
<1> DEFINE m == Head(up)
           t == Tail(up)
<1>1. up \in Seq(UpMsgs) BY DEF IInv, Types
<1>2. /\ NoChunk(up, d) => ~Chunk(m, d)
      /\ ChunksFrom(up, d, i) => From(m.chunk, d, i)
      /\ TailLast(up, d) /\ HasTail(m.chunk) => NoChunk(t, d)
      /\ HasTail(m.chunk) => TailIn(up, d)
  BY <1>1, UpLess
<1>3. ~NoChunk(up, d) BY <1>2
<1>4. Says(d, i) BY <1>3 DEF Under, Wanted, Hears, Silent
<1>5. m \in UpMsgs BY <1>1, TailFacts
<1>6. m.chunk \in Seq(Pieces) /\ col.buf \in Seq(Pieces) BY <1>5 DEF UpMsgs, IInv, Types, Collector
<1>7. /\ NoReq(down, d) /\ Deaf(d)
      /\ From(col.buf, d, i) /\ ChunksFrom(up, d, i)
      /\ HasTail(col.buf) => Silent(d)
      /\ TailLast(up, d)
      /\ TailIn(up, d) => ~Pending(d) /\ wire[devindex[d]] = <<>>
  BY <1>4 DEF Says
<1>8. ~HasTail(col.buf) BY <1>3, <1>7 DEF Silent
<1>9. From(col.buf \o m.chunk, d, i) BY <1>2, <1>6, <1>7, PiecesConcat
<1>10. HasTail(col.buf \o m.chunk) => HasTail(m.chunk) BY <1>6, <1>8, PiecesConcat
<1>11. HasTail(m.chunk) => QuietOn(t, d) BY <1>2, <1>7 DEF QuietOn
<1> QED BY <1>4, <1>9, <1>10, <1>11

LEMMA QuietTail ==
  ASSUME IInv, NEW d \in Devs, Quiet(d), up # <<>>
  PROVE  QuietOn(Tail(up), d)
<1>1. up \in Seq(UpMsgs) BY DEF IInv, Types
<1>2. NoChunk(up, d) => NoChunk(Tail(up), d) BY <1>1, UpLess
<1> QED BY <1>2 DEF Quiet, Silent, QuietOn

\* A piece of an answer is kept.
LEMMA BufferSays ==
  ASSUME IInv, NEW r \in Effects, Step(r, Tail(up)), AsksNot(r.dn), up # <<>>,
         r.g.buf = col.buf \o Head(up).chunk,
         NEW d \in Devs, NEW i \in 1 .. MaxItems, Under(d, i), Chunk(Head(up), d)
  PROVE  Under(d, i)'
<1> DEFINE t == Tail(up)
<1>1. /\ Says(d, i) /\ From(r.g.buf, d, i)
      /\ HasTail(r.g.buf) => QuietOn(t, d)
  BY ChunkSays
<1>2. /\ col' = r.g /\ up' = t /\ UNCHANGED <<devindex, heard, scan, wire>> BY StepSteady
<1>3. up \in Seq(UpMsgs) BY DEF IInv, Types
<1>4. /\ ChunksFrom(up, d, i) => ChunksFrom(t, d, i)
      /\ TailLast(up, d) => TailLast(t, d)
      /\ TailIn(t, d) => TailIn(up, d)
  BY <1>3, UpLess
<1>5. /\ NoReq(down, d) => NoReq(down, d)'
      /\ Deaf(d)' <=> Deaf(d)
  BY HandlerDisturbs
<1> HIDE DEF t
<1>6. Pending(d)' <=> Pending(d) BY <1>2 DEF Pending
<1>7. HasTail(r.g.buf) => Silent(d)'
  <2>1. SUFFICES ASSUME QuietOn(t, d) PROVE Silent(d)' BY <1>1
  <2>2. NoChunk(up', d) /\ ~Pending(d) /\ wire[devindex[d]] = <<>> BY <1>2, <2>1 DEF QuietOn
  <2> QED BY <1>2, <1>6, <2>2 DEF Silent, NoChunk, Chunk
<1>8. /\ NoReq(down, d) /\ Deaf(d)
      /\ ChunksFrom(up, d, i)
      /\ TailLast(up, d)
      /\ TailIn(up, d) => ~Pending(d) /\ wire[devindex[d]] = <<>>
  BY <1>1 DEF Says
<1>9. NoReq(down, d)' /\ Deaf(d)' BY <1>5, <1>8
<1>10. ChunksFrom(up', d, i) /\ TailLast(up', d) /\ (TailIn(up', d) => TailIn(up, d)) BY <1>2, <1>4, <1>8
<1>11. From(col'.buf, d, i) /\ (HasTail(col'.buf) => Silent(d)') BY <1>1, <1>2, <1>7
<1> QED BY <1>1, <1>2, <1>6, <1>8, <1>9, <1>10, <1>11 DEF Says, Under

\* A frame is complete: it is the answer of a steady meter to the last request, nothing is
\* behind it, and the next request is under way.
LEMMA AnswerFollows ==
  ASSUME AInv, up # <<>>, NEW r \in Effects, Step(r, Tail(up)), ~r.g.stopped, r.g.n = col.n,
         r.g.tx_ready = col.tx_ready, Head(up).type = "USER_DATA",
         NEW c \in Devs, c = Head(up).dev, c = col.ep_idx, col.timer_recv = "on",
         NEW f \in Found(col.buf \o Head(up).chunk),
         r.up = IF f.dev = c THEN <<Msg("DATA", f.dev, f.item)>> ELSE <<>>,
         \/ col.data_idx + 1 <= col.n[c] /\ AtPlace(r, c, col.data_idx + 1)
         \/ /\ col.tx_ready[c] => ~(col.data_idx < col.n[c])
            /\ LooksOn(r, c)
  PROVE  InTime(col)' /\ Resting' /\ Following' /\ Ends
<1> DEFINE m == Head(up)
           t == Tail(up)
           i == col.data_idx
<1>1. IInv /\ InTime(col) /\ Following BY DEF AInv
<1>2. Collecting(col) /\ c # 0 BY Constants DEF Collecting
<1>3. /\ col' = r.g
      /\ \A d \in Devs : steady'[d] # 0 =>
           /\ r.g.tx_ready[d]
           /\ ~(~Collecting(col) /\ Collecting(r.g)) => steady'[d] = steady[d]
      /\ ~(~Collecting(col) /\ Collecting(r.g)) =>
              passed' = passed \cup {<<r.up[k].dev, r.up[k].item>> : k \in DOMAIN r.up}
  BY <1>1, StepSteady
<1>4. col \in Collector /\ up \in Seq(UpMsgs) BY <1>1 DEF IInv, Types
<1>5. col.n[c] \in 0 .. MaxItems /\ i \in 1 .. col.n[c] BY <1>1, <1>2, <1>4 DEF InTime, Collector
<1>6. i \in 1 .. MaxItems /\ i \in Nat /\ col.n[c] \in Nat BY <1>5, Constants
<1>7. m \in UpMsgs /\ t \in Seq(UpMsgs) BY <1>4, TailFacts
<1>8. col.buf \o m.chunk \in Seq(Pieces) BY <1>4, <1>7 DEF Collector, UpMsgs
<1>9. HasTail(col.buf \o m.chunk) /\ (From(col.buf \o m.chunk, c, i) => f.dev = c /\ f.item = i)
  BY <1>8, FoundFrom
\* What is known of a steady meter.
<1>10. ASSUME NEW d \in Devs, FirstOfLine(d), steady'[d] # 0
       PROVE  /\ steady'[d] = r.g.n[d]
              /\ c <= d => QuietOn(t, d)
              /\ c = d => \A j \in 1 .. i : <<d, j>> \in passed'
              /\ d < c => \A j \in 1 .. steady'[d] : <<d, j>> \in passed'
  <2>1. Follows(d) /\ steady'[d] = steady[d] BY <1>1, <1>2, <1>3, <1>10 DEF Following, Steady
  <2>2. steady'[d] = r.g.n[d] BY <2>1 DEF Follows
  <2>3. passed \subseteq passed' BY <1>2, <1>3
  <2>4. c < d => QuietOn(t, d)
    <3>1. c < d => Quiet(d) BY <2>1 DEF Follows
    <3> QED BY <1>1, <3>1, QuietTail
  <2>5. ASSUME c = d PROVE QuietOn(t, d) /\ \A j \in 1 .. i : <<d, j>> \in passed'
    <3>1. (\A j \in 1 .. i - 1 : <<d, j>> \in passed) /\ Under(d, i)
      BY <1>6, <2>1, <2>5 DEF Follows
    <3>2. Chunk(m, d) BY <2>5 DEF Chunk
    <3>3. From(col.buf \o m.chunk, d, i) /\ QuietOn(t, d)
      BY <1>1, <1>6, <1>9, <3>1, <3>2, ChunkSays
    <3>4. r.up = <<Msg("DATA", d, i)>> BY <1>9, <2>5, <3>3
    <3>5. <<d, i>> \in {<<r.up[k].dev, r.up[k].item>> : k \in DOMAIN r.up}
      <4>0. \A x : 1 \in DOMAIN <<x>> /\ <<x>>[1] = x OBVIOUS
      <4>1. 1 \in DOMAIN r.up /\ r.up[1] = Msg("DATA", d, i) BY <3>4, <4>0, Zenon
      <4>2. Msg("DATA", d, i).dev = d /\ Msg("DATA", d, i).item = i BY DEF Msg
      <4> QED BY <4>1, <4>2
    <3>6. <<d, i>> \in passed' BY <1>2, <1>3, <3>5
    <3>7. \A j \in 1 .. i : j = i \/ j \in 1 .. i - 1 BY <1>6
    <3> QED BY <2>3, <3>1, <3>3, <3>6, <3>7
  <2>6. d < c => \A j \in 1 .. steady'[d] : <<d, j>> \in passed' BY <2>1, <2>3 DEF Follows
  <2>7. c <= d => c < d \/ c = d BY Constants
  <2> QED BY <2>2, <2>4, <2>5, <2>6, <2>7
<1> HIDE DEF t
<1>11. CASE col.data_idx + 1 <= col.n[c] /\ AtPlace(r, c, col.data_idx + 1)
  <2>1. i + 1 \in 1 .. MaxItems /\ i + 1 \in 1 .. col.n[c] /\ (i + 1) - 1 = i BY <1>5, <1>6, <1>11, Constants
  <2> DEFINE j1 == i + 1
  <2>2. AtPlace(r, c, j1) BY <1>11
  <2>3. \A d \in Devs : FirstOfLine(d) /\ steady'[d] # 0 =>
           /\ steady'[d] = r.g.n[d]
           /\ c <= d => QuietOn(t, d)
           /\ c = d => \A j \in 1 .. j1 - 1 : <<d, j>> \in passed'
           /\ d < c => \A j \in 1 .. steady'[d] : <<d, j>> \in passed'
    BY <1>10, <2>1
  <2>4. j1 \in 1 .. MaxItems /\ j1 \in 1 .. r.g.n[c] BY <2>1
  <2>5. Step(r, t) BY DEF t
  <2> HIDE DEF j1
  <2>6. Following' BY <1>1, <2>2, <2>3, <2>4, <2>5, Placing
  <2>7. InTime(r.g) /\ r.g.timer_dcoll # "due" BY <2>2, <2>4, LooksInTime
  <2>8. Collecting(col') BY <1>2, <1>3, <2>2 DEF AtPlace, Collecting
  <2> QED BY <1>3, <2>6, <2>7, <2>8 DEF Resting, Ends
<1>12. CASE (col.tx_ready[c] => ~(col.data_idx < col.n[c])) /\ LooksOn(r, c)
  <2>1. c \in 0 .. NDev BY Constants
  <2>2. ASSUME NEW d \in Devs, FirstOfLine(d), steady'[d] # 0
        PROVE  /\ steady'[d] = r.g.n[d]
               /\ c < d => QuietOn(t, d)
               /\ d <= c => \A j \in 1 .. steady'[d] : <<d, j>> \in passed'
    <3>1. /\ steady'[d] = r.g.n[d]
          /\ c <= d => QuietOn(t, d)
          /\ c = d => \A j \in 1 .. i : <<d, j>> \in passed'
          /\ d < c => \A j \in 1 .. steady'[d] : <<d, j>> \in passed'
      BY <1>10, <2>2
    <3>2. ASSUME c = d PROVE \A j \in 1 .. steady'[d] : <<d, j>> \in passed'
      <4>1. r.g.tx_ready[d] BY <1>3, <2>2
      <4>2. ~(i < col.n[c]) BY <1>12, <3>2, <4>1
      <4>3. steady'[d] = i BY <1>5, <1>6, <3>1, <3>2, <4>2
      <4> QED BY <3>1, <3>2, <4>3
    <3>3. (c < d => c <= d) /\ (d <= c => d < c \/ c = d) BY Constants
    <3> QED BY <3>1, <3>2, <3>3
  <2>3. Step(r, t) BY DEF t
  <2>4. Following' /\ Ends BY <1>1, <1>12, <2>1, <2>2, <2>3, Advance
  <2>5. InTime(r.g) /\ r.g.timer_dcoll # "due" BY <1>12, LooksInTime
  <2> QED BY <1>3, <2>4, <2>5 DEF Resting
<1> QED BY <1>11, <1>12

LEMMA UpRecvFollows ==
  ASSUME AInv, UpRecv
  PROVE  InTime(col)' /\ Resting' /\ Following' /\ Ends
<1> DEFINE m == Head(up)
           t == Tail(up)
           r == CASE m.type = "USER_DATA" -> FrameRecv(Cur, m.dev, m.chunk)
                  [] m.type = "CONNECT_ACK" -> ConnectAck(Cur, m.dev)
                  [] m.type \in {"CONNECT_NACK", "CONNECT_LOST"} -> ConnectGone(Cur, m.dev)
<1>1. IInv /\ InTime(col) BY DEF AInv
<1>2. /\ Cur \in Effects /\ Cur.g = col /\ Cur.dn = <<>> /\ Cur.up = <<>> /\ Placed(Cur.g)
      /\ up \in Seq(UpMsgs) /\ col \in Collector
  BY <1>1, CurFacts DEF IInv, Types
<1>3. up # <<>> /\ Step(r, t) BY DEF UpRecv
<1>4. m \in UpMsgs BY <1>2, <1>3, TailFacts
<1>5. /\ m.dev \in Devs /\ m.chunk \in Seq(Pieces)
      /\ m.type \in {"USER_DATA", "CONNECT_ACK", "CONNECT_NACK", "CONNECT_LOST"}
  BY <1>4 DEF UpMsgs
<1>6. /\ m.type = "USER_DATA" => r = FrameRecv(Cur, m.dev, m.chunk)
      /\ m.type = "CONNECT_ACK" => r = ConnectAck(Cur, m.dev)
      /\ m.type \in {"CONNECT_NACK", "CONNECT_LOST"} => r = ConnectGone(Cur, m.dev)
  OBVIOUS
<1>7. AsksNot(<<>>) BY DEF AsksNot
<1> HIDE DEF r, Cur
<1>8. CASE m.type # "USER_DATA"
  <2>1. r = ConnectAck(Cur, m.dev) \/ r = ConnectGone(Cur, m.dev) BY <1>5, <1>6, <1>8
  <2> HIDE DEF m
  <2>2. /\ r \in Effects /\ r.dn = <<>>
        /\ r.g.stopped = col.stopped /\ r.g.ep_idx = col.ep_idx /\ r.g.data_idx = col.data_idx
        /\ r.g.timer_recv = col.timer_recv /\ r.g.timer_dcoll = col.timer_dcoll
    BY <1>2, <1>5, <2>1, ConnectFacts
  <2>3. r.g.buf = col.buf /\ r.g.n = col.n BY <1>2, <1>5, <2>1, ConnectLooks
  <2>4. Undisturbed BY <1>1, <1>3, <1>7, <2>2, <2>3, HandlerDisturbs
  <2> QED BY <1>3, <1>7, <2>2, <2>3, <2>4, Stays DEF Undisturbed
<1>9. CASE m.type = "USER_DATA"
  <2> DEFINE c == m.dev
             p == m.chunk
             z == [Cur EXCEPT !.g.buf = @ \o p]
  <2>1. r = FrameRecv(Cur, c, p) BY <1>6, <1>9
  <2>2. c \in Devs /\ p \in Seq(Pieces) BY <1>5
  <2>3. InTime(Cur.g) BY <1>1, <1>2
  <2>4. r \in Effects /\ r.g.n = Cur.g.n /\ r.g.tx_ready = Cur.g.tx_ready /\ FrameLooks(Cur, c, p, r)
    <3> HIDE DEF c, p, t
    <3> QED BY <1>2, <2>1, <2>2, <2>3, FrameRecvLooks
  <2>5. CASE r = Dropped(Cur) /\ ~Waiting(Cur.g)
    <3>1. r.dn = <<>> /\ r.g = [col EXCEPT !.timer_recv = "off", !.buf = <<>>] BY <1>2, <2>5, DroppedFacts
    <3>2. /\ r.g.stopped = col.stopped /\ r.g.ep_idx = col.ep_idx /\ r.g.data_idx = col.data_idx
          /\ r.g.timer_recv = "off" /\ r.g.timer_dcoll = col.timer_dcoll /\ r.g.n = col.n
      BY <1>2, <3>1 DEF Collector
    <3> QED BY <1>3, <1>7, <2>4, <3>1, <3>2, Stays
  <2>6. CASE r = Cur
    <3>1. Undisturbed BY <1>1, <1>2, <1>3, <1>7, <2>6, HandlerDisturbs
    <3> QED BY <1>2, <1>3, <1>7, <2>6, <3>1, Stays DEF Undisturbed
  <2>7. CASE r = z /\ c = Cur.g.ep_idx
    <3>1. r.dn = <<>> /\ r.g = [col EXCEPT !.buf = col.buf \o p] BY <1>2, <2>7 DEF Effects
    <3>2. /\ r.g.stopped = col.stopped /\ r.g.ep_idx = col.ep_idx /\ r.g.data_idx = col.data_idx
          /\ r.g.timer_recv = col.timer_recv /\ r.g.timer_dcoll = col.timer_dcoll /\ r.g.n = col.n
          /\ r.g.buf = col.buf \o p
      BY <1>2, <3>1 DEF Collector
    <3>3. ASSUME NEW d \in Devs, NEW i \in 1 .. MaxItems, d = col.ep_idx, Under(d, i) PROVE Under(d, i)'
      <4>1. Chunk(m, d) BY <1>2, <1>9, <2>7, <3>3 DEF Chunk
      <4> QED BY <1>1, <1>3, <1>7, <2>4, <3>1, <3>2, <3>3, <4>1, BufferSays
    <3> QED BY <1>3, <1>7, <2>4, <3>1, <3>2, <3>3, Stays
  <2>8. CASE /\ Waiting(Cur.g) /\ c = Cur.g.ep_idx
             /\ \E f \in Found(Cur.g.buf \o p) :
                    r.up = IF f.dev = c THEN <<Msg("DATA", f.dev, f.item)>> ELSE <<>>
             /\ ~r.g.stopped
             /\ \/ Cur.g.data_idx + 1 <= Cur.g.n[c] /\ AtPlace(r, c, Cur.g.data_idx + 1)
                \/ /\ Cur.g.tx_ready[c] => ~(Cur.g.data_idx < Cur.g.n[c])
                   /\ LooksOn(r, c)
    <3>1. PICK f \in Found(col.buf \o p) :
                    r.up = IF f.dev = c THEN <<Msg("DATA", f.dev, f.item)>> ELSE <<>>
      BY <1>2, <2>8
    <3>2. col.timer_recv = "on" /\ c = col.ep_idx BY <1>2, <2>8 DEF Waiting
    <3>3. \/ col.data_idx + 1 <= col.n[c] /\ AtPlace(r, c, col.data_idx + 1)
          \/ /\ col.tx_ready[c] => ~(col.data_idx < col.n[c])
             /\ LooksOn(r, c)
      BY <1>2, <2>8
    <3>4. r.g.n = col.n /\ r.g.tx_ready = col.tx_ready /\ ~r.g.stopped BY <1>2, <2>4, <2>8
    <3> QED BY <1>3, <1>9, <2>2, <2>4, <3>1, <3>2, <3>3, <3>4, AnswerFollows
  <2> QED BY <2>4, <2>5, <2>6, <2>7, <2>8 DEF FrameLooks
<1> QED BY <1>8, <1>9

LEMMA InitAnswered == Init => AInv
<1> SUFFICES ASSUME Init PROVE AInv OBVIOUS
<1>1. IInv BY InitInv
<1>2. col = InitCollector BY DEF Init
<1>3. InTime(col) /\ ~Collecting(col) BY <1>2 DEF InitCollector, InTime, Collecting
<1>4. AsksNot(down)
  <2>1. down = [d \in Devs |-> Msg("CONNECT", d, 0)] /\ down \in Seq(DnMsgs)
    BY <1>1 DEF Init, IInv, Types
  <2>2. \A k \in 1 .. Len(down) : k \in Devs BY <2>1
  <2>3. \A d \in Devs : down[d].type # "READ_DATA" BY <2>1 DEF Msg
  <2> QED BY <2>2, <2>3 DEF AsksNot
<1> QED BY <1>1, <1>3, <1>4 DEF AInv, Resting, Following

LEMMA QuitRecvFollows ==
  ASSUME AInv, UNCHANGED <<col, down, up, heard, passed, steady, ttyvars>>
  PROVE  InTime(col)' /\ Resting' /\ Following' /\ Ends
<1>1. UNCHANGED <<devindex, wire, scan>> BY DEF ttyvars
<1>2. Undisturbed
  BY <1>1 DEF Undisturbed, Quiet, Under, Wanted, Hears, Says, Silent, Pending, NoChunk, Chunk, Deaf, Hearing,
              SameLine, NoReq, OneReq, Req, ChunksFrom, TailLast, TailIn
<1> QED BY <1>1, <1>2, TtyFollows

LEMMA NextFollows ==
  ASSUME AInv, [Next]_vars
  PROVE  AInv' /\ Ends
<1>1. IInv BY DEF AInv
<1>2. IInv' BY <1>1, NextInv
<1>3. SUFFICES InTime(col)' /\ Resting' /\ Following' /\ Ends BY <1>2 DEF AInv
<1>4. CASE UNCHANGED vars BY <1>4, QuitRecvFollows DEF vars
<1>5. CASE DcollStartRecv BY <1>5, DcollStartRecvFollows
<1>6. CASE QuitRecv BY <1>6, QuitRecvFollows DEF QuitRecv
<1>7. CASE UpRecv BY <1>7, UpRecvFollows
<1>8. CASE ExpireRecv BY <1>8, ExpireFollows
<1>9. CASE ExpireDcoll BY <1>9, ExpireFollows
<1>10. CASE Alarm BY <1>10, AlarmFollows
<1>11. CASE DownRecv
  <2>1. Undisturbed BY <1>1, <1>11, DownRecvDisturbs
  <2>2. UNCHANGED <<col, passed, steady>> BY <1>11 DEF DownRecv, Tty
  <2>3. UNCHANGED devindex BY <1>11 DEF DownRecv, TtyWrite, TtyConnect, ttyvars
  <2>4. down # <<>> /\ down' = Tail(down) BY <1>11 DEF DownRecv
  <2> QED BY <2>1, <2>2, <2>3, <2>4, TtyFollows
<1>12. CASE TtyRead
  <2>1. Undisturbed BY <1>1, <1>12, TtyReadDisturbs
  <2>2. UNCHANGED <<col, passed, steady, down, devindex>> BY <1>12 DEF TtyRead, Tty, Read
  <2> QED BY <2>1, <2>2, TtyFollows
<1>13. CASE TtyCopy
  <2>1. Undisturbed BY <1>1, <1>13, TtyCopyDisturbs
  <2>2. UNCHANGED <<col, passed, steady, down, devindex>> BY <1>13 DEF TtyCopy, Tty, Copy
  <2> QED BY <2>1, <2>2, TtyFollows
<1>14. ASSUME NEW l \in Lines, TtyLost(l) PROVE InTime(col)' /\ Resting' /\ Following' /\ Ends
  <2>1. Undisturbed BY <1>1, <1>14, TtyLostDisturbs
  <2>2. UNCHANGED <<col, passed, steady, down, devindex>> BY <1>14 DEF TtyLost, Tty, Lost
  <2> QED BY <2>1, <2>2, TtyFollows
<1>15. ASSUME NEW d \in Devs, MeterAnswers(d) PROVE InTime(col)' /\ Resting' /\ Following' /\ Ends
  <2>1. Undisturbed BY <1>1, <1>15, MeterAnswersDisturbs
  <2>2. UNCHANGED <<col, passed, steady, down, devindex>> BY <1>15 DEF MeterAnswers
  <2> QED BY <2>1, <2>2, TtyFollows
<1>16. ASSUME NEW d \in Devs, NewDobjRecv(d) \/ ExpireRc(d)
       PROVE  InTime(col)' /\ Resting' /\ Following' /\ Ends
  BY <1>16, NewDobjRecvFollows, ExpireFollows
<1> QED BY <1>4, <1>5, <1>6, <1>7, <1>8, <1>9, <1>10, <1>11, <1>12, <1>13, <1>14, <1>15, <1>16 DEF Next

\* When a collection comes to its end, everything the first meter of a line was asked and
\* answered in time has been passed up: m700_frame_recv takes for its answer nothing but
\* its answer, whatever other meters, lines lost and timeouts do meanwhile.
THEOREM AnsweredIsPassedHolds == Spec => AnsweredIsPassed
<1>1. AInv /\ [Next]_vars => AInv' BY NextFollows
<1>2. AInv /\ [Next]_vars => [Ends]_vars BY NextFollows
<1>3. Spec => [][Ends]_vars BY <1>1, <1>2, InitAnswered, PTL DEF Spec
<1> QED BY <1>3 DEF Ends, AnsweredIsPassed
=============================================================================
