--------------------------- MODULE Dlt645EpProofs ---------------------------
(***************************************************************************)
(* Proofs about unitlink-dlt645, for any number of devices and items: an   *)
(* answer is waited for where it was asked for, no item is asked for twice *)
(* in a collection, and a collection that ends has asked for everything.   *)
(*                                                                         *)
(* Places <<device, item>> are ordered as dlt645_collect_data visits them. *)
(* A handler either leaves the collection where it is (Stays) or brings it *)
(* on (Moves); IInv says what lies before the place it has reached.        *)
(***************************************************************************)
EXTENDS Dlt645Ep, WellFoundedInduction, TLAPS

Msgs == [type : {"READ_DATA", "TIME_SYNC", "RECONNECT", "LOG_DEV_EVENT", "DATA"}, dev : Devs, item : 0 .. MaxItems]
Effects == [g : Collector, dn : Seq(Msgs), up : Seq(Msgs)]

\* Where the collection is.
Pos(g) == <<g.ep_idx, g.data_idx>>

LEMMA Constants == NDev \in Nat /\ NDev > 0 /\ MaxItems \in Nat
  BY CollectorAssumption

(***************************************************************************)
(* Numbers                                                                 *)
(***************************************************************************)
\* A set of natural numbers that is not empty has a least element.
LEMMA LeastElement ==
  ASSUME NEW T, T \subseteq Nat, T # {}
  PROVE  \E x \in T : \A y \in T : x <= y
<1> DEFINE R == OpToRel(<, Nat)
<1>1. IsWellFoundedOn(R, Nat) BY NatLessThanWellFounded
<1>2. \A x, y \in Nat : x < y => <<x, y>> \in R BY DEF OpToRel
<1> HIDE DEF R
<1>3. PICK x \in T : \A y \in T : ~ (<<y, x>> \in R) BY <1>1, WFMin
<1>4. ASSUME NEW y \in T PROVE x <= y
  <2>1. ~(y < x) BY <1>2, <1>3
  <2> QED BY <2>1
<1> QED BY <1>4

\* Min of the community modules is the least element.
LEMMA MinIsLeast ==
  ASSUME NEW S, S \subseteq Nat, S # {}
  PROVE  Min(S) \in S /\ \A x \in S : Min(S) <= x
<1>1. \E x \in S : \A y \in S : x <= y BY LeastElement
<1> QED BY <1>1 DEF Min

\* Induction: a set that holds 0 and with every natural number the next one holds
\* them all.
LEMMA Induct ==
  ASSUME NEW S, 0 \in S, \A n \in Nat : n \in S => n + 1 \in S
  PROVE  Nat \subseteq S
<1> DEFINE T == Nat \ S
<1> SUFFICES ASSUME T # {} PROVE FALSE OBVIOUS
<1>1. PICK x \in T : \A y \in T : x <= y BY LeastElement
<1>2. x # 0 /\ x - 1 \in Nat OBVIOUS
<1>3. x - 1 \notin T BY <1>1, <1>2
<1>4. (x - 1) + 1 \in S BY <1>2, <1>3
<1> QED BY <1>2, <1>4

(***************************************************************************)
(* The operators                                                           *)
(***************************************************************************)
LEMMA ToUpFacts ==
  ASSUME NEW r \in Effects, NEW m \in Msgs
  PROVE  /\ ToUp(r, m) \in Effects /\ ToUp(r, m).g = r.g
         /\ Reads(ToUp(r, m)) = Reads(r)
<1> DEFINE q == Append(r.up, m)
<1>1. q \in Seq(Msgs) BY DEF Effects
<1>2. ToUp(r, m) = [r EXCEPT !.up = q] BY DEF ToUp
<1> HIDE DEF q
<1>3. /\ ToUp(r, m) \in Effects /\ ToUp(r, m).g = r.g
      /\ ToUp(r, m).dn = r.dn
  BY <1>1, <1>2 DEF Effects
<1> QED BY <1>3 DEF Reads

LEMMA ToDnFacts ==
  ASSUME NEW r \in Effects, NEW m \in Msgs
  PROVE  /\ ToDn(r, m) \in Effects /\ ToDn(r, m).g = r.g
         /\ Reads(ToDn(r, m)) = IF m.type = "READ_DATA" THEN Reads(r) \cup {<<m.dev, m.item>>} ELSE Reads(r)
<1> DEFINE s == ToDn(r, m)
           q == r.dn
           p == Append(q, m)
<1>2. q \in Seq(Msgs) /\ p \in Seq(Msgs) BY DEF Effects
<1>0. s = [r EXCEPT !.dn = p] BY DEF ToDn
<1> HIDE DEF p, s
<1>1. s \in Effects /\ s.g = r.g /\ s.dn = p BY <1>0, <1>2 DEF Effects
<1> USE DEF p
<1>3. /\ Len(Append(q, m)) = Len(q) + 1
      /\ \A k \in 1 .. Len(q) : Append(q, m)[k] = q[k]
      /\ Append(q, m)[Len(q) + 1] = m
      /\ Len(q) \in Nat
  BY <1>2
<1>4. \A a : a \in Reads(r) <=> \E k \in 1 .. Len(q) : q[k].type = "READ_DATA" /\ a = <<q[k].dev, q[k].item>>
  BY DEF Reads
<1>5. \A a : a \in Reads(s) <=> \E k \in 1 .. Len(s.dn) : s.dn[k].type = "READ_DATA" /\ a = <<s.dn[k].dev, s.dn[k].item>>
  BY DEF Reads
<1> HIDE DEF q
<1>6. ASSUME NEW a \in Reads(s) PROVE a \in Reads(r) \/ (m.type = "READ_DATA" /\ a = <<m.dev, m.item>>)
  <2>1. PICK k \in 1 .. Len(q) + 1 : Append(q, m)[k].type = "READ_DATA"
                                      /\ a = <<Append(q, m)[k].dev, Append(q, m)[k].item>>
    BY <1>1, <1>3, <1>5
  <2>2. CASE k = Len(q) + 1 BY <1>3, <2>1, <2>2
  <2>3. CASE k \in 1 .. Len(q) BY <1>3, <1>4, <2>1, <2>3
  <2> QED BY <1>3, <2>2, <2>3
<1>7. ASSUME NEW a \in Reads(r) PROVE a \in Reads(s)
  <2>1. PICK k \in 1 .. Len(q) : q[k].type = "READ_DATA" /\ a = <<q[k].dev, q[k].item>> BY <1>4
  <2>2. k \in 1 .. Len(q) + 1 /\ Append(q, m)[k] = q[k] BY <1>3
  <2>3. Len(s.dn) = Len(q) + 1 /\ s.dn[k] = q[k] BY <1>1, <1>3, <2>2
  <2> QED BY <1>5, <2>1, <2>2, <2>3
<1>8. m.type = "READ_DATA" => <<m.dev, m.item>> \in Reads(s)
  <2>1. Len(q) + 1 \in 1 .. Len(s.dn) /\ s.dn[Len(q) + 1] = m BY <1>1, <1>3
  <2> QED BY <1>5, <2>1
<1>9. Reads(s) = IF m.type = "READ_DATA" THEN Reads(r) \cup {<<m.dev, m.item>>} ELSE Reads(r)
  <2>1. CASE m.type = "READ_DATA" BY <1>6, <1>7, <1>8, <2>1
  <2>2. CASE m.type # "READ_DATA" BY <1>6, <1>7, <2>2
  <2> QED BY <2>1, <2>2
<1> QED BY <1>1, <1>9 DEF s

\* How a handler may leave the collection beside it as it is: another device loses
\* its connection or gets its time.
Beside(r, s) ==
  /\ s \in Effects
  /\ s.g.timer_recv = r.g.timer_recv /\ s.g.stopped = r.g.stopped /\ s.g.n = r.g.n
  /\ Pos(s.g) = Pos(r.g)
  /\ Reads(s) = Reads(r)
  /\ \/ s.g.timer_dcoll = r.g.timer_dcoll
     \/ ~Waiting(r.g) /\ s.g.timer_dcoll = IF r.g.stopped THEN "off" ELSE "due"
  /\ \A x \in Devs : s.g.tx_ready[x] => r.g.tx_ready[x]

LEMMA BesideTrans ==
  ASSUME NEW r, NEW s, NEW t, Beside(r, s), Beside(s, t)
  PROVE  Beside(r, t)
  BY DEF Beside, Waiting

LEMMA InitEpExtBeside ==
  ASSUME NEW r \in Effects, NEW d \in Devs
  PROVE  Beside(r, InitEpExt(r, d))
<1> DEFINE s == InitEpExt(r, d)
<1>1. s \in Effects BY DEF InitEpExt, Effects, Collector, TimerStates
<1>2. /\ s.dn = r.dn
      /\ s.g.timer_recv = r.g.timer_recv /\ s.g.timer_dcoll = r.g.timer_dcoll
      /\ s.g.stopped = r.g.stopped /\ s.g.n = r.g.n
      /\ s.g.ep_idx = r.g.ep_idx /\ s.g.data_idx = r.g.data_idx
      /\ \A x \in Devs : s.g.tx_ready[x] => r.g.tx_ready[x]
  BY DEF InitEpExt, Effects, Collector
<1> HIDE DEF s
<1>3. Reads(s) = Reads(r) BY <1>2 DEF Reads
<1>4. Beside(r, s) BY <1>1, <1>2, <1>3 DEF Beside, Pos
<1> QED BY <1>4 DEF s

LEMMA TimeSyncBeside ==
  ASSUME NEW r \in Effects, NEW d \in Devs
  PROVE  Beside(r, TimeSyncSend(r, d))
<1>1. CASE Waiting(r.g) BY <1>1 DEF TimeSyncSend, Beside
<1>2. CASE ~Waiting(r.g)
  <2> DEFINE m == TimeSync(d)
             t == IF r.g.tx_ready[d] THEN ToDn(r, m) ELSE r
             v == IF r.g.stopped THEN "off" ELSE "due"
             s == [t EXCEPT !.g.timer_dcoll = v, !.g.timer_sync[d] = "on"]
  <2>1. TimeSyncSend(r, d) = s
    <3>1. t.g.stopped = r.g.stopped
      <4>1. m \in Msgs BY Constants DEF TimeSync, Msgs
      <4> QED BY <4>1, ToDnFacts
    <3> QED BY <1>2, <3>1 DEF TimeSyncSend
  <2>2. m \in Msgs /\ m.type # "READ_DATA" BY Constants DEF TimeSync, Msgs
  <2> HIDE DEF m
  <2>3. t \in Effects /\ t.g = r.g /\ Reads(t) = Reads(r) BY <2>2, ToDnFacts
  <2>4. v \in {"off", "due"} OBVIOUS
  <2> HIDE DEF t, v
  <2>5. s \in Effects BY <2>3, <2>4 DEF Effects, Collector, TimerStates
  <2>6. /\ s.dn = t.dn
        /\ s.g.timer_recv = t.g.timer_recv /\ s.g.timer_dcoll = v
        /\ s.g.stopped = t.g.stopped /\ s.g.n = t.g.n
        /\ s.g.ep_idx = t.g.ep_idx /\ s.g.data_idx = t.g.data_idx
        /\ s.g.tx_ready = t.g.tx_ready
    BY <2>3 DEF Effects, Collector
  <2> HIDE DEF s
  <2>7. Reads(s) = Reads(t) BY <2>6 DEF Reads
  <2>8. Beside(r, s) BY <1>2, <2>3, <2>5, <2>6, <2>7 DEF Beside, Pos, v
  <2> QED BY <2>1, <2>8
<1> QED BY <1>1, <1>2

LEMMA DeviceAlarmBeside ==
  ASSUME NEW r \in Effects, NEW d \in Devs
  PROVE  Beside(r, DeviceAlarm(r, d))
<1> DEFINE r1 == IF r.g.timer_sync[d] = "due" THEN TimeSyncSend(r, d) ELSE r
           r2 == InitEpExt(r1, d)
           m == Sys("RECONNECT", d)
           r3 == ToDn(r2, m)
<1>1. Beside(r, r) BY DEF Beside
<1>2. Beside(r, r1) BY <1>1, TimeSyncBeside
<1>3. DeviceAlarm(r, d) = IF r1.g.timer_rc[d] = "due" THEN r3 ELSE r1 BY DEF DeviceAlarm
<1>4. m \in Msgs /\ m.type # "READ_DATA" BY Constants DEF Sys, Msgs
<1> HIDE DEF r1, m
<1>5. r1 \in Effects BY <1>2 DEF Beside
<1>6. Beside(r1, r2) BY <1>5, InitEpExtBeside
<1>7. r2 \in Effects BY <1>6 DEF Beside
<1> HIDE DEF r2
<1>8. r3 \in Effects /\ r3.g = r2.g /\ Reads(r3) = Reads(r2) BY <1>4, <1>7, ToDnFacts
<1>9. Beside(r2, r3) BY <1>8 DEF Beside
<1> HIDE DEF r3
<1>10. Beside(r, r3) BY <1>2, <1>6, <1>9, BesideTrans
<1> QED BY <1>2, <1>3, <1>10

\* The loop over ep_exts, unfolded: one alarm after the other.
LEMMA DeviceAlarmsLoop ==
  ASSUME NEW r
  PROVE  \E f : /\ f[0] = r
                /\ \A d \in 1 .. NDev : f[d] = DeviceAlarm(f[d - 1], d)
                /\ DeviceAlarms(r) = f[NDev]
<1> DEFINE Is(f, n) == f = [d \in 0 .. n |-> IF d = 0 THEN r ELSE DeviceAlarm(f[d - 1], d)]
           S == {n \in Nat : \E f : Is(f, n)}
<1>1. 0 \in S
  <2> DEFINE f == [d \in 0 .. 0 |-> r]
  <2>1. f = [d \in 0 .. 0 |-> IF d = 0 THEN r ELSE DeviceAlarm(f[d - 1], d)] OBVIOUS
  <2>2. Is(f, 0) BY <2>1
  <2> QED BY <2>2
<1>2. ASSUME NEW n \in Nat, n \in S PROVE n + 1 \in S
  <2>1. PICK f : Is(f, n) BY <1>2
  <2> DEFINE g == [d \in 0 .. n + 1 |-> IF d <= n THEN f[d] ELSE DeviceAlarm(f[n], n + 1)]
             h == [d \in 0 .. n + 1 |-> IF d = 0 THEN r ELSE DeviceAlarm(g[d - 1], d)]
  <2>2. \A d \in 0 .. n : f[d] = IF d = 0 THEN r ELSE DeviceAlarm(f[d - 1], d) BY <2>1
  <2>3. ASSUME NEW d \in 0 .. n + 1 PROVE g[d] = h[d]
    <3>1. CASE d = 0 BY <3>1, <2>2
    <3>2. CASE d \in 1 .. n BY <3>2, <2>2
    <3>3. CASE d = n + 1 BY <3>3, <2>2
    <3> QED BY <3>1, <3>2, <3>3
  <2>4. g = h BY <2>3
  <2>5. Is(g, n + 1) BY <2>4
  <2> HIDE DEF g, h, Is
  <2>6. \E x : Is(x, n + 1) BY <2>5
  <2>7. n + 1 \in Nat OBVIOUS
  <2> QED BY <2>6, <2>7
<1> HIDE DEF S
<1>3. NDev \in S BY <1>1, <1>2, Induct, Constants
<1>4. PICK f : Is(f, NDev) BY <1>3 DEF S
<1> DEFINE after == CHOOSE x : Is(x, NDev)
<1>5. Is(after, NDev) BY <1>4
<1>6. DeviceAlarms(r) = after[NDev] BY DEF DeviceAlarms
<1> HIDE DEF after
<1>7. after[0] = r BY <1>5, Constants
<1>8. \A d \in 1 .. NDev : after[d] = DeviceAlarm(after[d - 1], d) BY <1>5, Constants
<1> QED BY <1>6, <1>7, <1>8

LEMMA DeviceAlarmsBeside ==
  ASSUME NEW r \in Effects
  PROVE  Beside(r, DeviceAlarms(r))
<1>1. PICK f : /\ f[0] = r
               /\ \A d \in 1 .. NDev : f[d] = DeviceAlarm(f[d - 1], d)
               /\ DeviceAlarms(r) = f[NDev]
  BY DeviceAlarmsLoop
<1> DEFINE S == {n \in Nat : n <= NDev => Beside(r, f[n])}
<1>2. 0 \in S
  <2>1. Beside(r, r) BY DEF Beside
  <2> QED BY <1>1, <2>1
<1>3. ASSUME NEW n \in Nat, n \in S PROVE n + 1 \in S
  <2>1. SUFFICES ASSUME n + 1 <= NDev PROVE Beside(r, f[n + 1]) OBVIOUS
  <2>2. n <= NDev /\ n + 1 \in 1 .. NDev /\ (n + 1) - 1 = n BY <2>1, Constants
  <2>3. Beside(r, f[n]) BY <1>3, <2>2
  <2>4. f[n + 1] = DeviceAlarm(f[n], n + 1) BY <1>1, <2>2
  <2>5. f[n] \in Effects BY <2>3 DEF Beside
  <2>6. Beside(f[n], f[n + 1]) BY <2>2, <2>4, <2>5, DeviceAlarmBeside DEF Devs
  <2> QED BY <2>3, <2>6, BesideTrans
<1> HIDE DEF S
<1>4. NDev \in S BY <1>2, <1>3, Induct, Constants
<1> QED BY <1>1, <1>4, Constants DEF S

(***************************************************************************)
(* The next request                                                        *)
(***************************************************************************)
\* Places are ordered as the collection visits them.
Leq(p, q) == p[1] < q[1] \/ (p[1] = q[1] /\ p[2] <= q[2])

Items == Devs \X (1 .. MaxItems)

\* The items of a device that is ready, if device d at i is one.
Offered(g, d, i) == g.tx_ready[d] /\ i \in 1 .. g.n[d]

\* What lies before the place the collection stands at, or was given up with its device.
Passed(g, d, i) == Leq(<<d, i>>, Pos(g)) \/ (g.data_idx = 0 /\ d = g.ep_idx)

\* The next item is asked for, and none between was left out.
AskedNext(r, s) ==
  /\ Pos(s.g) \in Items /\ ~Passed(r.g, s.g.ep_idx, s.g.data_idx)
  /\ Waiting(s.g) /\ s.g.timer_dcoll = "off"
  /\ Reads(s) = Reads(r) \cup (IF Waiting(r.g) THEN {} ELSE {Pos(s.g)})
  /\ \A d \in Devs, i \in 1 .. MaxItems :
       Offered(r.g, d, i) /\ Leq(<<d, i>>, Pos(s.g)) => Passed(r.g, d, i) \/ <<d, i>> = Pos(s.g)

\* No item is left.
Ended(r, s) ==
  /\ Pos(s.g) = <<0, 0>> /\ s.g.timer_dcoll = "on" /\ s.g.timer_recv = r.g.timer_recv
  /\ Reads(s) = Reads(r)
  /\ \A d \in Devs, i \in 1 .. MaxItems : Offered(r.g, d, i) => Passed(r.g, d, i)

Collects(r, s) == /\ s \in Effects
                  /\ s.g.stopped = r.g.stopped /\ s.g.n = r.g.n /\ s.g.tx_ready = r.g.tx_ready
                  /\ AskedNext(r, s) \/ Ended(r, s)

\* The collection goes to item i of device d.
Ask(r, d, i) == ReadDataSend([r EXCEPT !.g.ep_idx = d, !.g.data_idx = i], d, i)

LEMMA AskFacts ==
  ASSUME NEW r \in Effects, NEW d \in Devs, NEW i \in 1 .. MaxItems, r.g.tx_ready[d]
  PROVE  /\ Ask(r, d, i) \in Effects /\ Pos(Ask(r, d, i).g) = <<d, i>> /\ Waiting(Ask(r, d, i).g)
         /\ Ask(r, d, i).g.timer_dcoll = r.g.timer_dcoll /\ Ask(r, d, i).g.stopped = r.g.stopped
         /\ Ask(r, d, i).g.n = r.g.n /\ Ask(r, d, i).g.tx_ready = r.g.tx_ready
         /\ Reads(Ask(r, d, i)) = Reads(r) \cup (IF Waiting(r.g) THEN {} ELSE {<<d, i>>})
<1> DEFINE x == [r EXCEPT !.g.ep_idx = d, !.g.data_idx = i]
           m == ReadData(d, i)
           t == ToDn(x, m)
           s == Ask(r, d, i)
           u == [t EXCEPT !.g.timer_recv = "on", !.g.buf = NoAnswer]
<1>1. d \in 0 .. NDev /\ i \in 0 .. MaxItems BY Constants DEF Devs
<1>2. x \in Effects BY <1>1 DEF Effects, Collector
<1>3. /\ x.dn = r.dn /\ x.g.ep_idx = d /\ x.g.data_idx = i
      /\ x.g.timer_recv = r.g.timer_recv /\ x.g.timer_dcoll = r.g.timer_dcoll
      /\ x.g.stopped = r.g.stopped /\ x.g.n = r.g.n /\ x.g.tx_ready = r.g.tx_ready
  BY <1>1 DEF Effects, Collector
<1> HIDE DEF x
<1>4. Reads(x) = Reads(r) BY <1>3 DEF Reads
<1>5. m \in Msgs /\ m.type = "READ_DATA" /\ <<m.dev, m.item>> = <<d, i>>
  BY <1>1 DEF ReadData, Msgs
<1> HIDE DEF m
<1>6. t \in Effects /\ t.g = x.g /\ Reads(t) = Reads(x) \cup {<<d, i>>} BY <1>2, <1>5, ToDnFacts
<1> HIDE DEF t
<1>7. CASE Waiting(r.g)
  <2>1. s = x BY <1>3, <1>7 DEF Ask, ReadDataSend, Waiting, x
  <2> HIDE DEF s
  <2>2. Reads(s) = Reads(r) \cup {} BY <2>1, <1>4
  <2>3. Waiting(s.g) BY <1>3, <1>7, <2>1 DEF Waiting
  <2> QED BY <1>2, <1>3, <1>7, <2>1, <2>2, <2>3 DEF Pos, s
<1>8. CASE ~Waiting(r.g)
  <2>1. s = u BY <1>3, <1>8 DEF Ask, ReadDataSend, Waiting, t, m, x
  <2>2. NoAnswer \in Buffers BY DEF Buffers
  <2>3. u \in Effects BY <1>6, <2>2 DEF Effects, Collector, TimerStates
  <2>4. /\ u.dn = t.dn /\ u.g.timer_recv = "on"
        /\ u.g.ep_idx = t.g.ep_idx /\ u.g.data_idx = t.g.data_idx
        /\ u.g.timer_dcoll = t.g.timer_dcoll
        /\ u.g.stopped = t.g.stopped /\ u.g.n = t.g.n /\ u.g.tx_ready = t.g.tx_ready
    BY <1>6 DEF Effects, Collector
  <2> HIDE DEF u, s
  <2>5. Reads(u) = Reads(t) BY <2>4 DEF Reads
  <2>6. Waiting(u.g) BY <2>4 DEF Waiting
  <2> QED BY <1>3, <1>4, <1>6, <1>8, <2>1, <2>3, <2>4, <2>5, <2>6 DEF Pos, s
<1> QED BY <1>7, <1>8

LEMMA EndFacts ==
  ASSUME NEW r \in Effects
  PROVE  LET s == [r EXCEPT !.g.ep_idx = 0, !.g.data_idx = 0, !.g.timer_dcoll = "on"]
         IN  /\ s \in Effects
             /\ s.dn = r.dn /\ s.g.ep_idx = 0 /\ s.g.data_idx = 0 /\ s.g.timer_dcoll = "on"
             /\ s.g.timer_recv = r.g.timer_recv /\ s.g.stopped = r.g.stopped
             /\ s.g.n = r.g.n /\ s.g.tx_ready = r.g.tx_ready
<1>1. 0 \in 0 .. NDev /\ 0 \in 0 .. MaxItems BY Constants
<1> QED BY <1>1 DEF Effects, Collector, TimerStates

LEMMA CollectDataCollects ==
  ASSUME NEW r \in Effects, r.g.data_idx # 0 => r.g.ep_idx # 0
  PROVE  /\ (r.g.stopped \/ r.g.timer_dcoll # "off") => CollectData(r) = r
         /\ (~r.g.stopped /\ r.g.timer_dcoll = "off") => Collects(r, CollectData(r))
<1> DEFINE g == r.g
           later == {d \in Devs : d > g.ep_idx /\ g.tx_ready[d] /\ g.n[d] > 0}
           more == g.data_idx # 0 /\ g.tx_ready[g.ep_idx] /\ g.data_idx < g.n[g.ep_idx]
           end == [r EXCEPT !.g.ep_idx = 0, !.g.data_idx = 0, !.g.timer_dcoll = "on"]
           ask(d, i) == ReadDataSend([r EXCEPT !.g.ep_idx = d, !.g.data_idx = i], d, i)
<1>a. CollectData(r) = IF g.stopped \/ g.timer_dcoll # "off" THEN r
                       ELSE IF more THEN ask(g.ep_idx, g.data_idx + 1)
                       ELSE IF later # {} THEN ask(Min(later), 1) ELSE end
  BY DEF CollectData
<1>b. \A d, i : ask(d, i) = Ask(r, d, i) BY DEF Ask
<1> HIDE DEF ask, more, later, end
<1>1. (r.g.stopped \/ r.g.timer_dcoll # "off") => CollectData(r) = r BY <1>a
<1> SUFFICES ASSUME ~r.g.stopped, r.g.timer_dcoll = "off"
             PROVE  Collects(r, CollectData(r))
  BY <1>1
<1>2. CollectData(r) = IF more THEN Ask(r, g.ep_idx, g.data_idx + 1)
                       ELSE IF later # {} THEN Ask(r, Min(later), 1) ELSE end
  BY <1>a, <1>b
<1> USE DEF more, later, end
<1>3. /\ g.ep_idx \in 0 .. NDev /\ g.data_idx \in 0 .. MaxItems
      /\ g.n \in [Devs -> 0 .. MaxItems] /\ g.tx_ready \in [Devs -> BOOLEAN]
  BY DEF Effects, Collector
<1>4. \A d \in Devs : g.n[d] \in 0 .. MaxItems BY <1>3
<1>5. Devs = 1 .. NDev /\ Devs \subseteq Nat BY Constants DEF Devs
<1>6. ASSUME NEW d \in Devs, NEW i \in 1 .. MaxItems, g.tx_ready[d]
      PROVE  /\ Ask(r, d, i) \in Effects /\ Pos(Ask(r, d, i).g) = <<d, i>> /\ Waiting(Ask(r, d, i).g)
             /\ Ask(r, d, i).g.timer_dcoll = "off" /\ Ask(r, d, i).g.stopped = g.stopped
             /\ Ask(r, d, i).g.n = g.n /\ Ask(r, d, i).g.tx_ready = g.tx_ready
             /\ Reads(Ask(r, d, i)) = Reads(r) \cup (IF Waiting(g) THEN {} ELSE {<<d, i>>})
  BY <1>6, AskFacts
<1>7. CASE more
  <2> DEFINE e == g.ep_idx
             j == g.data_idx + 1
             s == Ask(r, e, j)
  <2>1. e \in Devs /\ j \in 1 .. MaxItems /\ g.tx_ready[e]
    <3>1. e \in Devs BY <1>3, <1>5, <1>7
    <3>2. g.n[e] \in 0 .. MaxItems BY <1>4, <3>1
    <3>3. g.data_idx \in Nat /\ g.data_idx < g.n[e] BY <1>3, <1>7, Constants
    <3> QED BY <1>7, <3>1, <3>2, <3>3, Constants
  <2>2. /\ s \in Effects /\ Pos(s.g) = <<e, j>> /\ Waiting(s.g)
        /\ s.g.timer_dcoll = "off" /\ s.g.stopped = g.stopped
        /\ s.g.n = g.n /\ s.g.tx_ready = g.tx_ready
        /\ Reads(s) = Reads(r) \cup (IF Waiting(g) THEN {} ELSE {<<e, j>>})
    BY <1>6, <2>1
  <2>3. ~Passed(g, e, j) BY <1>3, <1>7 DEF Passed, Leq, Pos
  <2>4. ASSUME NEW d \in Devs, NEW i \in 1 .. MaxItems, Leq(<<d, i>>, <<e, j>>)
        PROVE  Leq(<<d, i>>, Pos(g)) \/ <<d, i>> = <<e, j>>
    <3>1. d \in Int /\ e \in Int /\ i \in Int /\ g.data_idx \in Int
      BY <1>3, <1>5, Constants
    <3> QED BY <2>4, <3>1 DEF Leq, Pos
  <2> HIDE DEF s, e, j
  <2>5. <<e, j>> \in Items BY <2>1 DEF Items
  <2>6. AskedNext(r, s) BY <2>2, <2>3, <2>4, <2>5 DEF AskedNext, Passed, Pos
  <2> QED BY <1>2, <1>7, <2>2, <2>6 DEF Collects, s, e, j
<1>8. ASSUME ~more, NEW d \in Devs, NEW i \in 1 .. MaxItems, Offered(g, d, i), ~Passed(g, d, i)
      PROVE  d \in later
  <2>1. i \in Nat /\ i > 0 /\ i <= g.n[d] /\ g.n[d] \in Nat /\ g.tx_ready[d]
    BY <1>4, <1>8, Constants DEF Offered
  <2>2. ~(d < g.ep_idx) /\ ~(d = g.ep_idx /\ i <= g.data_idx) /\ ~(g.data_idx = 0 /\ d = g.ep_idx)
    BY <1>8 DEF Passed, Leq, Pos
  <2>3. d # g.ep_idx
    <3>1. SUFFICES ASSUME d = g.ep_idx PROVE FALSE OBVIOUS
    <3>2. g.data_idx # 0 /\ g.data_idx < i BY <1>3, <2>1, <2>2, <3>1
    <3>3. g.data_idx < g.n[g.ep_idx] BY <1>3, <2>1, <3>1, <3>2
    <3> QED BY <1>8, <2>1, <3>1, <3>2, <3>3
  <2>4. d > g.ep_idx BY <1>3, <1>5, <2>2, <2>3
  <2> QED BY <2>1, <2>4
<1>9. CASE ~more /\ later # {}
  <2> DEFINE e == Min(later)
             s == Ask(r, e, 1)
  <2>1. later \subseteq Nat BY <1>5
  <2>2. e \in later /\ \A x \in later : e <= x BY <1>9, <2>1, MinIsLeast
  <2>3. e \in Devs /\ e > g.ep_idx /\ g.tx_ready[e] /\ g.n[e] > 0 BY <2>2
  <2> HIDE DEF e
  <2>4. 1 \in 1 .. MaxItems
    <3>1. g.n[e] \in 0 .. MaxItems BY <1>4, <2>3
    <3> QED BY <2>3, <3>1, Constants
  <2>5. /\ s \in Effects /\ Pos(s.g) = <<e, 1>> /\ Waiting(s.g)
        /\ s.g.timer_dcoll = "off" /\ s.g.stopped = g.stopped
        /\ s.g.n = g.n /\ s.g.tx_ready = g.tx_ready
        /\ Reads(s) = Reads(r) \cup (IF Waiting(g) THEN {} ELSE {<<e, 1>>})
    BY <1>6, <2>3, <2>4
  <2>6. ~Passed(g, e, 1) BY <1>3, <1>5, <2>3 DEF Passed, Leq, Pos
  <2>7. ASSUME NEW d \in Devs, NEW i \in 1 .. MaxItems, Offered(g, d, i), Leq(<<d, i>>, <<e, 1>>)
        PROVE  Passed(g, d, i) \/ <<d, i>> = <<e, 1>>
    <3>1. SUFFICES ASSUME ~Passed(g, d, i) PROVE <<d, i>> = <<e, 1>> OBVIOUS
    <3>2. d \in later BY <1>8, <1>9, <2>7, <3>1
    <3>3. e <= d /\ d \in Int /\ e \in Int /\ i \in Int /\ i >= 1
      BY <2>2, <2>3, <3>2, <1>5, Constants
    <3>4. d < e \/ (d = e /\ i <= 1) BY <2>7 DEF Leq
    <3> QED BY <3>3, <3>4
  <2> HIDE DEF s
  <2>8. <<e, 1>> \in Items BY <2>3, <2>4 DEF Items
  <2>9. AskedNext(r, s) BY <2>5, <2>6, <2>7, <2>8 DEF AskedNext, Pos
  <2> QED BY <1>2, <1>9, <2>5, <2>9 DEF Collects, s, e
<1>10. CASE ~more /\ later = {}
  <2>1. end \in Effects BY EndFacts
  <2>2. /\ end.dn = r.dn /\ end.g.ep_idx = 0 /\ end.g.data_idx = 0 /\ end.g.timer_dcoll = "on"
        /\ end.g.timer_recv = r.g.timer_recv /\ end.g.stopped = r.g.stopped
        /\ end.g.n = r.g.n /\ end.g.tx_ready = r.g.tx_ready
    BY EndFacts
  <2>3. Reads(end) = Reads(r) BY <2>2 DEF Reads
  <2>4. \A d \in Devs, i \in 1 .. MaxItems : Offered(g, d, i) => Passed(g, d, i) BY <1>8, <1>10
  <2> HIDE DEF end
  <2>5. Ended(r, end) BY <2>2, <2>3, <2>4 DEF Ended, Pos
  <2> QED BY <1>2, <1>10, <2>1, <2>2, <2>5 DEF Collects
<1> QED BY <1>7, <1>9, <1>10

(***************************************************************************)
(* The inductive invariant                                                 *)
(***************************************************************************)
\* The collector is at an item of a device or at none, and at none when stopped.
Placed == /\ (col.ep_idx = 0) = (col.data_idx = 0)
          /\ col.stopped => col.ep_idx = 0

\* A collection that begins while a stray answer is waited for counts nobody as steady.
StrayIsNew == stray /\ Collecting(col) => \A d \in Devs : steady[d] = 0

\* What counts as steady is there.
SteadyIsThere == \A d \in Devs : steady[d] > 0 => col.tx_ready[d] /\ steady[d] <= col.n[d]

\* What was asked for in this collection lies before its place, and of the steady
\* devices everything that lies there was asked for.
AskedBefore == Collecting(col) => \A a \in asked : Leq(a, Pos(col))
AskedAll == Collecting(col) =>
  \A d \in Devs, i \in 1 .. MaxItems :
    i <= steady[d] /\ Leq(<<d, i>>, Pos(col)) => <<d, i>> \in asked

IInv == /\ TypeOK /\ WaitingPlace
        /\ Placed /\ StrayIsNew /\ SteadyIsThere /\ AskedBefore /\ AskedAll

(***************************************************************************)
(* Two kinds of handlers                                                   *)
(***************************************************************************)
\* One that leaves the collection where it is.
Stays(r) ==
  /\ r \in Effects
  /\ Reads(r) = {} /\ Pos(r.g) = Pos(col) /\ r.g.stopped = col.stopped
  /\ \A d \in Devs : col.n[d] <= r.g.n[d]
  /\ Waiting(r.g) => Waiting(col) /\ r.g.timer_dcoll = col.timer_dcoll
  /\ r.g.stopped => r.g.timer_dcoll = "off"

\* One that brings it on: to the next item, asked for at once unless a stray answer is
\* waited for, or to its end.
Moves(r, gaveUp) ==
  /\ r \in Effects
  /\ ~r.g.stopped
  /\ \A d \in Devs : col.n[d] <= r.g.n[d]
  /\ \/ /\ Pos(r.g) \in Items /\ ~Leq(Pos(r.g), Pos(col))
        /\ Waiting(r.g) /\ r.g.timer_dcoll = "off"
        /\ \/ Reads(r) = {Pos(r.g)}
           \/ Reads(r) = {} /\ Waiting(col) /\ (Collecting(col) => col.timer_dcoll # "off")
        /\ \A d \in Devs, i \in 1 .. MaxItems :
             Offered(r.g, d, i) /\ Leq(<<d, i>>, Pos(r.g)) =>
               \/ Leq(<<d, i>>, Pos(col)) \/ <<d, i>> = Pos(r.g)
               \/ gaveUp /\ d = col.ep_idx
     \/ /\ Pos(r.g) = <<0, 0>> /\ Reads(r) = {}
        /\ \A d \in Devs, i \in 1 .. MaxItems :
             Offered(r.g, d, i) => Leq(<<d, i>>, Pos(col)) \/ (gaveUp /\ d = col.ep_idx)

LEMMA StaysBeside ==
  ASSUME NEW r, NEW s, Stays(r), Beside(r, s)
  PROVE  Stays(s)
  BY DEF Stays, Beside, Waiting

LEMMA MovesBeside ==
  ASSUME NEW gaveUp, NEW r, NEW s, Moves(r, gaveUp), Beside(r, s)
  PROVE  Moves(s, gaveUp)
<1>1. /\ s \in Effects /\ ~s.g.stopped /\ s.g.n = r.g.n /\ Pos(s.g) = Pos(r.g) /\ Reads(s) = Reads(r)
      /\ Waiting(r.g) => Waiting(s.g) /\ s.g.timer_dcoll = r.g.timer_dcoll
  BY DEF Moves, Beside, Waiting
<1>2. \A d \in Devs, i \in 1 .. MaxItems : Offered(s.g, d, i) => Offered(r.g, d, i)
  BY DEF Beside, Offered
<1> QED BY <1>1, <1>2 DEF Moves

LEMMA CollectsMoves ==
  ASSUME Placed, NEW gaveUp, NEW x, NEW s, Collects(x, s),
         ~x.g.stopped, \A d \in Devs : col.n[d] <= x.g.n[d],
         Reads(x) = {}, x.g.ep_idx = col.ep_idx,
         \/ x.g.data_idx = col.data_idx
         \/ gaveUp /\ x.g.data_idx = 0,
         Waiting(x.g) => Waiting(col) /\ (Collecting(col) => col.timer_dcoll # "off")
  PROVE  Moves(s, gaveUp)
<1>1. /\ s \in Effects /\ s.g.stopped = x.g.stopped /\ s.g.n = x.g.n /\ s.g.tx_ready = x.g.tx_ready
      /\ AskedNext(x, s) \/ Ended(x, s)
  BY DEF Collects
<1>2. ASSUME NEW d \in Devs, NEW i \in 1 .. MaxItems, Passed(x.g, d, i)
      PROVE  Leq(<<d, i>>, Pos(col)) \/ (gaveUp /\ d = col.ep_idx)
  <2>1. d # 0 /\ i # 0 /\ d \in Int /\ i \in Int /\ ~(i <= 0) BY Constants DEF Devs
  <2> QED BY <1>2, <2>1 DEF Passed, Leq, Pos, Placed
<1>3. \A d \in Devs, i \in 1 .. MaxItems : Offered(s.g, d, i) <=> Offered(x.g, d, i)
  BY <1>1 DEF Offered
<1>4. CASE AskedNext(x, s)
  <2>1. /\ Pos(s.g) \in Items /\ ~Passed(x.g, s.g.ep_idx, s.g.data_idx)
        /\ Waiting(s.g) /\ s.g.timer_dcoll = "off"
        /\ Reads(s) = Reads(x) \cup (IF Waiting(x.g) THEN {} ELSE {Pos(s.g)})
    BY <1>4 DEF AskedNext
  <2>2. ~Leq(Pos(s.g), Pos(col))
    <3>1. s.g.ep_idx \in Int /\ s.g.data_idx \in Int /\ ~(s.g.data_idx <= 0)
      BY <2>1, Constants DEF Items, Devs, Pos
    <3> QED BY <2>1, <3>1 DEF Passed, Leq, Pos, Placed
  <2>3. ASSUME NEW d \in Devs, NEW i \in 1 .. MaxItems, Offered(s.g, d, i), Leq(<<d, i>>, Pos(s.g))
        PROVE  \/ Leq(<<d, i>>, Pos(col)) \/ <<d, i>> = Pos(s.g)
               \/ gaveUp /\ d = col.ep_idx
    BY <1>2, <1>3, <1>4, <2>3 DEF AskedNext
  <2> QED BY <1>1, <2>1, <2>2, <2>3 DEF Moves
<1>5. CASE Ended(x, s)
  <2>1. Pos(s.g) = <<0, 0>> /\ Reads(s) = {} BY <1>5 DEF Ended
  <2>2. ASSUME NEW d \in Devs, NEW i \in 1 .. MaxItems, Offered(s.g, d, i)
        PROVE  Leq(<<d, i>>, Pos(col)) \/ (gaveUp /\ d = col.ep_idx)
    BY <1>2, <1>3, <1>5, <2>2 DEF Ended
  <2> QED BY <1>1, <2>1, <2>2 DEF Moves
<1> QED BY <1>1, <1>4, <1>5

\* What AskedOnce and AsksEverything say of a step.
OnceStep == \A a \in Devs \X (1 .. MaxItems) :
  (Collecting(col) /\ a \in asked) =>
    ~(col'.timer_recv = "on" /\ <<col'.ep_idx, col'.data_idx>> = a
        /\ <<col.ep_idx, col.data_idx>> # a)

AllStep ==
  (Collecting(col) /\ col'.ep_idx = 0 /\ ~col'.stopped) =>
    \A d \in Devs : \A i \in 1 .. steady'[d] : <<d, i>> \in asked'

\* What a handler does to the history.
LEMMA HandlerTypes ==
  ASSUME IInv, NEW r \in Effects, NEW gaveUp, NEW drops, Handler(r, gaveUp, drops),
         Reads(r) \subseteq Items, r.g.data_idx # 0 => r.g.ep_idx # 0
  PROVE  /\ TypeOK'
         /\ col' = r.g
         /\ stray' = (Waiting(r.g) /\ Reads(r) = {} /\ (stray \/ r.g.ep_idx = 0))
         /\ asked' \in {asked \cup Reads(r), Reads(r)}
         /\ (Collecting(col) \/ ~Collecting(r.g)) => asked' = asked \cup Reads(r)
         /\ (Collecting(col) \/ ~Collecting(r.g)) => \A d \in Devs :
              steady'[d] = IF r.g.tx_ready[d] /\ ~(gaveUp /\ d = col.ep_idx) THEN steady[d] ELSE 0
         /\ (~Collecting(col) /\ Collecting(r.g)) => asked' = Reads(r)
         /\ (~Collecting(col) /\ Collecting(r.g)) => \A d \in Devs :
              steady'[d] = IF r.g.tx_ready[d] /\ ~Waiting(col) THEN r.g.n[d] ELSE 0
<1>1. r.g \in Collector BY DEF Effects
<1>2. \A d \in Devs : r.g.n[d] \in 0 .. MaxItems BY <1>1 DEF Collector
<1>3. \A d \in Devs : steady[d] \in 0 .. MaxItems BY DEF IInv, TypeOK
<1>4. col' = r.g /\ running' = running BY DEF Handler
<1>5. stray' = (Waiting(r.g) /\ Reads(r) = {} /\ (stray \/ r.g.ep_idx = 0)) BY DEF Handler
<1>6. stray' \in BOOLEAN BY <1>5
<1>7. dropped' \in BOOLEAN BY DEF Handler
<1>8. CASE Collecting(col) \/ ~Collecting(r.g)
  <2>1. asked' = asked \cup Reads(r) BY <1>8 DEF Handler
  <2>2. steady' = [d \in Devs |-> IF r.g.tx_ready[d] /\ ~(gaveUp /\ d = col.ep_idx) THEN steady[d] ELSE 0]
    BY <1>8 DEF Handler
  <2>3. steady' \in [Devs -> 0 .. MaxItems] BY <2>2, <1>3, Constants
  <2>4. asked' \subseteq Items BY <2>1 DEF IInv, TypeOK, Items
  <2>5. TypeOK' BY <1>1, <1>4, <1>6, <1>7, <2>3, <2>4 DEF IInv, TypeOK, Items
  <2> QED BY <1>4, <1>5, <1>8, <2>1, <2>2, <2>5
<1>9. CASE ~Collecting(col) /\ Collecting(r.g)
  <2>1. asked' = Reads(r) BY <1>9 DEF Handler
  <2>2. steady' = [d \in Devs |-> IF r.g.tx_ready[d] /\ ~Waiting(col) THEN r.g.n[d] ELSE 0]
    BY <1>9 DEF Handler
  <2>3. steady' \in [Devs -> 0 .. MaxItems] BY <2>2, <1>2, Constants
  <2>4. TypeOK' BY <1>1, <1>4, <1>6, <1>7, <2>1, <2>3 DEF IInv, TypeOK, Items
  <2> QED BY <1>4, <1>5, <1>9, <2>1, <2>2, <2>4
<1> QED BY <1>8, <1>9

LEMMA StaysKeeps ==
  ASSUME IInv, NEW r, NEW gaveUp, NEW drops, Stays(r), Handler(r, gaveUp, drops)
  PROVE  IInv' /\ OnceStep /\ AllStep
<1>1. /\ r \in Effects /\ Reads(r) = {} /\ r.g.stopped = col.stopped
      /\ r.g.ep_idx = col.ep_idx /\ r.g.data_idx = col.data_idx
      /\ Waiting(r.g) => Waiting(col) /\ r.g.timer_dcoll = col.timer_dcoll
      /\ r.g.stopped => r.g.timer_dcoll = "off"
  BY DEF Stays, Pos
<1>2. /\ TypeOK' /\ col' = r.g
      /\ stray' = (Waiting(r.g) /\ Reads(r) = {} /\ (stray \/ r.g.ep_idx = 0))
      /\ asked' = asked
      /\ \A d \in Devs :
           steady'[d] = IF r.g.tx_ready[d] /\ ~(gaveUp /\ d = col.ep_idx) THEN steady[d] ELSE 0
  <2>1. Reads(r) \subseteq Items /\ (r.g.data_idx # 0 => r.g.ep_idx # 0) BY <1>1 DEF IInv, TypeOK
  <2>2. Collecting(col) \/ ~Collecting(r.g) BY <1>1 DEF Collecting
  <2>3. asked' = asked \cup Reads(r) BY <1>1, <2>1, <2>2, HandlerTypes
  <2>4. asked' = asked BY <1>1, <2>3
  <2> QED BY <1>1, <2>1, <2>2, <2>4, HandlerTypes
<1>3. \A d \in Devs : /\ steady[d] \in 0 .. MaxItems /\ steady'[d] \in {steady[d], 0}
                      /\ steady'[d] > 0 => steady'[d] = steady[d] /\ r.g.tx_ready[d]
  BY <1>2 DEF IInv, TypeOK
<1>4. WaitingPlace' BY <1>1, <1>2 DEF IInv, WaitingPlace
<1>5. Placed' BY <1>1, <1>2 DEF IInv, Placed
<1>6. StrayIsNew' BY <1>1, <1>2, <1>3 DEF IInv, StrayIsNew, Collecting
<1>7. SteadyIsThere'
  <2>1. SUFFICES ASSUME NEW d \in Devs, steady'[d] > 0 PROVE r.g.tx_ready[d] /\ steady'[d] <= r.g.n[d]
    BY <1>2 DEF SteadyIsThere
  <2>2. steady[d] <= col.n[d] /\ col.n[d] <= r.g.n[d] /\ steady'[d] = steady[d] /\ r.g.tx_ready[d]
    BY <1>3, <2>1 DEF IInv, SteadyIsThere, Stays
  <2>3. steady[d] \in Int /\ col.n[d] \in Int /\ r.g.n[d] \in Int
    BY <1>1, <1>3 DEF IInv, TypeOK, Collector, Effects
  <2> QED BY <2>2, <2>3
<1>8. AskedBefore' BY <1>1, <1>2 DEF IInv, AskedBefore, Collecting, Pos
<1>9. AskedAll'
  <2>1. SUFFICES ASSUME Collecting(col), NEW d \in Devs, NEW i \in 1 .. MaxItems,
                        i <= steady'[d], Leq(<<d, i>>, Pos(col))
                 PROVE  <<d, i>> \in asked
    BY <1>1, <1>2 DEF AskedAll, Collecting, Pos
  <2>2. i <= steady[d] BY <1>3, <2>1, Constants
  <2> QED BY <2>1, <2>2 DEF IInv, AskedAll
<1>10. OnceStep BY <1>1, <1>2 DEF OnceStep
<1>11. AllStep BY <1>1, <1>2 DEF AllStep, Collecting
<1> QED BY <1>2, <1>4, <1>5, <1>6, <1>7, <1>8, <1>9, <1>10, <1>11 DEF IInv

LEMMA LeqTrans ==
  ASSUME NEW p \in Nat \X Nat, NEW q \in Nat \X Nat, NEW a \in Nat \X Nat, Leq(a, p), ~Leq(q, p)
  PROVE  Leq(a, q) /\ a # q
<1>1. /\ p[1] \in Nat /\ p[2] \in Nat /\ q[1] \in Nat /\ q[2] \in Nat
      /\ a[1] \in Nat /\ a[2] \in Nat
  OBVIOUS
<1> QED BY <1>1 DEF Leq

LEMMA MovesKeeps ==
  ASSUME IInv, NEW r, NEW gaveUp, NEW drops, Moves(r, gaveUp), Handler(r, gaveUp, drops)
  PROVE  IInv' /\ OnceStep /\ AllStep
<1>1. /\ r \in Effects /\ ~r.g.stopped /\ \A d \in Devs : col.n[d] <= r.g.n[d]
      /\ r.g.ep_idx \in 0 .. NDev /\ r.g.data_idx \in 0 .. MaxItems
  BY DEF Moves, Effects, Collector
<1>2. \A d \in Devs : /\ steady[d] \in 0 .. MaxItems
                      /\ r.g.n[d] \in 0 .. MaxItems /\ col.n[d] \in 0 .. MaxItems
  <2>1. steady \in [Devs -> 0 .. MaxItems] /\ col.n \in [Devs -> 0 .. MaxItems]
    BY DEF IInv, TypeOK, Collector
  <2>2. r.g.n \in [Devs -> 0 .. MaxItems] BY <1>1 DEF Collector, Effects
  <2> QED BY <2>1, <2>2
<1>3. Items \subseteq Nat \X Nat /\ Pos(col) \in Nat \X Nat /\ Pos(r.g) \in Nat \X Nat
  <2>1. Items \subseteq Nat \X Nat BY Constants DEF Items, Devs
  <2>2. col.ep_idx \in 0 .. NDev /\ col.data_idx \in 0 .. MaxItems
    BY DEF IInv, TypeOK, Collector
  <2> QED BY <1>1, <2>1, <2>2, Constants DEF Pos
<1>4. asked \subseteq Items BY DEF IInv, TypeOK, Items
<1>5. CASE Pos(r.g) \in Items
  <2>1. /\ ~Leq(Pos(r.g), Pos(col)) /\ Waiting(r.g) /\ r.g.timer_dcoll = "off"
        /\ \/ Reads(r) = {Pos(r.g)}
           \/ Reads(r) = {} /\ Waiting(col) /\ (Collecting(col) => col.timer_dcoll # "off")
        /\ \A d \in Devs, i \in 1 .. MaxItems :
             Offered(r.g, d, i) /\ Leq(<<d, i>>, Pos(r.g)) =>
               \/ Leq(<<d, i>>, Pos(col)) \/ <<d, i>> = Pos(r.g)
               \/ gaveUp /\ d = col.ep_idx
    <3>1. Pos(r.g) # <<0, 0>> BY <1>5 DEF Items, Devs
    <3> QED BY <3>1 DEF Moves
  <2>2. r.g.ep_idx # 0 /\ r.g.data_idx # 0 /\ Collecting(r.g)
    BY <1>5 DEF Items, Devs, Pos, Collecting
  <2>3. Reads(r) \subseteq Items BY <1>5, <2>1
  <2>4. /\ TypeOK' /\ col' = r.g
        /\ stray' = (Waiting(r.g) /\ Reads(r) = {} /\ (stray \/ r.g.ep_idx = 0))
        /\ Collecting(col) => asked' = asked \cup Reads(r)
        /\ Collecting(col) => \A d \in Devs :
             steady'[d] = IF r.g.tx_ready[d] /\ ~(gaveUp /\ d = col.ep_idx) THEN steady[d] ELSE 0
        /\ ~Collecting(col) => asked' = Reads(r)
        /\ ~Collecting(col) => \A d \in Devs :
             steady'[d] = IF r.g.tx_ready[d] /\ ~Waiting(col) THEN r.g.n[d] ELSE 0
    BY <1>1, <2>2, <2>3, HandlerTypes
  <2>5. WaitingPlace' BY <1>1, <2>1, <2>2, <2>4 DEF WaitingPlace
  <2>6. Placed' BY <1>1, <2>2, <2>4 DEF Placed
  \* A request that is not sent waits for a stray answer.
  <2>7. Reads(r) = {} /\ Collecting(col) => stray
    BY <2>1 DEF IInv, WaitingPlace
  <2>8. Reads(r) = {} => \A d \in Devs : steady'[d] = 0
    BY <2>1, <2>4, <2>7 DEF IInv, StrayIsNew
  <2>9. StrayIsNew' BY <2>4, <2>8 DEF StrayIsNew
  <2>10. ASSUME NEW d \in Devs, steady'[d] > 0
         PROVE  /\ r.g.tx_ready[d] /\ steady'[d] <= r.g.n[d]
                /\ Collecting(col) => steady'[d] = steady[d] /\ ~(gaveUp /\ d = col.ep_idx)
                /\ ~Collecting(col) => steady'[d] = r.g.n[d]
    <3>1. CASE Collecting(col)
      <4>1. steady'[d] = steady[d] /\ r.g.tx_ready[d] /\ ~(gaveUp /\ d = col.ep_idx) BY <2>4, <2>10, <3>1
      <4>2. steady[d] <= col.n[d] /\ col.n[d] <= r.g.n[d]
        BY <1>1, <2>10, <4>1 DEF IInv, SteadyIsThere
      <4> QED BY <1>2, <3>1, <4>1, <4>2
    <3>2. CASE ~Collecting(col) BY <1>2, <2>4, <2>10, <3>2
    <3> QED BY <3>1, <3>2
  <2>11. SteadyIsThere' BY <2>4, <2>10 DEF SteadyIsThere
  <2>12. ASSUME Collecting(col), NEW a \in asked PROVE Leq(a, Pos(r.g)) /\ a # Pos(r.g)
    <3>1. Leq(a, Pos(col)) BY <2>12 DEF IInv, AskedBefore
    <3>2. a \in Nat \X Nat BY <1>3, <1>4
    <3> QED BY <1>3, <2>1, <3>1, <3>2, LeqTrans
  <2>13. Leq(Pos(r.g), Pos(r.g))
    <3>1. r.g.data_idx <= r.g.data_idx BY <1>1, Constants
    <3> QED BY <3>1 DEF Leq, Pos
  <2>14. AskedBefore'
    <3>1. ASSUME NEW a \in asked' PROVE Leq(a, Pos(r.g))
      <4>1. CASE a \in Reads(r) BY <2>1, <2>13, <4>1
      <4>2. CASE a \notin Reads(r) BY <2>4, <2>12, <3>1, <4>2
      <4> QED BY <4>1, <4>2
    <3> QED BY <2>4, <3>1 DEF AskedBefore
  <2>15. AskedAll'
    <3>1. SUFFICES ASSUME NEW d \in Devs, NEW i \in 1 .. MaxItems,
                          i <= steady'[d], Leq(<<d, i>>, Pos(r.g))
                   PROVE  <<d, i>> \in asked'
      BY <2>4 DEF AskedAll
    <3>2. i \in Nat /\ i > 0 /\ steady'[d] \in Nat /\ steady'[d] > 0
      <4>1. i \in Nat /\ i > 0 BY Constants
      <4>2. steady'[d] \in 0 .. MaxItems BY <2>4 DEF TypeOK
      <4> QED BY <3>1, <4>1, <4>2, Constants
    <3>3. Offered(r.g, d, i)
      <4>1. i <= r.g.n[d] /\ r.g.tx_ready[d]
        <5>1. steady'[d] <= r.g.n[d] /\ r.g.tx_ready[d] BY <2>10, <3>2
        <5>2. r.g.n[d] \in Int BY <1>2
        <5> QED BY <3>1, <3>2, <5>1, <5>2
      <4> QED BY <1>2, <3>2, <4>1 DEF Offered
    <3>4. \/ Leq(<<d, i>>, Pos(col)) \/ <<d, i>> = Pos(r.g)
          \/ gaveUp /\ d = col.ep_idx
      BY <2>1, <3>1, <3>3
    <3>5. Reads(r) = {Pos(r.g)} BY <2>1, <2>8, <3>2
    <3>6. CASE <<d, i>> = Pos(r.g) BY <2>4, <3>5, <3>6
    <3>7. CASE Collecting(col) /\ <<d, i>> # Pos(r.g)
      <4>1. steady'[d] = steady[d] /\ Leq(<<d, i>>, Pos(col)) BY <2>10, <3>2, <3>4, <3>7
      <4>2. <<d, i>> \in asked BY <3>1, <3>7, <4>1 DEF IInv, AskedAll
      <4> QED BY <2>4, <3>7, <4>2
    <3>8. CASE ~Collecting(col) /\ <<d, i>> # Pos(r.g)
      <4>1. col.ep_idx = 0 /\ col.data_idx = 0 BY <3>8 DEF Collecting, IInv, Placed
      <4>2. d > 0 /\ d \in Nat BY Constants DEF Devs
      <4>3. ~Leq(<<d, i>>, Pos(col)) /\ d # col.ep_idx BY <4>1, <4>2 DEF Leq, Pos
      <4> QED BY <3>4, <3>8, <4>3
    <3> QED BY <3>6, <3>7, <3>8
  <2>16. OnceStep BY <2>4, <2>12 DEF OnceStep, Pos
  <2>17. AllStep BY <2>2, <2>4 DEF AllStep
  <2> QED BY <2>4, <2>5, <2>6, <2>9, <2>11, <2>14, <2>15, <2>16, <2>17 DEF IInv
<1>6. CASE Pos(r.g) \notin Items
  <2>1. /\ Pos(r.g) = <<0, 0>> /\ Reads(r) = {}
        /\ \A d \in Devs, i \in 1 .. MaxItems :
             Offered(r.g, d, i) => Leq(<<d, i>>, Pos(col)) \/ (gaveUp /\ d = col.ep_idx)
    BY <1>6 DEF Moves
  <2>2. r.g.ep_idx = 0 /\ r.g.data_idx = 0 /\ ~Collecting(r.g) BY <2>1 DEF Pos, Collecting
  <2>3. /\ TypeOK' /\ col' = r.g
        /\ stray' = (Waiting(r.g) /\ Reads(r) = {} /\ (stray \/ r.g.ep_idx = 0))
        /\ asked' = asked
        /\ \A d \in Devs :
             steady'[d] = IF r.g.tx_ready[d] /\ ~(gaveUp /\ d = col.ep_idx) THEN steady[d] ELSE 0
    BY <1>1, <2>1, <2>2, HandlerTypes
  <2>4. WaitingPlace' BY <1>1, <2>1, <2>2, <2>3 DEF WaitingPlace
  <2>5. Placed' BY <2>2, <2>3 DEF Placed
  <2>6. StrayIsNew' /\ AskedBefore' /\ AskedAll' BY <2>2, <2>3 DEF StrayIsNew, AskedBefore, AskedAll
  <2>7. ASSUME NEW d \in Devs, steady'[d] > 0
        PROVE  /\ r.g.tx_ready[d] /\ steady'[d] <= r.g.n[d]
               /\ steady'[d] = steady[d] /\ ~(gaveUp /\ d = col.ep_idx)
    <3>1. steady'[d] = steady[d] /\ r.g.tx_ready[d] /\ ~(gaveUp /\ d = col.ep_idx) BY <2>3, <2>7
    <3>2. steady[d] <= col.n[d] /\ col.n[d] <= r.g.n[d]
      BY <1>1, <2>7, <3>1 DEF IInv, SteadyIsThere
    <3> QED BY <1>2, <3>1, <3>2
  <2>8. SteadyIsThere' BY <2>3, <2>7 DEF SteadyIsThere
  <2>9. OnceStep
    <3>1. \A a \in Devs \X (1 .. MaxItems) : a # <<0, 0>> BY DEF Devs
    <3> QED BY <2>2, <2>3, <3>1 DEF OnceStep
  <2>10. AllStep
    <3>1. SUFFICES ASSUME Collecting(col), NEW d \in Devs, NEW i \in 1 .. steady'[d]
                   PROVE  <<d, i>> \in asked
      BY <2>3 DEF AllStep
    <3>2. steady'[d] \in 0 .. MaxItems BY <2>3 DEF TypeOK
    <3>3. i \in 1 .. MaxItems /\ i <= steady'[d] /\ steady'[d] > 0 BY <3>2, Constants
    <3>4. i <= r.g.n[d] /\ r.g.tx_ready[d] /\ steady'[d] = steady[d] /\ ~(gaveUp /\ d = col.ep_idx)
      <4>1. steady'[d] <= r.g.n[d] BY <2>7, <3>3
      <4>2. i <= r.g.n[d] BY <1>2, <3>2, <3>3, <4>1, Constants
      <4> QED BY <2>7, <3>3, <4>2
    <3>5. Offered(r.g, d, i) BY <1>2, <3>3, <3>4, Constants DEF Offered
    <3>6. Leq(<<d, i>>, Pos(col)) BY <2>1, <3>3, <3>4, <3>5
    <3> QED BY <3>1, <3>3, <3>4, <3>6 DEF IInv, AskedAll
  <2> QED BY <2>3, <2>4, <2>5, <2>6, <2>8, <2>9, <2>10 DEF IInv
<1> QED BY <1>5, <1>6

(***************************************************************************)
(* The handlers                                                            *)
(***************************************************************************)
LEMMA CurStays ==
  ASSUME IInv
  PROVE  Cur \in Effects /\ Cur.g = col /\ Reads(Cur) = {} /\ Stays(Cur)
<1>1. Cur = [g |-> col, dn |-> <<>>, up |-> <<>>] BY DEF Cur, Handle
<1>2. Cur \in Effects BY <1>1 DEF IInv, TypeOK, Effects
<1>3. Cur.g = col /\ Len(Cur.dn) = 0 BY <1>1
<1>4. Reads(Cur) = {} BY <1>3 DEF Reads
<1>5. \A d \in Devs : col.n[d] <= col.n[d]
  <2>1. \A d \in Devs : col.n[d] \in Int BY Constants DEF IInv, TypeOK, Collector
  <2> QED BY <2>1
<1> QED BY <1>2, <1>3, <1>4, <1>5 DEF Stays, IInv, WaitingPlace

\* Changes to what the collection does not read.
LEMMA NewDobjStays ==
  ASSUME IInv, NEW d \in Devs, col.n[d] < MaxItems
  PROVE  Stays(NewDobj(Cur, d))
<1> DEFINE s == NewDobj(Cur, d)
<1>1. Cur \in Effects /\ Cur.g = col /\ Reads(Cur) = {} /\ Stays(Cur) BY CurStays
<1>2. \A x \in Devs : col.n[x] \in 0 .. MaxItems BY <1>1 DEF Effects, Collector
<1> HIDE DEF Cur
<1>3. col.n[d] + 1 \in 0 .. MaxItems BY <1>2, Constants
<1>4. s \in Effects BY <1>1, <1>3 DEF NewDobj, Effects, Collector
<1>5. /\ s.dn = Cur.dn /\ s.g.ep_idx = col.ep_idx /\ s.g.data_idx = col.data_idx
      /\ s.g.stopped = col.stopped /\ s.g.timer_recv = col.timer_recv
      /\ s.g.timer_dcoll = col.timer_dcoll
      /\ s.g.n = [col.n EXCEPT ![d] = @ + 1]
  BY <1>1 DEF NewDobj, Effects, Collector
<1>6. \A x \in Devs : col.n[x] <= s.g.n[x]
  <2>1. col.n \in [Devs -> 0 .. MaxItems] BY <1>1 DEF Effects, Collector
  <2> QED BY <1>2, <1>5, <2>1, Constants
<1> HIDE DEF s
<1>7. Reads(s) = {} BY <1>1, <1>5 DEF Reads
<1>8. Stays(s) BY <1>1, <1>4, <1>5, <1>6, <1>7 DEF Stays, Pos, Waiting
<1> QED BY <1>8 DEF s

\* A message up, and the entry of the device reset.
LEMMA LoggedInit ==
  ASSUME NEW r, Stays(r), NEW d \in Devs
  PROVE  LET s == InitEpExt(ToUp(r, Sys("LOG_DEV_EVENT", d)), d)
         IN  Stays(s) /\ s \in Effects
<1> DEFINE m == Sys("LOG_DEV_EVENT", d)
           t == ToUp(r, m)
           s == InitEpExt(t, d)
<1>1. r \in Effects BY DEF Stays
<1>2. m \in Msgs BY Constants DEF Sys, Msgs
<1> HIDE DEF m
<1>3. t \in Effects /\ t.g = r.g /\ Reads(t) = Reads(r) BY <1>1, <1>2, ToUpFacts
<1> HIDE DEF t
<1>4. Stays(t) BY <1>3 DEF Stays
<1>5. Beside(t, s) BY <1>3, InitEpExtBeside
<1> HIDE DEF s
<1>6. Stays(s) /\ s \in Effects BY <1>4, <1>5, StaysBeside DEF Beside
<1> QED BY <1>6 DEF s, t, m

LEMMA ConnectAckStays ==
  ASSUME NEW r, Stays(r), NEW d \in Devs
  PROVE  Stays(ConnectAck(r, d))
<1> DEFINE a == InitEpExt(ToUp(r, Sys("LOG_DEV_EVENT", d)), d)
           b == [a EXCEPT !.g.tx_ready[d] = TRUE]
           c == TimeSyncSend(b, d)
<1>1. ConnectAck(r, d) = c BY DEF ConnectAck
<1>2. Stays(a) /\ a \in Effects BY LoggedInit
<1> HIDE DEF a
<1>3. b \in Effects BY <1>2 DEF Effects, Collector
<1>4. /\ b.dn = a.dn /\ b.g.ep_idx = a.g.ep_idx /\ b.g.data_idx = a.g.data_idx
      /\ b.g.stopped = a.g.stopped /\ b.g.timer_recv = a.g.timer_recv
      /\ b.g.timer_dcoll = a.g.timer_dcoll /\ b.g.n = a.g.n
  BY <1>2 DEF Effects, Collector
<1> HIDE DEF b
<1>5. Reads(b) = Reads(a) BY <1>4 DEF Reads
<1>6. Stays(b) BY <1>2, <1>3, <1>4, <1>5 DEF Stays, Pos, Waiting
<1>7. Stays(c) BY <1>3, <1>6, TimeSyncBeside, StaysBeside
<1> QED BY <1>1, <1>7

LEMMA ConnectGoneStays ==
  ASSUME NEW r, Stays(r), NEW d \in Devs
  PROVE  Stays(ConnectGone(r, d))
<1> DEFINE a == InitEpExt(ToUp(r, Sys("LOG_DEV_EVENT", d)), d)
           b == [a EXCEPT !.g.timer_rc[d] = "on"]
<1>1. ConnectGone(r, d) = b BY DEF ConnectGone
<1>2. Stays(a) /\ a \in Effects BY LoggedInit
<1> HIDE DEF a
<1>3. b \in Effects BY <1>2 DEF Effects, Collector, TimerStates
<1>4. /\ b.dn = a.dn /\ b.g.ep_idx = a.g.ep_idx /\ b.g.data_idx = a.g.data_idx
      /\ b.g.stopped = a.g.stopped /\ b.g.timer_recv = a.g.timer_recv
      /\ b.g.timer_dcoll = a.g.timer_dcoll /\ b.g.n = a.g.n
  BY <1>2 DEF Effects, Collector
<1> HIDE DEF b
<1>5. Reads(b) = Reads(a) BY <1>4 DEF Reads
<1>6. Stays(b) BY <1>2, <1>3, <1>4, <1>5 DEF Stays, Pos, Waiting
<1> QED BY <1>1, <1>6

\* CollectData after a handler that has only stopped timers or woken the collection.
LEMMA CollectDataKind ==
  ASSUME IInv, NEW x \in Effects, NEW gaveUp,
         \A d \in Devs : col.n[d] <= x.g.n[d],
         Reads(x) = {}, x.g.ep_idx = col.ep_idx,
         \/ x.g.data_idx = col.data_idx
         \/ gaveUp /\ x.g.data_idx = 0,
         ~x.g.stopped /\ x.g.timer_dcoll = "off",
         Waiting(x.g) => Waiting(col) /\ (Collecting(col) => col.timer_dcoll # "off")
  PROVE  Moves(CollectData(x), gaveUp)
<1>1. x.g.data_idx # 0 => x.g.ep_idx # 0 BY DEF IInv, Placed
<1>2. Collects(x, CollectData(x)) BY <1>1, CollectDataCollects
<1> QED BY <1>2, CollectsMoves DEF IInv

LEMMA DcollStartKind ==
  ASSUME IInv
  PROVE  Stays(DcollStart(Cur)) \/ Moves(DcollStart(Cur), FALSE)
<1>1. Cur \in Effects /\ Cur.g = col /\ Reads(Cur) = {} /\ Stays(Cur) BY CurStays
<1> HIDE DEF Cur
<1>2. CASE ~col.stopped BY <1>1, <1>2 DEF DcollStart
<1>3. CASE col.stopped
  <2> DEFINE x == [Cur EXCEPT !.g.stopped = FALSE]
  <2>1. DcollStart(Cur) = CollectData(x) BY <1>1, <1>3 DEF DcollStart
  <2>2. x \in Effects BY <1>1 DEF Effects, Collector
  <2>3. /\ x.dn = Cur.dn /\ x.g.ep_idx = col.ep_idx /\ x.g.data_idx = col.data_idx
        /\ ~x.g.stopped /\ x.g.timer_recv = col.timer_recv
        /\ x.g.timer_dcoll = col.timer_dcoll /\ x.g.n = col.n
    BY <1>1 DEF Effects, Collector
  <2> HIDE DEF x
  <2>4. Reads(x) = {} BY <1>1, <2>3 DEF Reads
  <2>5. col.timer_dcoll = "off" /\ ~Collecting(col)
    BY <1>3 DEF IInv, WaitingPlace, Placed, Collecting
  <2>6. \A d \in Devs : col.n[d] <= x.g.n[d] BY <1>1, <2>3 DEF Stays
  <2>7. Waiting(x.g) => Waiting(col) BY <2>3 DEF Waiting
  <2> QED BY <2>1, <2>2, <2>3, <2>4, <2>5, <2>6, <2>7, CollectDataKind
<1> QED BY <1>2, <1>3

LEMMA TestConnectKind ==
  ASSUME IInv, col.stopped, col.timer_recv = "off", \A d \in Devs : col.n[d] < MaxItems
  PROVE  Moves(TestConnect(Cur), FALSE)
<1>1. Cur \in Effects /\ Cur.g = col /\ Reads(Cur) = {} BY CurStays
<1> HIDE DEF Cur
<1> DEFINE nn == [d \in Devs |-> Cur.g.n[d] + 1]
           x == [Cur EXCEPT !.g.n = nn, !.g.stopped = FALSE]
<1>2. TestConnect(Cur) = CollectData(x) BY DEF TestConnect
<1>3. \A d \in Devs : col.n[d] \in 0 .. MaxItems BY <1>1 DEF Effects, Collector
<1>4. nn \in [Devs -> 0 .. MaxItems] BY <1>1, <1>3, Constants
<1>5. \A d \in Devs : col.n[d] <= nn[d] BY <1>1, <1>3, Constants
<1> HIDE DEF nn
<1>6. x \in Effects BY <1>1, <1>4 DEF Effects, Collector
<1>7. /\ x.dn = Cur.dn /\ x.g.ep_idx = col.ep_idx /\ x.g.data_idx = col.data_idx
      /\ ~x.g.stopped /\ x.g.timer_recv = col.timer_recv
      /\ x.g.timer_dcoll = col.timer_dcoll /\ x.g.n = nn
  BY <1>1 DEF Effects, Collector
<1> HIDE DEF x
<1>8. Reads(x) = {} BY <1>1, <1>7 DEF Reads
<1>9. col.timer_dcoll = "off" /\ ~Waiting(x.g) BY <1>7 DEF IInv, WaitingPlace, Waiting
<1> QED BY <1>2, <1>5, <1>6, <1>7, <1>8, <1>9, CollectDataKind

LEMMA AppendedType ==
  ASSUME NEW buf \in Buffers, NEW c \in Chunks, c # Flood
  PROVE  /\ Appended(buf, c).kind = "whole" =>
              Appended(buf, c).dev \in Devs /\ Appended(buf, c).item \in 1 .. MaxItems
         /\ Appended(buf, c).kind # "whole" => Appended(buf, c) \in Buffers
<1> DEFINE b == Appended(buf, c)
<1>1. c \in Answers({"whole", "head", "tail"}) BY DEF Chunks
<1>2. c.kind \in {"whole", "head", "tail"} /\ c.dev \in Devs /\ c.item \in 1 .. MaxItems
  BY <1>1 DEF Answers
<1>3. NoAnswer.kind = "none" /\ Broken.kind = "broken" /\ NoAnswer # Broken
  BY DEF NoAnswer, Broken
<1>4. CASE buf = Broken
  <2>1. b = Broken BY <1>3, <1>4 DEF Appended
  <2> QED BY <1>3, <2>1 DEF Buffers
<1>5. CASE buf = NoAnswer /\ c.kind = "tail"
  <2>1. b = NoAnswer BY <1>3, <1>5 DEF Appended
  <2> QED BY <1>3, <2>1 DEF Buffers
<1>6. CASE buf = NoAnswer /\ c.kind # "tail"
  <2>1. b = c BY <1>3, <1>6 DEF Appended
  <2>2. c.kind = "head" => c \in Answers({"head"}) BY <1>1 DEF Answers
  <2> QED BY <1>2, <1>6, <2>1, <2>2 DEF Buffers
<1>7. CASE buf # NoAnswer /\ buf # Broken
  <2>1. buf \in Answers({"head"}) BY <1>7 DEF Buffers
  <2>2. b = IF c = [buf EXCEPT !.kind = "tail"] THEN [buf EXCEPT !.kind = "whole"] ELSE Broken
    BY <1>7 DEF Appended
  <2>3. /\ [buf EXCEPT !.kind = "whole"].kind = "whole"
        /\ [buf EXCEPT !.kind = "whole"].dev \in Devs
        /\ [buf EXCEPT !.kind = "whole"].item \in 1 .. MaxItems
    BY <2>1 DEF Answers
  <2> QED BY <1>3, <2>2, <2>3 DEF Buffers
<1> QED BY <1>4, <1>5, <1>6, <1>7

\* The wait for an answer comes to its end.
GiveUp(r) == [r EXCEPT !.g.timer_recv = "off", !.g.buf = NoAnswer]

LEMMA GiveUpFacts ==
  ASSUME NEW r \in Effects
  PROVE  /\ GiveUp(r) \in Effects /\ Reads(GiveUp(r)) = Reads(r)
         /\ GiveUp(r).g.timer_recv = "off" /\ ~Waiting(GiveUp(r).g)
         /\ GiveUp(r).g.ep_idx = r.g.ep_idx /\ GiveUp(r).g.data_idx = r.g.data_idx
         /\ GiveUp(r).g.stopped = r.g.stopped /\ GiveUp(r).g.timer_dcoll = r.g.timer_dcoll
         /\ GiveUp(r).g.n = r.g.n
<1> DEFINE s == GiveUp(r)
<1>1. NoAnswer \in Buffers BY DEF Buffers
<1>2. s \in Effects BY <1>1 DEF GiveUp, Effects, Collector, TimerStates
<1>3. /\ s.dn = r.dn /\ s.g.timer_recv = "off"
      /\ s.g.ep_idx = r.g.ep_idx /\ s.g.data_idx = r.g.data_idx
      /\ s.g.stopped = r.g.stopped /\ s.g.timer_dcoll = r.g.timer_dcoll
      /\ s.g.n = r.g.n
  BY DEF GiveUp, Effects, Collector
<1> HIDE DEF s
<1>4. Reads(s) = Reads(r) /\ ~Waiting(s.g) BY <1>3 DEF Reads, Waiting
<1> QED BY <1>2, <1>3, <1>4 DEF s

LEMMA GiveUpStays ==
  ASSUME IInv, NEW r, Stays(r)
  PROVE  Stays(GiveUp(r))
<1>1. r \in Effects BY DEF Stays
<1> QED BY <1>1, GiveUpFacts DEF Stays, Pos

LEMMA FrameFoundKind ==
  ASSUME IInv, NEW a, a.dev \in Devs, a.item \in 1 .. MaxItems
  PROVE  Stays(FrameFound(Cur, a)) \/ Moves(FrameFound(Cur, a), FALSE)
<1>1. Cur \in Effects /\ Cur.g = col /\ Reads(Cur) = {} /\ Stays(Cur) BY CurStays
<1> HIDE DEF Cur
<1> DEFINE m == Data(a.dev, a.item)
           x == GiveUp(Cur)
           y == IF a.dev = Cur.g.ep_idx THEN ToUp(x, m) ELSE x
<1>2. FrameFound(Cur, a) = CollectData(y) BY DEF FrameFound, GiveUp
<1>3. m \in Msgs BY Constants DEF Data, Msgs
<1> HIDE DEF m
<1>4. x \in Effects /\ Stays(x) /\ ~Waiting(x.g) /\ x.g.n = col.n
      /\ x.g.ep_idx = col.ep_idx /\ x.g.data_idx = col.data_idx
  BY <1>1, GiveUpFacts, GiveUpStays
<1> HIDE DEF x
<1>5. y \in Effects /\ y.g = x.g /\ Reads(y) = Reads(x) BY <1>3, <1>4, ToUpFacts
<1> HIDE DEF y
<1>6. Stays(y) BY <1>4, <1>5 DEF Stays
<1>7. CASE y.g.stopped \/ y.g.timer_dcoll # "off"
  <2>1. CollectData(y) = y BY <1>7, ZenonT(60) DEF CollectData
  <2> QED BY <1>2, <1>6, <2>1
<1>8. CASE ~y.g.stopped /\ y.g.timer_dcoll = "off"
  <2>1. Reads(y) = {} /\ \A d \in Devs : col.n[d] <= y.g.n[d] BY <1>6 DEF Stays
  <2> QED BY <1>2, <1>4, <1>5, <1>8, <2>1, CollectDataKind
<1> QED BY <1>7, <1>8

LEMMA FrameRecvKind ==
  ASSUME IInv, NEW adr \in Devs, NEW c \in Chunks
  PROVE  Stays(FrameRecv(Cur, adr, c)) \/ Moves(FrameRecv(Cur, adr, c), FALSE)
<1>1. Cur \in Effects /\ Cur.g = col /\ Reads(Cur) = {} /\ Stays(Cur) BY CurStays
<1> HIDE DEF Cur
<1> DEFINE b == Appended(Cur.g.buf, c)
<1>2. CASE ~Waiting(Cur.g) \/ c = Flood
  <2>1. FrameRecv(Cur, adr, c) = GiveUp(Cur) BY <1>2 DEF FrameRecv, GiveUp
  <2> QED BY <1>1, <2>1, GiveUpStays
<1>3. CASE Waiting(Cur.g) /\ c # Flood /\ adr # Cur.g.ep_idx
  <2>1. FrameRecv(Cur, adr, c) = Cur BY <1>3 DEF FrameRecv
  <2> QED BY <1>1, <2>1
<1>4. CASE Waiting(Cur.g) /\ c # Flood /\ adr = Cur.g.ep_idx
  <2>1. FrameRecv(Cur, adr, c) = IF b.kind = "whole" THEN FrameFound(Cur, b)
                                 ELSE [Cur EXCEPT !.g.buf = b]
    BY <1>4 DEF FrameRecv
  <2>2. Cur.g.buf \in Buffers BY <1>1 DEF Effects, Collector
  <2>3. /\ b.kind = "whole" => b.dev \in Devs /\ b.item \in 1 .. MaxItems
        /\ b.kind # "whole" => b \in Buffers
    BY <1>4, <2>2, AppendedType
  <2> HIDE DEF b
  <2>4. CASE b.kind = "whole" BY <2>1, <2>3, <2>4, FrameFoundKind
  <2>5. CASE b.kind # "whole"
    <3> DEFINE s == [Cur EXCEPT !.g.buf = b]
    <3>1. s \in Effects BY <1>1, <2>3, <2>5 DEF Effects, Collector
    <3>2. /\ s.dn = Cur.dn /\ s.g.ep_idx = col.ep_idx /\ s.g.data_idx = col.data_idx
          /\ s.g.stopped = col.stopped /\ s.g.timer_recv = col.timer_recv
          /\ s.g.timer_dcoll = col.timer_dcoll /\ s.g.n = col.n
      BY <1>1 DEF Effects, Collector
    <3> HIDE DEF s
    <3>3. Reads(s) = {} BY <1>1, <3>2 DEF Reads
    <3>4. Stays(s) BY <1>1, <3>1, <3>2, <3>3 DEF Stays, Pos, Waiting
    <3> QED BY <2>1, <2>5, <3>4 DEF s
  <2> QED BY <2>4, <2>5
<1> QED BY <1>2, <1>3, <1>4

\* The device at which the collection stands is given up.
LEMMA SkipFacts ==
  ASSUME NEW r \in Effects
  PROVE  LET s == [r EXCEPT !.g.data_idx = 0]
         IN  /\ s \in Effects
             /\ s.dn = r.dn /\ s.g.ep_idx = r.g.ep_idx /\ s.g.data_idx = 0
             /\ s.g.stopped = r.g.stopped /\ s.g.timer_recv = r.g.timer_recv
             /\ s.g.timer_dcoll = r.g.timer_dcoll /\ s.g.n = r.g.n
<1>1. 0 \in 0 .. MaxItems BY Constants
<1> QED BY <1>1 DEF Effects, Collector

LEMMA CollectorAlarmKind ==
  ASSUME IInv
  PROVE  Stays(CollectorAlarm(Cur)) \/ Moves(CollectorAlarm(Cur), col.timer_recv = "due")
<1>1. Cur \in Effects /\ Cur.g = col /\ Reads(Cur) = {} /\ Stays(Cur) BY CurStays
<1> HIDE DEF Cur
<1> DEFINE late == col.timer_recv = "due"
           x == IF late THEN GiveUp(Cur) ELSE Cur
           y == IF late /\ ~col.stopped /\ col.timer_dcoll = "off"
                THEN CollectData([x EXCEPT !.g.data_idx = 0]) ELSE x
           z == [y EXCEPT !.g.timer_dcoll = "off"]
<1>2. CollectorAlarm(Cur) = IF y.g.timer_dcoll = "due" THEN CollectData(z) ELSE y
  BY <1>1 DEF CollectorAlarm, CollectionAlarm, GiveUp
<1>3. /\ x \in Effects /\ Stays(x) /\ Reads(x) = {}
      /\ x.g.ep_idx = col.ep_idx /\ x.g.data_idx = col.data_idx
      /\ x.g.stopped = col.stopped /\ x.g.timer_dcoll = col.timer_dcoll /\ x.g.n = col.n
      /\ late => ~Waiting(x.g)
      /\ Waiting(x.g) => Waiting(col)
  BY <1>1, GiveUpFacts, GiveUpStays
<1>4. \A d \in Devs : col.n[d] <= col.n[d] BY <1>1 DEF Stays
<1> HIDE DEF x
<1>5. CASE late /\ ~col.stopped /\ col.timer_dcoll = "off"
  <2> DEFINE u == [x EXCEPT !.g.data_idx = 0]
  <2>1. u \in Effects BY <1>3, SkipFacts
  <2>2. /\ u.dn = x.dn /\ u.g.ep_idx = x.g.ep_idx /\ u.g.data_idx = 0
        /\ u.g.stopped = x.g.stopped /\ u.g.timer_recv = x.g.timer_recv
        /\ u.g.timer_dcoll = x.g.timer_dcoll /\ u.g.n = x.g.n
    BY <1>3, SkipFacts
  <2>3. y = CollectData(u) BY <1>5
  <2> HIDE DEF u, y
  <2>4. Reads(u) = {} BY <1>3, <2>2 DEF Reads
  <2>5. ~Waiting(u.g) BY <1>3, <1>5, <2>2 DEF Waiting
  <2>6. Collects(u, y) BY <1>3, <1>5, <2>1, <2>2, <2>3, CollectDataCollects
  <2>7. y.g.timer_dcoll # "due" BY <2>6 DEF Collects, AskedNext, Ended
  <2>8. Moves(y, TRUE)
    <3>1. \A d \in Devs : col.n[d] <= u.g.n[d] BY <1>3, <1>4, <2>2
    <3>2. u.g.ep_idx = col.ep_idx /\ ~u.g.stopped BY <1>3, <1>5, <2>2
    <3> QED BY <2>2, <2>4, <2>5, <2>6, <3>1, <3>2, CollectsMoves DEF IInv
  <2>9. late = TRUE BY <1>5
  <2> HIDE DEF late
  <2>10. Moves(y, late) BY <2>8, <2>9
  <2> QED BY <1>2, <2>7, <2>10 DEF late
<1>6. CASE ~(late /\ ~col.stopped /\ col.timer_dcoll = "off")
  <2>1. y = x BY <1>6
  <2> HIDE DEF y
  <2>2. CASE x.g.timer_dcoll # "due" BY <1>2, <1>3, <2>1, <2>2
  <2>3. CASE x.g.timer_dcoll = "due"
    <3>1. z \in Effects BY <1>3, <2>1 DEF Effects, Collector, TimerStates
    <3>2. /\ z.dn = x.dn /\ z.g.ep_idx = x.g.ep_idx /\ z.g.data_idx = x.g.data_idx
          /\ z.g.stopped = x.g.stopped /\ z.g.timer_recv = x.g.timer_recv
          /\ z.g.timer_dcoll = "off" /\ z.g.n = x.g.n
      BY <1>3, <2>1 DEF Effects, Collector
    <3> HIDE DEF z
    <3>3. Reads(z) = {} BY <1>3, <3>2 DEF Reads
    <3>4. Waiting(z.g) => Waiting(col) BY <1>3, <3>2 DEF Waiting
    <3>5. col.timer_dcoll # "off" /\ ~z.g.stopped BY <1>3, <2>3, <3>2 DEF IInv, WaitingPlace
    <3>6. Moves(CollectData(z), late)
      BY <1>3, <1>4, <3>1, <3>2, <3>3, <3>4, <3>5, CollectDataKind
    <3> QED BY <1>2, <2>1, <2>3, <3>6
  <2> QED BY <2>2, <2>3
<1> QED BY <1>5, <1>6

(***************************************************************************)
(* The steps                                                               *)
(***************************************************************************)
\* DCOLL_STOP leaves an answer waited for without a collection.
LEMMA DcollStopKeeps ==
  ASSUME IInv, Step(DcollStop(Cur), FALSE)
  PROVE  IInv' /\ OnceStep /\ AllStep
<1> DEFINE r == DcollStop(Cur)
<1>1. Cur \in Effects /\ Cur.g = col /\ Reads(Cur) = {} BY CurStays
<1> HIDE DEF Cur
<1>2. r \in Effects
  <2>1. 0 \in 0 .. NDev /\ 0 \in 0 .. MaxItems BY Constants
  <2> QED BY <1>1, <2>1 DEF DcollStop, Effects, Collector, TimerStates
<1>3. /\ r.dn = Cur.dn /\ r.g.ep_idx = 0 /\ r.g.data_idx = 0 /\ r.g.stopped
      /\ r.g.timer_dcoll = "off" /\ r.g.timer_recv = col.timer_recv
      /\ r.g.n = col.n /\ r.g.tx_ready = col.tx_ready
  BY <1>1 DEF DcollStop, Effects, Collector
<1>4. Handler(r, FALSE, FALSE) BY DEF Step
<1> HIDE DEF r
<1>5. Reads(r) = {} BY <1>1, <1>3 DEF Reads
<1>6. ~Collecting(r.g) /\ Reads(r) \subseteq Items BY <1>3, <1>5 DEF Collecting
<1>7. /\ TypeOK' /\ col' = r.g
      /\ stray' = (Waiting(r.g) /\ Reads(r) = {} /\ (stray \/ r.g.ep_idx = 0))
      /\ \A d \in Devs : steady'[d] = IF r.g.tx_ready[d] THEN steady[d] ELSE 0
  BY <1>2, <1>3, <1>4, <1>6, HandlerTypes
<1>8. WaitingPlace' BY <1>3, <1>5, <1>7 DEF WaitingPlace
<1>9. Placed' BY <1>3, <1>7 DEF Placed
<1>10. StrayIsNew' /\ AskedBefore' /\ AskedAll'
  BY <1>6, <1>7 DEF StrayIsNew, AskedBefore, AskedAll
<1>11. SteadyIsThere' BY <1>3, <1>7 DEF IInv, SteadyIsThere
<1>12. OnceStep
  <2>1. \A a \in Devs \X (1 .. MaxItems) : a # <<0, 0>> BY DEF Devs
  <2> QED BY <1>3, <1>7, <2>1 DEF OnceStep
<1>13. AllStep BY <1>3, <1>7 DEF AllStep
<1> QED BY <1>7, <1>8, <1>9, <1>10, <1>11, <1>12, <1>13 DEF IInv

\* A step that only lets a timer become due or ends the process.
LEMMA ClockKeeps ==
  ASSUME IInv, col' \in Collector, running' \in BOOLEAN,
         UNCHANGED <<stray, dropped, asked, steady>>,
         Pos(col') = Pos(col), col'.stopped = col.stopped,
         col'.n = col.n, col'.tx_ready = col.tx_ready,
         Waiting(col') => Waiting(col), (col'.timer_dcoll = "off") = (col.timer_dcoll = "off")
  PROVE  IInv' /\ OnceStep /\ AllStep
<1>1. col'.ep_idx = col.ep_idx /\ col'.data_idx = col.data_idx BY DEF Pos
<1>2. TypeOK' BY <1>1 DEF IInv, TypeOK
<1>3. WaitingPlace' BY <1>1 DEF IInv, WaitingPlace
<1>4. Placed' /\ StrayIsNew' /\ SteadyIsThere'
  BY <1>1 DEF IInv, Placed, StrayIsNew, SteadyIsThere, Collecting
<1>5. AskedBefore' BY <1>1 DEF IInv, AskedBefore, Collecting
<1>6. AskedAll' BY <1>1 DEF IInv, AskedAll, Collecting
<1>7. OnceStep /\ AllStep BY <1>1 DEF OnceStep, AllStep, Collecting
<1> QED BY <1>2, <1>3, <1>4, <1>5, <1>6, <1>7 DEF IInv

LEMMA ExpireKeeps ==
  ASSUME IInv, ExpireRecv \/ ExpireDcoll \/ \E d \in Devs : ExpireDevice(d)
  PROVE  IInv' /\ OnceStep /\ AllStep
<1>1. col \in Collector /\ running \in BOOLEAN BY DEF IInv, TypeOK
<1>2. CASE ExpireRecv
  <2>1. col' = [col EXCEPT !.timer_recv = "due"] /\ col.timer_recv = "on" BY <1>2 DEF ExpireRecv
  <2>2. /\ col' \in Collector /\ Pos(col') = Pos(col) /\ col'.stopped = col.stopped
        /\ col'.n = col.n /\ col'.tx_ready = col.tx_ready
        /\ ~Waiting(col') /\ col'.timer_dcoll = col.timer_dcoll
    BY <1>1, <2>1 DEF Collector, TimerStates, Pos, Waiting
  <2> QED BY <1>1, <1>2, <2>2, ClockKeeps DEF ExpireRecv
<1>3. CASE ExpireDcoll
  <2>1. col' = [col EXCEPT !.timer_dcoll = "due"] /\ col.timer_dcoll = "on" BY <1>3 DEF ExpireDcoll
  <2>2. /\ col' \in Collector /\ Pos(col') = Pos(col) /\ col'.stopped = col.stopped
        /\ col'.n = col.n /\ col'.tx_ready = col.tx_ready
        /\ (Waiting(col') => Waiting(col)) /\ col'.timer_dcoll = "due"
    BY <1>1, <2>1 DEF Collector, TimerStates, Pos, Waiting
  <2>3. (col'.timer_dcoll = "off") = (col.timer_dcoll = "off") BY <2>1, <2>2
  <2> QED BY <1>1, <1>3, <2>2, <2>3, ClockKeeps DEF ExpireDcoll
<1>4. CASE \E d \in Devs : ExpireDevice(d)
  <2>1. PICK d \in Devs : ExpireDevice(d) BY <1>4
  <2>2. /\ col' \in Collector /\ Pos(col') = Pos(col) /\ col'.stopped = col.stopped
        /\ col'.n = col.n /\ col'.tx_ready = col.tx_ready
        /\ (Waiting(col') => Waiting(col)) /\ col'.timer_dcoll = col.timer_dcoll
    BY <1>1, <2>1 DEF ExpireDevice, Collector, TimerStates, Pos, Waiting
  <2> QED BY <1>1, <2>1, <2>2, ClockKeeps DEF ExpireDevice
<1> QED BY <1>2, <1>3, <1>4

LEMMA EndKeeps ==
  ASSUME IInv, QuitRecv \/ RecvChunkWild
  PROVE  IInv' /\ OnceStep /\ AllStep
<1>1. running' = FALSE /\ UNCHANGED <<col, stray, dropped, asked, steady>>
  BY DEF QuitRecv, RecvChunkWild
<1>2. col' \in Collector /\ running' \in BOOLEAN BY <1>1 DEF IInv, TypeOK
<1> QED BY <1>1, <1>2, ClockKeeps

\* The alarm serves the collection, then each device beside it.
LEMMA AlarmKeeps ==
  ASSUME IInv, Alarm
  PROVE  IInv' /\ OnceStep /\ AllStep
<1> DEFINE mid == CollectorAlarm(Cur)
           late == col.timer_recv = "due"
           r == DeviceAlarms(mid)
<1>1. Handler(r, late, FALSE) BY DEF Alarm, Step
<1>2. Stays(mid) \/ Moves(mid, late) BY CollectorAlarmKind
<1> HIDE DEF mid, late
<1>3. mid \in Effects BY <1>2 DEF Stays, Moves
<1>4. Beside(mid, r) BY <1>3, DeviceAlarmsBeside
<1> HIDE DEF r
<1>5. Stays(r) \/ Moves(r, late) BY <1>2, <1>4, StaysBeside, MovesBeside
<1> QED BY <1>1, <1>5, StaysKeeps, MovesKeeps

LEMMA MessageKeeps ==
  ASSUME IInv, NEW d \in Devs,
         \/ NewDobjRecv(d) \/ ConnectCloseRecv(d) \/ ConnectAckRecv(d)
         \/ ConnectGoneRecv(d) \/ RecvChunk(d)
  PROVE  IInv' /\ OnceStep /\ AllStep
<1>1. Cur \in Effects /\ Stays(Cur) BY CurStays
<1>2. CASE NewDobjRecv(d)
  <2>1. col.n[d] < MaxItems /\ Handler(NewDobj(Cur, d), FALSE, FALSE)
    BY <1>2 DEF NewDobjRecv, Step
  <2>2. Stays(NewDobj(Cur, d)) BY <2>1, NewDobjStays
  <2> QED BY <2>1, <2>2, StaysKeeps
<1>3. CASE ConnectCloseRecv(d)
  <2>1. Handler(InitEpExt(Cur, d), FALSE, FALSE) BY <1>3 DEF ConnectCloseRecv, Step
  <2>2. Stays(InitEpExt(Cur, d)) BY <1>1, InitEpExtBeside, StaysBeside
  <2> QED BY <2>1, <2>2, StaysKeeps
<1>4. CASE ConnectAckRecv(d)
  <2>1. Handler(ConnectAck(Cur, d), FALSE, FALSE) BY <1>4 DEF ConnectAckRecv, Step
  <2>2. Stays(ConnectAck(Cur, d)) BY <1>1, ConnectAckStays
  <2> QED BY <2>1, <2>2, StaysKeeps
<1>5. CASE ConnectGoneRecv(d)
  <2>1. Handler(ConnectGone(Cur, d), FALSE, FALSE) BY <1>5 DEF ConnectGoneRecv, Step
  <2>2. Stays(ConnectGone(Cur, d)) BY <1>1, ConnectGoneStays
  <2> QED BY <2>1, <2>2, StaysKeeps
<1>6. CASE RecvChunk(d)
  <2>1. PICK c \in Chunks : Handler(FrameRecv(Cur, d, c), FALSE, c = Flood \/ col.timer_recv = "due")
    BY <1>6 DEF RecvChunk
  <2>2. Stays(FrameRecv(Cur, d, c)) \/ Moves(FrameRecv(Cur, d, c), FALSE) BY FrameRecvKind
  <2> QED BY <2>1, <2>2, StaysKeeps, MovesKeeps
<1> QED BY <1>2, <1>3, <1>4, <1>5, <1>6

LEMMA InitInv ==
  Init => IInv
<1> SUFFICES ASSUME Init PROVE IInv OBVIOUS
<1>1. 0 \in 0 .. NDev /\ 0 \in 0 .. MaxItems BY Constants
<1>2. InitCollector \in Collector
  <2>1. NoAnswer \in Buffers BY DEF Buffers
  <2> QED BY <1>1, <2>1 DEF InitCollector, Collector, TimerStates
<1>3. /\ col.timer_recv = "off" /\ col.timer_dcoll = "off" /\ col.stopped
      /\ col.ep_idx = 0 /\ col.data_idx = 0
  BY DEF Init, InitCollector
<1>4. TypeOK BY <1>1, <1>2, <1>3 DEF Init, TypeOK
<1>5. WaitingPlace /\ Placed BY <1>3 DEF WaitingPlace, Waiting, Placed
<1>6. StrayIsNew /\ AskedBefore /\ AskedAll
  BY <1>3 DEF StrayIsNew, AskedBefore, AskedAll, Collecting
<1>7. SteadyIsThere BY DEF Init, SteadyIsThere
<1> QED BY <1>4, <1>5, <1>6, <1>7 DEF IInv

LEMMA NextInv ==
  IInv /\ [Next]_vars => IInv' /\ [OnceStep]_vars /\ [AllStep]_vars
<1> SUFFICES ASSUME IInv, [Next]_vars PROVE IInv' /\ [OnceStep]_vars /\ [AllStep]_vars
  OBVIOUS
<1>1. CASE UNCHANGED vars
  <2>1. IInv' BY <1>1 DEF vars, IInv, TypeOK, WaitingPlace, Placed, StrayIsNew, SteadyIsThere,
                          AskedBefore, AskedAll, Collecting, Waiting, Pos
  <2> QED BY <1>1, <2>1
<1>2. CASE Next
  <2>1. CASE DcollStartRecv
    <3>1. Handler(DcollStart(Cur), FALSE, FALSE) BY <2>1 DEF DcollStartRecv, Step
    <3> QED BY <3>1, DcollStartKind, StaysKeeps, MovesKeeps
  <2>2. CASE DcollStopRecv BY <2>2, DcollStopKeeps DEF DcollStopRecv
  <2>3. CASE TestConnRecv
    <3>1. /\ col.stopped /\ col.timer_recv = "off" /\ \A d \in Devs : col.n[d] < MaxItems
          /\ Handler(TestConnect(Cur), FALSE, FALSE)
      BY <2>3 DEF TestConnRecv, Step
    <3> QED BY <3>1, TestConnectKind, MovesKeeps
  <2>4. CASE QuitRecv \/ RecvChunkWild BY <2>4, EndKeeps
  <2>5. CASE ExpireRecv \/ ExpireDcoll \/ \E d \in Devs : ExpireDevice(d) BY <2>5, ExpireKeeps
  <2>6. CASE Alarm BY <2>6, AlarmKeeps
  <2>7. CASE \E d \in Devs : \/ NewDobjRecv(d) \/ ConnectCloseRecv(d) \/ ConnectAckRecv(d)
                             \/ ConnectGoneRecv(d) \/ RecvChunk(d)
    BY <2>7, MessageKeeps
  <2> QED BY <1>2, <2>1, <2>2, <2>3, <2>4, <2>5, <2>6, <2>7 DEF Next
<1> QED BY <1>1, <1>2

(***************************************************************************)
(* The theorems                                                            *)
(***************************************************************************)
\* Whatever comes from above or below and whenever the timers run out, the
\* collector of unitlink-dlt645 keeps the inductive invariant.
THEOREM Invariance == Spec => []IInv
<1>1. IInv /\ [Next]_vars => IInv' BY NextInv
<1> QED BY InitInv, <1>1, PTL DEF Spec

\* The positions, timers and lists of dlt645_ep_ext keep their types, and there is
\* an item only with a device: ep_exts is never read at an item of no device.
THEOREM TypeCorrect == Spec => []TypeOK
<1>1. IInv => TypeOK BY DEF IInv
<1> QED BY Invariance, <1>1, PTL

\* An answer is waited for only at the device that was asked and never together
\* with the pause between collections, except for one that DCOLL_STOP left over.
THEOREM WaitingPlaceHolds == Spec => []WaitingPlace
<1>1. IInv => WaitingPlace BY DEF IInv
<1> QED BY Invariance, <1>1, PTL

\* dlt645_collect_data never asks a device twice for an item in one collection, for
\* any number of devices and items.
THEOREM AskedOnceHolds == Spec => AskedOnce
<1>1. IInv /\ [Next]_vars => [OnceStep]_vars BY NextInv
<1> QED BY Invariance, <1>1, PTL DEF Spec, AskedOnce, OnceStep

\* A collection that ends has asked every device that was ready throughout and not
\* given up for all its items, for any number of devices and items.
THEOREM AsksEverythingHolds == Spec => AsksEverything
<1>1. IInv /\ [Next]_vars => [AllStep]_vars BY NextInv
<1> QED BY Invariance, <1>1, PTL DEF Spec, AsksEverything, AllStep
=============================================================================
