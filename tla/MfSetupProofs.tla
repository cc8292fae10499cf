---------------------------- MODULE MfSetupProofs ----------------------------
(***************************************************************************)
(* Proof about how end-points come into being, for every list of           *)
(* addresses, every room for end-points and every start, and however the   *)
(* threads overtake each other: a number that NEWEP has brought is that of *)
(* an end-point below with the same address, which knows the number above. *)
(*                                                                         *)
(* The invariant follows the two numbers on their way: the header that     *)
(* goes down carries the number of an end-point with its address (Heads),  *)
(* an end-point below was made from such a header (Ups), a NEWEP on its    *)
(* way up is for one that was (News), and so are the numbers it has        *)
(* brought (Told).  What a process opens and when (Chans, Queues, Hpps)    *)
(* says that NEWEP only goes up and only from an end-point that has one    *)
(* above.  Each update of sys has a lemma that it keeps Good.              *)
(***************************************************************************)
EXTENDS MfSetup, FiniteSetTheorems, SequenceTheorems, WellFoundedInduction, TLAPS

(***************************************************************************)
(* The inductive invariant                                                 *)
(***************************************************************************)
\* End-point n of process p has address adr.
Is(s, p, n, adr) == n \in DOMAIN s.eps[p] /\ s.eps[p][n].adr = adr

\* End-point n of process p is the one above end-point my of the process below.
Pair(s, p, n, my) == /\ p \in Above /\ n \in DOMAIN s.eps[p] /\ my \in DOMAIN s.eps[p + 1]
                     /\ s.eps[p + 1][my].up = n

HeadOK(s, p, h) == h \in Header /\ p # 0 /\ Is(s, p - 1, h.numep, h.adr)
MsgOK(s, p, m) == m \in Msg /\ (m.msg = "NEWEP" => Pair(s, p, m.numep, m.my))
EventOK(s, p, e) == /\ e[1] = "up" => s.chan[p]["up"].made
                    /\ e[2] = "close" => e[1] = "init"

Heads(s) == \A p \in Procs : /\ \A h \in Range(s.ring[p]) : HeadOK(s, p, h)
                             /\ \A h \in Range(s.fifo[p]["init"]) : HeadOK(s, p, h)
Ups(s) == \A p \in Procs : \A i \in DOMAIN s.eps[p] :
  s.eps[p][i].up # 0 => p # 0 /\ Is(s, p - 1, s.eps[p][i].up, s.eps[p][i].adr)
News(s) == \A p \in Procs : \A c \in {"dn", "up"} : \A m \in Range(s.fifo[p][c]) : MsgOK(s, p, m)
Told(s) == \A p \in Procs : \A n \in s.told[p] : Pair(s, p, n, s.eps[p][n].dn)
HasUp(s, p) == \E i \in DOMAIN s.eps[p] : s.eps[p][i].up # 0
Chans(s) == \A p \in Procs :
  /\ s.chan[p]["dn"].out = "open" => s.chan[p]["dn"].in
  /\ s.chan[p]["up"].made => s.chan[p]["up"].out = "open"
  /\ s.chan[p]["up"].out = "open" => HasUp(s, p)
Queues(s) == \A p \in Procs : \A e \in Range(s.q[p]) : EventOK(s, p, e)
Hpps(s) == \A p \in Procs : \A adr \in Range(s.hpp[p]) : Known(s, p, adr)
Good(s) == /\ s \in Sys /\ Heads(s) /\ Ups(s) /\ News(s) /\ Told(s)
           /\ Chans(s) /\ Queues(s) /\ Hpps(s)

\* A main thread on its way to the init FIFO has an end-point.
Mains(s, m) == \A p \in Procs : m[p].at \in {"open", "write"} => Known(s, p, m[p].adr)

IInv == /\ Good(sys) /\ Mains(sys, main)
        /\ main \in [Procs -> Thread] /\ done \in [Procs -> SUBSET Adrs]
        /\ stolen \subseteq Procs \X Adrs

(***************************************************************************)
(* Numbers and sequences                                                   *)
(***************************************************************************)
\* A set of natural numbers that is not empty has a least element.
LEMMA LeastElement ==
  ASSUME NEW T, T \subseteq Nat, T # {}
  PROVE  \E x \in T : \A y \in T : x <= y
<1> DEFINE R == OpToRel(<, Nat)
<1>1. IsWellFoundedOn(R, Nat) BY NatLessThanWellFounded, Zenon
<1>2. \A x, y \in Nat : x < y => <<x, y>> \in R BY DEF OpToRel
<1> HIDE DEF R
<1>3. PICK x \in T : \A y \in T : ~ (<<y, x>> \in R) BY <1>1, WFMin, Zenon
<1>4. ASSUME NEW y \in T PROVE x <= y
  <2>1. ~(y < x) BY <1>2, <1>3, Zenon
  <2> QED BY <2>1
<1> QED BY <1>4

\* Induction: a set that holds 0 and with every natural number the next one holds
\* them all.
LEMMA Induct ==
  ASSUME NEW S, 0 \in S, \A n \in Nat : n \in S => n + 1 \in S
  PROVE  Nat \subseteq S
<1> DEFINE T == Nat \ S
<1> SUFFICES ASSUME T # {} PROVE FALSE OBVIOUS
<1>1. PICK x \in T : \A y \in T : x <= y BY LeastElement, Zenon
<1>2. x # 0 /\ x - 1 \in Nat OBVIOUS
<1>3. x - 1 \notin T BY <1>1, <1>2
<1>4. (x - 1) + 1 \in S BY <1>2, <1>3
<1> QED BY <1>2, <1>4

\* A longer sequence, what is in a sequence, and what comes after its head.
LEMMA AppendFacts ==
  ASSUME NEW S, NEW s \in Seq(S), NEW e \in S
  PROVE  /\ Append(s, e) \in Seq(S) /\ Len(Append(s, e)) = Len(s) + 1
         /\ \A k \in 1 .. Len(s) : Append(s, e)[k] = s[k]
         /\ Append(s, e)[Len(s) + 1] = e
         /\ Range(Append(s, e)) = Range(s) \cup {e}
         /\ Append(s, e) # <<>> /\ Last(Append(s, e)) = e
<1>1. /\ Append(s, e) \in Seq(S) /\ Len(Append(s, e)) = Len(s) + 1 /\ Len(s) \in Nat
      /\ \A k \in 1 .. Len(s) : Append(s, e)[k] = s[k]
      /\ Append(s, e)[Len(s) + 1] = e
  BY AppendProperties
<1>2. Range(Append(s, e)) = Range(s) \cup {e}
  <2>1. DOMAIN Append(s, e) = 1 .. Len(s) + 1 /\ DOMAIN s = 1 .. Len(s) BY <1>1
  <2>2. ASSUME NEW x \in Range(Append(s, e)) PROVE x \in Range(s) \cup {e}
    <3>1. PICK i \in 1 .. Len(s) + 1 : x = Append(s, e)[i] BY <2>1 DEF Range
    <3>2. CASE i = Len(s) + 1 BY <3>1, <3>2, <1>1
    <3>3. CASE i \in 1 .. Len(s) BY <3>1, <3>3, <1>1, <2>1 DEF Range
    <3> QED BY <3>2, <3>3, <1>1
  <2>3. ASSUME NEW x \in Range(s) PROVE x \in Range(Append(s, e))
    <3>1. PICK i \in 1 .. Len(s) : x = s[i] BY <2>1 DEF Range
    <3>2. Append(s, e)[i] = x /\ i \in 1 .. Len(s) + 1 BY <1>1, <3>1
    <3> QED BY <3>2, <2>1 DEF Range
  <2>4. e \in Range(Append(s, e))
    <3>1. Len(s) + 1 \in 1 .. Len(s) + 1 BY <1>1
    <3> QED BY <3>1, <1>1, <2>1 DEF Range
  <2> QED BY <2>2, <2>3, <2>4
<1>3. Append(s, e) # <<>> BY <1>1
<1>4. Last(Append(s, e)) = e BY <1>1 DEF Last
<1> QED BY <1>1, <1>2, <1>3, <1>4

LEMMA RangeFacts ==
  ASSUME NEW S, NEW s \in Seq(S)
  PROVE  /\ Range(s) \subseteq S /\ \A k \in 1 .. Len(s) : s[k] \in Range(s)
         /\ \A x \in Range(s) : \E k \in 1 .. Len(s) : x = s[k]
         /\ s = <<>> <=> Range(s) = {}
<1>1. DOMAIN s = 1 .. Len(s) /\ Len(s) \in Nat /\ \A k \in 1 .. Len(s) : s[k] \in S OBVIOUS
<1>2. Range(s) \subseteq S /\ \A k \in 1 .. Len(s) : s[k] \in Range(s) BY <1>1 DEF Range
<1>3. \A x \in Range(s) : \E k \in 1 .. Len(s) : x = s[k] BY <1>1 DEF Range
<1>4. s # <<>> => Len(s) > 0 OBVIOUS
<1>5. s # <<>> => 1 \in 1 .. Len(s) BY <1>1, <1>4
<1>6. s = <<>> => Len(s) = 0 OBVIOUS
<1>7. s = <<>> => Range(s) = {} BY <1>1, <1>3, <1>6
<1> QED BY <1>2, <1>3, <1>5, <1>7

LEMMA TailFacts ==
  ASSUME NEW S, NEW s \in Seq(S), s # <<>>
  PROVE  /\ Tail(s) \in Seq(S) /\ Len(Tail(s)) = Len(s) - 1 /\ Len(s) > 0
         /\ Head(s) = s[1] /\ Head(s) \in Range(s) /\ Head(s) \in S
         /\ \A k \in 1 .. Len(s) - 1 : Tail(s)[k] = s[k + 1]
         /\ Range(Tail(s)) \subseteq Range(s)
<1>1. /\ Tail(s) \in Seq(S) /\ Len(Tail(s)) = Len(s) - 1 /\ Len(s) > 0 /\ Len(s) \in Nat
      /\ Head(s) = s[1] /\ \A k \in 1 .. Len(s) - 1 : Tail(s)[k] = s[k + 1]
  OBVIOUS
<1>2. 1 \in 1 .. Len(s) BY <1>1
<1>3. Head(s) \in Range(s) /\ Head(s) \in S BY <1>1, <1>2, RangeFacts
<1>4. ASSUME NEW x \in Range(Tail(s)) PROVE x \in Range(s)
  <2>0. PICK k \in 1 .. Len(Tail(s)) : x = Tail(s)[k]
    <3> DEFINE r == Tail(s)
    <3>1. r \in Seq(S) /\ x \in Range(r) BY <1>1
    <3> HIDE DEF r
    <3>2. \E k \in 1 .. Len(r) : x = r[k] BY <3>1, RangeFacts
    <3> QED BY <3>2 DEF r
  <2>1. k \in 1 .. Len(s) - 1 /\ x = Tail(s)[k] BY <1>1, <2>0
  <2>2. k + 1 \in 1 .. Len(s) /\ x = s[k + 1] BY <1>1, <2>1
  <2> QED BY <2>2, RangeFacts
<1> QED BY <1>1, <1>3, <1>4

LEMMA EmptyFacts ==
  ASSUME NEW S
  PROVE  <<>> \in Seq(S) /\ Range(<<>>) = {} /\ DOMAIN <<>> = {}
<1>1. <<>> \in Seq(S) /\ DOMAIN <<>> = {} OBVIOUS
<1> QED BY <1>1 DEF Range

(***************************************************************************)
(* Updates                                                                 *)
(***************************************************************************)
\* No end-point is lost, and none changes its address or its number above.
Grows(s, t) == \A p \in Procs : \A i \in DOMAIN s.eps[p] :
  /\ i \in DOMAIN t.eps[p]
  /\ t.eps[p][i].adr = s.eps[p][i].adr /\ t.eps[p][i].up = s.eps[p][i].up

LEMMA GrowsOn ==
  ASSUME NEW s, NEW t, NEW u, Grows(s, t), Grows(t, u)
  PROVE  Grows(s, u)
BY DEF Grows

\* What is true of a header, a message or an address stays true.
LEMMA Stays ==
  ASSUME NEW s, NEW t, Grows(s, t), NEW p \in Procs
  PROVE  /\ \A n, adr : Is(s, p, n, adr) => Is(t, p, n, adr)
         /\ \A n, my : Pair(s, p, n, my) => Pair(t, p, n, my)
         /\ \A h : HeadOK(s, p, h) => HeadOK(t, p, h)
         /\ \A m : MsgOK(s, p, m) => MsgOK(t, p, m)
         /\ \A adr : Known(s, p, adr) => Known(t, p, adr)
         /\ HasUp(s, p) => HasUp(t, p)
<1>1. \A n, adr : Is(s, p, n, adr) => Is(t, p, n, adr) BY DEF Is, Grows
<1>2. \A n, my : Pair(s, p, n, my) => Pair(t, p, n, my)
  <2>1. p \in Above => p + 1 \in Procs BY DEF Above, Procs
  <2> QED BY <2>1 DEF Pair, Grows
<1>3. \A h : HeadOK(s, p, h) => HeadOK(t, p, h)
  <2>1. p # 0 => p - 1 \in Procs BY DEF Procs
  <2> QED BY <2>1 DEF HeadOK, Is, Grows
<1>4. \A m : MsgOK(s, p, m) => MsgOK(t, p, m) BY <1>2 DEF MsgOK
<1>5. \A adr : Known(s, p, adr) => Known(t, p, adr) BY DEF Known, Grows
<1>6. HasUp(s, p) => HasUp(t, p) BY DEF HasUp, Grows
<1> QED BY <1>1, <1>2, <1>3, <1>4, <1>5, <1>6

\* What may be new after an update, and has to be right.
HeadsOn(s, t) == \A p \in Procs :
  /\ \A h \in Range(t.ring[p]) :
       h \in Range(s.ring[p]) \/ h \in Range(s.fifo[p]["init"]) \/ HeadOK(t, p, h)
  /\ \A h \in Range(t.fifo[p]["init"]) : h \in Range(s.fifo[p]["init"]) \/ HeadOK(t, p, h)
UpsOn(s, t) == \A p \in Procs : \A i \in DOMAIN t.eps[p] :
  \/ i \in DOMAIN s.eps[p] \/ t.eps[p][i].up = 0
  \/ p # 0 /\ Is(t, p - 1, t.eps[p][i].up, t.eps[p][i].adr)
NewsOn(s, t) == \A p \in Procs : \A c \in {"dn", "up"} : \A m \in Range(t.fifo[p][c]) :
  m \in Range(s.fifo[p][c]) \/ MsgOK(t, p, m)
ToldOn(s, t) == \A p \in Procs : \A n \in t.told[p] :
  \/ n \in s.told[p] /\ t.eps[p][n].dn = s.eps[p][n].dn
  \/ Pair(t, p, n, t.eps[p][n].dn)
ChansOn(s, t) == \A p \in Procs :
  /\ t.chan[p]["dn"] = s.chan[p]["dn"] \/ (t.chan[p]["dn"].out = "open" => t.chan[p]["dn"].in)
  /\ t.chan[p]["up"] = s.chan[p]["up"] \/
       /\ t.chan[p]["up"].made => t.chan[p]["up"].out = "open"
       /\ t.chan[p]["up"].out = "open" => HasUp(t, p)
  /\ s.chan[p]["up"].made => t.chan[p]["up"].made
QueuesOn(s, t) == \A p \in Procs : \A e \in Range(t.q[p]) :
  e \in Range(s.q[p]) \/ EventOK(t, p, e)
HppsOn(s, t) == \A p \in Procs : \A adr \in Range(t.hpp[p]) :
  adr \in Range(s.hpp[p]) \/ Known(t, p, adr)
Follows(s, t) == /\ t \in Sys /\ Grows(s, t)
                 /\ HeadsOn(s, t) /\ UpsOn(s, t) /\ NewsOn(s, t) /\ ToldOn(s, t)
                 /\ ChansOn(s, t) /\ QueuesOn(s, t) /\ HppsOn(s, t)

LEMMA FollowsGood ==
  ASSUME NEW s, NEW t, Good(s), Follows(s, t)
  PROVE  Good(t)
<1> USE DEF Follows, Good
<1>1. Heads(t) BY Stays DEF Heads, HeadsOn
<1>2. Ups(t)
  <2> SUFFICES ASSUME NEW p \in Procs, NEW i \in DOMAIN t.eps[p], t.eps[p][i].up # 0
               PROVE  p # 0 /\ Is(t, p - 1, t.eps[p][i].up, t.eps[p][i].adr)
    BY DEF Ups
  <2>1. CASE i \in DOMAIN s.eps[p]
    <3>1. t.eps[p][i].up = s.eps[p][i].up /\ t.eps[p][i].adr = s.eps[p][i].adr BY <2>1 DEF Grows
    <3>2. p # 0 /\ Is(s, p - 1, s.eps[p][i].up, s.eps[p][i].adr) BY <2>1, <3>1 DEF Ups
    <3>3. p - 1 \in Procs BY <3>2 DEF Procs
    <3> QED BY <3>1, <3>2, <3>3, Stays
  <2>2. CASE ~(i \in DOMAIN s.eps[p]) BY <2>2 DEF UpsOn
  <2> QED BY <2>1, <2>2
<1>3. News(t) BY Stays DEF News, NewsOn
<1>4. Told(t) BY Stays DEF Told, ToldOn
<1>5. Chans(t) BY Stays DEF Chans, ChansOn
<1>6. Queues(t) BY DEF Queues, QueuesOn, EventOK, ChansOn
<1>7. Hpps(t) BY Stays DEF Hpps, HppsOn
<1> QED BY <1>1, <1>2, <1>3, <1>4, <1>5, <1>6, <1>7

\* Step(s, t): t is as good as s and has all its end-points.
Step(s, t) == Good(t) /\ Grows(s, t)

LEMMA StepsOn ==
  ASSUME NEW s, NEW t, NEW u, Step(s, t), Step(t, u)
  PROVE  Step(s, u)
BY GrowsOn DEF Step

\* An update of what no number depends on.
LEMMA StepAside ==
  ASSUME NEW s, NEW t, Good(s), t \in Sys, t.eps = s.eps, t.ring = s.ring, t.fifo = s.fifo,
         t.told = s.told, t.hpp = s.hpp, ChansOn(s, t), QueuesOn(s, t)
  PROVE  Step(s, t)
<1>1. Grows(s, t) BY DEF Grows
<1>2. HeadsOn(s, t) BY DEF HeadsOn
<1>3. UpsOn(s, t) BY DEF UpsOn
<1>4. NewsOn(s, t) BY DEF NewsOn
<1>5. ToldOn(s, t) BY DEF ToldOn
<1>6. HppsOn(s, t) BY DEF HppsOn
<1> QED BY <1>1, <1>2, <1>3, <1>4, <1>5, <1>6, FollowsGood DEF Follows, Step

LEMMA SameChans ==
  ASSUME NEW s, NEW t, t.chan = s.chan
  PROVE  ChansOn(s, t)
BY DEF ChansOn

LEMMA SameQueues ==
  ASSUME NEW s, NEW t, t.q = s.q
  PROVE  QueuesOn(s, t)
BY DEF QueuesOn

LEMMA NotifyStep ==
  ASSUME NEW s, Good(s), NEW p \in Int, NEW c \in Channels, NEW e \in Events,
         e = "close" => c = "init"
  PROVE  Step(s, Notify(s, p, c, e))
<1> DEFINE t == [s EXCEPT !.q[p] = Append(@, <<c, e>>)]
<1>0. s \in Sys BY DEF Good
<1>1. CASE s.chan[p][c].made /\ (s.q[p] = <<>> \/ Last(s.q[p]) # <<c, e>>)
  <2>0. Notify(s, p, c, e) = t BY <1>1 DEF Notify
  <2>1. t.q = [s.q EXCEPT ![p] = Append(@, <<c, e>>)] BY <1>0 DEF Sys
  <2>2. /\ t.eps = s.eps /\ t.ring = s.ring /\ t.fifo = s.fifo /\ t.told = s.told
        /\ t.hpp = s.hpp /\ t.chan = s.chan
    BY <1>0 DEF Sys
  <2>3. s.q \in [Procs -> Seq(Channels \X Events)] BY <1>0 DEF Sys
  <2>4. t.q \in [Procs -> Seq(Channels \X Events)]
    <3>1. p \in Procs => Append(s.q[p], <<c, e>>) \in Seq(Channels \X Events) BY <2>3
    <3> QED BY <2>1, <2>3, <3>1
  <2>5. t \in Sys BY <1>0, <2>1, <2>4 DEF Sys
  <2>6. QueuesOn(s, t)
    <3> SUFFICES ASSUME NEW r \in Procs, NEW x \in Range(t.q[r])
                 PROVE  x \in Range(s.q[r]) \/ EventOK(t, r, x)
      BY DEF QueuesOn
    <3>1. CASE r = p
      <4>1. t.q[r] = Append(s.q[r], <<c, e>>) BY <3>1, <2>1, <2>3
      <4>2. s.q[r] \in Seq(Channels \X Events) /\ <<c, e>> \in Channels \X Events BY <2>3
      <4>3. Range(t.q[r]) = Range(s.q[r]) \cup {<<c, e>>} BY <4>1, <4>2, AppendFacts
      <4>4. EventOK(t, r, <<c, e>>) BY <1>1, <2>2, <3>1 DEF EventOK
      <4> QED BY <4>3, <4>4
    <3>2. CASE r # p
      <4>1. t.q[r] = s.q[r] BY <3>2, <2>1, <2>3
      <4> QED BY <4>1
    <3> QED BY <3>1, <3>2
  <2> HIDE DEF t
  <2> QED BY <2>0, <2>2, <2>5, <2>6, SameChans, StepAside
<1>2. CASE ~(s.chan[p][c].made /\ (s.q[p] = <<>> \/ Last(s.q[p]) # <<c, e>>))
  <2>1. Notify(s, p, c, e) = s BY <1>2 DEF Notify
  <2> QED BY <2>1 DEF Step, Grows
<1> QED BY <1>1, <1>2

\* What Notify leaves alone.
LEMMA NotifyFacts ==
  ASSUME NEW s \in Sys, NEW p, NEW c, NEW e
  PROVE  LET t == Notify(s, p, c, e)
         IN  /\ t.eps = s.eps /\ t.chan = s.chan /\ t.mask = s.mask /\ t.ring = s.ring
             /\ t.fifo = s.fifo /\ t.hpp = s.hpp /\ t.conn = s.conn /\ t.dead = s.dead
             /\ t.hidden = s.hidden /\ t.mixed = s.mixed /\ t.told = s.told
BY DEF Notify, Sys

LEMMA ExitStep ==
  ASSUME NEW s, Good(s), NEW p \in Procs
  PROVE  Step(s, Exit(s, p))
<1> DEFINE t == [s EXCEPT !.dead = @ \cup {p}]
<1>0. s \in Sys /\ Exit(s, p) = t BY DEF Good, Exit
<1>1. t \in Sys BY <1>0 DEF Sys
<1>2. /\ t.eps = s.eps /\ t.ring = s.ring /\ t.fifo = s.fifo /\ t.told = s.told
      /\ t.hpp = s.hpp /\ t.chan = s.chan /\ t.q = s.q
  BY <1>0 DEF Sys
<1> HIDE DEF t
<1> QED BY <1>0, <1>1, <1>2, SameChans, SameQueues, StepAside

\* A message that is right reaches its FIFO.
LEMMA PutStep ==
  ASSUME NEW s, Good(s), NEW p \in Procs, NEW c \in {"dn", "up"}, NEW m \in Msg,
         Peer(p, c).p \in Procs => MsgOK(s, Peer(p, c).p, m)
  PROVE  Step(s, Put(s, p, c, m))
<1> DEFINE f == Peer(p, c)
           t == [s EXCEPT !.fifo[f.p][f.c] = Append(@, m)]
<1>0. s \in Sys BY DEF Good
<1>1. f.p \in Int /\ f.c \in {"dn", "up"} BY DEF Peer, Procs
<1> HIDE DEF f
<1>2. t.fifo = [s.fifo EXCEPT ![f.p][f.c] = Append(@, m)] BY <1>0 DEF Sys
<1>3. /\ t.eps = s.eps /\ t.ring = s.ring /\ t.told = s.told /\ t.hpp = s.hpp
      /\ t.chan = s.chan /\ t.q = s.q
  BY <1>0 DEF Sys
<1>4. s.fifo \in [Procs -> [Channels -> Seq(Header \cup Msg)]] BY <1>0 DEF Sys
<1>5. t.fifo \in [Procs -> [Channels -> Seq(Header \cup Msg)]]
  <2>1. CASE f.p \in Procs
    <3>1. s.fifo[f.p][f.c] \in Seq(Header \cup Msg) BY <1>1, <1>4, <2>1 DEF Channels
    <3>2. Append(s.fifo[f.p][f.c], m) \in Seq(Header \cup Msg) BY <3>1
    <3>3. [s.fifo[f.p] EXCEPT ![f.c] = Append(@, m)] \in [Channels -> Seq(Header \cup Msg)]
      BY <1>4, <2>1, <3>2
    <3> QED BY <1>2, <1>4, <3>3
  <2>2. CASE ~(f.p \in Procs)
    <3>1. t.fifo = s.fifo BY <1>2, <1>4, <2>2
    <3> QED BY <3>1, <1>4
  <2> QED BY <2>1, <2>2
<1>6. t \in Sys BY <1>0, <1>2, <1>5 DEF Sys
<1>7. ASSUME NEW r \in Procs, NEW d \in Channels, <<r, d>> # <<f.p, f.c>>
      PROVE  t.fifo[r][d] = s.fifo[r][d]
  BY <1>2, <1>4, <1>7
<1>8. NewsOn(s, t)
  <2> SUFFICES ASSUME NEW r \in Procs, NEW d \in {"dn", "up"}, NEW x \in Range(t.fifo[r][d])
               PROVE  x \in Range(s.fifo[r][d]) \/ MsgOK(t, r, x)
    BY DEF NewsOn
  <2>1. CASE r = f.p /\ d = f.c
    <3>0. d \in Channels BY DEF Channels
    <3>1. t.fifo[r][d] = Append(s.fifo[r][d], m) BY <2>1, <1>2, <1>4, <3>0
    <3>2. s.fifo[r][d] \in Seq(Header \cup Msg) BY <1>4, <3>0
    <3>3. Range(t.fifo[r][d]) = Range(s.fifo[r][d]) \cup {m} BY <3>1, <3>2, AppendFacts
    <3>4. MsgOK(s, r, m) BY <2>1 DEF f
    <3>5. MsgOK(t, r, m) BY <3>4, <1>3 DEF MsgOK, Pair
    <3> QED BY <3>3, <3>5
  <2>2. CASE ~(r = f.p /\ d = f.c)
    <3>1. t.fifo[r][d] = s.fifo[r][d] BY <2>2, <1>7 DEF Channels
    <3> QED BY <3>1
  <2> QED BY <2>1, <2>2
<1>9. HeadsOn(s, t)
  <2>1. \A r \in Procs : t.fifo[r]["init"] = s.fifo[r]["init"] BY <1>1, <1>7 DEF Channels
  <2> QED BY <2>1, <1>3 DEF HeadsOn
<1>10. Step(s, t)
  <2> HIDE DEF t
  <2>1. Grows(s, t) BY <1>3 DEF Grows
  <2>2. UpsOn(s, t) BY <1>3 DEF UpsOn
  <2>3. ToldOn(s, t) BY <1>3 DEF ToldOn
  <2>4. HppsOn(s, t) BY <1>3 DEF HppsOn
  <2>5. ChansOn(s, t) /\ QueuesOn(s, t) BY <1>3, SameChans, SameQueues
  <2> QED BY <1>6, <1>8, <1>9, <2>1, <2>2, <2>3, <2>4, <2>5, FollowsGood DEF Follows, Step
<1>11. Step(t, Notify(t, f.p, f.c, "modify"))
  BY <1>1, <1>10, NotifyStep DEF Step, Channels, Events
<1>12. Put(s, p, c, m) = Notify(t, f.p, f.c, "modify") BY DEF Put, f
<1> HIDE DEF t
<1> QED BY <1>10, <1>11, <1>12, StepsOn

(***************************************************************************)
(* What is chosen                                                          *)
(***************************************************************************)
LEMMA AdrsNat == Adrs \subseteq Nat
<1>1. Range(Iec) \subseteq Nat /\ Range(Devices) \subseteq Nat BY SetupAssumption, RangeFacts DEF SetupAssumption
<1> QED BY <1>1, SetupAssumption DEF SetupAssumption, Adrs

LEMMA EpFacts ==
  ASSUME NEW s \in Sys, NEW p \in Procs
  PROVE  /\ s.eps[p] \in Seq(Endpoint) /\ DOMAIN s.eps[p] = 1 .. Len(s.eps[p])
         /\ Len(s.eps[p]) \in Nat
         /\ \A i \in DOMAIN s.eps[p] : /\ s.eps[p][i] \in Endpoint /\ s.eps[p][i].adr \in Adrs
                                       /\ s.eps[p][i].up \in Nat /\ s.eps[p][i].dn \in Nat
<1>1. s.eps[p] \in Seq(Endpoint) BY DEF Sys
<1>2. DOMAIN s.eps[p] = 1 .. Len(s.eps[p]) /\ Len(s.eps[p]) \in Nat BY <1>1
<1>3. \A i \in 1 .. Len(s.eps[p]) : s.eps[p][i] \in Endpoint BY <1>1
<1> QED BY <1>1, <1>2, <1>3 DEF Endpoint

\* The first end-point with an address.
LEMMA NumepFacts ==
  ASSUME NEW s \in Sys, NEW p \in Procs, NEW adr, Known(s, p, adr)
  PROVE  Numep(s, p, adr) \in DOMAIN s.eps[p] /\ s.eps[p][Numep(s, p, adr)].adr = adr
<1> DEFINE T == {i \in DOMAIN s.eps[p] : s.eps[p][i].adr = adr}
           First(i) == s.eps[p][i].adr = adr /\ \A j \in 1 .. i - 1 : s.eps[p][j].adr # adr
<1>1. T \subseteq Nat /\ T # {} BY EpFacts DEF Known
<1>2. PICK i \in T : \A j \in T : i <= j
  <2> HIDE DEF T
  <2> QED BY <1>1, LeastElement, Zenon
<1>3. ASSUME NEW j \in 1 .. i - 1 PROVE s.eps[p][j].adr # adr
  <2>1. j \in DOMAIN s.eps[p] /\ ~(i <= j) BY <1>2, EpFacts
  <2> QED BY <1>2, <2>1
<1>4. i \in DOMAIN s.eps[p] /\ First(i) BY <1>2, <1>3
<1>5. Numep(s, p, adr) \in DOMAIN s.eps[p] /\ First(Numep(s, p, adr))
  <2>1. Numep(s, p, adr) = CHOOSE x \in DOMAIN s.eps[p] : First(x) BY DEF Numep
  <2> HIDE DEF First
  <2> QED BY <1>4, <2>1
<1> QED BY <1>5

\* The newest end-point with a number above.
LEMMA LastUpFacts ==
  ASSUME NEW s \in Sys, NEW p \in Procs, HasUp(s, p)
  PROVE  LastUp(s, p) \in DOMAIN s.eps[p] /\ s.eps[p][LastUp(s, p)].up # 0
<1> DEFINE L == Len(s.eps[p])
           T == {n \in 0 .. L : \E i \in DOMAIN s.eps[p] : s.eps[p][i].up # 0 /\ n = L - i}
           Newest(i) == s.eps[p][i].up # 0 /\ \A j \in i + 1 .. L : s.eps[p][j].up = 0
<1>0. L \in Nat /\ DOMAIN s.eps[p] = 1 .. L BY EpFacts
<1>1. T # {}
  <2>1. PICK i \in DOMAIN s.eps[p] : s.eps[p][i].up # 0 BY DEF HasUp
  <2>2. L - i \in 0 .. L BY <1>0
  <2> QED BY <2>1, <2>2
<1>2. PICK n \in T : \A k \in T : n <= k
  <2>1. T \subseteq Nat OBVIOUS
  <2> HIDE DEF T
  <2> QED BY <1>1, <2>1, LeastElement, Zenon
<1>3. PICK i \in DOMAIN s.eps[p] : s.eps[p][i].up # 0 /\ n = L - i BY <1>2
<1>4. ASSUME NEW j \in i + 1 .. L PROVE s.eps[p][j].up = 0
  <2>1. j \in DOMAIN s.eps[p] /\ L - j \in 0 .. L /\ ~(n <= L - j) BY <1>0, <1>3
  <2>2. L - j \notin T BY <1>2, <2>1
  <2> QED BY <2>1, <2>2
<1>5. i \in DOMAIN s.eps[p] /\ Newest(i) BY <1>3, <1>4
<1>6. LastUp(s, p) \in DOMAIN s.eps[p] /\ Newest(LastUp(s, p))
  <2>1. LastUp(s, p) = CHOOSE x \in DOMAIN s.eps[p] : Newest(x) BY DEF LastUp
  <2> HIDE DEF Newest
  <2> QED BY <1>5, <2>1
<1> QED BY <1>6

(***************************************************************************)
(* The handlers                                                            *)
(***************************************************************************)
LEMMA ToEndpointStep ==
  ASSUME NEW s, Good(s), NEW p \in Procs, NEW c \in {"dn", "up"},
         NEW m \in {"DATA", "CONNECT"}, NEW adr
  PROVE  Step(s, ToEndpoint(s, p, c, m, adr))
<1> DEFINE ep == s.eps[p][Numep(s, p, adr)]
           msg == Message(m, IF c = "up" THEN ep.up ELSE ep.dn, adr)
<1>0. s \in Sys BY DEF Good
<1>1. CASE ~Known(s, p, adr)
  <2>1. ToEndpoint(s, p, c, m, adr) = s BY <1>1 DEF ToEndpoint
  <2> QED BY <2>1 DEF Step, Grows
<1>2. CASE Known(s, p, adr) /\ s.chan[p][c].out # "open"
  <2>1. ToEndpoint(s, p, c, m, adr) = Exit(s, p) BY <1>2 DEF ToEndpoint
  <2> QED BY <2>1, ExitStep
<1>3. CASE Known(s, p, adr) /\ s.chan[p][c].out = "open"
  <2>1. ToEndpoint(s, p, c, m, adr) = Put(s, p, c, msg) BY <1>3 DEF ToEndpoint
  <2>2. ep.up \in Nat /\ ep.dn \in Nat /\ ep.adr = adr /\ ep.adr \in Adrs
    BY <1>0, <1>3, NumepFacts, EpFacts
  <2> HIDE DEF ep
  <2>3. msg \in Msg /\ msg.msg # "NEWEP" BY <2>2, AdrsNat DEF Message, Msg
  <2>4. \A r : MsgOK(s, r, msg) BY <2>3 DEF MsgOK
  <2> HIDE DEF msg
  <2> QED BY <2>1, <2>3, <2>4, PutStep
<1> QED BY <1>1, <1>2, <1>3

\* A channel stays one when one of its fields is set.
LEMMA InSet ==
  ASSUME NEW x \in Channel
  PROVE  /\ [x EXCEPT !.in = TRUE] \in Channel
         /\ [x EXCEPT !.in = TRUE].in
         /\ [x EXCEPT !.in = TRUE].made = x.made
         /\ [x EXCEPT !.in = TRUE].out = x.out
BY DEF Channel

LEMMA InCleared ==
  ASSUME NEW x \in Channel
  PROVE  [x EXCEPT !.in = FALSE] \in Channel
BY DEF Channel

LEMMA OutSet ==
  ASSUME NEW x \in Channel, NEW o \in {"no", "open", "stale"}
  PROVE  /\ [x EXCEPT !.out = o] \in Channel
         /\ [x EXCEPT !.out = o].in = x.in
BY DEF Channel

LEMMA MadeSet ==
  ASSUME NEW x \in Channel
  PROVE  /\ [x EXCEPT !.made = TRUE] \in Channel
         /\ [x EXCEPT !.made = TRUE].in = x.in
         /\ [x EXCEPT !.made = TRUE].out = x.out
BY DEF Channel

\* One channel of one process changes.
LEMMA ChanUpdate ==
  ASSUME NEW chan \in [Procs -> [Channels -> Channel]], NEW p \in Procs, NEW c \in Channels,
         NEW u \in Channel
  PROVE  LET t == [chan EXCEPT ![p][c] = u]
         IN  /\ t \in [Procs -> [Channels -> Channel]] /\ t[p][c] = u
             /\ \A r \in Procs, d \in Channels : r # p \/ d # c => t[r][d] = chan[r][d]
<1> DEFINE t == [chan EXCEPT ![p][c] = u]
<1>1. [chan[p] EXCEPT ![c] = u] \in [Channels -> Channel] OBVIOUS
<1>2. t \in [Procs -> [Channels -> Channel]] BY <1>1
<1>3. t[p] = [chan[p] EXCEPT ![c] = u] /\ \A r \in Procs : r # p => t[r] = chan[r] OBVIOUS
<1>4. t[p][c] = u /\ \A d \in Channels : d # c => t[p][d] = chan[p][d] BY <1>3
<1> QED BY <1>2, <1>3, <1>4

LEMMA InitOpenStep ==
  ASSUME NEW s, Good(s), NEW p \in Procs
  PROVE  Step(s, InitOpen(s, p))
<1> DEFINE t == [s EXCEPT !.chan[p]["init"].in = TRUE,
                          !.mask[p] = (@ \ {"open"}) \cup {"close"}]
<1>0. s \in Sys BY DEF Good
<1>1. CASE s.chan[p]["init"].in
  <2>1. InitOpen(s, p) = s BY <1>1 DEF InitOpen
  <2> QED BY <2>1 DEF Step, Grows
<1>2. CASE ~s.chan[p]["init"].in
  <2>1. InitOpen(s, p) = Notify(t, p, "init", "open") BY <1>2 DEF InitOpen
  <2>2. /\ t.chan = [s.chan EXCEPT ![p]["init"].in = TRUE]
        /\ t.mask = [s.mask EXCEPT ![p] = (@ \ {"open"}) \cup {"close"}]
        /\ t.eps = s.eps /\ t.ring = s.ring /\ t.fifo = s.fifo /\ t.told = s.told
        /\ t.hpp = s.hpp /\ t.q = s.q
    BY <1>0 DEF Sys
  <2>3. s.chan \in [Procs -> [Channels -> Channel]] /\ s.mask \in [Procs -> SUBSET Events]
    BY <1>0 DEF Sys
  <2>4. /\ t.chan \in [Procs -> [Channels -> Channel]]
        /\ \A r \in Procs : t.chan[r]["dn"] = s.chan[r]["dn"] /\ t.chan[r]["up"] = s.chan[r]["up"]
        /\ t.mask \in [Procs -> SUBSET Events]
    <3> DEFINE u == [s.chan[p]["init"] EXCEPT !.in = TRUE]
    <3>1. "init" \in Channels /\ "dn" \in Channels /\ "up" \in Channels BY DEF Channels
    <3>2. u \in Channel
      <4>1. s.chan[p]["init"] \in Channel BY <2>3, <3>1
      <4> QED BY <4>1, InSet
    <3>3. t.chan = [s.chan EXCEPT ![p]["init"] = u] BY <2>2
    <3> HIDE DEF u, t
    <3>4. t.mask \in [Procs -> SUBSET Events] BY <2>2, <2>3 DEF Events
    <3> QED BY <2>3, <3>1, <3>2, <3>3, <3>4, ChanUpdate
  <2>5. t \in Sys BY <1>0, <2>2, <2>4 DEF Sys
  <2>6. ChansOn(s, t) BY <2>4 DEF ChansOn
  <2>7. Step(s, t) BY <2>2, <2>5, <2>6, SameQueues, StepAside
  <2> HIDE DEF t
  <2>8. Step(t, Notify(t, p, "init", "open"))
    BY <2>7, NotifyStep DEF Step, Procs, Channels, Events
  <2> QED BY <2>1, <2>7, <2>8, StepsOn
<1> QED BY <1>1, <1>2

\* A new end-point that has no number above, or that of one with its address.
LEMMA CreateEpStep ==
  ASSUME NEW s, Good(s), NEW p \in Procs, NEW adr \in Adrs, NEW up \in Nat,
         up # 0 => p # 0 /\ Is(s, p - 1, up, adr)
  PROVE  LET t == CreateEp(s, p, adr, up)
             n == Len(s.eps[p]) + 1
         IN  /\ Step(s, t) /\ Len(t.eps[p]) = n /\ n \in DOMAIN t.eps[p]
             /\ t.eps[p][n] = [adr |-> adr, up |-> up, dn |-> 0]
             /\ t.chan = s.chan /\ t.mask = s.mask
<1> DEFINE t == CreateEp(s, p, adr, up)
           ep == [adr |-> adr, up |-> up, dn |-> 0]
           n == Len(s.eps[p]) + 1
<1>0. s \in Sys BY DEF Good
<1>1. /\ t.eps = [s.eps EXCEPT ![p] = Append(@, ep)]
      /\ t.ring = s.ring /\ t.fifo = s.fifo /\ t.told = s.told /\ t.hpp = s.hpp
      /\ t.chan = s.chan /\ t.q = s.q /\ t.mask = s.mask
  BY <1>0 DEF Sys, CreateEp
<1>2. s.eps \in [Procs -> Seq(Endpoint)] BY <1>0 DEF Sys
<1>3. s.eps[p] \in Seq(Endpoint) /\ ep \in Endpoint BY <1>2 DEF Endpoint
<1>4. t.eps[p] = Append(s.eps[p], ep) BY <1>1, <1>2
<1>5. \A r \in Procs : r # p => t.eps[r] = s.eps[r] BY <1>1, <1>2
<1> HIDE DEF ep
<1>6. /\ t.eps[p] \in Seq(Endpoint) /\ Len(t.eps[p]) = n
      /\ \A k \in 1 .. Len(s.eps[p]) : t.eps[p][k] = s.eps[p][k]
      /\ t.eps[p][n] = ep
  BY <1>3, <1>4, AppendFacts
<1>7. Len(s.eps[p]) \in Nat /\ DOMAIN s.eps[p] = 1 .. Len(s.eps[p]) /\ DOMAIN t.eps[p] = 1 .. n
  BY <1>3, <1>6
<1>8. t \in Sys
  <2>1. t.eps \in [Procs -> Seq(Endpoint)] BY <1>1, <1>2, <1>4, <1>6
  <2> QED BY <1>0, <2>1 DEF Sys, CreateEp
<1>9. ep.adr = adr /\ ep.up = up BY DEF ep
<1> HIDE DEF t
<1>10. Grows(s, t)
  <2> SUFFICES ASSUME NEW r \in Procs, NEW i \in DOMAIN s.eps[r]
               PROVE  i \in DOMAIN t.eps[r] /\ t.eps[r][i] = s.eps[r][i]
    BY DEF Grows
  <2>1. CASE r = p BY <2>1, <1>6, <1>7
  <2>2. CASE r # p BY <2>2, <1>5
  <2> QED BY <2>1, <2>2
<1>11. UpsOn(s, t)
  <2> SUFFICES ASSUME NEW r \in Procs, NEW i \in DOMAIN t.eps[r], i \notin DOMAIN s.eps[r],
                      t.eps[r][i].up # 0
               PROVE  r # 0 /\ Is(t, r - 1, t.eps[r][i].up, t.eps[r][i].adr)
    BY DEF UpsOn
  <2>1. r = p BY <1>5
  <2>2. i = n BY <2>1, <1>7
  <2>3. t.eps[r][i] = ep BY <2>1, <2>2, <1>6
  <2>4. r # 0 /\ Is(s, r - 1, up, adr) BY <2>1, <2>3, <1>9
  <2>5. r - 1 \in Procs BY <2>4 DEF Procs
  <2> QED BY <2>3, <2>4, <2>5, <1>9, <1>10, Stays
<1>12. ToldOn(s, t)
  <2> SUFFICES ASSUME NEW r \in Procs, NEW i \in t.told[r]
               PROVE  i \in s.told[r] /\ t.eps[r][i].dn = s.eps[r][i].dn
    BY DEF ToldOn
  <2>1. i \in s.told[r] BY <1>1
  <2>2. i \in DOMAIN s.eps[r] BY <2>1 DEF Good, Told, Pair
  <2>3. t.eps[r][i] = s.eps[r][i] BY <2>2, <1>5, <1>6, <1>7
  <2> QED BY <2>1, <2>3
<1>13. HeadsOn(s, t) /\ NewsOn(s, t) /\ HppsOn(s, t) BY <1>1 DEF HeadsOn, NewsOn, HppsOn
<1>14. ChansOn(s, t) /\ QueuesOn(s, t) BY <1>1, SameChans, SameQueues
<1>15. Step(s, t) BY <1>8, <1>10, <1>11, <1>12, <1>13, <1>14, FollowsGood DEF Follows, Step
<1>16. n \in DOMAIN t.eps[p] BY <1>7
<1> QED BY <1>1, <1>6, <1>15, <1>16 DEF ep, t

\* An update of one channel that does not break what Chans says of it.
LEMMA ChanStep ==
  ASSUME NEW s, Good(s), NEW t, NEW p \in Procs, NEW c \in Channels, NEW u \in Channel,
         t.chan = [s.chan EXCEPT ![p][c] = u],
         t.chan \in [Procs -> [Channels -> Channel]] => t \in Sys,
         t.eps = s.eps, t.ring = s.ring, t.fifo = s.fifo, t.told = s.told, t.hpp = s.hpp, t.q = s.q,
         c = "dn" /\ u.out = "open" => u.in,
         c = "up" => /\ u.made => u.out = "open"
                     /\ u.out = "open" => HasUp(s, p)
                     /\ s.chan[p][c].made => u.made
  PROVE  /\ Step(s, t) /\ t.chan[p][c] = u
         /\ \A r \in Procs, d \in Channels : r # p \/ d # c => t.chan[r][d] = s.chan[r][d]
<1>1. s.chan \in [Procs -> [Channels -> Channel]] BY DEF Good, Sys
<1>2. /\ t.chan \in [Procs -> [Channels -> Channel]] /\ t.chan[p][c] = u
      /\ \A r \in Procs, d \in Channels : r # p \/ d # c => t.chan[r][d] = s.chan[r][d]
  BY <1>1, ChanUpdate
<1>3. ChansOn(s, t)
  <2>1. "dn" \in Channels /\ "up" \in Channels BY DEF Channels
  <2>2. HasUp(s, p) => HasUp(t, p) BY DEF HasUp
  <2> SUFFICES ASSUME NEW r \in Procs
      PROVE  /\ t.chan[r]["dn"] = s.chan[r]["dn"] \/ (t.chan[r]["dn"].out = "open" => t.chan[r]["dn"].in)
             /\ t.chan[r]["up"] = s.chan[r]["up"] \/
                  /\ t.chan[r]["up"].made => t.chan[r]["up"].out = "open"
                  /\ t.chan[r]["up"].out = "open" => HasUp(t, r)
             /\ s.chan[r]["up"].made => t.chan[r]["up"].made
    BY DEF ChansOn
  <2>3. CASE r = p /\ c = "dn" BY <1>2, <2>1, <2>3
  <2>4. CASE r = p /\ c = "up" BY <1>2, <2>1, <2>2, <2>4
  <2>5. CASE r # p \/ c \notin {"dn", "up"} BY <1>2, <2>1, <2>5
  <2> QED BY <2>3, <2>4, <2>5
<1>4. QueuesOn(s, t) BY SameQueues
<1> QED BY <1>2, <1>3, <1>4, StepAside

LEMMA NewEp2ChannelUpStep ==
  ASSUME NEW s, Good(s), NEW p \in Procs, NEW h, HeadOK(s, p, h)
  PROVE  Step(s, NewEp2ChannelUp(s, p, h))
<1> DEFINE s0 == CreateEp(s, p, h.adr, h.numep)
           s1 == [s0 EXCEPT !.mask[p] = {"close"}]
           n == Len(s.eps[p]) + 1
           u == [made |-> TRUE, in |-> FALSE, out |-> "open"]
           t == [s1 EXCEPT !.chan[p]["up"] = u]
<1>0. s \in Sys BY DEF Good
<1>1. /\ h.adr \in Adrs /\ h.numep \in Nat /\ p # 0 /\ Is(s, p - 1, h.numep, h.adr)
      /\ h.numep # 0 /\ p - 1 \in Procs /\ p - 1 \in Above
  <2>1. h.adr \in Adrs /\ h.numep \in Nat /\ p # 0 /\ Is(s, p - 1, h.numep, h.adr)
    BY DEF HeadOK, Header
  <2>2. p - 1 \in Procs /\ p - 1 \in Above BY <2>1 DEF Procs, Above
  <2> QED BY <2>1, <2>2, <1>0, EpFacts DEF Is
<1>2. /\ Step(s, s0) /\ Len(s0.eps[p]) = n /\ n \in DOMAIN s0.eps[p]
      /\ s0.eps[p][n] = [adr |-> h.adr, up |-> h.numep, dn |-> 0]
      /\ s0.chan = s.chan
  BY <1>1, CreateEpStep
<1> HIDE DEF s0
<1>3. s0 \in Sys BY <1>2 DEF Step, Good
<1>4. /\ s1.eps = s0.eps /\ s1.ring = s0.ring /\ s1.fifo = s0.fifo /\ s1.told = s0.told
      /\ s1.hpp = s0.hpp /\ s1.chan = s0.chan /\ s1.q = s0.q
  BY <1>3 DEF Sys
<1>5. s1 \in Sys
  <2>1. s1.mask = [s0.mask EXCEPT ![p] = {"close"}] BY <1>3 DEF Sys
  <2>2. s0.mask \in [Procs -> SUBSET Events] BY <1>3 DEF Sys
  <2>3. s1.mask \in [Procs -> SUBSET Events] BY <2>1, <2>2 DEF Events
  <2> QED BY <1>3, <2>3 DEF Sys
<1>6. Step(s0, s1) BY <1>2, <1>4, <1>5, SameChans, SameQueues, StepAside DEF Step
<1>7. Step(s, s1) /\ Good(s1) BY <1>2, <1>6, StepsOn DEF Step
<1>8. s1.eps[p][n].up = h.numep /\ n \in DOMAIN s1.eps[p] BY <1>2, <1>4
<1>9. CASE ~Room(s, p)
  <2>1. NewEp2ChannelUp(s, p, h) = s BY <1>9 DEF NewEp2ChannelUp
  <2> QED BY <2>1 DEF Step, Grows
<1>10. CASE Room(s, p) /\ s.chan[p]["up"].made
  <2> DEFINE m == NewEp(h.numep, n)
  <2>1. NewEp2ChannelUp(s, p, h) = Put(s1, p, "up", m)
    BY <1>2, <1>4, <1>10 DEF NewEp2ChannelUp, s0
  <2>2. n \in Nat BY <1>0, EpFacts
  <2>3. m \in Msg /\ m.msg = "NEWEP" /\ m.numep = h.numep /\ m.my = n
    BY <1>1, <2>2 DEF NewEp, Msg
  <2>4. Is(s1, p - 1, h.numep, h.adr) BY <1>1, <1>7, Stays DEF Step
  <2>5. (p - 1) + 1 = p BY DEF Procs
  <2>6. Pair(s1, p - 1, h.numep, n)
    BY <1>1, <1>8, <2>4, <2>5 DEF Pair, Is
  <2>7. MsgOK(s1, p - 1, m) /\ Peer(p, "up").p = p - 1 BY <2>3, <2>6 DEF MsgOK, Peer
  <2> HIDE DEF m, s1
  <2>8. Step(s1, Put(s1, p, "up", m)) BY <1>7, <2>3, <2>7, PutStep
  <2> QED BY <1>7, <2>1, <2>8, StepsOn
<1>11. CASE Room(s, p) /\ ~s.chan[p]["up"].made
  <2>1. NewEp2ChannelUp(s, p, h) = Notify(t, p - 1, "dn", "open")
    BY <1>11 DEF NewEp2ChannelUp, s0
  <2>2. HasUp(s1, p) BY <1>1, <1>8 DEF HasUp
  <2>3. u \in Channel /\ u.made /\ u.out = "open" BY DEF Channel
  <2> HIDE DEF s1, u
  <2>4. t.chan = [s1.chan EXCEPT ![p]["up"] = u] BY <1>5 DEF Sys
  <2>5. /\ t.eps = s1.eps /\ t.ring = s1.ring /\ t.fifo = s1.fifo /\ t.told = s1.told
        /\ t.hpp = s1.hpp /\ t.q = s1.q
    BY <1>5 DEF Sys
  <2>6. t.chan \in [Procs -> [Channels -> Channel]] => t \in Sys BY <1>5 DEF Sys
  <2>7. "up" \in Channels /\ "dn" \in Channels /\ "open" \in Events BY DEF Channels, Events
  <2> HIDE DEF t
  <2>8. Step(s1, t)
    <3>1. "up" = "dn" /\ u.out = "open" => u.in OBVIOUS
    <3>2. "up" = "up" => /\ u.made => u.out = "open"
                         /\ u.out = "open" => HasUp(s1, p)
                         /\ s1.chan[p]["up"].made => u.made
      BY <2>2, <2>3
    <3> QED BY <1>7, <2>3, <2>4, <2>5, <2>6, <2>7, <3>1, <3>2, ChanStep, Zenon
  <2>9. p - 1 \in Int BY <1>1 DEF Procs
  <2>10. Step(t, Notify(t, p - 1, "dn", "open")) BY <2>7, <2>8, <2>9, NotifyStep DEF Step
  <2> QED BY <1>7, <2>1, <2>8, <2>10, StepsOn
<1> QED BY <1>9, <1>10, <1>11

LEMMA SeqWithin ==
  ASSUME NEW S, NEW T, NEW s \in Seq(S), Range(s) \subseteq T
  PROVE  s \in Seq(T)
<1>1. \A k \in 1 .. Len(s) : s[k] \in T BY RangeFacts
<1>2. Len(s) \in Nat /\ DOMAIN s = 1 .. Len(s) /\ s = [k \in 1 .. Len(s) |-> s[k]] OBVIOUS
<1>3. s \in [1 .. Len(s) -> T] BY <1>1, <1>2
<1> QED BY <1>2, <1>3, SeqDef

LEMMA ConcatFacts ==
  ASSUME NEW S, NEW a \in Seq(S), NEW b \in Seq(S)
  PROVE  /\ a \o b \in Seq(S) /\ Range(a \o b) \subseteq Range(a) \cup Range(b)
         /\ b # <<>> => a \o b # <<>>
<1>1. a \o b \in Seq(S) /\ Len(a \o b) = Len(a) + Len(b) /\ Len(a) \in Nat /\ Len(b) \in Nat OBVIOUS
<1>2. \A k \in 1 .. Len(a) + Len(b) :
        (a \o b)[k] = IF k <= Len(a) THEN a[k] ELSE b[k - Len(a)]
  BY <1>1
<1>3. ASSUME NEW x \in Range(a \o b) PROVE x \in Range(a) \cup Range(b)
  <2>1. PICK k \in 1 .. Len(a) + Len(b) : x = (a \o b)[k]
    <3> DEFINE ab == a \o b
    <3>1. ab \in Seq(S) /\ x \in Range(ab) /\ Len(ab) = Len(a) + Len(b) BY <1>1
    <3> HIDE DEF ab
    <3>2. \E k \in 1 .. Len(ab) : x = ab[k] BY <3>1, RangeFacts
    <3> QED BY <3>1, <3>2 DEF ab
  <2>2. CASE k <= Len(a)
    <3>1. k \in 1 .. Len(a) /\ x = a[k] BY <1>1, <1>2, <2>1, <2>2
    <3> QED BY <3>1, RangeFacts
  <2>3. CASE ~(k <= Len(a))
    <3>1. k - Len(a) \in 1 .. Len(b) /\ x = b[k - Len(a)] BY <1>1, <1>2, <2>1, <2>3
    <3> QED BY <3>1, RangeFacts
  <2> QED BY <2>2, <2>3
<1>4. b # <<>> => a \o b # <<>>
  <2>1. b # <<>> => Len(b) > 0 OBVIOUS
  <2> QED BY <1>1, <2>1
<1> QED BY <1>1, <1>3, <1>4

LEMMA InitReadStep ==
  ASSUME NEW s, Good(s), NEW p \in Procs, ~InitReadHangs(s, p)
  PROVE  Step(s, InitRead(s, p))
<1> DEFINE f == s.fifo[p]["init"]
           headers == s.ring[p] \o f
           h == Head(headers)
           t == [s EXCEPT !.fifo[p]["init"] = <<>>, !.ring[p] = Tail(headers)]
<1>0. s \in Sys BY DEF Good
<1>1. CASE ~s.chan[p]["init"].in
  <2>1. InitRead(s, p) = s BY <1>1 DEF InitRead
  <2> QED BY <2>1 DEF Step, Grows
<1>2. CASE s.chan[p]["init"].in
  <2>0. "init" \in Channels /\ s.fifo \in [Procs -> [Channels -> Seq(Header \cup Msg)]]
        /\ s.ring \in [Procs -> Seq(Header)]
    BY <1>0 DEF Channels, Sys
  <2>1. /\ f # <<>> /\ f \in Seq(Header \cup Msg) /\ s.ring[p] \in Seq(Header)
        /\ \A x \in Range(f) \cup Range(s.ring[p]) : HeadOK(s, p, x)
    BY <1>2, <2>0 DEF InitReadHangs, Good, Heads
  <2>2. f \in Seq(Header)
    <3>1. Range(f) \subseteq Header BY <2>1 DEF HeadOK
    <3> QED BY <2>1, <3>1, SeqWithin
  <2> HIDE DEF f
  <2>3. /\ headers \in Seq(Header) /\ headers # <<>>
        /\ Range(headers) \subseteq Range(s.ring[p]) \cup Range(f)
    BY <2>1, <2>2, ConcatFacts
  <2> HIDE DEF headers
  <2>4. /\ Tail(headers) \in Seq(Header) /\ h \in Range(headers)
        /\ Range(Tail(headers)) \subseteq Range(headers)
    BY <2>3, TailFacts
  <2>5. HeadOK(s, p, h) BY <2>1, <2>3, <2>4
  <2> HIDE DEF h
  <2>6. /\ t.fifo = [s.fifo EXCEPT ![p]["init"] = <<>>]
        /\ t.ring = [s.ring EXCEPT ![p] = Tail(headers)]
        /\ t.eps = s.eps /\ t.told = s.told /\ t.hpp = s.hpp /\ t.chan = s.chan /\ t.q = s.q
    BY <1>0 DEF Sys
  <2>7. t.ring \in [Procs -> Seq(Header)] BY <2>0, <2>4, <2>6
  <2>8. /\ t.fifo \in [Procs -> [Channels -> Seq(Header \cup Msg)]]
        /\ t.fifo[p]["init"] = <<>>
        /\ \A r \in Procs, d \in Channels : r # p \/ d # "init" => t.fifo[r][d] = s.fifo[r][d]
    <3>1. [s.fifo[p] EXCEPT !["init"] = <<>>] \in [Channels -> Seq(Header \cup Msg)]
      BY <2>0, EmptyFacts
    <3>2. t.fifo[p] = [s.fifo[p] EXCEPT !["init"] = <<>>] BY <2>0, <2>6
    <3>3. \A r \in Procs : r # p => t.fifo[r] = s.fifo[r] BY <2>0, <2>6
    <3>4. t.fifo[p]["init"] = <<>> /\ \A d \in Channels : d # "init" => t.fifo[p][d] = s.fifo[p][d]
      BY <2>0, <3>2
    <3>5. t.fifo \in [Procs -> [Channels -> Seq(Header \cup Msg)]] BY <2>0, <2>6, <3>1
    <3> QED BY <3>3, <3>4, <3>5
  <2>9. t \in Sys BY <1>0, <2>7, <2>8 DEF Sys
  <2> HIDE DEF t
  <2>10. HeadsOn(s, t)
    <3>1. t.ring[p] = Tail(headers) /\ \A r \in Procs : r # p => t.ring[r] = s.ring[r] BY <2>0, <2>6
    <3>2. \A x \in Range(t.ring[p]) : HeadOK(s, p, x) BY <3>1, <2>1, <2>3, <2>4
    <3>3. \A x : HeadOK(s, p, x) => HeadOK(t, p, x) BY <2>6 DEF HeadOK, Is
    <3>4. Range(t.fifo[p]["init"]) = {} BY <2>8, EmptyFacts
    <3> QED BY <2>0, <2>8, <3>1, <3>2, <3>3, <3>4 DEF HeadsOn
  <2>11. NewsOn(s, t)
    <3>1. \A r \in Procs : \A d \in {"dn", "up"} : t.fifo[r][d] = s.fifo[r][d]
      BY <2>8 DEF Channels
    <3> QED BY <3>1 DEF NewsOn
  <2>12. Grows(s, t) /\ UpsOn(s, t) /\ ToldOn(s, t) /\ HppsOn(s, t)
    BY <2>6 DEF Grows, UpsOn, ToldOn, HppsOn
  <2>13. ChansOn(s, t) /\ QueuesOn(s, t) BY <2>6, SameChans, SameQueues
  <2>14. Step(s, t) BY <2>9, <2>10, <2>11, <2>12, <2>13, FollowsGood DEF Follows, Step
  <2>15. HeadOK(t, p, h) BY <2>5, <2>6 DEF HeadOK, Is
  <2>16. Step(t, NewEp2ChannelUp(t, p, h)) BY <2>14, <2>15, NewEp2ChannelUpStep DEF Step
  <2>17. InitRead(s, p) = NewEp2ChannelUp(t, p, h)
    BY <1>2 DEF InitRead, t, h, headers, f
  <2> QED BY <2>14, <2>16, <2>17, StepsOn
<1> QED BY <1>1, <1>2

\* The main thread is told of an end-point of its process.
LEMMA HppStep ==
  ASSUME NEW s, Good(s), NEW p \in Procs, NEW adr \in Adrs, Known(s, p, adr)
  PROVE  Step(s, [s EXCEPT !.hpp[p] = Append(@, adr)])
<1> DEFINE t == [s EXCEPT !.hpp[p] = Append(@, adr)]
<1>0. s \in Sys BY DEF Good
<1>1. /\ t.hpp = [s.hpp EXCEPT ![p] = Append(@, adr)]
      /\ t.eps = s.eps /\ t.ring = s.ring /\ t.fifo = s.fifo /\ t.told = s.told
      /\ t.chan = s.chan /\ t.q = s.q
  BY <1>0 DEF Sys
<1>2. s.hpp \in [Procs -> Seq(Adrs)] BY <1>0 DEF Sys
<1>3. /\ t.hpp[p] = Append(s.hpp[p], adr) /\ \A r \in Procs : r # p => t.hpp[r] = s.hpp[r]
  BY <1>1, <1>2
<1>4. t.hpp[p] \in Seq(Adrs) /\ Range(t.hpp[p]) = Range(s.hpp[p]) \cup {adr}
  BY <1>2, <1>3, AppendFacts
<1>5. t.hpp \in [Procs -> Seq(Adrs)] BY <1>1, <1>2, <1>3, <1>4
<1>6. t \in Sys BY <1>0, <1>5 DEF Sys
<1> HIDE DEF t
<1>7. HppsOn(s, t) BY <1>1, <1>3, <1>4 DEF HppsOn, Known
<1>8. Grows(s, t) /\ UpsOn(s, t) /\ ToldOn(s, t) BY <1>1 DEF Grows, UpsOn, ToldOn
<1>9. HeadsOn(s, t) /\ NewsOn(s, t) BY <1>1 DEF HeadsOn, NewsOn
<1>10. ChansOn(s, t) /\ QueuesOn(s, t) BY <1>1, SameChans, SameQueues
<1> QED BY <1>6, <1>7, <1>8, <1>9, <1>10, FollowsGood DEF Follows, Step, t

LEMMA InitCloseStep ==
  ASSUME NEW s, Good(s), NEW p \in Procs
  PROVE  Step(s, InitClose(s, p))
<1> DEFINE ep == Last(s.eps[p])
           u == [s.chan[p]["init"] EXCEPT !.in = FALSE]
           s0 == [s EXCEPT !.chan[p]["init"].in = FALSE, !.mask[p] = @ \cup {"open", "modify"}]
           s1 == Notify(s0, p, "init", "close")
           s2 == Put(s1, p, "up", EpRdy(ep.up))
<1>0. s \in Sys BY DEF Good
<1>1. "init" \in Channels /\ "close" \in Events BY DEF Channels, Events
<1>2. Step(s, s0) /\ s0.eps = s.eps
  <2>1. s.chan \in [Procs -> [Channels -> Channel]] /\ s.mask \in [Procs -> SUBSET Events]
    BY <1>0 DEF Sys
  <2>2. u \in Channel
    <3>1. s.chan[p]["init"] \in Channel BY <1>1, <2>1
    <3> QED BY <3>1, InCleared
  <2>3. /\ s0.chan = [s.chan EXCEPT ![p]["init"] = u]
        /\ s0.mask = [s.mask EXCEPT ![p] = @ \cup {"open", "modify"}]
        /\ s0.eps = s.eps /\ s0.ring = s.ring /\ s0.fifo = s.fifo /\ s0.told = s.told
        /\ s0.hpp = s.hpp /\ s0.q = s.q
    BY <1>0 DEF Sys
  <2>4. s0.mask \in [Procs -> SUBSET Events] BY <2>1, <2>3 DEF Events
  <2>5. s0.chan \in [Procs -> [Channels -> Channel]] => s0 \in Sys BY <1>0, <2>4 DEF Sys
  <2> HIDE DEF s0, u
  <2>6. Step(s, s0)
    <3>1. ("init" = "dn" /\ u.out = "open" => u.in) /\ "init" # "up" OBVIOUS
    <3> QED BY <1>1, <2>2, <2>3, <2>5, <3>1, ChanStep, Zenon
  <2> QED BY <2>3, <2>6
<1> HIDE DEF s0
<1>3. Step(s0, s1) BY <1>1, <1>2, NotifyStep DEF Step, Procs
<1>4. Step(s, s1) /\ Good(s1) /\ s1.eps = s.eps
  <2>1. s0 \in Sys BY <1>2 DEF Step, Good
  <2>2. s1.eps = s0.eps BY <2>1, NotifyFacts
  <2> QED BY <1>2, <1>3, <2>2, StepsOn DEF Step
<1>5. CASE ~s.chan[p]["init"].in
  <2>1. InitClose(s, p) = s BY <1>5 DEF InitClose
  <2> QED BY <2>1 DEF Step, Grows
<1>6. CASE s.chan[p]["init"].in /\ (s.eps[p] = <<>> \/ ep.up = 0)
  <2>1. InitClose(s, p) = Exit(s1, p) BY <1>6 DEF InitClose, s0
  <2> HIDE DEF s1
  <2>2. Step(s1, Exit(s1, p)) BY <1>4, ExitStep
  <2> QED BY <1>4, <2>1, <2>2, StepsOn
<1>7. CASE s.chan[p]["init"].in /\ ~(s.eps[p] = <<>> \/ ep.up = 0)
  <2>1. InitClose(s, p) = [s2 EXCEPT !.hpp[p] = Append(@, ep.adr)] BY <1>7 DEF InitClose, s0
  <2>2. Len(s.eps[p]) \in DOMAIN s.eps[p] BY <1>0, <1>7, EpFacts
  <2>3. ep = s.eps[p][Len(s.eps[p])] BY DEF Last
  <2>4. ep.up \in Nat /\ ep.adr \in Adrs /\ Known(s, p, ep.adr)
    BY <1>0, <2>2, <2>3, EpFacts DEF Known
  <2> HIDE DEF ep, s1
  <2>5. EpRdy(ep.up) \in Msg /\ EpRdy(ep.up).msg # "NEWEP" BY <2>4 DEF EpRdy, Msg
  <2>6. \A r : MsgOK(s1, r, EpRdy(ep.up)) BY <2>5 DEF MsgOK
  <2>7. Step(s1, s2) BY <1>4, <2>5, <2>6, PutStep
  <2> HIDE DEF s2
  <2>8. Step(s, s2) BY <1>4, <2>7, StepsOn
  <2>9. Known(s2, p, ep.adr) BY <2>4, <2>8, Stays DEF Step
  <2>10. Step(s2, [s2 EXCEPT !.hpp[p] = Append(@, ep.adr)]) BY <2>4, <2>8, <2>9, HppStep DEF Step
  <2> QED BY <2>1, <2>8, <2>10, StepsOn
<1> QED BY <1>5, <1>6, <1>7

LEMMA SysOpenStep ==
  ASSUME NEW s, Good(s), NEW p \in Procs, NEW c \in {"dn", "up"}, c = "up" => s.chan[p]["up"].made
  PROVE  Step(s, SysOpen(s, p, c))
<1> DEFINE u == [s.chan[p][c] EXCEPT !.in = TRUE]
           s0 == [s EXCEPT !.chan[p][c].in = TRUE]
           s1 == Notify(s0, p, c, "open")
           n == LastUp(s, p)
           m == NewEp(s.eps[p][n].up, n)
           s2 == IF s.chan[p][c].in THEN s
                 ELSE IF s.chan[p][c].out = "open" THEN Put(s1, p, c, m) ELSE s1
           t == [s2 EXCEPT !.chan[p][c].out = "open"]
<1>0. s \in Sys BY DEF Good
<1>1. c \in Channels /\ "open" \in Events BY DEF Channels, Events
<1>2. s.chan \in [Procs -> [Channels -> Channel]] /\ s.chan[p][c] \in Channel BY <1>0, <1>1 DEF Sys
<1>3. /\ c = "dn" => (s.chan[p][c].out = "open" => s.chan[p][c].in)
      /\ c = "up" => s.chan[p][c].out = "open" /\ HasUp(s, p)
  BY DEF Good, Chans
<1>4. Step(s, s0) /\ s0.eps = s.eps /\ s0.chan[p][c] = u
  <2>1. /\ s0.chan = [s.chan EXCEPT ![p][c] = u]
        /\ s0.eps = s.eps /\ s0.ring = s.ring /\ s0.fifo = s.fifo /\ s0.told = s.told
        /\ s0.hpp = s.hpp /\ s0.q = s.q
    BY <1>0 DEF Sys
  <2>2. s0.chan \in [Procs -> [Channels -> Channel]] => s0 \in Sys BY <1>0 DEF Sys
  <2>3. u \in Channel /\ u.in /\ u.made = s.chan[p][c].made /\ u.out = s.chan[p][c].out
    BY <1>2, InSet
  <2> HIDE DEF s0, u
  <2>4. c = "up" => /\ u.made => u.out = "open"
                    /\ u.out = "open" => HasUp(s, p)
                    /\ s.chan[p][c].made => u.made
    BY <1>3, <2>3
  <2>5. c = "dn" /\ u.out = "open" => u.in BY <2>3
  <2> HIDE DEF s1, n, m, s2, t
  <2>7. Step(s, s0) /\ s0.chan[p][c] = u
    <3>1. s0.chan = [s.chan EXCEPT ![p][c] = u] /\ c \in Channels /\ u \in Channel BY <1>1, <2>1, <2>3
    <3>2. /\ s0.eps = s.eps /\ s0.ring = s.ring /\ s0.fifo = s.fifo /\ s0.told = s.told
          /\ s0.hpp = s.hpp /\ s0.q = s.q
      BY <2>1
    <3>3. Step(s, s0) BY <2>2, <2>4, <2>5, <3>1, <3>2, ChanStep, Zenon
    <3>4. s0.chan[p][c] = u BY <1>2, <3>1, ChanUpdate
    <3> QED BY <3>3, <3>4
  <2> QED BY <2>1, <2>7
<1>5. u.in BY <1>2, InSet
<1> HIDE DEF s0, u
<1>6. s0 \in Sys BY <1>4 DEF Step, Good
<1>7. Step(s, s1) /\ s1.eps = s.eps /\ s1.chan = s0.chan
  <2>1. s1.eps = s0.eps /\ s1.chan = s0.chan BY <1>6, NotifyFacts
  <2>2. Step(s0, s1)
    <3>1. p \in Int BY DEF Procs
    <3> QED BY <1>1, <1>4, <3>1, NotifyStep DEF Step
  <2> QED BY <1>4, <2>1, <2>2, StepsOn
<1> HIDE DEF s1
<1>8. CASE c = "up"
  <2>1. SysOpen(s, p, c) = s2 BY <1>3, <1>8 DEF SysOpen, s1, s0
  <2>2. CASE s.chan[p][c].in
    <3>1. SysOpen(s, p, c) = s BY <2>1, <2>2
    <3> QED BY <3>1 DEF Step, Grows
  <2>3. CASE ~s.chan[p][c].in
    <3>1. SysOpen(s, p, c) = Put(s1, p, c, m) BY <1>3, <1>8, <2>1, <2>3
    <3>2. n \in DOMAIN s.eps[p] /\ s.eps[p][n].up # 0 BY <1>0, <1>3, <1>8, LastUpFacts
    <3>3. p # 0 /\ Is(s, p - 1, s.eps[p][n].up, s.eps[p][n].adr) BY <3>2 DEF Good, Ups
    <3>4. n \in Nat /\ s.eps[p][n].up \in Nat BY <1>0, <3>2, EpFacts
    <3> HIDE DEF n
    <3>5. m \in Msg /\ m.numep = s.eps[p][n].up /\ m.my = n BY <3>4 DEF NewEp, Msg
    <3>6. Pair(s, p - 1, m.numep, m.my)
      <4>1. p - 1 \in Above /\ (p - 1) + 1 = p BY <3>3 DEF Procs, Above
      <4> QED BY <3>2, <3>3, <3>5, <4>1 DEF Pair, Is
    <3> HIDE DEF m
    <3>7. Pair(s1, p - 1, m.numep, m.my) BY <1>7, <3>6 DEF Pair
    <3>8. MsgOK(s1, p - 1, m) /\ Peer(p, c).p = p - 1 BY <1>8, <3>5, <3>7 DEF MsgOK, Peer
    <3>9. Step(s1, Put(s1, p, c, m)) BY <1>7, <3>5, <3>8, PutStep DEF Step
    <3> QED BY <1>7, <3>1, <3>9, StepsOn
  <2> QED BY <2>2, <2>3
<1>9. CASE c = "dn" /\ s.chan[p][c].out = "open"
  <2>1. SysOpen(s, p, c) = s BY <1>3, <1>9 DEF SysOpen
  <2> QED BY <2>1 DEF Step, Grows
<1>10. CASE c = "dn" /\ s.chan[p][c].out # "open"
  <2> DEFINE v == [s2.chan[p][c] EXCEPT !.out = "open"]
  <2>1. SysOpen(s, p, c) = Notify(t, Peer(p, c).p, Peer(p, c).c, "open")
    BY <1>10 DEF SysOpen, s1, s0
  <2>2. s2 = IF s.chan[p][c].in THEN s ELSE s1 BY <1>10
  <2>3. Step(s, s2) /\ s2.chan[p][c].in
    BY <1>4, <1>5, <1>7, <2>2 DEF Step, Grows
  <2> HIDE DEF s2
  <2>4. s2 \in Sys /\ s2.chan[p][c] \in Channel
    <3>1. s2 \in Sys BY <2>3 DEF Step, Good
    <3> QED BY <1>1, <3>1 DEF Sys
  <2>5. /\ t.chan = [s2.chan EXCEPT ![p][c] = v]
        /\ t.eps = s2.eps /\ t.ring = s2.ring /\ t.fifo = s2.fifo /\ t.told = s2.told
        /\ t.hpp = s2.hpp /\ t.q = s2.q
    BY <2>4 DEF Sys
  <2>6. t.chan \in [Procs -> [Channels -> Channel]] => t \in Sys BY <2>4 DEF Sys
  <2>7. v \in Channel /\ v.in
    <3>1. v \in Channel /\ v.in = s2.chan[p][c].in BY <2>4, OutSet
    <3> QED BY <2>3, <3>1
  <2> HIDE DEF t, v
  <2>8. Step(s2, t)
    <3>1. (c = "dn" /\ v.out = "open" => v.in) /\ c # "up" BY <1>10, <2>7
    <3> QED BY <1>1, <2>3, <2>5, <2>6, <2>7, <3>1, ChanStep, Zenon DEF Step
  <2>9. Peer(p, c).p \in Int /\ Peer(p, c).c \in Channels BY DEF Peer, Procs, Channels
  <2>10. Step(t, Notify(t, Peer(p, c).p, Peer(p, c).c, "open"))
    BY <1>1, <2>8, <2>9, NotifyStep DEF Step
  <2> QED BY <2>1, <2>3, <2>8, <2>10, StepsOn
<1> QED BY <1>8, <1>9, <1>10

\* NEWEP brings the number of a pair.
LEMMA NewEpReadStep ==
  ASSUME NEW s, Good(s), NEW p \in Procs, NEW m \in Msg, Pair(s, p, m.numep, m.my)
  PROVE  Step(s, NewEpRead(s, p, m))
<1> DEFINE k == m.numep
           s1 == [s EXCEPT !.eps[p][m.numep].dn = m.my, !.told[p] = @ \cup {m.numep}]
           u == [s1.chan[p]["init"] EXCEPT !.out = "stale"]
           t == [s1 EXCEPT !.chan[p]["init"].out = "stale"]
<1>0. s \in Sys BY DEF Good
<1>1. k \in DOMAIN s.eps[p] /\ p \in Above /\ p + 1 \in Procs /\ m.my \in Nat /\ k \in Nat
  BY DEF Pair, Above, Procs, Msg
<1>2. /\ s1.eps = [s.eps EXCEPT ![p][k].dn = m.my]
      /\ s1.told = [s.told EXCEPT ![p] = @ \cup {k}]
      /\ s1.ring = s.ring /\ s1.fifo = s.fifo /\ s1.hpp = s.hpp /\ s1.chan = s.chan /\ s1.q = s.q
  BY <1>0 DEF Sys
<1>3. s.eps \in [Procs -> Seq(Endpoint)] /\ s.told \in [Procs -> SUBSET Nat] BY <1>0 DEF Sys
<1> DEFINE ep == [s.eps[p][k] EXCEPT !.dn = m.my]
<1>4. /\ s1.eps[p] = [s.eps[p] EXCEPT ![k] = ep]
      /\ \A r \in Procs : r # p => s1.eps[r] = s.eps[r]
  BY <1>2, <1>3
<1>5. s.eps[p][k] \in Endpoint BY <1>0, <1>1, EpFacts
<1>6. /\ ep \in Endpoint /\ ep.adr = s.eps[p][k].adr /\ ep.up = s.eps[p][k].up /\ ep.dn = m.my
  BY <1>1, <1>5 DEF Endpoint
<1> HIDE DEF ep
<1>7. /\ s1.eps[p] \in Seq(Endpoint) /\ DOMAIN s1.eps[p] = DOMAIN s.eps[p] /\ s1.eps[p][k] = ep
      /\ \A i \in DOMAIN s.eps[p] : i # k => s1.eps[p][i] = s.eps[p][i]
  <2>1. s.eps[p] \in Seq(Endpoint) BY <1>3
  <2> QED BY <1>1, <1>4, <1>6, <2>1
<1>8. s1.eps \in [Procs -> Seq(Endpoint)] BY <1>2, <1>3, <1>7
<1>9. s1.told \in [Procs -> SUBSET Nat] BY <1>1, <1>2, <1>3
<1>10. s1 \in Sys BY <1>0, <1>8, <1>9 DEF Sys
<1> HIDE DEF s1
<1>11. Grows(s, s1)
  <2> SUFFICES ASSUME NEW r \in Procs, NEW i \in DOMAIN s.eps[r]
               PROVE  /\ i \in DOMAIN s1.eps[r]
                      /\ s1.eps[r][i].adr = s.eps[r][i].adr /\ s1.eps[r][i].up = s.eps[r][i].up
    BY DEF Grows
  <2>1. CASE r # p BY <1>4, <2>1
  <2>2. CASE r = p /\ i # k BY <1>7, <2>2
  <2>3. CASE r = p /\ i = k BY <1>1, <1>6, <1>7, <2>3
  <2> QED BY <2>1, <2>2, <2>3
<1>12. \A r \in Procs : DOMAIN s1.eps[r] = DOMAIN s.eps[r] BY <1>4, <1>7
<1>13. UpsOn(s, s1) BY <1>12 DEF UpsOn
<1>14. ToldOn(s, s1)
  <2> SUFFICES ASSUME NEW r \in Procs, NEW i \in s1.told[r]
               PROVE  \/ i \in s.told[r] /\ s1.eps[r][i].dn = s.eps[r][i].dn
                      \/ Pair(s1, r, i, s1.eps[r][i].dn)
    BY DEF ToldOn
  <2>1. CASE r = p /\ i = k
    <3>1. s1.eps[r][i].dn = m.my BY <1>6, <1>7, <2>1
    <3> QED BY <1>11, <2>1, <3>1, Stays
  <2>2. CASE ~(r = p /\ i = k)
    <3>1. i \in s.told[r] BY <1>2, <1>3, <2>2
    <3>2. i \in DOMAIN s.eps[r] BY <3>1 DEF Good, Told, Pair
    <3>3. s1.eps[r][i] = s.eps[r][i] BY <1>4, <1>7, <2>2, <3>2
    <3> QED BY <3>1, <3>3
  <2> QED BY <2>1, <2>2
<1>15. HeadsOn(s, s1) /\ NewsOn(s, s1) /\ HppsOn(s, s1) BY <1>2 DEF HeadsOn, NewsOn, HppsOn
<1>16. ChansOn(s, s1) /\ QueuesOn(s, s1) BY <1>2, SameChans, SameQueues
<1>17. Step(s, s1) /\ Good(s1)
  BY <1>10, <1>11, <1>13, <1>14, <1>15, <1>16, FollowsGood DEF Follows, Step
<1>18. CASE s.chan[p]["init"].out = "open"
  <2>1. NewEpRead(s, p, m) = Notify(t, p + 1, "init", "close") BY <1>18 DEF NewEpRead, s1
  <2>2. "init" \in Channels /\ "close" \in Events BY DEF Channels, Events
  <2>3. u \in Channel
    <3>1. s1.chan[p]["init"] \in Channel BY <1>10, <2>2 DEF Sys
    <3> QED BY <3>1, OutSet
  <2>4. /\ t.chan = [s1.chan EXCEPT ![p]["init"] = u]
        /\ t.eps = s1.eps /\ t.ring = s1.ring /\ t.fifo = s1.fifo /\ t.told = s1.told
        /\ t.hpp = s1.hpp /\ t.q = s1.q
    BY <1>10 DEF Sys
  <2>5. t.chan \in [Procs -> [Channels -> Channel]] => t \in Sys BY <1>10 DEF Sys
  <2> HIDE DEF t, u
  <2>6. Step(s1, t)
    <3>1. ("init" = "dn" /\ u.out = "open" => u.in) /\ "init" # "up" OBVIOUS
    <3> QED BY <1>17, <2>2, <2>3, <2>4, <2>5, <3>1, ChanStep, Zenon
  <2>7. p + 1 \in Int BY DEF Procs
  <2>8. Step(t, Notify(t, p + 1, "init", "close")) BY <2>2, <2>6, <2>7, NotifyStep DEF Step
  <2> QED BY <1>17, <2>1, <2>6, <2>8, StepsOn
<1>19. CASE s.chan[p]["init"].out # "open"
  <2>1. NewEpRead(s, p, m) = s1 BY <1>2, <1>19 DEF NewEpRead, s1
  <2> QED BY <1>17, <2>1
<1> QED BY <1>18, <1>19

\* What a unitlink passes on, message after message.
PassOn(x, p, m) == IF m.msg = "DATA" THEN ToEndpoint(x, p, "up", "DATA", m.my) ELSE x

Passes(f, s, p, batch) == /\ f[0] = s
                          /\ \A k \in 1 .. Len(batch) : f[k] = PassOn(f[k - 1], p, batch[k])
                          /\ Callback(s, p, batch) = f[Len(batch)]

\* The recursion, unfolded.
LEMMA CallbackLoop ==
  ASSUME NEW s, NEW p, p = 2, NEW batch, Len(batch) \in Nat
  PROVE  \E f : Passes(f, s, p, batch)
<1> DEFINE Runs(f, n) == f = [k \in 0 .. n |->
                           IF k = 0 THEN s
                           ELSE IF batch[k].msg = "DATA"
                                THEN ToEndpoint(f[k - 1], p, "up", "DATA", batch[k].my)
                                ELSE f[k - 1]]
           S == {n \in Nat : \E f : Runs(f, n)}
<1>1. 0 \in S
  <2> DEFINE f == [k \in 0 .. 0 |-> s]
  <2>1. f = [k \in 0 .. 0 |-> IF k = 0 THEN s
                              ELSE IF batch[k].msg = "DATA"
                                   THEN ToEndpoint(f[k - 1], p, "up", "DATA", batch[k].my)
                                   ELSE f[k - 1]]
    OBVIOUS
  <2> QED BY <2>1, Zenon
<1>2. ASSUME NEW n \in Nat, n \in S PROVE n + 1 \in S
  <2>1. PICK f : Runs(f, n) BY <1>2, Zenon
  <2> DEFINE g == [k \in 0 .. n + 1 |-> IF k <= n THEN f[k] ELSE PassOn(f[n], p, batch[n + 1])]
             h == [k \in 0 .. n + 1 |-> IF k = 0 THEN s ELSE PassOn(g[k - 1], p, batch[k])]
  <2>2. \A k \in 0 .. n : f[k] = IF k = 0 THEN s ELSE PassOn(f[k - 1], p, batch[k])
    BY <2>1, Zenon DEF PassOn
  <2>3. ASSUME NEW k \in 0 .. n + 1 PROVE g[k] = h[k]
    <3>1. CASE k = 0 BY <3>1, <2>2
    <3>2. CASE k \in 1 .. n BY <3>2, <2>2
    <3>3. CASE k = n + 1 BY <3>3, <2>2
    <3> QED BY <3>1, <3>2, <3>3
  <2>4. g = h BY <2>3
  <2>5. Runs(g, n + 1) BY <2>4, Zenon DEF PassOn
  <2> HIDE DEF g, h, Runs
  <2>6. \E x : Runs(x, n + 1) BY <2>5
  <2>7. n + 1 \in Nat OBVIOUS
  <2> QED BY <2>6, <2>7
<1> HIDE DEF S
<1>3. Len(batch) \in S BY <1>1, <1>2, Induct
<1>4. PICK f : Runs(f, Len(batch)) BY <1>3, Zenon DEF S
<1> DEFINE passed == CHOOSE x : Runs(x, Len(batch))
<1>5. Runs(passed, Len(batch)) BY <1>4, Zenon
<1>6. Callback(s, p, batch) = passed[Len(batch)] BY DEF Callback
<1> HIDE DEF passed
<1>7. passed[0] = s BY <1>5
<1>8. ASSUME NEW k \in 1 .. Len(batch) PROVE passed[k] = PassOn(passed[k - 1], p, batch[k])
  <2>1. k \in 0 .. Len(batch) /\ k # 0 OBVIOUS
  <2>2. passed[k] = IF k = 0 THEN s
                    ELSE IF batch[k].msg = "DATA"
                         THEN ToEndpoint(passed[k - 1], p, "up", "DATA", batch[k].my)
                         ELSE passed[k - 1]
    BY <1>5, <2>1, Zenon
  <2> QED BY <2>1, <2>2 DEF PassOn
<1>9. \A k \in 1 .. Len(batch) : passed[k] = PassOn(passed[k - 1], p, batch[k]) BY <1>8
<1>10. Passes(passed, s, p, batch) BY <1>6, <1>7, <1>9 DEF Passes
<1> QED BY <1>10

LEMMA CallbackStep ==
  ASSUME NEW s, Good(s), NEW p \in Procs, NEW batch \in Seq(Msg)
  PROVE  Step(s, Callback(s, p, batch))
<1>0. s \in Sys /\ Step(s, s) BY DEF Good, Step, Grows
<1>1. CASE p = 2
  <2>0. Len(batch) \in Nat OBVIOUS
  <2>1. PICK f : /\ f[0] = s
                 /\ \A k \in 1 .. Len(batch) : f[k] = PassOn(f[k - 1], p, batch[k])
                 /\ Callback(s, p, batch) = f[Len(batch)]
    <3>1. \E f : Passes(f, s, p, batch) BY <1>1, <2>0, CallbackLoop
    <3> QED BY <3>1, Zenon DEF Passes
  <2> DEFINE S == {n \in Nat : n <= Len(batch) => Step(s, f[n])}
  <2>2. 0 \in S BY <1>0, <2>1
  <2>3. ASSUME NEW n \in Nat, n \in S PROVE n + 1 \in S
    <3> SUFFICES ASSUME n + 1 <= Len(batch) PROVE Step(s, f[n + 1]) OBVIOUS
    <3>1. n + 1 \in 1 .. Len(batch) /\ n <= Len(batch) BY <2>0
    <3>2. f[n + 1] = PassOn(f[n], p, batch[n + 1]) BY <2>1, <3>1
    <3>3. Step(s, f[n]) BY <2>3, <3>1
    <3>4. Step(f[n], PassOn(f[n], p, batch[n + 1]))
      <4>1. CASE batch[n + 1].msg = "DATA"
        <5>1. Good(f[n]) BY <3>3 DEF Step
        <5> QED BY <4>1, <5>1, ToEndpointStep DEF PassOn
      <4>2. CASE batch[n + 1].msg # "DATA" BY <3>3, <4>2 DEF PassOn, Step, Grows
      <4> QED BY <4>1, <4>2
    <3> QED BY <3>2, <3>3, <3>4, StepsOn
  <2> HIDE DEF S
  <2>4. Len(batch) \in S BY <2>0, <2>2, <2>3, Induct
  <2> QED BY <2>0, <2>1, <2>4 DEF S
<1>2. CASE p = 3
  <2> DEFINE new == {m.my : m \in {x \in Range(batch) : x.msg = "CONNECT"}}
             t == [s EXCEPT !.conn = @ \cup new]
  <2>1. Callback(s, p, batch) = t BY <1>2 DEF Callback
  <2>2. new \subseteq Nat
    <3>1. Range(batch) \subseteq Msg BY RangeFacts
    <3> QED BY <3>1 DEF Msg
  <2> HIDE DEF new
  <2>3. t \in Sys BY <1>0, <2>2 DEF Sys
  <2>4. /\ t.eps = s.eps /\ t.ring = s.ring /\ t.fifo = s.fifo /\ t.told = s.told
        /\ t.hpp = s.hpp /\ t.chan = s.chan /\ t.q = s.q
    BY <1>0 DEF Sys
  <2> HIDE DEF t
  <2> QED BY <2>1, <2>3, <2>4, SameChans, SameQueues, StepAside
<1>3. CASE p # 2 /\ p # 3
  <2>1. Callback(s, p, batch) = s BY <1>3 DEF Callback
  <2> QED BY <1>0, <2>1
<1> QED BY <1>1, <1>2, <1>3

LEMMA SysReadStep ==
  ASSUME NEW s, Good(s), NEW p \in Procs, NEW c \in {"dn", "up"}
  PROVE  Step(s, SysRead(s, p, c))
<1> DEFINE batch == s.fifo[p][c]
           m == Head(batch)
           adr == s.eps[p][m.numep].adr
           s1 == [s EXCEPT !.fifo[p][c] = <<>>,
                           !.hidden = @ \/ \E k \in 2 .. Len(batch) : batch[k].msg \in System]
           s2 == CASE m.msg = "NEWEP" -> NewEpRead(s1, p, m)
                   [] m.msg = "EPRDY" -> [s1 EXCEPT !.hpp[p] = Append(@, adr)]
                   [] OTHER -> s1
<1>0. s \in Sys BY DEF Good
<1>1. c \in Channels /\ s.fifo \in [Procs -> [Channels -> Seq(Header \cup Msg)]]
  BY <1>0 DEF Channels, Sys
<1>2. batch \in Seq(Header \cup Msg) /\ \A x \in Range(batch) : MsgOK(s, p, x)
  BY <1>1 DEF Good, News
<1>3. batch \in Seq(Msg)
  <2> HIDE DEF batch
  <2>1. Range(batch) \subseteq Msg BY <1>2 DEF MsgOK
  <2> QED BY <1>2, <2>1, SeqWithin
<1>4. CASE batch = <<>>
  <2>1. SysRead(s, p, c) = s BY <1>4 DEF SysRead
  <2> QED BY <2>1 DEF Step, Grows
<1>5. CASE batch # <<>>
  <2>1. m \in Range(batch) /\ m \in Msg
    <3> HIDE DEF batch
    <3> QED BY <1>3, <1>5, TailFacts
  <2>2. MsgOK(s, p, m) BY <1>2, <2>1
  <2>3. SysRead(s, p, c) = IF m.numep \notin DOMAIN s.eps[p] THEN Exit(s1, p)
                           ELSE Callback(s2, p, batch)
    BY <1>5 DEF SysRead
  <2>4. /\ s1.fifo = [s.fifo EXCEPT ![p][c] = <<>>]
        /\ s1.eps = s.eps /\ s1.ring = s.ring /\ s1.told = s.told /\ s1.hpp = s.hpp
        /\ s1.chan = s.chan /\ s1.q = s.q
    BY <1>0 DEF Sys
  <2> HIDE DEF batch
  <2>5. /\ s1.fifo \in [Procs -> [Channels -> Seq(Header \cup Msg)]]
        /\ s1.fifo[p][c] = <<>>
        /\ \A r \in Procs, d \in Channels : r # p \/ d # c => s1.fifo[r][d] = s.fifo[r][d]
    <3>1. [s.fifo[p] EXCEPT ![c] = <<>>] \in [Channels -> Seq(Header \cup Msg)]
      BY <1>1, EmptyFacts
    <3>2. s1.fifo[p] = [s.fifo[p] EXCEPT ![c] = <<>>] BY <1>1, <2>4
    <3>3. \A r \in Procs : r # p => s1.fifo[r] = s.fifo[r] BY <1>1, <2>4
    <3>4. s1.fifo[p][c] = <<>> /\ \A d \in Channels : d # c => s1.fifo[p][d] = s.fifo[p][d]
      BY <1>1, <3>2
    <3>5. s1.fifo \in [Procs -> [Channels -> Seq(Header \cup Msg)]] BY <1>1, <2>4, <3>1
    <3> QED BY <3>3, <3>4, <3>5
  <2>6. s1 \in Sys
    <3>1. s1.hidden \in BOOLEAN BY <1>0 DEF Sys
    <3> QED BY <1>0, <2>5, <3>1 DEF Sys
  <2> HIDE DEF s1
  <2>7. HeadsOn(s, s1) /\ NewsOn(s, s1)
    <3>1. \A r \in Procs : s1.fifo[r]["init"] = s.fifo[r]["init"] BY <2>5 DEF Channels
    <3>2. ASSUME NEW r \in Procs, NEW d \in {"dn", "up"}, NEW x \in Range(s1.fifo[r][d])
          PROVE  x \in Range(s.fifo[r][d])
      <4>1. CASE r = p /\ d = c BY <2>5, <3>2, <4>1, EmptyFacts
      <4>2. CASE ~(r = p /\ d = c)
        <5>1. s1.fifo[r][d] = s.fifo[r][d] BY <2>5, <4>2 DEF Channels
        <5> QED BY <5>1, <3>2
      <4> QED BY <4>1, <4>2
    <3> QED BY <2>4, <3>1, <3>2 DEF HeadsOn, NewsOn
  <2>8. Grows(s, s1) /\ UpsOn(s, s1) /\ ToldOn(s, s1) /\ HppsOn(s, s1)
    BY <2>4 DEF Grows, UpsOn, ToldOn, HppsOn
  <2>9. ChansOn(s, s1) /\ QueuesOn(s, s1) BY <2>4, SameChans, SameQueues
  <2>10. Step(s, s1) /\ Good(s1)
    BY <2>6, <2>7, <2>8, <2>9, FollowsGood DEF Follows, Step
  <2>11. CASE m.numep \notin DOMAIN s.eps[p]
    <3>1. SysRead(s, p, c) = Exit(s1, p) BY <2>3, <2>11
    <3>2. Step(s1, Exit(s1, p)) BY <2>10, ExitStep
    <3> QED BY <2>10, <3>1, <3>2, StepsOn
  <2>12. CASE m.numep \in DOMAIN s.eps[p]
    <3>1. SysRead(s, p, c) = Callback(s2, p, batch) BY <2>3, <2>12
    <3>2. adr \in Adrs /\ Known(s1, p, adr) BY <1>0, <2>4, <2>12, EpFacts DEF Known
    <3> HIDE DEF adr, m
    <3>3. Step(s1, s2)
      <4>1. CASE m.msg = "NEWEP"
        <5>1. Pair(s1, p, m.numep, m.my) BY <2>2, <2>10, <4>1, Stays DEF MsgOK, Step
        <5>2. s2 = NewEpRead(s1, p, m) BY <4>1
        <5> HIDE DEF s2
        <5> QED BY <2>1, <2>10, <5>1, <5>2, NewEpReadStep
      <4>2. CASE m.msg = "EPRDY"
        <5>1. s2 = [s1 EXCEPT !.hpp[p] = Append(@, adr)] BY <4>2
        <5> HIDE DEF s2
        <5> QED BY <2>10, <3>2, <5>1, HppStep
      <4>3. CASE m.msg # "NEWEP" /\ m.msg # "EPRDY"
        <5>1. s2 = s1 BY <4>3
        <5> QED BY <2>10, <5>1 DEF Step, Grows
      <4> QED BY <4>1, <4>2, <4>3
    <3> HIDE DEF s2
    <3>4. Step(s2, Callback(s2, p, batch)) BY <1>3, <3>3, CallbackStep DEF Step
    <3> QED BY <2>10, <3>1, <3>3, <3>4, StepsOn
  <2> QED BY <2>11, <2>12
<1> QED BY <1>4, <1>5

(***************************************************************************)
(* The steps of the specification                                          *)
(***************************************************************************)
\* Main threads that stay where they are.
LEMMA MainsStay ==
  ASSUME NEW s, NEW t, NEW m, Mains(s, m), Grows(s, t)
  PROVE  Mains(t, m)
BY Stays DEF Mains

LEMMA InotifyKeeps ==
  ASSUME IInv, NEW p \in Procs, Inotify(p)
  PROVE  IInv'
<1> DEFINE ev == Head(sys.q[p])
           c == ev[1]
           e == ev[2]
           s == [sys EXCEPT !.q[p] = Tail(@)]
           wanted == c # "init" \/ e \in sys.mask[p]
<1>0. Good(sys) /\ sys \in Sys BY DEF IInv, Good
<1>1. sys.q \in [Procs -> Seq(Channels \X Events)] BY <1>0 DEF Sys
<1>2. /\ sys.q[p] # <<>> /\ UNCHANGED <<main, done, stolen>>
      /\ ~(wanted /\ c = "init" /\ e = "modify" /\ InitReadHangs(s, p))
      /\ sys' = IF wanted THEN Handler(s, p, c, e) ELSE s
  BY DEF Inotify
<1>3. /\ ev \in Channels \X Events /\ ev \in Range(sys.q[p])
      /\ Tail(sys.q[p]) \in Seq(Channels \X Events)
      /\ Range(Tail(sys.q[p])) \subseteq Range(sys.q[p])
  <2>1. sys.q[p] \in Seq(Channels \X Events) BY <1>1
  <2> QED BY <1>2, <2>1, TailFacts
<1>4. EventOK(sys, p, ev) BY <1>0, <1>3 DEF Good, Queues
<1> HIDE DEF ev
<1>5. c \in Channels /\ e \in Events BY <1>3
<1>6. Step(sys, s) /\ s.chan = sys.chan
  <2>1. /\ s.q = [sys.q EXCEPT ![p] = Tail(@)]
        /\ s.eps = sys.eps /\ s.ring = sys.ring /\ s.fifo = sys.fifo /\ s.told = sys.told
        /\ s.hpp = sys.hpp /\ s.chan = sys.chan
    BY <1>0 DEF Sys
  <2>2. s.q \in [Procs -> Seq(Channels \X Events)] BY <1>1, <1>3, <2>1
  <2>3. s \in Sys BY <1>0, <2>2 DEF Sys
  <2>4. s.q[p] = Tail(sys.q[p]) /\ \A r \in Procs : r # p => s.q[r] = sys.q[r] BY <1>1, <2>1
  <2> HIDE DEF s
  <2>5. QueuesOn(sys, s) BY <1>3, <2>4 DEF QueuesOn
  <2> QED BY <1>0, <2>1, <2>3, <2>5, SameChans, StepAside
<1> HIDE DEF s
<1>7. Good(s) BY <1>6 DEF Step
<1>8. /\ c = "up" => s.chan[p]["up"].made
      /\ e = "close" => c = "init"
  BY <1>4, <1>6 DEF EventOK
<1>9. Step(s, sys')
  <2>1. CASE ~wanted BY <1>2, <1>7, <2>1 DEF Step, Grows
  <2>2. CASE wanted /\ c = "init" /\ e = "open"
    <3>1. sys' = InitOpen(s, p) BY <1>2, <2>2 DEF Handler
    <3> QED BY <1>7, <3>1, InitOpenStep
  <2>3. CASE wanted /\ c = "init" /\ e = "modify"
    <3>1. sys' = InitRead(s, p) BY <1>2, <2>3 DEF Handler
    <3> QED BY <1>2, <1>7, <2>3, <3>1, InitReadStep
  <2>4. CASE wanted /\ c = "init" /\ e = "close"
    <3>1. sys' = InitClose(s, p) BY <1>2, <2>4 DEF Handler
    <3> QED BY <1>7, <3>1, InitCloseStep
  <2>5. CASE wanted /\ c # "init" /\ e = "open"
    <3>1. sys' = SysOpen(s, p, c) BY <1>2, <2>5 DEF Handler
    <3>2. c \in {"dn", "up"} BY <1>5, <2>5 DEF Channels
    <3> QED BY <1>7, <1>8, <3>1, <3>2, SysOpenStep
  <2>6. CASE wanted /\ c # "init" /\ e = "modify"
    <3>1. sys' = SysRead(s, p, c) BY <1>2, <2>6 DEF Handler
    <3>2. c \in {"dn", "up"} BY <1>5, <2>6 DEF Channels
    <3> QED BY <1>7, <3>1, <3>2, SysReadStep
  <2> QED BY <1>5, <1>8, <2>1, <2>2, <2>3, <2>4, <2>5, <2>6 DEF Events
<1>10. Step(sys, sys') BY <1>6, <1>9, StepsOn
<1>11. Mains(sys', main') BY <1>2, <1>10, MainsStay DEF IInv, Step
<1> QED BY <1>2, <1>10, <1>11 DEF IInv, Step

LEMMA NatAdr ==
  ASSUME NEW x \in Adrs
  PROVE  x \in Nat
BY AdrsNat

LEMMA CreateKeeps ==
  ASSUME IInv, NEW p \in {0, 1}, Create(p)
  PROVE  IInv'
<1> DEFINE adr == Head(main[p].left)
           known == Known(sys, p, adr)
           s == IF known THEN sys ELSE CreateEp(sys, p, adr, 0)
           go == known \/ Room(sys, p)
           u == [s.chan[p]["dn"] EXCEPT !.made = TRUE]
           a == [s EXCEPT !.chan[p]["dn"].made = TRUE]
           v == [a.chan[p]["init"] EXCEPT !.out = "no"]
           t == [s EXCEPT !.chan[p]["dn"].made = TRUE,
                          !.chan[p]["init"].out = "no",
                          !.mixed = @ \/ sys.mask[p] = {"close"}]
<1>0. Good(sys) /\ sys \in Sys /\ p \in Procs /\ main \in [Procs -> Thread] BY DEF IInv, Good, Procs
<1>1. /\ main[p].left # <<>> /\ UNCHANGED <<done, stolen>>
      /\ main' = [main EXCEPT ![p] = [at |-> IF go THEN "open" ELSE "idle",
                                      adr |-> adr, left |-> Tail(@.left)]]
      /\ sys' = IF go THEN t ELSE sys
  BY DEF Create
<1>2. adr \in Adrs /\ Tail(main[p].left) \in Seq(Adrs)
  <2>1. main[p].left \in Seq(Adrs) BY <1>0 DEF Thread
  <2> QED BY <1>1, <2>1, TailFacts
<1> HIDE DEF adr
<1>3. Step(sys, s) /\ Known(s, p, adr)
  <2>1. CASE known
    <3>1. s = sys BY <2>1
    <3> QED BY <1>0, <2>1, <3>1 DEF Step, Grows
  <2>2. CASE ~known
    <3> DEFINE n == Len(sys.eps[p]) + 1
    <3>1. s = CreateEp(sys, p, adr, 0) BY <2>2
    <3>2. /\ Step(sys, s) /\ n \in DOMAIN s.eps[p]
          /\ s.eps[p][n] = [adr |-> adr, up |-> 0, dn |-> 0]
      BY <1>0, <1>2, <3>1, CreateEpStep
    <3> QED BY <3>2 DEF Known
  <2> QED BY <2>1, <2>2
<1> HIDE DEF s
<1>4. "init" \in Channels /\ "dn" \in Channels /\ s \in Sys BY <1>3 DEF Channels, Step, Good
<1>5. Step(s, a)
  <2>1. /\ a.chan = [s.chan EXCEPT ![p]["dn"] = u]
        /\ a.eps = s.eps /\ a.ring = s.ring /\ a.fifo = s.fifo /\ a.told = s.told
        /\ a.hpp = s.hpp /\ a.q = s.q
    BY <1>4 DEF Sys
  <2>2. a.chan \in [Procs -> [Channels -> Channel]] => a \in Sys BY <1>4 DEF Sys
  <2>3. s.chan[p]["dn"] \in Channel BY <1>0, <1>4 DEF Sys
  <2>4. u \in Channel /\ u.out = s.chan[p]["dn"].out /\ u.in = s.chan[p]["dn"].in
    BY <2>3, MadeSet
  <2> HIDE DEF a, u
  <2>5. ("dn" = "dn" /\ u.out = "open" => u.in) /\ "dn" # "up"
    BY <1>0, <1>3, <2>4 DEF Step, Good, Chans
  <2> QED BY <1>0, <1>3, <1>4, <2>1, <2>2, <2>4, <2>5, ChanStep, Zenon DEF Step
<1>6. a \in Sys BY <1>5 DEF Step, Good
<1>7. Step(a, t)
  <2>1. /\ t.chan = [a.chan EXCEPT ![p]["init"] = v]
        /\ t.eps = a.eps /\ t.ring = a.ring /\ t.fifo = a.fifo /\ t.told = a.told
        /\ t.hpp = a.hpp /\ t.q = a.q
    BY <1>4 DEF Sys
  <2>2. t.mixed \in BOOLEAN BY <1>4 DEF Sys
  <2>3. t.chan \in [Procs -> [Channels -> Channel]] => t \in Sys BY <1>4, <2>2 DEF Sys
  <2>4. a.chan[p]["init"] \in Channel
    <3> HIDE DEF a
    <3> QED BY <1>0, <1>4, <1>6 DEF Sys
  <2>5. v \in Channel BY <2>4, OutSet
  <2> HIDE DEF a, t, v
  <2>6. ("init" = "dn" /\ v.out = "open" => v.in) /\ "init" # "up" OBVIOUS
  <2> QED BY <1>0, <1>4, <1>5, <2>1, <2>3, <2>5, <2>6, ChanStep, Zenon DEF Step
<1> HIDE DEF a, t
<1>8. Step(sys, t) BY <1>3, <1>5, <1>7, StepsOn
<1>9. Known(t, p, adr) BY <1>0, <1>3, <1>5, <1>7, Stays DEF Step
<1>10. main' \in [Procs -> Thread]
  <2>1. [at |-> IF go THEN "open" ELSE "idle", adr |-> adr, left |-> Tail(main[p].left)] \in Thread
    BY <1>2, NatAdr DEF Thread
  <2> QED BY <1>0, <1>1, <2>1
<1>11. Step(sys, sys') BY <1>0, <1>1, <1>8 DEF Step, Grows
<1>12. Mains(sys', main')
  <2> SUFFICES ASSUME NEW r \in Procs, main'[r].at \in {"open", "write"}
               PROVE  Known(sys', r, main'[r].adr)
    BY DEF Mains
  <2>1. CASE r = p
    <3>1. main'[r] = [at |-> IF go THEN "open" ELSE "idle", adr |-> adr, left |-> Tail(main[p].left)]
      BY <1>0, <1>1, <2>1
    <3>2. go /\ main'[r].adr = adr BY <3>1
    <3> QED BY <1>1, <1>9, <2>1, <3>2
  <2>2. CASE r # p
    <3>1. main'[r] = main[r] BY <1>0, <1>1, <2>2
    <3>2. Known(sys, r, main[r].adr) BY <3>1 DEF IInv, Mains
    <3> QED BY <1>11, <3>1, <3>2, Stays DEF Step
  <2> QED BY <2>1, <2>2
<1> QED BY <1>1, <1>10, <1>11, <1>12 DEF IInv, Step


\* The main thread of p changes its place only.
LEMMA MainGoes ==
  ASSUME main \in [Procs -> Thread], NEW p \in Procs,
         NEW place \in {"idle", "open", "write", "wait", "connect"}, Go(p, place)
  PROVE  /\ main' \in [Procs -> Thread]
         /\ main'[p].at = place /\ main'[p].adr = main[p].adr
         /\ \A r \in Procs : r # p => main'[r] = main[r]
<1> DEFINE u == [main[p] EXCEPT !.at = place]
<1>1. main' = [main EXCEPT ![p] = u] BY DEF Go
<1>2. u \in Thread /\ u.at = place /\ u.adr = main[p].adr BY DEF Thread
<1> HIDE DEF u
<1> QED BY <1>1, <1>2

\* What a step does to the main threads when it moves one of them.
LEMMA MainsMove ==
  ASSUME NEW s, NEW t, NEW m, NEW n, NEW p \in Procs, Mains(s, m), Grows(s, t),
         \A r \in Procs : r # p => n[r] = m[r],
         n[p].at \in {"open", "write"} => Known(t, p, n[p].adr)
  PROVE  Mains(t, n)
<1> SUFFICES ASSUME NEW r \in Procs, n[r].at \in {"open", "write"}
             PROVE  Known(t, r, n[r].adr)
  BY DEF Mains
<1>1. CASE r = p BY <1>1
<1>2. CASE r # p
  <2>1. n[r] = m[r] BY <1>2
  <2>2. Known(s, r, m[r].adr) BY <2>1 DEF Mains
  <2> QED BY <2>1, <2>2, Stays
<1> QED BY <1>1, <1>2

\* The init channel of process p, as the process that writes it sees it.
LEMMA InitOutStep ==
  ASSUME NEW s, Good(s), NEW p \in Procs, NEW o \in {"no", "open", "stale"}
  PROVE  Step(s, [s EXCEPT !.chan[p]["init"].out = o])
<1> DEFINE u == [s.chan[p]["init"] EXCEPT !.out = o]
           t == [s EXCEPT !.chan[p]["init"].out = o]
<1>0. s \in Sys /\ "init" \in Channels BY DEF Good, Channels
<1>1. /\ t.chan = [s.chan EXCEPT ![p]["init"] = u]
      /\ t.eps = s.eps /\ t.ring = s.ring /\ t.fifo = s.fifo /\ t.told = s.told
      /\ t.hpp = s.hpp /\ t.q = s.q
  BY <1>0 DEF Sys
<1>2. t.chan \in [Procs -> [Channels -> Channel]] => t \in Sys BY <1>0 DEF Sys
<1>3. u \in Channel
  <2>1. s.chan[p]["init"] \in Channel BY <1>0 DEF Sys
  <2> QED BY <2>1, OutSet
<1> HIDE DEF t, u
<1>4. ("init" = "dn" /\ u.out = "open" => u.in) /\ "init" # "up" OBVIOUS
<1>5. Step(s, t) BY <1>0, <1>1, <1>2, <1>3, <1>4, ChanStep, Zenon
<1> QED BY <1>5 DEF t

\* Nothing stays in the pipe to the main thread, or its head is taken.
LEMMA HppTakenStep ==
  ASSUME NEW s, Good(s), NEW p \in Procs, NEW left \in Seq(Adrs),
         Range(left) \subseteq Range(s.hpp[p])
  PROVE  Step(s, [s EXCEPT !.hpp[p] = left])
<1> DEFINE t == [s EXCEPT !.hpp[p] = left]
<1>0. s \in Sys BY DEF Good
<1>1. /\ t.hpp = [s.hpp EXCEPT ![p] = left]
      /\ t.eps = s.eps /\ t.ring = s.ring /\ t.fifo = s.fifo /\ t.told = s.told
      /\ t.chan = s.chan /\ t.q = s.q
  BY <1>0 DEF Sys
<1>2. s.hpp \in [Procs -> Seq(Adrs)] BY <1>0 DEF Sys
<1>3. t.hpp[p] = left /\ \A r \in Procs : r # p => t.hpp[r] = s.hpp[r] BY <1>1, <1>2
<1>4. t.hpp \in [Procs -> Seq(Adrs)] BY <1>1, <1>2
<1>5. t \in Sys BY <1>0, <1>4 DEF Sys
<1> HIDE DEF t
<1>6. HppsOn(s, t)
  <2>1. \A r \in Procs : Range(t.hpp[r]) \subseteq Range(s.hpp[r]) BY <1>3
  <2> QED BY <2>1 DEF HppsOn
<1>7. Grows(s, t) /\ UpsOn(s, t) /\ ToldOn(s, t) BY <1>1 DEF Grows, UpsOn, ToldOn
<1>8. HeadsOn(s, t) /\ NewsOn(s, t) BY <1>1 DEF HeadsOn, NewsOn
<1>9. ChansOn(s, t) /\ QueuesOn(s, t) BY <1>1, SameChans, SameQueues
<1>10. Step(s, t) BY <1>5, <1>6, <1>7, <1>8, <1>9, FollowsGood DEF Follows, Step
<1> QED BY <1>10 DEF t

\* The working channel to the process below is made.
LEMMA DnMadeStep ==
  ASSUME NEW s, Good(s), NEW p \in Procs
  PROVE  Step(s, [s EXCEPT !.chan[p]["dn"].made = TRUE])
<1> DEFINE u == [s.chan[p]["dn"] EXCEPT !.made = TRUE]
           t == [s EXCEPT !.chan[p]["dn"].made = TRUE]
<1>0. s \in Sys /\ "dn" \in Channels BY DEF Good, Channels
<1>1. /\ t.chan = [s.chan EXCEPT ![p]["dn"] = u]
      /\ t.eps = s.eps /\ t.ring = s.ring /\ t.fifo = s.fifo /\ t.told = s.told
      /\ t.hpp = s.hpp /\ t.q = s.q
  BY <1>0 DEF Sys
<1>2. t.chan \in [Procs -> [Channels -> Channel]] => t \in Sys BY <1>0 DEF Sys
<1>3. u \in Channel /\ u.out = s.chan[p]["dn"].out /\ u.in = s.chan[p]["dn"].in
  <2>1. s.chan[p]["dn"] \in Channel BY <1>0 DEF Sys
  <2> QED BY <2>1, MadeSet
<1> HIDE DEF t, u
<1>4. ("dn" = "dn" /\ u.out = "open" => u.in) /\ "dn" # "up" BY <1>3 DEF Good, Chans
<1>5. Step(s, t) BY <1>0, <1>1, <1>2, <1>3, <1>4, ChanStep, Zenon
<1> QED BY <1>5 DEF t

LEMMA ForwardKeeps ==
  ASSUME IInv, Forward
  PROVE  IInv'
<1> DEFINE left == Tail(sys.hpp[2])
           a == [sys EXCEPT !.hpp[2] = left]
           b == [a EXCEPT !.chan[2]["dn"].made = TRUE]
           t == [b EXCEPT !.chan[2]["init"].out = "no"]
           adr == Head(sys.hpp[2])
           u == [main[2] EXCEPT !.at = "open", !.adr = adr]
<1>0. Good(sys) /\ sys \in Sys /\ 2 \in Procs /\ main \in [Procs -> Thread]
  BY DEF IInv, Good, Procs
<1>1. /\ sys.hpp[2] # <<>> /\ UNCHANGED <<done, stolen>>
      /\ main' = [main EXCEPT ![2].at = "open", ![2].adr = Head(sys.hpp[2])]
      /\ sys' = [sys EXCEPT !.hpp[2] = Tail(@), !.chan[2]["dn"].made = TRUE,
                            !.chan[2]["init"].out = "no"]
  BY DEF Forward
<1>2. main' = [main EXCEPT ![2] = u] BY <1>0, <1>1
<1>3. sys' = t BY <1>0, <1>1 DEF Sys
<1>4. /\ adr \in Adrs /\ adr \in Range(sys.hpp[2])
      /\ left \in Seq(Adrs) /\ Range(left) \subseteq Range(sys.hpp[2])
  <2>1. sys.hpp[2] \in Seq(Adrs) BY <1>0 DEF Sys
  <2> QED BY <1>1, <2>1, TailFacts
<1> HIDE DEF adr, left
<1>5. Step(sys, a) BY <1>0, <1>4, HppTakenStep
<1> HIDE DEF a
<1>6. Step(a, b) BY <1>0, <1>5, DnMadeStep DEF Step
<1> HIDE DEF b
<1>7. Step(b, t) BY <1>0, <1>6, InitOutStep DEF Step
<1>8. Step(sys, sys') BY <1>3, <1>5, <1>6, <1>7, StepsOn
<1>9. Known(sys', 2, adr)
  <2>1. Known(sys, 2, adr) BY <1>0, <1>4 DEF Good, Hpps
  <2> QED BY <1>0, <1>8, <2>1, Stays DEF Step
<1>10. u \in Thread /\ u.adr = adr BY <1>0, <1>4, NatAdr DEF Thread
<1> HIDE DEF u
<1>11. /\ main' \in [Procs -> Thread] /\ main'[2].adr = adr
       /\ \A r \in Procs : r # 2 => main'[r] = main[r]
  BY <1>0, <1>2, <1>10
<1>12. Mains(sys', main') BY <1>0, <1>8, <1>9, <1>11, MainsMove DEF IInv, Step
<1> QED BY <1>1, <1>8, <1>11, <1>12 DEF IInv, Step

LEMMA OpenInitKeeps ==
  ASSUME IInv, NEW p \in Above, OpenInit(p)
  PROVE  IInv'
<1> DEFINE a == [sys EXCEPT !.chan[p]["init"].out = "open"]
<1>0. Good(sys) /\ p \in Procs /\ main \in [Procs -> Thread] BY DEF IInv, Above, Procs
<1>1. /\ main[p].at = "open" /\ Go(p, "write") /\ UNCHANGED <<done, stolen>>
      /\ sys' = Notify(a, p + 1, "init", "open")
  BY DEF OpenInit, At
<1>2. Step(sys, a) BY <1>0, InitOutStep
<1> HIDE DEF a
<1>3. Step(a, sys')
  <2>1. p + 1 \in Int /\ "init" \in Channels /\ "open" \in Events
    BY DEF Above, Channels, Events
  <2> QED BY <1>1, <1>2, <2>1, NotifyStep DEF Step
<1>4. Step(sys, sys') BY <1>2, <1>3, StepsOn
<1>5. /\ main' \in [Procs -> Thread] /\ main'[p].adr = main[p].adr
      /\ \A r \in Procs : r # p => main'[r] = main[r]
  BY <1>0, <1>1, MainGoes
<1>6. Known(sys', p, main'[p].adr)
  <2>1. Known(sys, p, main[p].adr) BY <1>0, <1>1 DEF IInv, Mains
  <2> QED BY <1>0, <1>4, <1>5, <2>1, Stays DEF Step
<1>7. Mains(sys', main') BY <1>0, <1>4, <1>5, <1>6, MainsMove DEF IInv, Step
<1> QED BY <1>1, <1>4, <1>5, <1>7 DEF IInv, Step

LEMMA WriteInitKeeps ==
  ASSUME IInv, NEW p \in Above, WriteInit(p)
  PROVE  IInv'
<1> DEFINE n == Numep(sys, p, main[p].adr)
           h == [adr |-> main[p].adr, numep |-> n]
           q == p + 1
           t == [sys EXCEPT !.fifo[q]["init"] = Append(@, h)]
<1>0. /\ Good(sys) /\ sys \in Sys /\ p \in Procs /\ q \in Procs /\ q # 0 /\ q - 1 = p
      /\ main \in [Procs -> Thread]
  BY DEF IInv, Good, Above, Procs
<1>1. /\ main[p].at = "write" /\ Go(p, "wait") /\ UNCHANGED <<done, stolen>>
      /\ sys' = Notify(t, q, "init", "modify")
  BY DEF WriteInit, At
<1>2. HeadOK(sys, q, h)
  <2>1. Known(sys, p, main[p].adr) BY <1>0, <1>1 DEF IInv, Mains
  <2>2. n \in DOMAIN sys.eps[p] /\ sys.eps[p][n].adr = main[p].adr BY <1>0, <2>1, NumepFacts
  <2>3. n \in Nat /\ main[p].adr \in Adrs BY <1>0, <2>2, EpFacts
  <2> HIDE DEF n, q
  <2> QED BY <1>0, <2>2, <2>3 DEF HeadOK, Header, Is
<1> HIDE DEF h, q
<1>3. h \in Header BY <1>2 DEF HeadOK
<1>4. "init" \in Channels /\ "modify" \in Events BY DEF Channels, Events
<1>5. Step(sys, t)
  <2>1. /\ t.fifo = [sys.fifo EXCEPT ![q]["init"] = Append(@, h)]
        /\ t.eps = sys.eps /\ t.ring = sys.ring /\ t.told = sys.told /\ t.hpp = sys.hpp
        /\ t.chan = sys.chan /\ t.q = sys.q
    BY <1>0 DEF Sys
  <2>2. sys.fifo \in [Procs -> [Channels -> Seq(Header \cup Msg)]] BY <1>0 DEF Sys
  <2>3. sys.fifo[q]["init"] \in Seq(Header \cup Msg) /\ h \in Header \cup Msg BY <1>0, <1>3, <1>4, <2>2
  <2>4. t.fifo \in [Procs -> [Channels -> Seq(Header \cup Msg)]]
    <3>1. Append(sys.fifo[q]["init"], h) \in Seq(Header \cup Msg) BY <2>3, AppendFacts
    <3>2. [sys.fifo[q] EXCEPT !["init"] = Append(@, h)] \in [Channels -> Seq(Header \cup Msg)]
      BY <1>0, <2>2, <3>1
    <3> DEFINE f == [sys.fifo[q] EXCEPT !["init"] = Append(@, h)]
    <3>3. t.fifo = [sys.fifo EXCEPT ![q] = f] BY <2>1
    <3> HIDE DEF t
    <3> QED BY <2>2, <3>2, <3>3
  <2>5. t \in Sys BY <1>0, <2>1, <2>4 DEF Sys
  <2>6. t.fifo[q]["init"] = Append(sys.fifo[q]["init"], h) BY <1>0, <1>4, <2>1, <2>2
  <2>7. \A r \in Procs, d \in Channels : r # q \/ d # "init" => t.fifo[r][d] = sys.fifo[r][d]
    BY <2>1, <2>2
  <2> HIDE DEF t
  <2>8. HeadsOn(sys, t)
    <3>1. HeadOK(t, q, h) BY <1>2, <2>1 DEF HeadOK, Is
    <3>2. Range(t.fifo[q]["init"]) = Range(sys.fifo[q]["init"]) \cup {h} BY <2>3, <2>6, AppendFacts
    <3>3. \A r \in Procs : r # q => t.fifo[r]["init"] = sys.fifo[r]["init"] BY <1>4, <2>7
    <3> QED BY <2>1, <3>1, <3>2, <3>3 DEF HeadsOn
  <2>9. NewsOn(sys, t)
    <3>1. \A r \in Procs : \A d \in {"dn", "up"} : t.fifo[r][d] = sys.fifo[r][d]
      BY <2>7 DEF Channels
    <3> QED BY <3>1 DEF NewsOn
  <2>10. Grows(sys, t) /\ UpsOn(sys, t) /\ ToldOn(sys, t) /\ HppsOn(sys, t)
    BY <2>1 DEF Grows, UpsOn, ToldOn, HppsOn
  <2>11. ChansOn(sys, t) /\ QueuesOn(sys, t) BY <2>1, SameChans, SameQueues
  <2> QED BY <1>0, <2>5, <2>8, <2>9, <2>10, <2>11, FollowsGood DEF Follows, Step
<1> HIDE DEF t
<1>6. Step(t, sys')
  <2>1. q \in Int BY <1>0 DEF Procs
  <2> QED BY <1>1, <1>4, <1>5, <2>1, NotifyStep DEF Step
<1>7. Step(sys, sys') BY <1>5, <1>6, StepsOn
<1>8. /\ main' \in [Procs -> Thread] /\ main'[p].at = "wait"
      /\ \A r \in Procs : r # p => main'[r] = main[r]
  BY <1>0, <1>1, MainGoes
<1>9. Mains(sys', main') BY <1>0, <1>7, <1>8, MainsMove DEF IInv, Step
<1> QED BY <1>1, <1>7, <1>8, <1>9 DEF IInv, Step

LEMMA WakeKeeps ==
  ASSUME IInv, NEW p \in Above, Wake(p)
  PROVE  IInv'
<1> DEFINE place == IF p = 2 THEN "connect" ELSE "idle"
           a == [sys EXCEPT !.hpp[p] = <<>>]
           t == [a EXCEPT !.chan[p]["init"].out = "no"]
<1>0. /\ Good(sys) /\ sys \in Sys /\ p \in Procs /\ main \in [Procs -> Thread]
      /\ place \in {"idle", "open", "write", "wait", "connect"} /\ place \notin {"open", "write"}
  BY DEF IInv, Good, Above, Procs
<1>1. /\ main[p].at = "wait" /\ Go(p, place)
      /\ sys' = [sys EXCEPT !.hpp[p] = <<>>, !.chan[p]["init"].out = "no"]
      /\ done' = [done EXCEPT ![p] = @ \cup (Range(sys.hpp[p]) \cap {main[p].adr})]
      /\ stolen' = stolen \cup {<<p, adr>> : adr \in Range(sys.hpp[p]) \ {main[p].adr}}
  BY DEF Wake, At
<1> HIDE DEF place
<1>2. sys' = t BY <1>0, <1>1 DEF Sys
<1>3. Step(sys, a)
  <2>1. <<>> \in Seq(Adrs) /\ Range(<<>>) \subseteq Range(sys.hpp[p]) BY EmptyFacts
  <2> QED BY <1>0, <2>1, HppTakenStep
<1> HIDE DEF a
<1>4. Step(a, t) BY <1>0, <1>3, InitOutStep DEF Step
<1>5. Step(sys, sys') BY <1>2, <1>3, <1>4, StepsOn
<1>6. Range(sys.hpp[p]) \subseteq Adrs
  <2>1. sys.hpp[p] \in Seq(Adrs) BY <1>0 DEF Sys
  <2> QED BY <2>1, RangeFacts
<1>7. done' \in [Procs -> SUBSET Adrs] /\ stolen' \subseteq Procs \X Adrs
  BY <1>0, <1>1, <1>6 DEF IInv
<1>8. /\ main' \in [Procs -> Thread] /\ main'[p].at = place
      /\ \A r \in Procs : r # p => main'[r] = main[r]
  BY <1>0, <1>1, MainGoes
<1>9. Mains(sys', main') BY <1>0, <1>5, <1>8, MainsMove DEF IInv, Step
<1> QED BY <1>5, <1>7, <1>8, <1>9 DEF IInv, Step

LEMMA SendConnectKeeps ==
  ASSUME IInv, SendConnect
  PROVE  IInv'
<1>0. Good(sys) /\ 2 \in Procs /\ main \in [Procs -> Thread] BY DEF IInv, Procs
<1>1. /\ Go(2, "idle") /\ UNCHANGED <<done, stolen>>
      /\ sys' = ToEndpoint(sys, 2, "dn", "CONNECT", main[2].adr)
  BY DEF SendConnect
<1>2. Step(sys, sys') BY <1>0, <1>1, ToEndpointStep
<1>3. /\ main' \in [Procs -> Thread] /\ main'[2].at = "idle"
      /\ \A r \in Procs : r # 2 => main'[r] = main[r]
  BY <1>0, <1>1, MainGoes
<1>4. Mains(sys', main') BY <1>0, <1>2, <1>3, MainsMove DEF IInv, Step
<1> QED BY <1>1, <1>2, <1>3, <1>4 DEF IInv, Step

LEMMA AnswerKeeps ==
  ASSUME IInv, Answer
  PROVE  IInv'
<1>0. Good(sys) /\ sys \in Sys /\ 3 \in Procs BY DEF IInv, Good, Procs
<1>1. UNCHANGED <<main, done, stolen>> BY DEF Answer
<1>2. PICK adr \in sys.conn :
        sys' = ToEndpoint([sys EXCEPT !.conn = @ \ {adr}], 3, "up", "DATA", adr)
  BY DEF Answer
<1> DEFINE t == [sys EXCEPT !.conn = @ \ {adr}]
<1>3. Step(sys, t)
  <2>1. t \in Sys BY <1>0 DEF Sys
  <2>2. /\ t.eps = sys.eps /\ t.ring = sys.ring /\ t.fifo = sys.fifo /\ t.told = sys.told
        /\ t.hpp = sys.hpp /\ t.chan = sys.chan /\ t.q = sys.q
    BY <1>0 DEF Sys
  <2> HIDE DEF t
  <2> QED BY <1>0, <2>1, <2>2, SameChans, SameQueues, StepAside
<1> HIDE DEF t
<1>4. Step(t, sys')
  <2>1. sys' = ToEndpoint(t, 3, "up", "DATA", adr) BY <1>2 DEF t
  <2> QED BY <1>0, <1>3, <2>1, ToEndpointStep DEF Step
<1>5. Step(sys, sys') BY <1>3, <1>4, StepsOn
<1>6. Mains(sys', main') BY <1>1, <1>5, MainsStay DEF IInv, Step
<1> QED BY <1>1, <1>5, <1>6 DEF IInv, Step

LEMMA FirstGood == Good(FirstSys)
<1> DEFINE s == FirstSys
<1>1. /\ s.eps = [p \in Procs |-> <<>>] /\ s.ring = [p \in Procs |-> <<>>]
      /\ s.q = [p \in Procs |-> <<>>] /\ s.hpp = [p \in Procs |-> <<>>]
      /\ s.fifo = [p \in Procs |-> [c \in Channels |-> <<>>]]
      /\ s.told = [p \in Procs |-> {}]
      /\ s.chan = [p \in Procs |-> [c \in Channels |->
                     [NoChannel EXCEPT !.made = (c = "init")]]]
  BY DEF FirstSys
<1>2. s \in Sys
  <2>1. [p \in Procs |-> <<>>] \in [Procs -> Seq(Endpoint)] BY EmptyFacts
  <2>2. [p \in Procs |-> <<>>] \in [Procs -> Seq(Header)] BY EmptyFacts
  <2>3. [p \in Procs |-> <<>>] \in [Procs -> Seq(Adrs)] BY EmptyFacts
  <2>4. [p \in Procs |-> <<>>] \in [Procs -> Seq(Channels \X Events)] BY EmptyFacts
  <2>5. [p \in Procs |-> [c \in Channels |-> <<>>]] \in [Procs -> [Channels -> Seq(Header \cup Msg)]]
    BY EmptyFacts
  <2>6. [p \in Procs |-> {}] \in [Procs -> SUBSET Nat] OBVIOUS
  <2>7. [p \in Procs |-> [c \in Channels |-> [NoChannel EXCEPT !.made = (c = "init")]]]
          \in [Procs -> [Channels -> Channel]]
    BY DEF NoChannel, Channel
  <2>8. [p \in Procs |-> Events] \in [Procs -> SUBSET Events] OBVIOUS
  <2> QED BY <2>1, <2>2, <2>3, <2>4, <2>5, <2>6, <2>7, <2>8 DEF FirstSys, Sys
<1> HIDE DEF s
<1>3. Range(<<>>) = {} /\ DOMAIN <<>> = {} BY EmptyFacts
<1>4. Heads(s) /\ News(s) BY <1>1, <1>3 DEF Heads, News, Channels
<1>5. Ups(s) /\ Told(s) /\ Queues(s) /\ Hpps(s) BY <1>1, <1>3 DEF Ups, Told, Queues, Hpps
<1>6. Chans(s)
  <2>1. \A p \in Procs, c \in Channels : s.chan[p][c].out = "no" /\ s.chan[p][c].made = (c = "init")
    BY <1>1 DEF NoChannel
  <2>2. \A p \in Procs : /\ s.chan[p]["dn"].out = "no" /\ s.chan[p]["up"].out = "no"
                         /\ ~s.chan[p]["up"].made
    BY <2>1 DEF Channels
  <2> QED BY <2>2 DEF Chans
<1> QED BY <1>2, <1>4, <1>5, <1>6 DEF Good, s

LEMMA AgainGood == Good(AgainSys)
<1> DEFINE old == [i \in 1 .. Min({Len(Devices), MaxEp}) |->
                     [adr |-> Devices[i], up |-> 0, dn |-> i]]
           s == FirstSys
           a == [s EXCEPT !.eps[1] = old]
           t == [a EXCEPT !.chan[1]["dn"].made = TRUE]
<1>0. Good(s) /\ s \in Sys /\ 1 \in Procs BY FirstGood DEF Good, Procs
<1>1. AgainSys = t BY <1>0 DEF AgainSys, Sys
<1>2. s.eps = [p \in Procs |-> <<>>] /\ s.told = [p \in Procs |-> {}] BY DEF FirstSys
<1> HIDE DEF s
<1>3. old \in Seq(Endpoint) /\ \A i \in DOMAIN old : old[i].up = 0
  <2>1. /\ Len(Devices) \in Nat /\ MaxEp \in Nat
        /\ \A i \in 1 .. Len(Devices) : Devices[i] \in Range(Devices)
    BY SetupAssumption, RangeFacts DEF SetupAssumption
  <2> DEFINE room == Min({Len(Devices), MaxEp})
  <2>2. room \in Nat /\ room <= Len(Devices)
    <3> DEFINE sizes == {Len(Devices), MaxEp}
               Least(x) == \A y \in sizes : x <= y
    <3>1. \E x \in sizes : Least(x) BY <2>1
    <3>2. Min(sizes) = CHOOSE x \in sizes : Least(x) BY DEF Min
    <3>3. Min(sizes) \in sizes /\ Least(Min(sizes))
      <4> HIDE DEF sizes, Least
      <4> QED BY <3>1, <3>2
    <3> QED BY <2>1, <3>3
  <2>3. \A i \in 1 .. room : [adr |-> Devices[i], up |-> 0, dn |-> i] \in Endpoint
    <3> SUFFICES ASSUME NEW i \in 1 .. room
                 PROVE  [adr |-> Devices[i], up |-> 0, dn |-> i] \in Endpoint
      OBVIOUS
    <3>1. i \in 1 .. Len(Devices) /\ i \in Nat BY <2>1, <2>2
    <3>2. Devices[i] \in Adrs BY <2>1, <3>1 DEF Adrs
    <3> QED BY <3>1, <3>2 DEF Endpoint
  <2> HIDE DEF room
  <2>4. old \in Seq(Endpoint)
    <3>1. old = [i \in 1 .. room |-> [adr |-> Devices[i], up |-> 0, dn |-> i]] BY DEF room
    <3>2. old \in [1 .. room -> Endpoint] BY <2>3, <3>1
    <3> HIDE DEF old
    <3> QED BY <2>2, <3>2, SeqDef
  <2> QED BY <2>4
<1> HIDE DEF old
<1>4. Step(s, a)
  <2>1. /\ a.eps = [s.eps EXCEPT ![1] = old]
        /\ a.ring = s.ring /\ a.fifo = s.fifo /\ a.told = s.told /\ a.hpp = s.hpp
        /\ a.chan = s.chan /\ a.q = s.q
    BY <1>0 DEF Sys
  <2>2. s.eps \in [Procs -> Seq(Endpoint)] BY <1>0 DEF Sys
  <2>3. a.eps \in [Procs -> Seq(Endpoint)]
    <3> HIDE DEF a
    <3> QED BY <1>3, <2>1, <2>2
  <2>4. a \in Sys BY <1>0, <2>3 DEF Sys
  <2>5. a.eps[1] = old /\ \A p \in Procs : p # 1 => a.eps[p] = s.eps[p] BY <1>0, <2>1, <2>2
  <2> HIDE DEF a
  <2>6. \A p \in Procs : DOMAIN s.eps[p] = {} BY <1>2, EmptyFacts
  <2>7. Grows(s, a) BY <2>6 DEF Grows
  <2>8. UpsOn(s, a) BY <1>3, <2>5, <2>6 DEF UpsOn
  <2>9. ToldOn(s, a) BY <1>2, <2>1 DEF ToldOn
  <2>10. HeadsOn(s, a) /\ NewsOn(s, a) /\ HppsOn(s, a) BY <2>1 DEF HeadsOn, NewsOn, HppsOn
  <2>11. ChansOn(s, a) /\ QueuesOn(s, a) BY <2>1, SameChans, SameQueues
  <2> QED BY <1>0, <2>4, <2>7, <2>8, <2>9, <2>10, <2>11, FollowsGood DEF Follows, Step
<1> HIDE DEF a
<1>5. Step(a, t) BY <1>0, <1>4, DnMadeStep DEF Step
<1> QED BY <1>1, <1>5 DEF Step

LEMMA InitIInv == Init => IInv
<1> SUFFICES ASSUME Init PROVE IInv OBVIOUS
<1>1. PICK start \in {"startiec", "manager", "again"} :
        /\ sys = IF start = "again" THEN AgainSys ELSE FirstSys
        /\ main = [p \in Procs |->
               [at |-> "idle", adr |-> 0,
                left |-> CASE p = 0 /\ start = "startiec" -> <<Hmi>>
                           [] p = 1 -> IF start = "startiec" THEN Iec ELSE Devices
                           [] OTHER -> <<>>]]
        /\ done = [p \in Procs |-> {}] /\ stolen = {}
  BY DEF Init
<1>2. Good(sys) BY <1>1, FirstGood, AgainGood
<1>3. main \in [Procs -> Thread]
  <2>1. Iec \in Seq(Adrs) /\ Devices \in Seq(Adrs)
    <3>1. Iec \in Seq(Nat) /\ Devices \in Seq(Nat) BY SetupAssumption DEF SetupAssumption
    <3>2. Range(Iec) \subseteq Adrs /\ Range(Devices) \subseteq Adrs BY DEF Adrs
    <3> QED BY <3>1, <3>2, SeqWithin
  <2>2. <<Hmi>> \in Seq(Adrs) /\ <<>> \in Seq(Adrs)
    <3>1. Hmi \in Adrs BY DEF Adrs
    <3> QED BY <3>1
  <2> DEFINE left(p) == CASE p = 0 /\ start = "startiec" -> <<Hmi>>
                          [] p = 1 -> IF start = "startiec" THEN Iec ELSE Devices
                          [] OTHER -> <<>>
  <2>3. \A p \in Procs : left(p) \in Seq(Adrs) BY <2>1, <2>2
  <2>4. main = [p \in Procs |-> [at |-> "idle", adr |-> 0, left |-> left(p)]] BY <1>1
  <2> HIDE DEF left
  <2> QED BY <2>3, <2>4 DEF Thread
<1>4. Mains(sys, main) BY <1>1 DEF Mains
<1>5. done \in [Procs -> SUBSET Adrs] /\ stolen \subseteq Procs \X Adrs BY <1>1
<1> QED BY <1>2, <1>3, <1>4, <1>5 DEF IInv

LEMMA NextKeeps == IInv /\ [Next]_vars => IInv'
<1> SUFFICES ASSUME IInv, [Next]_vars PROVE IInv' OBVIOUS
<1>1. ASSUME NEW p \in Procs, Inotify(p) PROVE IInv' BY <1>1, InotifyKeeps
<1>2. ASSUME NEW p \in {0, 1}, Create(p) PROVE IInv' BY <1>2, CreateKeeps
<1>3. CASE Forward BY <1>3, ForwardKeeps
<1>4. CASE SendConnect BY <1>4, SendConnectKeeps
<1>5. CASE Answer BY <1>5, AnswerKeeps
<1>6. ASSUME NEW p \in Above, OpenInit(p) PROVE IInv' BY <1>6, OpenInitKeeps
<1>7. ASSUME NEW p \in Above, WriteInit(p) PROVE IInv' BY <1>7, WriteInitKeeps
<1>8. ASSUME NEW p \in Above, Wake(p) PROVE IInv' BY <1>8, WakeKeeps
<1>9. CASE UNCHANGED vars
  <2>1. sys' = sys /\ main' = main /\ done' = done /\ stolen' = stolen BY <1>9 DEF vars
  <2>2. Step(sys, sys') BY <2>1 DEF IInv, Step, Grows
  <2>3. Mains(sys', main') BY <2>1, <2>2, MainsStay DEF IInv, Step
  <2> QED BY <2>1, <2>2, <2>3 DEF IInv, Step
<1> QED BY <1>1, <1>2, <1>3, <1>4, <1>5, <1>6, <1>7, <1>8, <1>9 DEF Next

(***************************************************************************)
(* The theorems                                                            *)
(***************************************************************************)
\* The invariant holds: of the headers, the messages, the channels and the end-points
\* themselves (create_ep, newep2channelup, sys_open and sys_read, multififo.c:394-810).
THEOREM SetupInvariant == Spec => []IInv
<1> QED BY InitIInv, NextKeeps, PTL DEF Spec

\* Two processes never disagree about an end-point: a number that NEWEP has brought
\* (multififo.c:711) is that of an end-point below with the same address, which knows
\* the number above.  It holds however the threads overtake each other, whatever
\* signal cuts a sleep, and in a second try as in the first.
THEOREM PairedHolds == Spec => []Paired
<1>1. IInv => Paired
  <2> SUFFICES ASSUME IInv, NEW p \in Above, NEW n \in sys.told[p]
               PROVE  LET below == sys.eps[p][n].dn
                      IN  /\ below \in DOMAIN sys.eps[p + 1]
                          /\ sys.eps[p + 1][below].adr = sys.eps[p][n].adr
                          /\ sys.eps[p + 1][below].up = n
    BY DEF Paired
  <2> DEFINE below == sys.eps[p][n].dn
             q == p + 1
  <2>1. /\ p \in Procs /\ q \in Procs /\ q - 1 = p /\ sys \in Sys
        /\ Told(sys) /\ Ups(sys)
    BY DEF IInv, Good, Above, Procs
  <2>2. Pair(sys, p, n, below) BY <2>1 DEF Told
  <2>3. n \in DOMAIN sys.eps[p] /\ below \in DOMAIN sys.eps[q] /\ sys.eps[q][below].up = n
    BY <2>2 DEF Pair
  <2>4. n # 0 BY <2>1, <2>3, EpFacts
  <2> HIDE DEF q, below
  <2>5. Is(sys, q - 1, sys.eps[q][below].up, sys.eps[q][below].adr) BY <2>1, <2>3, <2>4 DEF Ups
  <2>6. sys.eps[p][n].adr = sys.eps[q][below].adr BY <2>1, <2>3, <2>5 DEF Is
  <2> QED BY <2>3, <2>6 DEF q, below
<1> QED BY <1>1, SetupInvariant, PTL
=============================================================================
