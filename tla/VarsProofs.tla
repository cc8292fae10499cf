----------------------------- MODULE VarsProofs -----------------------------
(***************************************************************************)
(* Proofs about the attached variables, for any menus and any number of    *)
(* messages on the way: HMI writes past the values of a variable only if   *)
(* the variable was given an address about which something was on the way  *)
(* (Within), and shows what startiec has when nothing is on the way        *)
(* (Settled).                                                              *)
(***************************************************************************)
EXTENDS Vars, SequenceTheorems, WellFoundedInduction, TLAPS

(***************************************************************************)
(* Numbers                                                                 *)
(***************************************************************************)
\* A set of natural numbers that is not empty has a least element.
LEMMA LeastElement ==
  ASSUME NEW T, T \subseteq Nat, T # {}
  PROVE  \E x \in T : \A y \in T : x <= y
<1> DEFINE R == OpToRel(<, Nat)
<1>1. IsWellFoundedOn(R, Nat) BY NatLessThanWellFounded
<1>2. \A x, y \in Nat : x < y => <<x, y>> \in R BY DEF OpToRel
<1> HIDE DEF R
<1>3. PICK x \in T : \A y \in T : ~ (<<y, x>> \in R) BY <1>1, WFMin
<1>4. ASSUME NEW y \in T PROVE x <= y
  <2>1. ~(y < x) BY <1>2, <1>3
  <2> QED BY <2>1
<1> QED BY <1>4

\* Induction: a set that holds 0 and with every natural number the next one holds
\* them all.
LEMMA Induct ==
  ASSUME NEW S, 0 \in S, \A n \in Nat : n \in S => n + 1 \in S
  PROVE  Nat \subseteq S
<1> DEFINE T == Nat \ S
<1> SUFFICES ASSUME T # {} PROVE FALSE OBVIOUS
<1>1. PICK x \in T : \A y \in T : x <= y BY LeastElement
<1>2. x # 0 /\ x - 1 \in Nat OBVIOUS
<1>3. x - 1 \notin T BY <1>1, <1>2
<1>4. (x - 1) + 1 \in S BY <1>2, <1>3
<1> QED BY <1>2, <1>4

(***************************************************************************)
(* Sequences and what is in them                                           *)
(***************************************************************************)
IsSeq(s) == s \in Seq(Range(s))

LEMMA SeqIs ==
  ASSUME NEW S, NEW s \in Seq(S)
  PROVE  IsSeq(s) /\ Range(s) \subseteq S
<1>1. DOMAIN s = 1 .. Len(s) /\ Len(s) \in Nat /\ \A k \in 1 .. Len(s) : s[k] \in S OBVIOUS
<1>2. \A k \in 1 .. Len(s) : s[k] \in Range(s) BY <1>1 DEF Range
<1>3. s \in [1 .. Len(s) -> Range(s)] BY <1>1, <1>2
<1>4. s \in Seq(Range(s)) BY <1>1, <1>3, IsASeq
<1> QED BY <1>1, <1>4 DEF IsSeq, Range

LEMMA SeqFacts ==
  ASSUME NEW s, IsSeq(s)
  PROVE  /\ Len(s) \in Nat /\ DOMAIN s = 1 .. Len(s)
         /\ Range(s) = {s[k] : k \in 1 .. Len(s)}
BY DEF IsSeq, Range

LEMMA EmptyIs == IsSeq(<<>>) /\ Range(<<>>) = {}
<1>1. DOMAIN <<>> = {} OBVIOUS
<1>2. Range(<<>>) = {} BY <1>1 DEF Range
<1>3. <<>> \in Seq(Range(<<>>)) OBVIOUS
<1> QED BY <1>2, <1>3 DEF IsSeq

\* A function on 1 .. n.
LEMMA FcnIs ==
  ASSUME NEW n \in Nat, NEW S, NEW f \in [1 .. n -> S]
  PROVE  IsSeq(f) /\ Len(f) = n /\ Range(f) \subseteq S
<1>1. f \in Seq(S) /\ Len(f) = n BY IsASeq
<1> QED BY <1>1, SeqIs

LEMMA ConcatIs ==
  ASSUME NEW s, NEW t, IsSeq(s), IsSeq(t)
  PROVE  IsSeq(s \o t) /\ Range(s \o t) = Range(s) \cup Range(t)
<1> DEFINE S == Range(s) \cup Range(t)
<1>1. s \in Seq(S) /\ t \in Seq(S) BY SeqMonotonic DEF IsSeq
<1>2. s \o t \in Seq(S) BY <1>1
<1>3. Range(s \o t) \subseteq S BY <1>2, SeqIs
<1> HIDE DEF S
<1>4. /\ Len(s \o t) = Len(s) + Len(t) /\ Len(s) \in Nat /\ Len(t) \in Nat
      /\ \A k \in 1 .. Len(s) : (s \o t)[k] = s[k]
      /\ \A k \in 1 .. Len(t) : (s \o t)[Len(s) + k] = t[k]
  BY <1>1
<1>5. \A k \in 1 .. Len(s) : s[k] \in Range(s \o t)
  <2>1. \A k \in 1 .. Len(s) : k \in 1 .. Len(s \o t) BY <1>4
  <2> QED BY <1>2, <1>4, <2>1 DEF Range
<1>6. \A k \in 1 .. Len(t) : t[k] \in Range(s \o t)
  <2>1. \A k \in 1 .. Len(t) : Len(s) + k \in 1 .. Len(s \o t) BY <1>4
  <2>2. \A j \in 1 .. Len(s \o t) : (s \o t)[j] \in Range(s \o t) 
    <3>1. IsSeq(s \o t) BY <1>2, SeqIs
    <3> QED BY <3>1, SeqFacts
  <2>3. \A k \in 1 .. Len(t) : (s \o t)[Len(s) + k] \in Range(s \o t) BY <2>1, <2>2
  <2> QED BY <1>4, <2>3
<1>7. S \subseteq Range(s \o t) BY <1>5, <1>6, SeqFacts DEF S
<1> QED BY <1>2, <1>3, <1>7, SeqIs DEF S

LEMMA AppendIs ==
  ASSUME NEW s, NEW e, IsSeq(s)
  PROVE  IsSeq(Append(s, e)) /\ Range(Append(s, e)) = Range(s) \cup {e} /\ Append(s, e) # <<>>
<1> DEFINE S == Range(s) \cup {e}
<1>1. s \in Seq(S) BY SeqMonotonic DEF IsSeq
<1>2. Append(s, e) \in Seq(S) BY <1>1
<1>3. Range(Append(s, e)) \subseteq S BY <1>2, SeqIs
<1> HIDE DEF S
<1>4. /\ Len(Append(s, e)) = Len(s) + 1 /\ Len(s) \in Nat
      /\ \A k \in 1 .. Len(s) : Append(s, e)[k] = s[k]
      /\ Append(s, e)[Len(s) + 1] = e
  BY <1>1, AppendProperties DEF S
<1>5. \A k \in 1 .. Len(s) : s[k] \in Range(Append(s, e))
  <2>1. \A k \in 1 .. Len(s) : k \in 1 .. Len(Append(s, e)) BY <1>4
  <2> QED BY <1>2, <1>4, <2>1 DEF Range
<1>6. e \in Range(Append(s, e))
  <2>1. Len(s) + 1 \in 1 .. Len(Append(s, e)) BY <1>4
  <2> QED BY <1>2, <1>4, <2>1 DEF Range
<1>7. S \subseteq Range(Append(s, e)) BY <1>5, <1>6, SeqFacts DEF S
<1>8. Append(s, e) # <<>> BY <1>4
<1> QED BY <1>2, <1>3, <1>7, <1>8, SeqIs DEF S

LEMMA SubSeqIs ==
  ASSUME NEW s, IsSeq(s), NEW m \in Int, NEW n \in Int, 1 <= m, n <= Len(s)
  PROVE  IsSeq(SubSeq(s, m, n)) /\ Range(SubSeq(s, m, n)) \subseteq Range(s)
<1>1. SubSeq(s, m, n) \in Seq(Range(s)) BY SeqFacts, SubSeqProperties DEF IsSeq
<1> QED BY <1>1, SeqIs

LEMMA TailIs ==
  ASSUME NEW s, IsSeq(s), s # <<>>
  PROVE  /\ IsSeq(Tail(s)) /\ Range(Tail(s)) \subseteq Range(s)
         /\ Head(s) \in Range(s)
<1>1. Tail(s) \in Seq(Range(s)) /\ Head(s) \in Range(s) BY DEF IsSeq
<1> QED BY <1>1, SeqIs

LEMMA LastIs ==
  ASSUME NEW s, IsSeq(s), s # <<>>
  PROVE  Last(s) \in Range(s) /\ Len(s) \in Nat /\ Len(s) > 0
<1>1. Len(s) \in Nat /\ Len(s) > 0 BY DEF IsSeq
<1> QED BY <1>1, SeqFacts DEF Last

LEMMA FrontIs ==
  ASSUME NEW s, IsSeq(s), s # <<>>
  PROVE  /\ IsSeq(Front(s)) /\ Range(Front(s)) \subseteq Range(s)
         /\ Len(Front(s)) = Len(s) - 1
<1>1. Len(s) \in Nat /\ Len(s) > 0 BY LastIs
<1>2. Front(s) = SubSeq(s, 1, Len(s) - 1) BY DEF Front
<1>3. Len(s) - 1 \in Int /\ Len(s) - 1 <= Len(s) BY <1>1
<1>4. Len(SubSeq(s, 1, Len(s) - 1)) = Len(s) - 1
  <2> DEFINE n == Len(s) - 1
  <2>1. \A i \in 1 .. n : s[i] \in Range(s) BY <1>1, SeqFacts
  <2>2. n \in Int /\ n >= 0 BY <1>1
  <2> HIDE DEF n
  <2>3. Len(SubSeq(s, 1, n)) = IF 1 <= n THEN n - 1 + 1 ELSE 0 BY <2>1, <2>2, SubSeqProperties
  <2>4. Len(SubSeq(s, 1, n)) = n BY <2>2, <2>3
  <2> QED BY <2>4 DEF n
<1> QED BY <1>2, <1>3, <1>4, SubSeqIs

(***************************************************************************)
(* The loops, unfolded                                                     *)
(***************************************************************************)
LEMMA OfKindLoop ==
  ASSUME NEW list, NEW logged, Len(list) \in Nat
  PROVE  \E f : /\ f[0] = <<>>
                /\ \A k \in 1 .. Len(list) :
                     f[k] = IF list[k].logged = logged THEN Append(f[k - 1], list[k]) ELSE f[k - 1]
                /\ OfKind(list, logged) = f[Len(list)]
<1> DEFINE Step(x, k) == IF list[k].logged = logged THEN Append(x, list[k]) ELSE x
           Is(f, n) == f = [k \in 0 .. n |-> IF k = 0 THEN <<>>
                                             ELSE IF list[k].logged = logged THEN Append(f[k - 1], list[k])
                                             ELSE f[k - 1]]
           S == {n \in Nat : \E f : Is(f, n)}
<1>1. 0 \in S
  <2> DEFINE f == [k \in 0 .. 0 |-> <<>>]
  <2>1. f = [k \in 0 .. 0 |-> IF k = 0 THEN <<>>
                              ELSE IF list[k].logged = logged THEN Append(f[k - 1], list[k]) ELSE f[k - 1]]
    OBVIOUS
  <2> QED BY <2>1
<1>2. ASSUME NEW n \in Nat, n \in S PROVE n + 1 \in S
  <2>1. PICK f : Is(f, n) BY <1>2
  <2> DEFINE g == [k \in 0 .. n + 1 |-> IF k <= n THEN f[k] ELSE Step(f[n], n + 1)]
             h == [k \in 0 .. n + 1 |-> IF k = 0 THEN <<>> ELSE Step(g[k - 1], k)]
  <2>2. \A k \in 0 .. n : f[k] = IF k = 0 THEN <<>> ELSE Step(f[k - 1], k) BY <2>1
  <2> HIDE DEF Step
  <2>3. ASSUME NEW k \in 0 .. n + 1 PROVE g[k] = h[k]
    <3>1. CASE k = 0 BY <3>1, <2>2
    <3>2. CASE k \in 1 .. n BY <3>2, <2>2
    <3>3. CASE k = n + 1 BY <3>3, <2>2
    <3> QED BY <3>1, <3>2, <3>3
  <2>4. g = h BY <2>3
  <2>5. Is(g, n + 1) BY <2>4 DEF Step
  <2> HIDE DEF g, h, Is
  <2>6. \E x : Is(x, n + 1) BY <2>5
  <2>7. n + 1 \in Nat OBVIOUS
  <2> QED BY <2>6, <2>7
<1> HIDE DEF S
<1>3. Len(list) \in S BY <1>1, <1>2, Induct
<1>4. PICK f : Is(f, Len(list)) BY <1>3 DEF S
<1> DEFINE after == CHOOSE x : Is(x, Len(list))
<1>5. Is(after, Len(list)) BY <1>4
<1>6. OfKind(list, logged) = after[Len(list)] BY DEF OfKind
<1> HIDE DEF after
<1>7. after[0] = <<>> BY <1>5
<1>8. ASSUME NEW k \in 1 .. Len(list) PROVE after[k] = Step(after[k - 1], k)
  <2>1. k \in 0 .. Len(list) /\ k # 0 OBVIOUS
  <2>2. after[k] = IF k = 0 THEN <<>>
                   ELSE IF list[k].logged = logged THEN Append(after[k - 1], list[k]) ELSE after[k - 1]
    BY <1>5, <2>1
  <2> QED BY <2>1, <2>2
<1> QED BY <1>6, <1>7, <1>8 DEF Step

LEMMA OfKindFacts ==
  ASSUME NEW list, IsSeq(list), NEW logged
  PROVE  /\ IsSeq(OfKind(list, logged))
         /\ Range(OfKind(list, logged)) = {v \in Range(list) : v.logged = logged}
<1> DEFINE n == Len(list)
           Upto(k) == {list[j] : j \in {i \in 1 .. k : list[i].logged = logged}}
<1>1. n \in Nat /\ Range(list) = {list[k] : k \in 1 .. n} BY SeqFacts
<1>2. PICK f : /\ f[0] = <<>>
               /\ \A k \in 1 .. n : f[k] = IF list[k].logged = logged THEN Append(f[k - 1], list[k]) ELSE f[k - 1]
               /\ OfKind(list, logged) = f[n]
  BY <1>1, OfKindLoop
<1> DEFINE S == {k \in Nat : k <= n => IsSeq(f[k]) /\ Range(f[k]) = Upto(k)}
<1>3. 0 \in S
  <2>1. Upto(0) = {} OBVIOUS
  <2> QED BY <1>2, <2>1, EmptyIs
<1>4. ASSUME NEW k \in Nat, k \in S PROVE k + 1 \in S
  <2> SUFFICES ASSUME k + 1 <= n PROVE IsSeq(f[k + 1]) /\ Range(f[k + 1]) = Upto(k + 1) OBVIOUS
  <2>1. IsSeq(f[k]) /\ Range(f[k]) = Upto(k) BY <1>1, <1>4
  <2>2. k + 1 \in 1 .. n /\ (k + 1) - 1 = k BY <1>1
  <2>3. f[k + 1] = IF list[k + 1].logged = logged THEN Append(f[k], list[k + 1]) ELSE f[k]
    BY <1>2, <2>2
  <2>4. CASE list[k + 1].logged = logged
    <3>1. Upto(k + 1) = Upto(k) \cup {list[k + 1]}
      <4>1. 1 .. k + 1 = (1 .. k) \cup {k + 1} OBVIOUS
      <4> QED BY <2>4, <4>1
    <3> QED BY <2>1, <2>3, <2>4, <3>1, AppendIs
  <2>5. CASE list[k + 1].logged # logged
    <3>1. Upto(k + 1) = Upto(k)
      <4>1. 1 .. k + 1 = (1 .. k) \cup {k + 1} OBVIOUS
      <4> QED BY <2>5, <4>1
    <3> QED BY <2>1, <2>3, <2>5, <3>1
  <2> QED BY <2>4, <2>5
<1> HIDE DEF S
<1>5. n \in S BY <1>1, <1>3, <1>4, Induct
<1>6. IsSeq(f[n]) /\ Range(f[n]) = Upto(n) BY <1>1, <1>5 DEF S
<1>7. Upto(n) = {v \in Range(list) : v.logged = logged} BY <1>1
<1> QED BY <1>2, <1>6, <1>7

(***************************************************************************)
(* The invariant                                                           *)
(***************************************************************************)
\* A varrec, in HMI or in a message.
Varrec(v) ==
  /\ v = [do |-> v.do, leaf |-> v.leaf, logged |-> v.logged, cell |-> v.cell, adr |-> v.adr,
          time |-> v.time, val |-> v.val]
  /\ IsSeq(v.val) /\ Len(v.val) > 0

Shaped(v) == Varrec(v) /\ (v.logged => v.time \in Times)

\* The variables of some menus.
Of(menus) == UNION {Range(m.vars) : m \in Range(menus)}

MenuOK(m) == m = [name |-> m.name, vars |-> m.vars] /\ m.name \in DOMAIN Menus /\ IsSeq(m.vars)

\* Menus that may be open: the variables at one address are of one size.
MenusOK(menus) ==
  /\ IsSeq(menus) /\ menus # <<>>
  /\ \A m \in Range(menus) : MenuOK(m)
  /\ \A v \in Of(menus) : Shaped(v)
  /\ \A v, w \in Of(menus) : v.cell = w.cell => DOMAIN v.val = DOMAIN w.val

\* What a message asks for has the size of what HMI has at the address.
Fits(m, v) == m.sys_msg = "VARATTACH" /\ m.of.cell = v.cell => DOMAIN m.of.val = DOMAIN v.val
InPlace(e, v) == e.uid = v.cell => e.validx \in DOMAIN v.val

\* Unless its address is crossed, whatever is on the way about a variable fits it.
WithinInv ==
  /\ MenusOK(open) /\ jourtime \in Times
  /\ IsSeq(dn) /\ IsSeq(up)
  /\ \A m \in Range(dn) : m.sys_msg = "VARATTACH" => Shaped(m.of)
  /\ \A v \in Of(open) : v.cell \notin crossed =>
       /\ \A m \in Range(dn) : Fits(m, v)
       /\ \A e \in Range(up) : InPlace(e, v)

LEMMA OfIs ==
  ASSUME NEW menus, IsSeq(menus)
  PROVE  Of(menus) = UNION {Range(menus[k].vars) : k \in DOMAIN menus}
BY SeqFacts DEF Of

LEMMA LiveIs ==
  ASSUME IsSeq(open)
  PROVE  Live = Of(open)
BY OfIs DEF Live

LEMMA WithinFromInv ==
  ASSUME WithinInv
  PROVE  Within
<1>1. Live = Of(open) BY LiveIs DEF WithinInv, MenusOK
<1>2. \A k \in DOMAIN up : up[k] \in Range(up) BY DEF Range
<1> QED BY <1>1, <1>2 DEF WithinInv, Within, InPlace

(***************************************************************************)
(* Variables and messages                                                  *)
(***************************************************************************)
LEMMA ClearedFacts ==
  ASSUME NEW s, IsSeq(s), Len(s) > 0
  PROVE  LET t == [k \in DOMAIN s |-> NoVal]
         IN  IsSeq(t) /\ Len(t) > 0 /\ DOMAIN t = DOMAIN s
<1>1. DOMAIN s = 1 .. Len(s) /\ Len(s) \in Nat BY SeqFacts
<1> DEFINE n == Len(s)
           t == [k \in 1 .. n |-> NoVal]
<1>2. n \in Nat /\ n > 0 BY <1>1
<1> HIDE DEF n
<1>3. t \in [1 .. n -> {NoVal}] OBVIOUS
<1>4. IsSeq(t) /\ Len(t) = n /\ DOMAIN t = 1 .. n BY <1>2, <1>3, FcnIs
<1> HIDE DEF t
<1>5. t = [k \in DOMAIN s |-> NoVal] BY <1>1 DEF t, n
<1> QED BY <1>1, <1>2, <1>4, <1>5 DEF n

LEMMA AskedFacts ==
  ASSUME NEW v, Varrec(v), NEW adr, NEW time \in Times
  PROVE  LET w == Asked(v, adr, time)
         IN  Shaped(w) /\ w.cell = v.cell /\ w.logged = v.logged /\ DOMAIN w.val = DOMAIN v.val
<1> DEFINE t == [k \in DOMAIN v.val |-> NoVal]
           w == Asked(v, adr, time)
<1>1. IsSeq(t) /\ Len(t) > 0 /\ DOMAIN t = DOMAIN v.val BY ClearedFacts DEF Shaped, Varrec
<1> HIDE DEF t
<1>2. w = [v EXCEPT !.adr = adr, !.time = IF v.logged THEN time ELSE @, !.val = t] BY DEF Asked, t
<1>3. w = [do |-> v.do, leaf |-> v.leaf, logged |-> v.logged, cell |-> v.cell, adr |-> adr,
           time |-> IF v.logged THEN time ELSE v.time, val |-> t]
  BY <1>2 DEF Shaped, Varrec
<1> HIDE DEF w
<1> SUFFICES Shaped(w) /\ w.cell = v.cell /\ w.logged = v.logged /\ DOMAIN w.val = DOMAIN v.val BY DEF w
<1> QED BY <1>1, <1>3 DEF Shaped, Varrec

LEMMA AttachMsgFacts ==
  ASSUME NEW v, Shaped(v)
  PROVE  LET m == AttachMsg(v)
         IN  /\ m.sys_msg = "VARATTACH" /\ Shaped(m.of)
             /\ m.of.cell = v.cell /\ DOMAIN m.of.val = DOMAIN v.val
<1> DEFINE t == [k \in DOMAIN v.val |-> NoVal]
           w == [v EXCEPT !.val = t]
<1>1. IsSeq(t) /\ Len(t) > 0 /\ DOMAIN t = DOMAIN v.val BY ClearedFacts DEF Shaped, Varrec
<1>2. AttachMsg(v) = [sys_msg |-> "VARATTACH", of |-> w] BY DEF AttachMsg
<1> HIDE DEF t
<1>3. w = [do |-> v.do, leaf |-> v.leaf, logged |-> v.logged, cell |-> v.cell, adr |-> v.adr,
           time |-> v.time, val |-> t]
  BY DEF Shaped, Varrec
<1> HIDE DEF w
<1>4. Shaped(w) /\ w.cell = v.cell /\ DOMAIN w.val = DOMAIN v.val BY <1>1, <1>3 DEF Shaped, Varrec
<1> QED BY <1>2, <1>4

LEMMA DetachMsgFacts ==
  ASSUME NEW m
  PROVE  IsSeq(DetachMsg(m)) /\ \A x \in Range(DetachMsg(m)) : x.sys_msg = "VARDETACH"
<1> DEFINE x == [sys_msg |-> "VARDETACH",
                 uids |-> [k \in DOMAIN OfKind(m.vars, FALSE) |-> OfKind(m.vars, FALSE)[k].cell]]
<1>1. DetachMsg(m) = IF m.vars = <<>> /\ ~Menus[m.name].consts THEN <<>> ELSE <<x>> BY DEF DetachMsg
<1>2. x.sys_msg = "VARDETACH" OBVIOUS
<1> HIDE DEF x
<1>3. <<x>> \in Seq({x}) OBVIOUS
<1>4. IsSeq(<<x>>) /\ Range(<<x>>) \subseteq {x} BY <1>3, SeqIs
<1> QED BY <1>1, <1>2, <1>4, EmptyIs

(***************************************************************************)
(* The keys                                                                *)
(***************************************************************************)
\* Some of the menus.
LEMMA SomeMenus ==
  ASSUME NEW menus, MenusOK(menus), NEW some, IsSeq(some), some # <<>>, Range(some) \subseteq Range(menus)
  PROVE  MenusOK(some) /\ Of(some) \subseteq Of(menus)
<1>1. Of(some) \subseteq Of(menus) BY DEF Of
<1> QED BY <1>1 DEF MenusOK

LEMMA MainIs == MenusOK(<<Main>>) /\ Of(<<Main>>) = {}
<1>1. <<Main>> \in Seq({Main}) OBVIOUS
<1>2. IsSeq(<<Main>>) /\ Range(<<Main>>) \subseteq {Main} BY <1>1, SeqIs
<1>3. MenuOK(Main) /\ Range(Main.vars) = {} BY EmptyIs, MenusAssumption DEF Main, MenuOK
<1>4. Of(<<Main>>) = {} BY <1>2, <1>3 DEF Of
<1> QED BY <1>2, <1>3, <1>4 DEF MenusOK

\* What a key leaves on the way when the menus are then what they are: a variable is
\* asked for, or was there before.
LEMMA AskKeeps ==
  ASSUME WithinInv, NEW menus, MenusOK(menus), NEW detached, NEW asked,
         IsSeq(detached), \A m \in Range(detached) : m.sys_msg = "VARDETACH",
         IsSeq(asked), Range(asked) \subseteq Of(menus),
         \A w \in Of(menus) : \/ w.cell \in {v.cell : v \in Range(asked)}
                              \/ \E v \in Of(open) : v.cell = w.cell /\ DOMAIN v.val = DOMAIN w.val,
         jourtime' \in Times, Ask(menus, detached, asked)
  PROVE  WithinInv'
<1> DEFINE cells == {v.cell : v \in Range(asked)}
           attached == [k \in DOMAIN asked |-> AttachMsg(asked[k])]
<1>1. /\ open' = menus /\ dn' = dn \o detached \o attached /\ up' = up
      /\ \A c \in cells : OnTheWay(c) => c \in crossed'
      /\ \A w \in Of(menus) : w.cell \in crossed /\ w.cell \notin cells => w.cell \in crossed'
  <2>1. open' = menus /\ dn' = dn \o detached \o attached /\ up' = up BY DEF Ask
  <2>2. \A c \in cells : OnTheWay(c) => c \in crossed' BY DEF Ask
  <2>3. Of(menus) = UNION {Range(menus[k].vars) : k \in DOMAIN menus} BY OfIs DEF MenusOK
  <2>4. \A w \in Of(menus) : w.cell \in crossed /\ w.cell \notin cells => w.cell \in crossed'
    BY <2>3 DEF Ask
  <2> QED BY <2>1, <2>2, <2>4
<1>2. /\ IsSeq(attached)
      /\ \A m \in Range(attached) : \E v \in Range(asked) : m = AttachMsg(v)
  <2>1. DOMAIN asked = 1 .. Len(asked) /\ Len(asked) \in Nat /\ Range(asked) = {asked[k] : k \in 1 .. Len(asked)}
    BY SeqFacts
  <2>2. attached \in [1 .. Len(asked) -> {AttachMsg(v) : v \in Range(asked)}] BY <2>1
  <2> HIDE DEF attached
  <2>3. IsSeq(attached) /\ Range(attached) \subseteq {AttachMsg(v) : v \in Range(asked)}
    BY <2>1, <2>2, FcnIs
  <2> QED BY <2>3
<1> HIDE DEF cells, attached
<1>3. /\ IsSeq(dn') /\ Range(dn') = Range(dn) \cup Range(detached) \cup Range(attached)
  BY <1>1, <1>2, ConcatIs DEF WithinInv
<1>4. \A v \in Range(asked) : Shaped(v) BY DEF MenusOK
<1>5. \A m \in Range(dn') : m.sys_msg = "VARATTACH" => Shaped(m.of)
  <2>1. \A m \in Range(detached) : m.sys_msg # "VARATTACH" OBVIOUS
  <2>2. \A m \in Range(attached) : Shaped(m.of) BY <1>2, <1>4, AttachMsgFacts
  <2> QED BY <1>3, <2>1, <2>2 DEF WithinInv
<1>6. ASSUME NEW w \in Of(menus), w.cell \notin crossed'
      PROVE  /\ \A m \in Range(dn') : Fits(m, w)
             /\ \A e \in Range(up) : InPlace(e, w)
  <2>1. \A m \in Range(detached) : Fits(m, w) BY DEF Fits
  <2>2. ASSUME NEW m \in Range(attached) PROVE Fits(m, w)
    <3>1. PICK v \in Range(asked) : m = AttachMsg(v) BY <1>2
    <3>2. m.of.cell = v.cell /\ DOMAIN m.of.val = DOMAIN v.val BY <1>4, <3>1, AttachMsgFacts
    <3>3. v \in Of(menus) OBVIOUS
    <3>4. v.cell = w.cell => DOMAIN v.val = DOMAIN w.val BY <3>3 DEF MenusOK
    <3> QED BY <3>2, <3>4 DEF Fits
  <2>3. CASE w.cell \in cells
    <3>1. ~OnTheWay(w.cell) BY <1>1, <1>6, <2>3
    <3>2. \A m \in Range(dn) : m.sys_msg = "VARATTACH" => m.of.cell # w.cell
      BY <3>1 DEF OnTheWay, Range
    <3>3. \A e \in Range(up) : e.uid # w.cell BY <3>1 DEF OnTheWay, Range
    <3>4. \A m \in Range(dn) : Fits(m, w) BY <3>2 DEF Fits
    <3>5. \A e \in Range(up) : InPlace(e, w) BY <3>3 DEF InPlace
    <3> QED BY <1>3, <2>1, <2>2, <3>4, <3>5
  <2>4. CASE w.cell \notin cells
    <3>1. PICK v \in Of(open) : v.cell = w.cell /\ DOMAIN v.val = DOMAIN w.val BY <2>4 DEF cells
    <3>2. v.cell \notin crossed BY <1>1, <1>6, <2>4, <3>1
    <3>3. \A m \in Range(dn) : Fits(m, v) BY <3>2 DEF WithinInv
    <3>4. \A e \in Range(up) : InPlace(e, v) BY <3>2 DEF WithinInv
    <3>5. \A m \in Range(dn) : Fits(m, w) BY <3>1, <3>3 DEF Fits
    <3>6. \A e \in Range(up) : InPlace(e, w) BY <3>1, <3>4 DEF InPlace
    <3> QED BY <1>3, <2>1, <2>2, <3>5, <3>6
  <2> QED BY <2>3, <2>4
<1>7. IsSeq(up) BY DEF WithinInv
<1> SUFFICES /\ MenusOK(open') /\ jourtime' \in Times
             /\ IsSeq(dn') /\ IsSeq(up')
             /\ \A m \in Range(dn') : m.sys_msg = "VARATTACH" => Shaped(m.of)
             /\ \A v \in Of(open') : v.cell \notin crossed' =>
                  /\ \A m \in Range(dn') : Fits(m, v)
                  /\ \A e \in Range(up') : InPlace(e, v)
  BY DEF WithinInv
<1> QED BY <1>1, <1>3, <1>5, <1>6, <1>7

\* The keys that only close menus.
LEMMA CloseKeeps ==
  ASSUME WithinInv, NEW menus, MenusOK(menus), Of(menus) \subseteq Of(open), NEW detached,
         IsSeq(detached), \A m \in Range(detached) : m.sys_msg = "VARDETACH",
         UNCHANGED jourtime, Ask(menus, detached, <<>>)
  PROVE  WithinInv'
<1>1. IsSeq(<<>>) /\ Range(<<>>) = {} BY EmptyIs
<1>2. jourtime' \in Times BY DEF WithinInv
<1>3. \A w \in Of(menus) : \E v \in Of(open) : v.cell = w.cell /\ DOMAIN v.val = DOMAIN w.val OBVIOUS
<1> QED BY <1>1, <1>2, <1>3, AskKeeps

\* The menu in view, asked again.
LEMMA RefreshKeeps ==
  ASSUME WithinInv, NEW menus, MenusOK(menus), Of(menus) \subseteq Of(open), NEW detached,
         IsSeq(detached), \A m \in Range(detached) : m.sys_msg = "VARDETACH",
         jourtime' \in Times, Refresh(menus, detached, jourtime')
  PROVE  WithinInv'
<1> DEFINE top == Last(menus)
           vs == top.vars
           time == jourtime'
           Again(v) == IF v.logged THEN Asked(v, actlnode, time) ELSE v
           again == [k \in DOMAIN vs |-> IF vs[k].logged THEN Asked(vs[k], actlnode, time) ELSE vs[k]]
           top2 == [top EXCEPT !.vars = again]
           menus2 == Append(Front(menus), top2)
           asked == OfKind(again, TRUE)
<1>1. Ask(menus2, detached, asked) BY DEF Refresh
<1>2. /\ top \in Range(menus) /\ MenuOK(top) /\ IsSeq(vs)
      /\ Range(vs) \subseteq Of(menus)
      /\ \A v \in Range(vs) : Shaped(v)
  BY LastIs DEF MenusOK, MenuOK, Of
<1>3. \A v \in Range(vs) : /\ Shaped(Again(v)) /\ Again(v).cell = v.cell
                            /\ DOMAIN Again(v).val = DOMAIN v.val
  BY <1>2, AskedFacts DEF Shaped
<1> HIDE DEF Again
<1>4. /\ IsSeq(again)
      /\ Range(again) \subseteq {Again(v) : v \in Range(vs)}
  <2>1. DOMAIN vs = 1 .. Len(vs) /\ Len(vs) \in Nat /\ Range(vs) = {vs[k] : k \in 1 .. Len(vs)}
    BY <1>2, SeqFacts
  <2> HIDE DEF vs
  <2>2. again \in [1 .. Len(vs) -> {Again(v) : v \in Range(vs)}] BY <2>1 DEF Again
  <2> HIDE DEF again
  <2> QED BY <2>1, <2>2, FcnIs
<1>5. top2 = [name |-> top.name, vars |-> again] BY <1>2 DEF MenuOK
<1> HIDE DEF again, top2
<1>6. MenuOK(top2) /\ top2.vars = again BY <1>2, <1>4, <1>5 DEF MenuOK
<1>7. /\ IsSeq(menus2) /\ menus2 # <<>>
      /\ Range(menus2) \subseteq Range(menus) \cup {top2} /\ top2 \in Range(menus2)
  <2>1. IsSeq(Front(menus)) /\ Range(Front(menus)) \subseteq Range(menus) BY FrontIs DEF MenusOK
  <2> QED BY <2>1, AppendIs
<1> HIDE DEF menus2, top
<1>8. \A w \in Of(menus2) : Shaped(w) /\ \E v \in Of(menus) : v.cell = w.cell /\ DOMAIN v.val = DOMAIN w.val
  <2>1. \A w \in Of(menus2) : w \in Of(menus) \/ w \in Range(again) BY <1>6, <1>7 DEF Of
  <2>2. \A w \in Range(again) :
          Shaped(w) /\ \E v \in Of(menus) : v.cell = w.cell /\ DOMAIN v.val = DOMAIN w.val
    BY <1>2, <1>3, <1>4
  <2>3. \A w \in Of(menus) : Shaped(w) BY DEF MenusOK
  <2> QED BY <2>1, <2>2, <2>3
<1>9. \A v, w \in Of(menus2) : v.cell = w.cell => DOMAIN v.val = DOMAIN w.val BY <1>8 DEF MenusOK
<1>10. MenusOK(menus2) BY <1>6, <1>7, <1>8, <1>9 DEF MenusOK
<1>11. IsSeq(asked) /\ Range(asked) \subseteq Of(menus2)
  <2>1. IsSeq(asked) /\ Range(asked) \subseteq Range(again) BY <1>4, OfKindFacts
  <2>2. Range(again) \subseteq Of(menus2) BY <1>6, <1>7 DEF Of
  <2> QED BY <2>1, <2>2
<1> HIDE DEF asked
<1>12. \A w \in Of(menus2) : \E v \in Of(open) : v.cell = w.cell /\ DOMAIN v.val = DOMAIN w.val BY <1>8
<1> QED BY <1>1, <1>10, <1>11, <1>12, AskKeeps

\* The variables of a new menu.
NewVars(m, at) ==
  [k \in DOMAIN Menus[m].items |-> Asked(NewVar(Menus[m].items[k], at[k]), actlnode, jourtime)]

LEMMA NewVarFacts ==
  ASSUME NEW item, NEW cell, item.max \in Nat \ {0}, jourtime \in Times
  PROVE  LET v == Asked(NewVar(item, cell), actlnode, jourtime)
         IN  Shaped(v) /\ v.cell = cell
<1> DEFINE n == item.max
           z == [j \in 1 .. n |-> NoVal]
           v == NewVar(item, cell)
<1>1. n \in Nat /\ n > 0 OBVIOUS
<1>2. v = [do |-> item.do, leaf |-> item.leaf, logged |-> item.logged, cell |-> cell, adr |-> actlnode,
           time |-> NoTime, val |-> z]
  BY DEF NewVar
<1> HIDE DEF n
<1>3. z \in [1 .. n -> {NoVal}] OBVIOUS
<1> HIDE DEF z
<1>4. IsSeq(z) /\ Len(z) > 0 BY <1>1, <1>3, FcnIs
<1> HIDE DEF v
<1>5. Varrec(v) /\ v.cell = cell BY <1>2, <1>4 DEF Varrec
<1> QED BY <1>5, AskedFacts DEF v

LEMMA NewVarsFacts ==
  ASSUME NEW m \in DOMAIN Menus, NEW free, NEW at \in [DOMAIN Menus[m].items -> free],
         IsInjective(at), jourtime \in Times
  PROVE  /\ IsSeq(NewVars(m, at))
         /\ \A v \in Range(NewVars(m, at)) : Shaped(v) /\ v.cell \in free
         /\ \A v, w \in Range(NewVars(m, at)) : v.cell = w.cell => v = w
<1> DEFINE items == Menus[m].items
           n == Len(items)
           Is(k) == Asked(NewVar(items[k], at[k]), actlnode, jourtime)
           new_vars == [k \in 1 .. n |-> Is(k)]
<1>1. /\ n \in Nat /\ DOMAIN items = 1 .. n
      /\ \A k \in 1 .. n : items[k].max \in Nat \ {0}
  <2>1. IsSeq(items) BY MenusAssumption DEF IsSeq
  <2>2. n \in Nat /\ DOMAIN items = 1 .. n /\ Range(items) = {items[k] : k \in 1 .. n} BY <2>1, SeqFacts
  <2> QED BY <2>2, MenusAssumption
<1>2. \A k \in 1 .. n : Shaped(Is(k)) /\ Is(k).cell = at[k] BY <1>1, NewVarFacts
<1>3. NewVars(m, at) = new_vars BY <1>1 DEF NewVars
<1>4. \A k \in 1 .. n : at[k] \in free BY <1>1
<1>5. \A j, k \in 1 .. n : at[j] = at[k] => j = k BY <1>1 DEF IsInjective
<1> HIDE DEF Is, items
<1>6. new_vars \in [1 .. n -> {Is(k) : k \in 1 .. n}] OBVIOUS
<1> HIDE DEF new_vars
<1>7. IsSeq(new_vars) /\ Range(new_vars) \subseteq {Is(k) : k \in 1 .. n} BY <1>1, <1>6, FcnIs
<1>8. \A v \in Range(new_vars) : Shaped(v) /\ v.cell \in free BY <1>2, <1>4, <1>7
<1>9. \A v, w \in Range(new_vars) : v.cell = w.cell => v = w BY <1>2, <1>5, <1>7
<1> QED BY <1>3, <1>7, <1>8, <1>9

LEMMA EnterMenuKeeps ==
  ASSUME WithinInv, EnterMenu
  PROVE  WithinInv'
<1>1. PICK m \in Menus[Top.name].into :
        \E at \in [DOMAIN Menus[m].items -> Cells \ InUse] :
          /\ IsInjective(at)
          /\ Ask(Append(open, [name |-> m, vars |-> NewVars(m, at)]), <<>>, NewVars(m, at))
          /\ UNCHANGED <<actlnode, jourtime>>
  BY DEF EnterMenu, NewVars
<1>a. PICK at \in [DOMAIN Menus[m].items -> Cells \ InUse] :
          /\ IsInjective(at)
          /\ Ask(Append(open, [name |-> m, vars |-> NewVars(m, at)]), <<>>, NewVars(m, at))
          /\ UNCHANGED <<actlnode, jourtime>>
  BY <1>1
<1> DEFINE new_vars == NewVars(m, at)
           menu == [name |-> m, vars |-> new_vars]
           menus == Append(open, menu)
           free == Cells \ InUse
<1>2. MenusOK(open) /\ jourtime \in Times BY DEF WithinInv
<1>3. m \in DOMAIN Menus
  <2>1. Top \in Range(open) BY <1>2, LastIs DEF MenusOK, Top
  <2>2. Top.name \in DOMAIN Menus BY <1>2, <2>1 DEF MenusOK, MenuOK
  <2> QED BY <2>2, MenusAssumption
<1>4. /\ IsSeq(new_vars)
      /\ \A v \in Range(new_vars) : Shaped(v) /\ v.cell \in free
      /\ \A v, w \in Range(new_vars) : v.cell = w.cell => v = w
  BY <1>2, <1>3, <1>a, NewVarsFacts
<1>5. Ask(menus, <<>>, new_vars) BY <1>a
<1> HIDE DEF new_vars
<1>6. MenuOK(menu) /\ menu.vars = new_vars BY <1>3, <1>4 DEF MenuOK
<1> HIDE DEF menu
<1>7. IsSeq(menus) /\ menus # <<>> /\ Range(menus) = Range(open) \cup {menu} BY <1>2, AppendIs DEF MenusOK
<1> HIDE DEF menus
<1>8. Of(menus) = Of(open) \cup Range(new_vars) BY <1>6, <1>7 DEF Of
<1>9. ASSUME NEW v \in Of(open), NEW w \in Range(new_vars) PROVE v.cell # w.cell
  <2>1. v \in Live BY <1>2, LiveIs DEF MenusOK
  <2> QED BY <1>4, <2>1 DEF InUse
<1>10. \A v, w \in Of(menus) : v.cell = w.cell => DOMAIN v.val = DOMAIN w.val
  BY <1>2, <1>4, <1>8, <1>9 DEF MenusOK
<1>11. MenusOK(menus) BY <1>2, <1>4, <1>6, <1>7, <1>8, <1>10 DEF MenusOK
<1>12. \A w \in Of(menus) : \/ w.cell \in {v.cell : v \in Range(new_vars)}
                            \/ \E v \in Of(open) : v.cell = w.cell /\ DOMAIN v.val = DOMAIN w.val
  BY <1>8
<1>13. Range(new_vars) \subseteq Of(menus) BY <1>8
<1>14. jourtime' \in Times BY <1>2, <1>a
<1> QED BY <1>4, <1>5, <1>11, <1>12, <1>13, <1>14, AskKeeps, EmptyIs

\* The menus under the one in view, if there are any, else the first again.
LEMMA UnderIs ==
  ASSUME NEW menus, MenusOK(menus)
  PROVE  /\ Len(menus) > 1 => MenusOK(Front(menus))
         /\ Front(menus) = <<>> \/ MenusOK(Front(menus))
         /\ MenusOK(Remade(Front(menus))) /\ Of(Remade(Front(menus))) \subseteq Of(menus)
         /\ Of(Front(menus)) \subseteq Of(menus)
<1> DEFINE some == Front(menus)
<1>1. IsSeq(some) /\ Range(some) \subseteq Range(menus) /\ Len(some) = Len(menus) - 1 BY FrontIs DEF MenusOK
<1> HIDE DEF some
<1>2. some = <<>> \/ MenusOK(some) BY <1>1, SomeMenus
<1>3. Of(some) \subseteq Of(menus) BY <1>1 DEF Of
<1>4. Len(menus) > 1 => some # <<>>
  <2>1. Len(menus) \in Nat BY LastIs DEF MenusOK
  <2> QED BY <1>1, <2>1
<1>5. MenusOK(Remade(some)) /\ Of(Remade(some)) \subseteq Of(menus) BY <1>2, <1>3, MainIs DEF Remade
<1> QED BY <1>2, <1>3, <1>4, <1>5 DEF some

LEMMA KeysKeep ==
  ASSUME WithinInv, Keys
  PROVE  WithinInv'
<1>1. MenusOK(open) BY DEF WithinInv
<1>2. CASE EnterMenu BY <1>2, EnterMenuKeeps
<1>3. CASE LeaveMenu
  <2>1. Ask(Under, DetachMsg(Top), <<>>) /\ UNCHANGED jourtime BY <1>3 DEF LeaveMenu
  <2>2. MenusOK(Under) /\ Of(Under) \subseteq Of(open) BY <1>1, <1>3, UnderIs DEF LeaveMenu, Under
  <2> QED BY <2>1, <2>2, CloseKeeps, DetachMsgFacts
<1>4. CASE LeaveForTime
  <2>1. Refresh(Under, DetachMsg(Top), jourtime') /\ jourtime' \in Times BY <1>4 DEF LeaveForTime
  <2>2. MenusOK(Under) /\ Of(Under) \subseteq Of(open) BY <1>1, <1>4, UnderIs DEF LeaveForTime, Under
  <2> QED BY <2>1, <2>2, RefreshKeeps, DetachMsgFacts
<1>5. CASE ChangeTime
  <2>1. Refresh(open, <<>>, jourtime') /\ jourtime' \in Times BY <1>5 DEF ChangeTime
  <2> QED BY <1>1, <2>1, RefreshKeeps, EmptyIs
<1>6. CASE ChangeLd
  <2>1. Ask(Remade(Under), DetachMsg(Top), <<>>) /\ UNCHANGED jourtime BY <1>6 DEF ChangeLd
  <2>2. MenusOK(Remade(Under)) /\ Of(Remade(Under)) \subseteq Of(open) BY <1>1, UnderIs DEF Under
  <2> QED BY <2>1, <2>2, CloseKeeps, DetachMsgFacts
<1>7. CASE SelectLd
  <2> DEFINE detached == DetachMsg(Top) \o DetachMsg(Last(Under))
  <2>1. Ask(Remade(Front(Under)), detached, <<>>) /\ UNCHANGED jourtime BY <1>7 DEF SelectLd
  <2>2. MenusOK(Under) /\ Of(Under) \subseteq Of(open) BY <1>1, <1>7, UnderIs DEF SelectLd, Under
  <2>3. MenusOK(Remade(Front(Under))) /\ Of(Remade(Front(Under))) \subseteq Of(Under)
    BY <2>2, UnderIs
  <2>4. IsSeq(detached) /\ \A m \in Range(detached) : m.sys_msg = "VARDETACH"
    BY DetachMsgFacts, ConcatIs
  <2> HIDE DEF detached
  <2> QED BY <2>1, <2>2, <2>3, <2>4, CloseKeeps
<1> QED BY <1>2, <1>3, <1>4, <1>5, <1>6, <1>7 DEF Keys

(***************************************************************************)
(* startiec                                                                *)
(***************************************************************************)
\* A value for what is asked for: it has a place.
Answers(e, v) == e.uid = v.cell /\ e.validx \in DOMAIN v.val

LEMMA VarAttachFacts ==
  ASSUME NEW acc, acc = [vr |-> acc.vr, up |-> acc.up], IsSeq(acc.up), NEW v, Shaped(v)
  PROVE  LET x == VarAttach(acc, v)
         IN  /\ x = [vr |-> x.vr, up |-> x.up] /\ IsSeq(x.up)
             /\ \A e \in Range(x.up) : e \in Range(acc.up) \/ Answers(e, v)
<1> DEFINE x == VarAttach(acc, v)
<1>1. DOMAIN v.val = 1 .. Len(v.val) /\ Len(v.val) \in Nat /\ Len(v.val) > 0
  BY SeqFacts DEF Shaped, Varrec
<1>2. CASE v.logged
  <2> DEFINE h == Held(v.time)
             n == IF h < Len(v.val) THEN h ELSE Len(v.val)
             Ev(i) == [uid |-> v.cell, validx |-> i, value |-> <<v.adr, v.do, v.time, i>>]
             evs == LogEvents(v)
  <2>1. evs = [i \in 1 .. n |-> Ev(i)] BY DEF LogEvents
  <2>2. h \in Nat BY <1>2, ArchiveAssumption DEF Shaped
  <2>3. n \in Nat /\ n <= Len(v.val) BY <1>1, <2>2
  <2> HIDE DEF evs, n
  <2>4. evs \in [1 .. n -> {Ev(i) : i \in 1 .. n}] BY <2>1
  <2>5. IsSeq(evs) /\ Range(evs) \subseteq {Ev(i) : i \in 1 .. n} BY <2>3, <2>4, FcnIs
  <2>6. \A i \in 1 .. n : Answers(Ev(i), v) BY <1>1, <2>3 DEF Answers
  <2> HIDE DEF Ev
  <2>7. \A e \in Range(evs) : Answers(e, v) BY <2>5, <2>6
  <2>8. x = [acc EXCEPT !.up = @ \o evs] BY <1>2 DEF VarAttach, evs
  <2>9. x = [vr |-> acc.vr, up |-> acc.up \o evs] BY <2>8
  <2> QED BY <2>5, <2>7, <2>9, ConcatIs
<1>3. CASE ~v.logged
  <2> DEFINE r == [acc.vr EXCEPT ![FindVarrec(v)].uid = v.cell, ![FindVarrec(v)].attaching = TRUE]
             e == Event(v.cell, acc.vr[FindVarrec(v)].val)
  <2>1. x = [vr |-> r, up |-> Append(acc.up, e)] BY <1>3 DEF VarAttach
  <2>2. Answers(e, v) BY <1>1 DEF Answers, Event
  <2> HIDE DEF r, e
  <2> QED BY <2>1, <2>2, AppendIs
<1> QED BY <1>2, <1>3

LEMMA RcvDataLoop ==
  ASSUME NEW batch, Len(batch) \in Nat
  PROVE  \E f : /\ f[0] = [vr |-> vr, up |-> up]
                /\ \A k \in 1 .. Len(batch) : f[k] = RcvMsg(batch, f[k - 1], k)
                /\ RcvData(batch) = f[Len(batch)]
<1> DEFINE base == [vr |-> vr, up |-> up]
           Is(f, n) == f = [k \in 0 .. n |-> IF k = 0 THEN base ELSE RcvMsg(batch, f[k - 1], k)]
           S == {n \in Nat : \E f : Is(f, n)}
<1> HIDE DEF base
<1>1. 0 \in S
  <2> DEFINE f == [k \in 0 .. 0 |-> base]
  <2>1. f = [k \in 0 .. 0 |-> IF k = 0 THEN base ELSE RcvMsg(batch, f[k - 1], k)] OBVIOUS
  <2>2. Is(f, 0) BY <2>1
  <2> QED BY <2>2
<1>2. ASSUME NEW n \in Nat, n \in S PROVE n + 1 \in S
  <2>1. PICK f : Is(f, n) BY <1>2
  <2> DEFINE g == [k \in 0 .. n + 1 |-> IF k <= n THEN f[k] ELSE RcvMsg(batch, f[n], n + 1)]
             h == [k \in 0 .. n + 1 |-> IF k = 0 THEN base ELSE RcvMsg(batch, g[k - 1], k)]
  <2>2. \A k \in 0 .. n : f[k] = IF k = 0 THEN base ELSE RcvMsg(batch, f[k - 1], k) BY <2>1
  <2>3. ASSUME NEW k \in 0 .. n + 1 PROVE g[k] = h[k]
    <3>1. CASE k = 0 BY <3>1, <2>2
    <3>2. CASE k \in 1 .. n BY <3>2, <2>2
    <3>3. CASE k = n + 1 BY <3>3, <2>2
    <3> QED BY <3>1, <3>2, <3>3
  <2>4. g = h BY <2>3
  <2>5. Is(g, n + 1) BY <2>4
  <2> HIDE DEF g, h, Is
  <2>6. \E x : Is(x, n + 1) BY <2>5
  <2>7. n + 1 \in Nat OBVIOUS
  <2> QED BY <2>6, <2>7
<1> HIDE DEF S
<1>3. Len(batch) \in S BY <1>1, <1>2, Induct
<1>4. PICK f : Is(f, Len(batch)) BY <1>3 DEF S
<1> DEFINE after == CHOOSE x : Is(x, Len(batch))
<1>5. Is(after, Len(batch)) BY <1>4
<1>6. RcvData(batch) = after[Len(batch)] BY DEF RcvData, base
<1> HIDE DEF after
<1>7. after[0] = base BY <1>5
<1>8. ASSUME NEW k \in 1 .. Len(batch) PROVE after[k] = RcvMsg(batch, after[k - 1], k)
  <2>1. k \in 0 .. Len(batch) /\ k # 0 OBVIOUS
  <2> QED BY <1>5, <2>1
<1> QED BY <1>6, <1>7, <1>8 DEF base

\* A batch brings nothing but answers to the attaches that are in it.
LEMMA RcvDataFacts ==
  ASSUME IsSeq(up), NEW batch, IsSeq(batch),
         \A m \in Range(batch) : m.sys_msg = "VARATTACH" => Shaped(m.of)
  PROVE  /\ IsSeq(RcvData(batch).up)
         /\ \A e \in Range(RcvData(batch).up) :
              \/ e \in Range(up)
              \/ \E m \in Range(batch) : m.sys_msg = "VARATTACH" /\ Answers(e, m.of)
<1> DEFINE n == Len(batch)
           Good(acc) == /\ acc = [vr |-> acc.vr, up |-> acc.up] /\ IsSeq(acc.up)
                        /\ \A e \in Range(acc.up) :
                             \/ e \in Range(up)
                             \/ \E m \in Range(batch) : m.sys_msg = "VARATTACH" /\ Answers(e, m.of)
<1>1. n \in Nat /\ \A k \in 1 .. n : batch[k] \in Range(batch) BY SeqFacts
<1>2. PICK f : /\ f[0] = [vr |-> vr, up |-> up]
               /\ \A k \in 1 .. n : f[k] = RcvMsg(batch, f[k - 1], k)
               /\ RcvData(batch) = f[n]
  BY <1>1, RcvDataLoop
<1> DEFINE S == {k \in Nat : k <= n => Good(f[k])}
<1>3. 0 \in S BY <1>2
<1>4. ASSUME NEW k \in Nat, k \in S PROVE k + 1 \in S
  <2> SUFFICES ASSUME k + 1 <= n PROVE Good(f[k + 1]) OBVIOUS
  <2> DEFINE acc == f[k]
             m == batch[k + 1]
  <2>1. Good(acc) BY <1>1, <1>4
  <2>2. k + 1 \in 1 .. n /\ (k + 1) - 1 = k BY <1>1
  <2>3. f[k + 1] = RcvMsg(batch, acc, k + 1) BY <1>2, <2>2
  <2>4. m \in Range(batch) BY <1>1, <2>2
  <2> HIDE DEF acc
  <2>5. CASE m.sys_msg = "VARATTACH"
    <3>1. f[k + 1] = VarAttach(acc, m.of) BY <2>3, <2>5 DEF RcvMsg
    <3>2. Shaped(m.of) BY <2>4, <2>5
    <3> HIDE DEF m
    <3>3. LET x == VarAttach(acc, m.of)
          IN  /\ x = [vr |-> x.vr, up |-> x.up] /\ IsSeq(x.up)
              /\ \A e \in Range(x.up) : e \in Range(acc.up) \/ Answers(e, m.of)
      BY <2>1, <3>2, VarAttachFacts
    <3> QED BY <2>1, <2>4, <2>5, <3>1, <3>3
  <2>6. CASE m.sys_msg # "VARATTACH"
    <3> DEFINE r == DetachUids(acc.vr, Uids(batch, k + 1))
    <3>1. f[k + 1] = [acc EXCEPT !.vr = r] BY <2>3, <2>6 DEF RcvMsg
    <3> HIDE DEF r
    <3>2. f[k + 1] = [vr |-> r, up |-> acc.up] BY <2>1, <3>1
    <3> QED BY <2>1, <3>2
  <2> QED BY <2>5, <2>6
<1> HIDE DEF S
<1>5. n \in S BY <1>1, <1>3, <1>4, Induct
<1>6. Good(f[n]) BY <1>1, <1>5 DEF S
<1> QED BY <1>2, <1>6

\* Events that are answers, or actual values.
LEMMA EventsKeep ==
  ASSUME WithinInv, UNCHANGED <<open, jourtime, crossed>>,
         IsSeq(dn'), Range(dn') \subseteq Range(dn), IsSeq(up'),
         \A e \in Range(up') : \/ e \in Range(up)
                               \/ \E m \in Range(dn) : m.sys_msg = "VARATTACH" /\ Answers(e, m.of)
                               \/ e.validx = 1
  PROVE  WithinInv'
<1>1. ASSUME NEW v \in Of(open), v.cell \notin crossed, NEW e \in Range(up') PROVE InPlace(e, v)
  <2>1. CASE e \in Range(up) BY <1>1, <2>1 DEF WithinInv
  <2>2. CASE \E m \in Range(dn) : m.sys_msg = "VARATTACH" /\ Answers(e, m.of)
    <3>1. PICK m \in Range(dn) : m.sys_msg = "VARATTACH" /\ Answers(e, m.of) BY <2>2
    <3>2. Fits(m, v) BY <1>1 DEF WithinInv
    <3> QED BY <3>1, <3>2 DEF Fits, Answers, InPlace
  <2>3. CASE e.validx = 1
    <3>1. IsSeq(v.val) /\ Len(v.val) > 0 BY DEF WithinInv, MenusOK, Shaped, Varrec
    <3>2. 1 \in DOMAIN v.val BY <3>1, SeqFacts
    <3> QED BY <2>3, <3>2 DEF InPlace
  <2> QED BY <2>1, <2>2, <2>3
<1> SUFFICES /\ MenusOK(open') /\ jourtime' \in Times
             /\ IsSeq(dn') /\ IsSeq(up')
             /\ \A m \in Range(dn') : m.sys_msg = "VARATTACH" => Shaped(m.of)
             /\ \A v \in Of(open') : v.cell \notin crossed' =>
                  /\ \A m \in Range(dn') : Fits(m, v)
                  /\ \A e \in Range(up') : InPlace(e, v)
  BY DEF WithinInv
<1>2. open' = open /\ jourtime' = jourtime /\ crossed' = crossed OBVIOUS
<1> QED BY <1>1, <1>2 DEF WithinInv

LEMMA FromHmiKeeps ==
  ASSUME WithinInv, FromHmi
  PROVE  WithinInv'
<1>1. PICK n \in DOMAIN dn :
        /\ up' = RcvData(SubSeq(dn, 1, n)).up
        /\ dn' = SubSeq(dn, n + 1, Len(dn))
        /\ UNCHANGED <<open, jourtime, crossed>>
  BY DEF FromHmi
<1> DEFINE batch == SubSeq(dn, 1, n)
<1>2. IsSeq(dn) /\ IsSeq(up) BY DEF WithinInv
<1>3. n \in Int /\ 1 <= n /\ n <= Len(dn) /\ Len(dn) \in Nat BY <1>2, SeqFacts
<1>4. IsSeq(batch) /\ Range(batch) \subseteq Range(dn) BY <1>2, <1>3, SubSeqIs
<1>5. IsSeq(dn') /\ Range(dn') \subseteq Range(dn) BY <1>1, <1>2, <1>3, SubSeqIs
<1> HIDE DEF batch
<1>6. \A m \in Range(batch) : m.sys_msg = "VARATTACH" => Shaped(m.of) BY <1>4 DEF WithinInv
<1>7. /\ IsSeq(RcvData(batch).up)
      /\ \A e \in Range(RcvData(batch).up) :
           \/ e \in Range(up)
           \/ \E m \in Range(batch) : m.sys_msg = "VARATTACH" /\ Answers(e, m.of)
  BY <1>2, <1>4, <1>6, RcvDataFacts
<1>8. up' = RcvData(batch).up BY <1>1 DEF batch
<1>9. \A e \in Range(up') : \/ e \in Range(up)
                            \/ \E m \in Range(dn) : m.sys_msg = "VARATTACH" /\ Answers(e, m.of)
  BY <1>4, <1>7, <1>8
<1> QED BY <1>1, <1>5, <1>7, <1>8, <1>9, EventsKeep

LEMMA FromMeterKeeps ==
  ASSUME WithinInv, FromMeter
  PROVE  WithinInv'
<1>1. PICK x, adr :
        LET done == AddVarevent([vr |-> vr, events |-> <<>>], x, adr)
        IN  up' = up \o [k \in DOMAIN done.events |-> Event(done.events[k].uid, done.events[k].value)]
  BY DEF FromMeter
<1> DEFINE events == AddVarevent([vr |-> vr, events |-> <<>>], x, adr).events
           evs == [k \in DOMAIN events |-> Event(events[k].uid, events[k].value)]
<1>2. IsSeq(events)
  <2> DEFINE acc == [vr |-> vr, events |-> <<>>]
             attached == {k \in {j \in RunOf(adr) : VarRecs[j].id = x.id} : acc.vr[k].attaching}
             e == [uid |-> acc.vr[Least(attached)].uid, value |-> Number(x)]
  <2>1. events = IF attached = {} THEN <<>> ELSE Append(<<>>, e) BY DEF AddVarevent
  <2> HIDE DEF attached, e
  <2> QED BY <2>1, EmptyIs, AppendIs
<1>3. up' = up \o evs BY <1>1
<1> HIDE DEF events
<1>4. DOMAIN events = 1 .. Len(events) /\ Len(events) \in Nat BY <1>2, SeqFacts
<1>5. evs \in [1 .. Len(events) -> {Event(events[k].uid, events[k].value) : k \in 1 .. Len(events)}] BY <1>4
<1> HIDE DEF evs
<1>6. IsSeq(evs) /\ \A e \in Range(evs) : e.validx = 1
  <2>1. IsSeq(evs) /\ Range(evs) \subseteq {Event(events[k].uid, events[k].value) : k \in 1 .. Len(events)}
    BY <1>4, <1>5, FcnIs
  <2> QED BY <2>1 DEF Event
<1>7. IsSeq(up') /\ Range(up') = Range(up) \cup Range(evs) BY <1>3, <1>6, ConcatIs DEF WithinInv
<1>8. UNCHANGED <<open, jourtime, crossed, dn>> BY DEF FromMeter
<1>9. IsSeq(dn') /\ Range(dn') \subseteq Range(dn) BY <1>8 DEF WithinInv
<1> QED BY <1>6, <1>7, <1>8, <1>9, EventsKeep

(***************************************************************************)
(* Events in HMI                                                           *)
(***************************************************************************)
LEMMA PutFacts ==
  ASSUME NEW v, Shaped(v), NEW i, NEW value
  PROVE  LET w == [v EXCEPT !.val[i] = value]
         IN  Shaped(w) /\ w.cell = v.cell /\ DOMAIN w.val = DOMAIN v.val
<1> DEFINE t == [v.val EXCEPT ![i] = value]
           w == [v EXCEPT !.val[i] = value]
           n == Len(v.val)
<1>1. DOMAIN v.val = 1 .. n /\ n \in Nat /\ n > 0 /\ \A k \in 1 .. n : v.val[k] \in Range(v.val)
  BY SeqFacts DEF Shaped, Varrec
<1>2. w = [do |-> v.do, leaf |-> v.leaf, logged |-> v.logged, cell |-> v.cell, adr |-> v.adr,
           time |-> v.time, val |-> t]
  BY DEF Shaped, Varrec
<1>3. t = [k \in 1 .. n |-> IF k = i THEN value ELSE v.val[k]] BY <1>1
<1> HIDE DEF t, n
<1>4. t \in [1 .. n -> Range(v.val) \cup {value}] BY <1>1, <1>3
<1>5. IsSeq(t) /\ Len(t) = n /\ DOMAIN t = DOMAIN v.val BY <1>1, <1>4, FcnIs
<1> HIDE DEF w
<1>6. Shaped(w) /\ w.cell = v.cell /\ DOMAIN w.val = DOMAIN v.val BY <1>1, <1>2, <1>5 DEF Shaped, Varrec
<1> QED BY <1>6 DEF w

LEMMA WriteVarFacts ==
  ASSUME MenusOK(open), NEW c, NEW i, NEW value
  PROVE  /\ MenusOK(WriteVar(c, i, value))
         /\ \A w \in Of(WriteVar(c, i, value)) :
              \E v \in Of(open) : v.cell = w.cell /\ DOMAIN v.val = DOMAIN w.val
<1> DEFINE put(v) == IF v.cell = c THEN [v EXCEPT !.val[i] = value] ELSE v
           menu(m) == [m EXCEPT !.vars = [j \in DOMAIN m.vars |-> put(m.vars[j])]]
           menus == [j \in DOMAIN open |-> menu(open[j])]
<1>1. menus = WriteVar(c, i, value) BY DEF WriteVar
<1>2. ASSUME NEW v \in Of(open)
      PROVE  Shaped(put(v)) /\ put(v).cell = v.cell /\ DOMAIN put(v).val = DOMAIN v.val
  <2> DEFINE w == [v EXCEPT !.val[i] = value]
  <2>1. Shaped(v) BY DEF MenusOK
  <2>2. Shaped(w) /\ w.cell = v.cell /\ DOMAIN w.val = DOMAIN v.val BY <2>1, PutFacts
  <2>3. put(v) = IF v.cell = c THEN w ELSE v OBVIOUS
  <2> HIDE DEF put, w
  <2> QED BY <2>1, <2>2, <2>3
<1> HIDE DEF put
<1>3. ASSUME NEW m \in Range(open)
      PROVE  /\ MenuOK(menu(m))
             /\ \A w \in Range(menu(m).vars) : \E v \in Of(open) : w = put(v)
  <2> DEFINE vs == m.vars
             ws == [j \in DOMAIN vs |-> put(vs[j])]
  <2>1. MenuOK(m) /\ Range(vs) \subseteq Of(open) BY DEF MenusOK, Of
  <2>2. menu(m) = [name |-> m.name, vars |-> ws] BY <2>1 DEF MenuOK
  <2>3. DOMAIN vs = 1 .. Len(vs) /\ Len(vs) \in Nat /\ \A j \in 1 .. Len(vs) : vs[j] \in Range(vs)
    BY <2>1, SeqFacts DEF MenuOK
  <2> HIDE DEF vs
  <2>4. ws \in [1 .. Len(vs) -> {put(v) : v \in Range(vs)}] BY <2>3
  <2> HIDE DEF ws
  <2>5. IsSeq(ws) /\ Range(ws) \subseteq {put(v) : v \in Range(vs)} BY <2>3, <2>4, FcnIs
  <2> HIDE DEF menu
  <2>6. MenuOK(menu(m)) BY <2>1, <2>2, <2>5 DEF MenuOK
  <2>7. \A w \in Range(menu(m).vars) : \E v \in Of(open) : w = put(v) BY <2>1, <2>2, <2>5
  <2> QED BY <2>6, <2>7
<1> HIDE DEF menu
<1>4. /\ IsSeq(menus) /\ menus # <<>>
      /\ Range(menus) \subseteq {menu(m) : m \in Range(open)}
  <2> DEFINE n == Len(open)
  <2>1. DOMAIN open = 1 .. n /\ n \in Nat /\ n > 0 /\ \A j \in 1 .. n : open[j] \in Range(open)
    BY SeqFacts, LastIs DEF MenusOK
  <2>2. menus \in [1 .. n -> {menu(m) : m \in Range(open)}] BY <2>1
  <2> HIDE DEF menus, n
  <2>3. IsSeq(menus) /\ Len(menus) = n /\ Range(menus) \subseteq {menu(m) : m \in Range(open)}
    BY <2>1, <2>2, FcnIs
  <2>4. menus # <<>> BY <2>1, <2>3
  <2> QED BY <2>3, <2>4
<1> HIDE DEF menus
<1>5. \A m \in Range(menus) : MenuOK(m) BY <1>3, <1>4
<1>6. ASSUME NEW w \in Of(menus)
      PROVE  Shaped(w) /\ \E v \in Of(open) : v.cell = w.cell /\ DOMAIN v.val = DOMAIN w.val
  <2>1. PICK m \in Range(open) : w \in Range(menu(m).vars) BY <1>4 DEF Of
  <2>2. PICK v \in Of(open) : w = put(v) BY <1>3, <2>1
  <2> QED BY <1>2, <2>2
<1>7. \A v, w \in Of(menus) : v.cell = w.cell => DOMAIN v.val = DOMAIN w.val BY <1>6 DEF MenusOK
<1>8. MenusOK(menus) BY <1>4, <1>5, <1>6, <1>7 DEF MenusOK
<1> QED BY <1>1, <1>6, <1>8

LEMMA SetVarByEventKeeps ==
  ASSUME WithinInv, SetVarByEvent
  PROVE  WithinInv'
<1>1. /\ up # <<>> /\ up' = Tail(up) /\ UNCHANGED <<jourtime, dn, crossed>>
      /\ \/ open' = open
         \/ open' = WriteVar(Head(up).uid, Head(up).validx, Head(up).value)
  BY DEF SetVarByEvent
<1>2. IsSeq(up') /\ Range(up') \subseteq Range(up) BY <1>1, TailIs DEF WithinInv
<1>3. /\ MenusOK(open')
      /\ \A w \in Of(open') : \E v \in Of(open) : v.cell = w.cell /\ DOMAIN v.val = DOMAIN w.val
  <2>1. MenusOK(open) BY DEF WithinInv
  <2> QED BY <1>1, <2>1, WriteVarFacts
<1>4. ASSUME NEW w \in Of(open'), w.cell \notin crossed
      PROVE  /\ \A m \in Range(dn) : Fits(m, w)
             /\ \A e \in Range(up') : InPlace(e, w)
  <2>1. PICK v \in Of(open) : v.cell = w.cell /\ DOMAIN v.val = DOMAIN w.val BY <1>3
  <2>2. v.cell \notin crossed BY <1>4, <2>1
  <2>3. \A m \in Range(dn) : Fits(m, v) BY <2>2 DEF WithinInv
  <2>4. \A e \in Range(up') : InPlace(e, v) BY <1>2, <2>2 DEF WithinInv
  <2> QED BY <2>1, <2>3, <2>4 DEF Fits, InPlace
<1>5. dn' = dn /\ crossed' = crossed /\ jourtime' = jourtime BY <1>1
<1> SUFFICES /\ MenusOK(open') /\ jourtime' \in Times
             /\ IsSeq(dn') /\ IsSeq(up')
             /\ \A m \in Range(dn') : m.sys_msg = "VARATTACH" => Shaped(m.of)
             /\ \A v \in Of(open') : v.cell \notin crossed' =>
                  /\ \A m \in Range(dn') : Fits(m, v)
                  /\ \A e \in Range(up') : InPlace(e, v)
  BY DEF WithinInv
<1>6. IsSeq(dn) /\ jourtime \in Times /\ \A m \in Range(dn) : m.sys_msg = "VARATTACH" => Shaped(m.of)
  BY DEF WithinInv
<1> QED BY <1>2, <1>3, <1>4, <1>5, <1>6

(***************************************************************************)
(* HMI writes past the values of a variable only if the variable was given *)
(* an address while something about that address was on the way            *)
(* (setvarbyevent in hmi/hmi.c): Within, for any menus, meters, archives   *)
(* and numbers of messages.                                                *)
(***************************************************************************)
THEOREM WithinHolds == Spec => []Within
<1>1. Init => WithinInv
  <2> SUFFICES ASSUME Init PROVE WithinInv OBVIOUS
  <2>1. MenusOK(open) /\ Of(open) = {} BY MainIs DEF Init
  <2>2. dn = <<>> /\ up = <<>> /\ jourtime \in Times BY DEF Init
  <2> QED BY <2>1, <2>2, EmptyIs DEF WithinInv
<1>2. WithinInv /\ [Next]_vars => WithinInv'
  <2> SUFFICES ASSUME WithinInv, [Next]_vars PROVE WithinInv' OBVIOUS
  <2>1. CASE Keys BY <2>1, KeysKeep
  <2>2. CASE FromHmi BY <2>2, FromHmiKeeps
  <2>3. CASE FromMeter BY <2>3, FromMeterKeeps
  <2>4. CASE SetVarByEvent BY <2>4, SetVarByEventKeeps
  <2>5. CASE UNCHANGED vars
    <3>1. UNCHANGED <<open, jourtime, crossed, dn, up>> BY <2>5 DEF vars
    <3>2. /\ IsSeq(dn') /\ Range(dn') \subseteq Range(dn)
          /\ IsSeq(up') /\ Range(up') \subseteq Range(up)
      BY <3>1 DEF WithinInv
    <3> QED BY <3>1, <3>2, EventsKeep
  <2> QED BY <2>1, <2>2, <2>3, <2>4, <2>5 DEF Next
<1>3. WithinInv => Within BY WithinFromInv
<1> QED BY <1>1, <1>2, <1>3, PTL DEF Spec

(***************************************************************************)
(* Settled: what is on the way, played to its end                          *)
(***************************************************************************)
Places == DOMAIN VarRecs

About(m, c) == IF m.sys_msg = "VARATTACH" THEN m.of.cell = c ELSE c \in Range(m.uids)

\* No event is for an address.
Rests(u, c) == \A i \in DOMAIN u : u[i].uid # c

\* Who holds which varrec of startiec, before and after a message.
Executes(a, m, b) ==
  \/ /\ m.sys_msg = "VARATTACH" /\ ~m.of.logged /\ m.of.cell \in Cells
     /\ LET K == FindVarrec(m.of)
        IN  /\ K \in Places /\ a[K] = NoUid
            /\ \A i \in Places : a[i] # m.of.cell
            /\ b = [i \in Places |-> IF i = K THEN m.of.cell ELSE a[i]]
  \/ m.sys_msg = "VARATTACH" /\ m.of.logged /\ b = a
  \/ /\ m.sys_msg = "VARDETACH" /\ IsSeq(m.uids) /\ Range(m.uids) \subseteq Cells
     /\ b = [i \in Places |-> IF a[i] \in Range(m.uids) THEN NoUid ELSE a[i]]

Distinct(a) == \A i, j \in Places : a[i] = a[j] /\ a[i] # NoUid => i = j
Without(a, c) == \A i \in Places : a[i] # c

\* The values of a journal.
Record(v, x) == IF x <= Held(v.time) THEN <<v.adr, v.do, v.time, x>> ELSE NoVal

\* What is on the way when messages k + 1 and on are in d, holders[j] hold the varrecs
\* after message j, and events u are underway.
JournalOK(v, holders, d, k, u) ==
  /\ \A j \in k .. Len(d) : Without(holders[j], v.cell)
  /\ \/ /\ \E p \in k + 1 .. Len(d) :
             /\ d[p].sys_msg = "VARATTACH" /\ d[p].of = v
             /\ \A j \in k + 1 .. Len(d) : j # p => ~About(d[j], v.cell)
        /\ Rests(u, v.cell) /\ \A x \in DOMAIN v.val : v.val[x] = NoVal
     \/ /\ \A j \in k + 1 .. Len(d) : ~About(d[j], v.cell)
        /\ \A i \in DOMAIN u : u[i].uid = v.cell =>
             u[i].validx \in DOMAIN v.val /\ u[i].value = Record(v, u[i].validx)
        /\ \A x \in DOMAIN v.val :
             v.val[x] = Record(v, x) \/ \E i \in DOMAIN u : u[i].uid = v.cell /\ u[i].validx = x

\* The last event for a variable, or what it shows, is the value of its varrec.
UpToDate(v, u, value) ==
  \/ Rests(u, v.cell) /\ v.val = <<value>>
  \/ \E i \in DOMAIN u : u[i] = Event(v.cell, value) /\ \A j \in i + 1 .. Len(u) : u[j].uid # v.cell

ActualOK(v, holders, d, k, u, r) ==
  LET K == FindVarrec(v)
  IN  \E p \in k .. Len(d) :
        /\ \A j \in p + 1 .. Len(d) : ~About(d[j], v.cell)
        /\ \A j \in p .. Len(d) : holders[j][K] = v.cell
        /\ IF p = k THEN UpToDate(v, u, r[K].val)
           ELSE d[p].sys_msg = "VARATTACH" /\ d[p].of.cell = v.cell /\ ~d[p].of.logged /\ FindVarrec(d[p].of) = K

\* A journal that is yet to be asked for.
Untouched(c, holders, d, k, u) ==
  /\ \A j \in k .. Len(d) : Without(holders[j], c)
  /\ \A j \in k + 1 .. Len(d) : ~About(d[j], c)
  /\ Rests(u, c)

Replays(holders, d, k, r) ==
  /\ \A j \in k + 1 .. Len(d) : Executes(holders[j - 1], d[j], holders[j])
  /\ holders[k] = [i \in Places |-> r[i].uid] /\ Distinct(holders[k])
  /\ r = [i \in Places |-> [val |-> r[i].val, uid |-> r[i].uid, attaching |-> (r[i].uid # NoUid)]]

Shown(v, holders, d, k, u, r, crosses) ==
  IF v.logged THEN v.cell \notin crosses => JournalOK(v, holders, d, k, u)
  ELSE ActualOK(v, holders, d, k, u, r)

\* All messages but for those about the variables with the addresses in waiting, which
\* are yet to be asked for.
Follows(menus, waiting, holders, d, k, u, r, crosses) ==
  /\ Replays(holders, d, k, r)
  /\ \A i \in Places : holders[Len(d)][i] # NoUid =>
       \E v \in Of(menus) : /\ ~v.logged /\ v.cell \notin waiting
                            /\ FindVarrec(v) = i /\ holders[Len(d)][i] = v.cell
  /\ \A v \in Of(menus) : v.cell \notin waiting => Shown(v, holders, d, k, u, r, crosses)
  /\ \A v \in Of(menus) : v.cell \in waiting /\ v.logged /\ v.cell \notin crosses =>
       Untouched(v.cell, holders, d, k, u)

(***************************************************************************)
(* The menus that are open                                                 *)
(***************************************************************************)
Clear(m, above) ==
  /\ Menus[m].into \subseteq above
  /\ \A n \in above : Menus[n].into \subseteq above /\ (Shows(m) => ~Shows(n))
Above(m) == CHOOSE above \in SUBSET DOMAIN Menus : Clear(m, above)

\* A variable of a menu.
NamedIn(v, m) ==
  /\ v.adr \in Lds /\ v.cell \in Cells /\ v.logged \in BOOLEAN
  /\ \E item \in Range(Menus[m].items) :
       v.do = item.do /\ v.leaf = item.leaf /\ v.logged = item.logged /\ Len(v.val) = item.max

OneEach(list) == \A x, y \in DOMAIN list : list[x].cell = list[y].cell => x = y

Arranged(menus) ==
  /\ \A i \in DOMAIN menus : OneEach(menus[i].vars)
  /\ \A i \in DOMAIN menus : \A v \in Range(menus[i].vars) : NamedIn(v, menus[i].name)
  /\ \A i, j \in DOMAIN menus : i < j => menus[j].name \in Above(menus[i].name)
  /\ \A i, j \in DOMAIN menus : \A v \in Range(menus[i].vars), w \in Range(menus[j].vars) :
       v.cell = w.cell => i = j
  /\ \A v, w \in Of(menus) : ~v.logged /\ ~w.logged /\ FindVarrec(v) = FindVarrec(w) => v = w

Playable == \E holders : Follows(open, {}, holders, dn, 0, up, vr, crossed)
SettledInv == WithinInv /\ Arranged(open) /\ actlnode \in Lds /\ (misread \/ Playable)

LEMMA OneEachCell ==
  ASSUME NEW menus, MenusOK(menus), Arranged(menus), NEW v \in Of(menus), NEW w \in Of(menus), v.cell = w.cell
  PROVE  v = w
<1>1. Of(menus) = UNION {Range(menus[k].vars) : k \in DOMAIN menus} BY OfIs DEF MenusOK
<1>2. PICK i \in DOMAIN menus : v \in Range(menus[i].vars) BY <1>1
<1>3. PICK j \in DOMAIN menus : w \in Range(menus[j].vars) BY <1>1
<1>4. i = j BY <1>2, <1>3 DEF Arranged
<1>5. PICK x \in DOMAIN menus[i].vars : v = menus[i].vars[x] BY <1>2 DEF Range
<1>6. PICK y \in DOMAIN menus[i].vars : w = menus[i].vars[y] BY <1>3, <1>4 DEF Range
<1>7. OneEach(menus[i].vars) BY DEF Arranged
<1>8. x = y BY <1>5, <1>6, <1>7 DEF OneEach
<1> QED BY <1>5, <1>6, <1>8

LEMMA PlacesAre == Places \subseteq Nat
<1>1. IsSeq(VarRecs) BY TableAssumption DEF IsSeq
<1>2. DOMAIN VarRecs = 1 .. Len(VarRecs) /\ Len(VarRecs) \in Nat BY <1>1, SeqFacts
<1> HIDE DEF VarRecs
<1> QED BY <1>2 DEF Places

LEMMA LeastIs ==
  ASSUME NEW S, S \subseteq Nat, S # {}
  PROVE  Least(S) \in S /\ \A x \in S : Least(S) <= x
<1>1. \E x \in S : \A y \in S : x <= y BY LeastElement
<1> QED BY <1>1 DEF Least

LEMMA FindFacts ==
  ASSUME NEW v, NEW m \in DOMAIN Menus, NEW item \in Range(Menus[m].items),
         v.adr \in Lds, v.do = item.do, v.leaf = item.leaf
  PROVE  /\ FindVarrec(v) \in Places
         /\ VarRecs[FindVarrec(v)].asdu = v.adr
         /\ VarRecs[FindVarrec(v)].name = v.do /\ VarRecs[FindVarrec(v)].leaf = v.leaf
<1> DEFINE named == {k \in Places : VarRecs[k].asdu = v.adr /\ VarRecs[k].name = v.do /\ VarRecs[k].leaf = v.leaf}
           w == [adr |-> v.adr, do |-> item.do, leaf |-> item.leaf]
<1>1. FindVarrec(v) = IF named = {} THEN 0 ELSE Least(named) BY DEF FindVarrec, Places
<1>2. FindVarrec(w) = IF named = {} THEN 0 ELSE Least(named) BY DEF FindVarrec, Places
<1>3. FindVarrec(w) # 0 BY NamesAssumption DEF Range
<1> HIDE DEF named
<1>4. named # {} BY <1>2, <1>3
<1>5. named \subseteq Nat BY PlacesAre DEF named
<1>6. FindVarrec(v) \in named BY <1>1, <1>4, <1>5, LeastIs
<1> QED BY <1>6 DEF named

(***************************************************************************)
(* A message more on the way                                               *)
(***************************************************************************)
LEMMA ExecutesKeeps ==
  ASSUME NEW a, NEW m, NEW b, Executes(a, m, b), NEW c \in Cells, ~About(m, c)
  PROVE  /\ \A i \in Places : a[i] = c => b[i] = c
         /\ Without(a, c) => Without(b, c)
<1>1. c # NoUid BY CellsAssumption
<1>2. CASE m.sys_msg = "VARATTACH" /\ ~m.of.logged
  <2>1. m.of.cell # c BY <1>2 DEF About
  <2> QED BY <1>1, <1>2, <2>1 DEF Executes, Without
<1>3. CASE m.sys_msg = "VARATTACH" /\ m.of.logged BY <1>3 DEF Executes, Without
<1>4. CASE m.sys_msg = "VARDETACH"
  <2>1. c \notin Range(m.uids) BY <1>4 DEF About
  <2> QED BY <1>1, <1>4, <2>1 DEF Executes, Without
<1> QED BY <1>2, <1>3, <1>4 DEF Executes

LEMMA ExecutesDistinct ==
  ASSUME NEW a, NEW m, NEW b, Executes(a, m, b), Distinct(a)
  PROVE  Distinct(b)
<1>1. CASE m.sys_msg = "VARATTACH" /\ ~m.of.logged
  BY <1>1, CellsAssumption DEF Executes, Distinct
<1>2. CASE m.sys_msg = "VARATTACH" /\ m.of.logged BY <1>2 DEF Executes
<1>3. CASE m.sys_msg = "VARDETACH" BY <1>3 DEF Executes, Distinct
<1> QED BY <1>1, <1>2, <1>3 DEF Executes

\* d2 is d and the message m.
Extends(d2, d, m) ==
  /\ Len(d) \in Nat /\ Len(d2) = Len(d) + 1
  /\ \A j \in 1 .. Len(d) : d2[j] = d[j]
  /\ d2[Len(d) + 1] = m
Longer(holders2, holders, d, m, b) ==
  /\ \A j \in 0 .. Len(d) : holders2[j] = holders[j]
  /\ holders2[Len(d) + 1] = b /\ Executes(holders[Len(d)], m, b)

LEMMA LongerExists ==
  ASSUME NEW holders, NEW d, Len(d) \in Nat, NEW m, NEW b, Executes(holders[Len(d)], m, b)
  PROVE  \E holders2 : Longer(holders2, holders, d, m, b)
<1> DEFINE g == [j \in 0 .. Len(d) + 1 |-> IF j <= Len(d) THEN holders[j] ELSE b]
<1>1. \A j \in 0 .. Len(d) : g[j] = holders[j] OBVIOUS
<1>2. g[Len(d) + 1] = b OBVIOUS
<1> HIDE DEF g
<1>3. Longer(g, holders, d, m, b) BY <1>1, <1>2 DEF Longer
<1> QED BY <1>3

LEMMA ReplaysLonger ==
  ASSUME NEW holders, NEW holders2, NEW d, NEW d2, NEW m, NEW b, NEW r,
         Extends(d2, d, m), Longer(holders2, holders, d, m, b), Replays(holders, d, 0, r)
  PROVE  Replays(holders2, d2, 0, r)
<1> DEFINE n == Len(d)
<1>1. n \in Nat /\ Len(d2) = n + 1 BY DEF Extends
<1>2. ASSUME NEW j \in 1 .. n + 1 PROVE Executes(holders2[j - 1], d2[j], holders2[j])
  <2>1. CASE j \in 1 .. n
    <3>1. j - 1 \in 0 .. n /\ j \in 0 .. n BY <2>1
    <3>2. Executes(holders[j - 1], d[j], holders[j]) BY <1>1, <2>1 DEF Replays
    <3> QED BY <2>1, <3>1, <3>2 DEF Extends, Longer
  <2>2. CASE j = n + 1
    <3>1. j - 1 = n /\ n \in 0 .. n BY <1>1, <2>2
    <3> QED BY <2>2, <3>1 DEF Extends, Longer
  <2> QED BY <1>1, <2>1, <2>2
<1>3. holders2[0] = holders[0] BY <1>1 DEF Longer
<1> QED BY <1>1, <1>2, <1>3 DEF Replays

LEMMA UntouchedLonger ==
  ASSUME NEW holders, NEW holders2, NEW d, NEW d2, NEW m, NEW b, NEW u, NEW c \in Cells, ~About(m, c),
         Extends(d2, d, m), Longer(holders2, holders, d, m, b), Untouched(c, holders, d, 0, u)
  PROVE  Untouched(c, holders2, d2, 0, u)
<1> DEFINE n == Len(d)
<1>1. n \in Nat /\ Len(d2) = n + 1 BY DEF Extends
<1>2. ASSUME NEW j \in 0 .. n + 1 PROVE Without(holders2[j], c)
  <2>1. CASE j \in 0 .. n BY <2>1 DEF Longer, Untouched
  <2>2. CASE j = n + 1
    <3>1. Without(holders[n], c) BY <1>1 DEF Untouched
    <3> QED BY <2>2, <3>1, ExecutesKeeps DEF Longer
  <2> QED BY <1>1, <2>1, <2>2
<1>3. ASSUME NEW j \in 1 .. n + 1 PROVE ~About(d2[j], c)
  <2>1. CASE j \in 1 .. n BY <2>1 DEF Extends, Untouched
  <2>2. CASE j = n + 1 BY <2>2 DEF Extends
  <2> QED BY <1>1, <2>1, <2>2
<1> QED BY <1>1, <1>2, <1>3 DEF Untouched

LEMMA JournalLonger ==
  ASSUME NEW holders, NEW holders2, NEW d, NEW d2, NEW m, NEW b, NEW u, NEW v, v.cell \in Cells, ~About(m, v.cell),
         Extends(d2, d, m), Longer(holders2, holders, d, m, b), JournalOK(v, holders, d, 0, u)
  PROVE  JournalOK(v, holders2, d2, 0, u)
<1> DEFINE n == Len(d)
           c == v.cell
<1>1. n \in Nat /\ Len(d2) = n + 1 BY DEF Extends
<1>2. ASSUME NEW j \in 0 .. n + 1 PROVE Without(holders2[j], c)
  <2>1. CASE j \in 0 .. n BY <2>1 DEF Longer, JournalOK
  <2>2. CASE j = n + 1
    <3>1. n \in 0 .. n BY <1>1
    <3>2. Without(holders[n], c) BY <3>1 DEF JournalOK
    <3> QED BY <2>2, <3>2, ExecutesKeeps DEF Longer
  <2> QED BY <1>1, <2>1, <2>2
<1>3. \A j \in 1 .. n + 1 : (j \in 1 .. n /\ d2[j] = d[j]) \/ (j = n + 1 /\ ~About(d2[j], c))
  <2>1. ~About(d2[n + 1], c) BY DEF Extends
  <2>2. \A j \in 1 .. n : d2[j] = d[j] BY DEF Extends
  <2> HIDE DEF n
  <2>3. \A j \in 1 .. n + 1 : j \in 1 .. n \/ j = n + 1 BY <1>1
  <2> QED BY <2>1, <2>2, <2>3
<1>4. CASE \E p \in 1 .. n : /\ d[p].sys_msg = "VARATTACH" /\ d[p].of = v
                             /\ \A j \in 1 .. n : j # p => ~About(d[j], c)
  <2>1. PICK p \in 1 .. n : /\ d[p].sys_msg = "VARATTACH" /\ d[p].of = v
                            /\ \A j \in 1 .. n : j # p => ~About(d[j], c)
    BY <1>4
  <2>2. p \in 1 .. n + 1 /\ d2[p] = d[p] BY <1>1 DEF Extends
  <2>3. \A j \in 1 .. n + 1 : j # p => ~About(d2[j], c) BY <1>3, <2>1
  <2>4. c = d[p].of.cell BY <2>1
  <2>5. About(d[p], c) BY <2>1, <2>4 DEF About
  <2>6. Rests(u, c) /\ \A x \in DOMAIN v.val : v.val[x] = NoVal BY <1>1, <2>5 DEF JournalOK
  <2> QED BY <1>1, <1>2, <2>1, <2>2, <2>3, <2>6 DEF JournalOK
<1>5. CASE ~ \E p \in 1 .. n : /\ d[p].sys_msg = "VARATTACH" /\ d[p].of = v
                               /\ \A j \in 1 .. n : j # p => ~About(d[j], c)
  <2>1. \A j \in 1 .. n : ~About(d[j], c) BY <1>1, <1>5 DEF JournalOK
  <2>2. \A j \in 1 .. n + 1 : ~About(d2[j], c) BY <1>3, <2>1
  <2> QED BY <1>1, <1>2, <1>5, <2>2 DEF JournalOK
<1> QED BY <1>4, <1>5

LEMMA ActualLonger ==
  ASSUME NEW holders, NEW holders2, NEW d, NEW d2, NEW m, NEW b, NEW u, NEW r, NEW v,
         v.cell \in Cells, FindVarrec(v) \in Places, ~About(m, v.cell),
         Extends(d2, d, m), Longer(holders2, holders, d, m, b), ActualOK(v, holders, d, 0, u, r)
  PROVE  ActualOK(v, holders2, d2, 0, u, r)
<1> DEFINE n == Len(d)
           c == v.cell
           K == FindVarrec(v)
<1>1. n \in Nat /\ Len(d2) = n + 1 BY DEF Extends
<1>2. PICK p \in 0 .. n :
        /\ \A j \in p + 1 .. n : ~About(d[j], c)
        /\ \A j \in p .. n : holders[j][K] = c
        /\ IF p = 0 THEN UpToDate(v, u, r[K].val)
           ELSE d[p].sys_msg = "VARATTACH" /\ d[p].of.cell = c /\ ~d[p].of.logged /\ FindVarrec(d[p].of) = K
  BY DEF ActualOK
<1> HIDE DEF K
<1>3. p \in 0 .. n + 1 BY <1>1
<1>4. ASSUME NEW j \in p + 1 .. n + 1 PROVE ~About(d2[j], c)
  <2>1. CASE j \in p + 1 .. n BY <1>1, <1>2, <2>1 DEF Extends
  <2>2. CASE j = n + 1 BY <2>2 DEF Extends
  <2> QED BY <1>1, <2>1, <2>2
<1>5. ASSUME NEW j \in p .. n + 1 PROVE holders2[j][K] = c
  <2>1. CASE j \in p .. n BY <1>1, <1>2, <2>1 DEF Longer
  <2>2. CASE j = n + 1
    <3>1. holders[n][K] = c BY <1>1, <1>2
    <3>2. K \in Places BY DEF K
    <3> QED BY <2>2, <3>1, <3>2, ExecutesKeeps DEF Longer
  <2> QED BY <1>1, <2>1, <2>2
<1>6. p # 0 => d2[p] = d[p] BY <1>1 DEF Extends
<1> QED BY <1>1, <1>2, <1>3, <1>4, <1>5, <1>6 DEF ActualOK, K

(***************************************************************************)
(* A menu is closed                                                        *)
(***************************************************************************)
LEMMA DetachIs ==
  ASSUME NEW m, IsSeq(m.vars), \A v \in Range(m.vars) : v.logged \in BOOLEAN
  PROVE  \/ DetachMsg(m) = <<>> /\ m.vars = <<>>
         \/ \E x : /\ DetachMsg(m) = <<x>> /\ x.sys_msg = "VARDETACH" /\ IsSeq(x.uids)
                   /\ Range(x.uids) = {v.cell : v \in {w \in Range(m.vars) : ~w.logged}}
<1> DEFINE actual == OfKind(m.vars, FALSE)
           uids == [k \in DOMAIN actual |-> actual[k].cell]
           x == [sys_msg |-> "VARDETACH", uids |-> uids]
<1>1. DetachMsg(m) = IF m.vars = <<>> /\ ~Menus[m.name].consts THEN <<>> ELSE <<x>> BY DEF DetachMsg
<1>2. IsSeq(actual) /\ Range(actual) = {w \in Range(m.vars) : ~w.logged}
  <2>1. IsSeq(actual) /\ Range(actual) = {w \in Range(m.vars) : w.logged = FALSE} BY OfKindFacts
  <2> QED BY <2>1
<1> HIDE DEF actual
<1>3. DOMAIN actual = 1 .. Len(actual) /\ Len(actual) \in Nat /\ Range(actual) = {actual[k] : k \in 1 .. Len(actual)}
  BY <1>2, SeqFacts
<1>4. uids \in [1 .. Len(actual) -> {v.cell : v \in Range(actual)}] BY <1>3
<1>5. DOMAIN uids = 1 .. Len(actual) /\ \A k \in 1 .. Len(actual) : uids[k] = actual[k].cell BY <1>3
<1> HIDE DEF uids
<1>6. IsSeq(uids) /\ Range(uids) \subseteq {v.cell : v \in Range(actual)} BY <1>3, <1>4, FcnIs
<1>7. {v.cell : v \in Range(actual)} \subseteq Range(uids) BY <1>3, <1>5 DEF Range
<1>8. x.sys_msg = "VARDETACH" /\ x.uids = uids OBVIOUS
<1> HIDE DEF x
<1> QED BY <1>1, <1>2, <1>6, <1>7, <1>8

LEMMA FrontLast ==
  ASSUME NEW menus, IsSeq(menus), menus # <<>>
  PROVE  /\ Len(menus) \in Nat /\ Len(menus) > 0 /\ DOMAIN menus = 1 .. Len(menus)
         /\ DOMAIN Front(menus) = 1 .. Len(menus) - 1 /\ Len(Front(menus)) = Len(menus) - 1
         /\ \A i \in 1 .. Len(menus) - 1 : Front(menus)[i] = menus[i]
         /\ Last(menus) = menus[Len(menus)]
<1>1. Len(menus) \in Nat /\ Len(menus) > 0 /\ DOMAIN menus = 1 .. Len(menus) BY LastIs, SeqFacts
<1>2. Front(menus) = SubSeq(menus, 1, Len(menus) - 1) BY DEF Front
<1>3. IsSeq(Front(menus)) /\ Len(Front(menus)) = Len(menus) - 1 BY FrontIs
<1>4. DOMAIN Front(menus) = 1 .. Len(menus) - 1 BY <1>3, SeqFacts
<1>5. \A i \in 1 .. Len(menus) - 1 : SubSeq(menus, 1, Len(menus) - 1)[i] = menus[i]
  <2>1. menus \in Seq(Range(menus)) BY DEF IsSeq
  <2>2. 1 \in Int /\ Len(menus) - 1 \in Int BY <1>1
  <2>3. \A i \in 1 .. Len(menus) - 1 : menus[i] \in Range(menus) BY <1>1 DEF Range
  <2> QED BY <2>2, <2>3, SubSeqProperties
<1> QED BY <1>1, <1>2, <1>3, <1>4, <1>5 DEF Last

\* Where a variable is.
LEMMA InMenu ==
  ASSUME NEW menus, MenusOK(menus), NEW v \in Of(menus)
  PROVE  \E i \in DOMAIN menus : v \in Range(menus[i].vars)
BY OfIs DEF MenusOK

LEMMA NamedFacts ==
  ASSUME NEW menus, MenusOK(menus), Arranged(menus), NEW v \in Of(menus)
  PROVE  v.cell \in Cells /\ v.logged \in BOOLEAN /\ FindVarrec(v) \in Places
<1>1. PICK i \in DOMAIN menus : v \in Range(menus[i].vars) BY InMenu
<1>2. NamedIn(v, menus[i].name) BY <1>1 DEF Arranged
<1>3. menus[i].name \in DOMAIN Menus BY <1>1 DEF MenusOK, MenuOK, Range
<1>4. PICK item \in Range(Menus[menus[i].name].items) : v.do = item.do /\ v.leaf = item.leaf BY <1>2 DEF NamedIn
<1> QED BY <1>2, <1>3, <1>4, FindFacts DEF NamedIn

LEMMA FrontArranged ==
  ASSUME NEW menus, MenusOK(menus), Arranged(menus)
  PROVE  /\ Arranged(Front(menus))
         /\ Of(menus) = Of(Front(menus)) \cup Range(Last(menus).vars)
         /\ \A v \in Of(Front(menus)), w \in Range(Last(menus).vars) : v.cell # w.cell
<1> DEFINE n == Len(menus)
           some == Front(menus)
<1>1. /\ n \in Nat /\ n > 0 /\ DOMAIN menus = 1 .. n /\ DOMAIN some = 1 .. n - 1
      /\ \A i \in 1 .. n - 1 : some[i] = menus[i]
      /\ Last(menus) = menus[n] /\ IsSeq(some) /\ IsSeq(menus)
  BY FrontLast, FrontIs DEF MenusOK
<1> HIDE DEF some
<1>2. Of(some) = UNION {Range(some[k].vars) : k \in 1 .. n - 1} BY <1>1, OfIs
<1>3. Of(menus) = UNION {Range(menus[k].vars) : k \in 1 .. n} BY <1>1, OfIs
<1> HIDE DEF n
<1>4. Of(menus) = Of(some) \cup Range(Last(menus).vars)
  <2>1. \A k \in 1 .. n : k \in 1 .. n - 1 \/ k = n BY <1>1
  <2>2. \A k \in 1 .. n - 1 : k \in 1 .. n BY <1>1
  <2>3. n \in 1 .. n BY <1>1
  <2> QED BY <1>1, <1>2, <1>3, <2>1, <2>2, <2>3
<1>5. ASSUME NEW v \in Of(some), NEW w \in Range(Last(menus).vars) PROVE v.cell # w.cell
  <2>1. PICK i \in 1 .. n - 1 : v \in Range(menus[i].vars) BY <1>1, <1>2
  <2>2. i \in DOMAIN menus /\ n \in DOMAIN menus /\ i # n BY <1>1
  <2> QED BY <1>1, <2>1, <2>2 DEF Arranged
<1>6. \A i \in DOMAIN some : i \in DOMAIN menus /\ some[i] = menus[i] BY <1>1
<1>7. Of(some) \subseteq Of(menus) BY <1>4
<1>8. Arranged(some) BY <1>6, <1>7 DEF Arranged
<1> QED BY <1>4, <1>5, <1>8 DEF some

LEMMA ConcatExtends ==
  ASSUME NEW d, IsSeq(d), NEW x
  PROVE  Extends(d \o <<x>>, d, x) /\ IsSeq(d \o <<x>>)
<1> DEFINE S == Range(d) \cup {x}
<1>1. d \in Seq(S) /\ <<x>> \in Seq(S) BY SeqMonotonic DEF IsSeq
<1> HIDE DEF S
<1>2. /\ Len(d \o <<x>>) = Len(d) + 1 /\ Len(d) \in Nat
      /\ \A j \in 1 .. Len(d) : (d \o <<x>>)[j] = d[j]
      /\ (d \o <<x>>)[Len(d) + 1] = x
  BY <1>1
<1>3. d \o <<x>> \in Seq(S) BY <1>1
<1> QED BY <1>2, <1>3, SeqIs DEF Extends

\* The menu in view is closed: what its variables held is let go of.
LEMMA CloseFollows ==
  ASSUME NEW menus, MenusOK(menus), Arranged(menus), NEW d, IsSeq(d), NEW u, NEW r, NEW crosses,
         NEW holders, Follows(menus, {}, holders, d, 0, u, r, crosses)
  PROVE  \E after : Follows(Front(menus), {}, after, d \o DetachMsg(Last(menus)), 0, u, r, crosses)
<1> DEFINE some == Front(menus)
           m == Last(menus)
           n == Len(d)
<1>1. /\ Arranged(some) /\ Of(menus) = Of(some) \cup Range(m.vars)
      /\ \A v \in Of(some), w \in Range(m.vars) : v.cell # w.cell
  BY FrontArranged
<1>2. m \in Range(menus) /\ IsSeq(m.vars) BY LastIs DEF MenusOK, MenuOK
<1>3. \A v \in Of(menus) : v.cell \in Cells /\ v.logged \in BOOLEAN /\ FindVarrec(v) \in Places BY NamedFacts
<1>4. n \in Nat BY SeqFacts
<1> HIDE DEF some, m
<1>5. CASE DetachMsg(m) = <<>> /\ m.vars = <<>>
  <2>1. Of(some) = Of(menus)
    <3>1. Range(m.vars) = {} BY <1>5, EmptyIs
    <3> QED BY <1>1, <3>1
  <2>2. d \o <<>> = d BY DEF IsSeq
  <2>3. Follows(some, {}, holders, d, 0, u, r, crosses) BY <2>1 DEF Follows
  <2> QED BY <1>5, <2>2, <2>3 DEF some, m
<1>6. ASSUME NEW x, DetachMsg(m) = <<x>>, x.sys_msg = "VARDETACH", IsSeq(x.uids),
             Range(x.uids) = {v.cell : v \in {w \in Range(m.vars) : ~w.logged}}
      PROVE  \E after : Follows(some, {}, after, d \o <<x>>, 0, u, r, crosses)
  <2> DEFINE d2 == d \o <<x>>
             b == [i \in Places |-> IF holders[n][i] \in Range(x.uids) THEN NoUid ELSE holders[n][i]]
  <2>1. Extends(d2, d, x) BY ConcatExtends
  <2>2. Range(x.uids) \subseteq Cells BY <1>1, <1>3, <1>6
  <2>3. Executes(holders[n], x, b) BY <1>6, <2>2 DEF Executes
  <2> HIDE DEF d2, b
  <2>4. PICK after : Longer(after, holders, d, x, b) BY <1>4, <2>3, LongerExists
  <2>5. Replays(after, d2, 0, r) BY <2>1, <2>4, ReplaysLonger DEF Follows
  <2>6. \A v \in Of(some) : ~About(x, v.cell) BY <1>1, <1>6 DEF About
  <2>7. \A v \in Of(some) : Shown(v, holders, d, 0, u, r, crosses) BY <1>1 DEF Follows
  <2>8. ASSUME NEW v \in Of(some) PROVE Shown(v, after, d2, 0, u, r, crosses)
    <3>1. v.cell \in Cells /\ FindVarrec(v) \in Places /\ ~About(x, v.cell) BY <1>1, <1>3, <2>6
    <3>2. CASE v.logged BY <2>1, <2>4, <2>7, <3>1, <3>2, JournalLonger DEF Shown
    <3>3. CASE ~v.logged BY <2>1, <2>4, <2>7, <3>1, <3>3, ActualLonger DEF Shown
    <3> QED BY <3>2, <3>3
  <2>9. ASSUME NEW i \in Places, b[i] # NoUid
        PROVE  \E v \in Of(some) : ~v.logged /\ FindVarrec(v) = i /\ b[i] = v.cell
    <3>1. b[i] = holders[n][i] /\ holders[n][i] \notin Range(x.uids) BY <2>9 DEF b
    <3>2. PICK v \in Of(menus) : ~v.logged /\ FindVarrec(v) = i /\ holders[n][i] = v.cell
      BY <2>9, <3>1 DEF Follows
    <3>3. v \notin Range(m.vars) BY <1>6, <3>1, <3>2
    <3> QED BY <1>1, <3>1, <3>2, <3>3
  <2>10. Len(d2) = n + 1 /\ after[n + 1] = b BY <2>1, <2>4 DEF Extends, Longer
  <2>11. Follows(some, {}, after, d2, 0, u, r, crosses) BY <2>5, <2>8, <2>9, <2>10 DEF Follows
  <2> QED BY <2>11 DEF d2
<1>7. \A v \in Range(m.vars) : v.logged \in BOOLEAN BY <1>1, <1>3
<1> QED BY <1>2, <1>5, <1>6, <1>7, DetachIs DEF some, m

(***************************************************************************)
(* Variables are asked for                                                 *)
(***************************************************************************)
Cleared(v) == \A x \in DOMAIN v.val : v.val[x] = NoVal

LEMMA AttachMsgIs ==
  ASSUME NEW v, Shaped(v), Cleared(v)
  PROVE  AttachMsg(v).sys_msg = "VARATTACH" /\ AttachMsg(v).of = v
<1> DEFINE t == [k \in DOMAIN v.val |-> NoVal]
           w == [v EXCEPT !.val = t]
<1>1. AttachMsg(v) = [sys_msg |-> "VARATTACH", of |-> w] BY DEF AttachMsg
<1>2. t = v.val
  <2>1. IsSeq(v.val) BY DEF Shaped, Varrec
  <2>2. v.val = [k \in 1 .. Len(v.val) |-> v.val[k]] /\ DOMAIN v.val = 1 .. Len(v.val) BY <2>1, SeqFacts DEF IsSeq
  <2> QED BY <2>2 DEF Cleared
<1> HIDE DEF t
<1>3. w = [do |-> v.do, leaf |-> v.leaf, logged |-> v.logged, cell |-> v.cell, adr |-> v.adr,
           time |-> v.time, val |-> t]
  BY DEF Shaped, Varrec
<1>4. w = v BY <1>2, <1>3 DEF Shaped, Varrec
<1> QED BY <1>1, <1>4

LEMMA AskOne ==
  ASSUME NEW menus, MenusOK(menus), Arranged(menus), NEW waiting, NEW v \in Of(menus), v.cell \in waiting, Cleared(v),
         NEW d, NEW d2, NEW m, m.sys_msg = "VARATTACH", m.of = v, Extends(d2, d, m), NEW u, NEW r, NEW crosses,
         NEW holders, Follows(menus, waiting, holders, d, 0, u, r, crosses)
  PROVE  \E after : Follows(menus, waiting \ {v.cell}, after, d2, 0, u, r, crosses)
<1> DEFINE n == Len(d)
           c == v.cell
           K == FindVarrec(v)
           a == holders[n]
           b == IF v.logged THEN a ELSE [i \in Places |-> IF i = K THEN c ELSE a[i]]
<1>1. n \in Nat /\ Len(d2) = n + 1 /\ d2[n + 1] = m BY DEF Extends
<1>2. \A w \in Of(menus) : w.cell \in Cells /\ w.logged \in BOOLEAN /\ FindVarrec(w) \in Places BY NamedFacts
<1>3. \A w \in Of(menus) : w.cell = c => w = v BY OneEachCell
<1>4. \A w \in Of(menus) : w.cell # c => ~About(m, w.cell) BY DEF About
<1>5. ~v.logged => a[K] = NoUid /\ Without(a, c)
  <2> SUFFICES ASSUME ~v.logged PROVE a[K] = NoUid /\ Without(a, c) OBVIOUS
  <2>1. \A i \in Places : a[i] # NoUid =>
          \E w \in Of(menus) : ~w.logged /\ w.cell \notin waiting /\ FindVarrec(w) = i /\ a[i] = w.cell
    BY DEF Follows
  <2>2. \A w \in Of(menus) : ~w.logged /\ FindVarrec(w) = K => w = v BY DEF Arranged
  <2>3. K \in Places /\ c # NoUid BY <1>2, CellsAssumption
  <2> HIDE DEF a, K
  <2>4. a[K] = NoUid BY <2>1, <2>2, <2>3
  <2>5. Without(a, c) BY <1>3, <2>1, <2>3 DEF Without
  <2> QED BY <2>4, <2>5
<1>6. Executes(a, m, b)
  <2>1. CASE v.logged BY <2>1 DEF Executes
  <2>2. CASE ~v.logged
    <3>1. a[K] = NoUid /\ \A i \in Places : a[i] # c BY <1>5, <2>2 DEF Without
    <3>2. c \in Cells /\ K \in Places BY <1>2
    <3>3. b = [i \in Places |-> IF i = K THEN c ELSE a[i]] BY <2>2
    <3> HIDE DEF a, b
    <3> QED BY <2>2, <3>1, <3>2, <3>3 DEF Executes
  <2> QED BY <2>1, <2>2
<1> HIDE DEF b
<1>7. PICK after : Longer(after, holders, d, m, b) BY <1>1, <1>6, LongerExists
<1>8. Replays(after, d2, 0, r) BY <1>7, ReplaysLonger DEF Follows
<1>9. after[n + 1] = b /\ \A j \in 0 .. n : after[j] = holders[j] BY <1>7 DEF Longer
<1>10. ASSUME v.logged, c \notin crosses PROVE JournalOK(v, after, d2, 0, u)
  <2>1. Untouched(c, holders, d, 0, u) BY <1>10 DEF Follows
  <2>2. \A j \in 1 .. n : d2[j] = d[j] BY DEF Extends
  <2>3. n + 1 \in 0 + 1 .. n + 1 /\ n \in 0 .. n BY <1>1
  <2> HIDE DEF n
  <2>4. \A j \in 0 .. n + 1 : Without(after[j], c)
    <3>1. \A j \in 0 .. n : Without(holders[j], c) BY <2>1 DEF Untouched, n
    <3>2. Without(b, c) BY <1>10, <2>3, <3>1 DEF b
    <3>3. \A j \in 0 .. n + 1 : j \in 0 .. n \/ j = n + 1 BY <1>1
    <3> QED BY <1>9, <3>1, <3>2, <3>3
  <2>5. \A j \in 0 + 1 .. n + 1 : j # n + 1 => ~About(d2[j], c)
    <3>1. \A j \in 1 .. n : ~About(d[j], c) BY <2>1 DEF Untouched, n
    <3>2. \A j \in 0 + 1 .. n + 1 : j # n + 1 => j \in 1 .. n BY <1>1
    <3> QED BY <2>2, <3>1, <3>2
  <2>6. Rests(u, c) BY <2>1 DEF Untouched
  <2> QED BY <1>1, <2>3, <2>4, <2>5, <2>6 DEF JournalOK, Cleared
<1>11. ASSUME ~v.logged PROVE ActualOK(v, after, d2, 0, u, r)
  <2>1. b[K] = c BY <1>2, <1>11 DEF b
  <2>2. n + 1 \in 0 .. Len(d2) /\ n + 1 # 0 BY <1>1
  <2>3. \A j \in n + 1 .. Len(d2) : j = n + 1 BY <1>1
  <2>4. \A j \in (n + 1) + 1 .. Len(d2) : FALSE BY <1>1
  <2> QED BY <1>1, <1>9, <1>11, <2>1, <2>2, <2>3, <2>4 DEF ActualOK
<1>12. ASSUME NEW w \in Of(menus), w.cell \notin waiting \ {c} PROVE Shown(w, after, d2, 0, u, r, crosses)
  <2>1. CASE w.cell = c
    <3>1. w = v BY <1>3, <2>1
    <3> QED BY <1>10, <1>11, <3>1 DEF Shown
  <2>2. CASE w.cell # c
    <3>1. Shown(w, holders, d, 0, u, r, crosses) BY <1>12, <2>2 DEF Follows
    <3>2. w.cell \in Cells /\ FindVarrec(w) \in Places /\ ~About(m, w.cell) BY <1>2, <1>4, <2>2
    <3>3. CASE w.logged BY <1>7, <3>1, <3>2, <3>3, JournalLonger DEF Shown
    <3>4. CASE ~w.logged BY <1>7, <3>1, <3>2, <3>4, ActualLonger DEF Shown
    <3> QED BY <3>3, <3>4
  <2> QED BY <2>1, <2>2
<1>13. ASSUME NEW w \in Of(menus), w.cell \in waiting \ {c}, w.logged, w.cell \notin crosses
       PROVE  Untouched(w.cell, after, d2, 0, u)
  <2>1. Untouched(w.cell, holders, d, 0, u) BY <1>13 DEF Follows
  <2>2. w.cell \in Cells /\ ~About(m, w.cell) BY <1>2, <1>4, <1>13
  <2> QED BY <1>7, <2>1, <2>2, UntouchedLonger
<1>14. ASSUME NEW i \in Places, b[i] # NoUid
       PROVE  \E w \in Of(menus) : /\ ~w.logged /\ w.cell \notin waiting \ {c}
                                   /\ FindVarrec(w) = i /\ b[i] = w.cell
  <2>1. CASE ~v.logged /\ i = K BY <2>1 DEF b
  <2>2. CASE ~(~v.logged /\ i = K)
    <3>1. b[i] = a[i] BY <2>2 DEF b
    <3> QED BY <1>14, <3>1 DEF Follows
  <2> QED BY <2>1, <2>2
<1>15. Follows(menus, waiting \ {c}, after, d2, 0, u, r, crosses)
  BY <1>1, <1>8, <1>9, <1>12, <1>13, <1>14 DEF Follows
<1> QED BY <1>15

LEMMA SeqAsFcn ==
  ASSUME NEW s, IsSeq(s)
  PROVE  s = [j \in 1 .. Len(s) |-> s[j]]
<1>1. s \in Seq(Range(s)) BY DEF IsSeq
<1> QED BY <1>1

LEMMA ConcatAsFcn ==
  ASSUME NEW s, IsSeq(s), NEW t, IsSeq(t)
  PROVE  /\ s \o t = [j \in 1 .. Len(s) + Len(t) |-> IF j <= Len(s) THEN s[j] ELSE t[j - Len(s)]]
         /\ Len(s \o t) = Len(s) + Len(t)
<1> DEFINE S == Range(s) \cup Range(t)
<1>1. s \in Seq(S) /\ t \in Seq(S) BY SeqMonotonic DEF IsSeq
<1> HIDE DEF S
<1>2. /\ Len(s \o t) = Len(s) + Len(t)
      /\ \A j \in 1 .. Len(s) + Len(t) : (s \o t)[j] = IF j <= Len(s) THEN s[j] ELSE t[j - Len(s)]
  BY <1>1, ConcatProperties
<1>3. s \o t = [j \in 1 .. Len(s \o t) |-> (s \o t)[j]] BY ConcatIs, SeqAsFcn
<1> QED BY <1>2, <1>3

LEMMA AskAll ==
  ASSUME NEW menus, MenusOK(menus), Arranged(menus),
         NEW asked, IsSeq(asked), OneEach(asked), Range(asked) \subseteq Of(menus), \A v \in Range(asked) : Cleared(v),
         NEW d, IsSeq(d), NEW u, NEW r, NEW crosses,
         NEW holders, Follows(menus, {v.cell : v \in Range(asked)}, holders, d, 0, u, r, crosses)
  PROVE  \E after : Follows(menus, {}, after, d \o [k \in DOMAIN asked |-> AttachMsg(asked[k])], 0, u, r, crosses)
<1> DEFINE n == Len(d)
           l == Len(asked)
           waiting(k) == {asked[j].cell : j \in k + 1 .. l}
           sent(k) == [j \in 1 .. n + k |-> IF j <= n THEN d[j] ELSE AttachMsg(asked[j - n])]
           Good(k) == \E after : Follows(menus, waiting(k), after, sent(k), 0, u, r, crosses)
           S == {k \in Nat : k <= l => Good(k)}
<1>1. /\ n \in Nat /\ DOMAIN d = 1 .. n /\ l \in Nat /\ DOMAIN asked = 1 .. l
      /\ Range(asked) = {asked[k] : k \in 1 .. l}
  BY SeqFacts
<1>2. \A v \in Range(asked) : v \in Of(menus) /\ Shaped(v) /\ Cleared(v) BY DEF MenusOK
<1>3. \A k \in Nat : Len(sent(k)) = n + k
  <2> SUFFICES ASSUME NEW k \in Nat PROVE Len(sent(k)) = n + k OBVIOUS
  <2> DEFINE x == n + k
             T == {IF j <= n THEN d[j] ELSE AttachMsg(asked[j - n]) : j \in 1 .. x}
  <2>1. x \in Nat BY <1>1
  <2>2. sent(k) \in [1 .. x -> T] OBVIOUS
  <2> HIDE DEF sent, T, x
  <2>3. Len(sent(k)) = x BY <2>1, <2>2, FcnIs
  <2> QED BY <2>3 DEF x
<1>4. Good(0)
  <2>1. waiting(0) = {v.cell : v \in Range(asked)} BY <1>1
  <2>2. sent(0) = d
    <3>1. sent(0) = [j \in 1 .. n |-> d[j]] BY <1>1
    <3> QED BY <3>1, SeqAsFcn
  <2> HIDE DEF waiting, sent
  <2> QED BY <2>1, <2>2
<1>5. ASSUME NEW k \in Nat, k + 1 <= l, Good(k) PROVE Good(k + 1)
  <2>1. PICK before : Follows(menus, waiting(k), before, sent(k), 0, u, r, crosses) BY <1>5
  <2> DEFINE v == asked[k + 1]
             m == AttachMsg(v)
  <2>2. k + 1 \in 1 .. l BY <1>1, <1>5
  <2>3. v \in Range(asked) BY <1>1, <2>2
  <2>4. v \in Of(menus) /\ Cleared(v) /\ m.sys_msg = "VARATTACH" /\ m.of = v BY <1>2, <2>3, AttachMsgIs
  <2>5. v.cell \in waiting(k)
    <3>1. k + 1 \in k + 1 .. l BY <2>2
    <3> QED BY <3>1
  <2>6. waiting(k + 1) = waiting(k) \ {v.cell}
    <3>1. \A j \in 1 .. l : asked[j].cell = v.cell => j = k + 1 BY <1>1, <2>2 DEF OneEach
    <3>2. \A j \in (k + 1) + 1 .. l : j \in 1 .. l /\ j # k + 1 /\ j \in k + 1 .. l BY <2>2
    <3>3. \A j \in k + 1 .. l : j = k + 1 \/ j \in (k + 1) + 1 .. l BY <2>2
    <3> QED BY <3>1, <3>2, <3>3
  <2>7. Extends(sent(k + 1), sent(k), m)
    <3>1. \A j \in 1 .. n + k : sent(k + 1)[j] = sent(k)[j] BY <1>1
    <3>2. sent(k + 1)[n + k + 1] = m
      <4>1. n + k + 1 \in 1 .. n + (k + 1) /\ ~(n + k + 1 <= n) /\ (n + k + 1) - n = k + 1 BY <1>1
      <4> QED BY <4>1
    <3> HIDE DEF sent
    <3>3. Len(sent(k)) = n + k /\ Len(sent(k + 1)) = n + (k + 1) /\ n + k \in Nat
      <4> DEFINE k1 == k + 1
      <4>1. k1 \in Nat OBVIOUS
      <4> HIDE DEF k1
      <4>2. Len(sent(k1)) = n + k1 BY <1>3, <4>1
      <4>3. Len(sent(k)) = n + k BY <1>3
      <4>4. k1 = k + 1 BY DEF k1
      <4>5. Len(sent(k + 1)) = n + (k + 1) BY <4>2, <4>4
      <4> QED BY <1>1, <4>3, <4>5
    <3> QED BY <3>1, <3>2, <3>3 DEF Extends
  <2> HIDE DEF waiting, sent, v, m
  <2>8. \E after : Follows(menus, waiting(k) \ {v.cell}, after, sent(k + 1), 0, u, r, crosses)
    BY <2>1, <2>4, <2>5, <2>7, AskOne
  <2> QED BY <2>6, <2>8
<1> HIDE DEF Good
<1>6. l \in S
  <2>1. 0 \in S BY <1>4
  <2>2. \A k \in Nat : k \in S => k + 1 \in S BY <1>1, <1>5
  <2> HIDE DEF S
  <2> QED BY <1>1, <2>1, <2>2, Induct
<1>7. \E after : Follows(menus, waiting(l), after, sent(l), 0, u, r, crosses)
  <2>1. Good(l) BY <1>1, <1>6
  <2> HIDE DEF sent, waiting
  <2> QED BY <2>1 DEF Good
<1>8. waiting(l) = {} BY <1>1
<1>9. sent(l) = d \o [k \in DOMAIN asked |-> AttachMsg(asked[k])]
  <2> DEFINE t == [k \in 1 .. l |-> AttachMsg(asked[k])]
  <2>1. t = [k \in DOMAIN asked |-> AttachMsg(asked[k])] BY <1>1
  <2>2. IsSeq(t) /\ Len(t) = l
    <3>1. t \in [1 .. l -> {AttachMsg(asked[k]) : k \in 1 .. l}] OBVIOUS
    <3> HIDE DEF t
    <3> QED BY <1>1, <3>1, FcnIs
  <2>3. \A j \in 1 .. n + l : ~(j <= n) => t[j - n] = AttachMsg(asked[j - n]) BY <1>1
  <2> HIDE DEF t
  <2>4. d \o t = [j \in 1 .. n + l |-> IF j <= n THEN d[j] ELSE t[j - n]] BY <2>2, ConcatAsFcn
  <2>5. sent(l) = [j \in 1 .. n + l |-> IF j <= n THEN d[j] ELSE t[j - n]] BY <2>3
  <2> QED BY <2>1, <2>4, <2>5
<1> HIDE DEF sent, waiting
<1> QED BY <1>7, <1>8, <1>9

\* Nothing about an address is on the way.
LEMMA QuietUntouched ==
  ASSUME NEW holders, NEW d, NEW r, NEW u, NEW c \in Cells, Len(d) \in Nat, Replays(holders, d, 0, r),
         \A j \in 1 .. Len(d) : ~About(d[j], c), \A i \in Places : r[i].uid # c, Rests(u, c)
  PROVE  Untouched(c, holders, d, 0, u)
<1> DEFINE n == Len(d)
           S == {k \in Nat : k <= n => Without(holders[k], c)}
<1>1. 0 \in S BY DEF Replays, Without
<1>2. ASSUME NEW k \in Nat, k \in S PROVE k + 1 \in S
  <2> SUFFICES ASSUME k + 1 <= n PROVE Without(holders[k + 1], c) OBVIOUS
  <2>1. Without(holders[k], c) BY <1>2
  <2>2. k + 1 \in 0 + 1 .. n /\ (k + 1) - 1 = k OBVIOUS
  <2>3. Executes(holders[k], d[k + 1], holders[k + 1]) BY <2>2 DEF Replays
  <2>4. ~About(d[k + 1], c) BY <2>2
  <2> QED BY <2>1, <2>3, <2>4, ExecutesKeeps
<1> HIDE DEF S
<1>3. Nat \subseteq S BY <1>1, <1>2, Induct
<1>4. \A k \in 0 .. n : Without(holders[k], c) BY <1>3 DEF S
<1> QED BY <1>4 DEF Untouched

\* A key: menus were closed (closed are left), and now variables are asked for.
LEMMA AskFollows ==
  ASSUME NEW closed, NEW menus, MenusOK(menus), Arranged(menus),
         NEW detached, IsSeq(detached), IsSeq(dn),
         NEW asked, IsSeq(asked), OneEach(asked), Range(asked) \subseteq Of(menus), \A v \in Range(asked) : Cleared(v),
         \A v \in Of(menus) : v.cell \notin {w.cell : w \in Range(asked)} => v \in Of(closed),
         \A v \in Of(closed) : ~v.logged => v \in Of(menus) /\ v.cell \notin {w.cell : w \in Range(asked)},
         \A m \in Range(detached) : \A v \in Range(asked) : ~About(m, v.cell),
         NEW holders, Follows(closed, {}, holders, dn \o detached, 0, up, vr, crossed),
         Ask(menus, detached, asked)
  PROVE  \E after : Follows(menus, {}, after, dn', 0, up', vr', crossed')
<1> DEFINE d == dn \o detached
           cells == {w.cell : w \in Range(asked)}
           kept == {v.cell : v \in UNION {Range(menus[k].vars) : k \in DOMAIN menus}} \ cells
<1>1. /\ dn' = d \o [k \in DOMAIN asked |-> AttachMsg(asked[k])]
      /\ up' = up /\ vr' = vr
      /\ crossed' = (crossed \cap kept) \cup {c \in cells : OnTheWay(c)}
  BY DEF Ask
<1>2. IsSeq(d) /\ Range(d) = Range(dn) \cup Range(detached) BY ConcatIs
<1>3. \A v \in Of(menus) : v.cell \notin cells => v.cell \in kept BY OfIs DEF MenusOK
<1> HIDE DEF d, kept
<1>4. Replays(holders, d, 0, vr) BY DEF Follows, d
<1>5. \A i \in Places : holders[Len(d)][i] # NoUid =>
        \E v \in Of(menus) : ~v.logged /\ v.cell \notin cells /\ FindVarrec(v) = i /\ holders[Len(d)][i] = v.cell
  <2>1. \A i \in Places : holders[Len(d)][i] # NoUid =>
          \E v \in Of(closed) : ~v.logged /\ FindVarrec(v) = i /\ holders[Len(d)][i] = v.cell
    BY DEF Follows, d
  <2> HIDE DEF cells
  <2>2. \A v \in Of(closed) : ~v.logged => v \in Of(menus) /\ v.cell \notin cells BY DEF cells
  <2> QED BY <2>1, <2>2
<1> HIDE DEF cells
<1>6. ASSUME NEW v \in Of(menus), v.cell \notin cells PROVE Shown(v, holders, d, 0, up, vr, crossed')
  <2>1. v \in Of(closed) BY <1>6 DEF cells
  <2>2. Shown(v, holders, d, 0, up, vr, crossed) BY <2>1 DEF Follows, d
  <2>3. v.cell \in crossed => v.cell \in crossed' BY <1>1, <1>3, <1>6
  <2> QED BY <2>2, <2>3 DEF Shown
<1>7. ASSUME NEW v \in Of(menus), v.cell \in cells, v.cell \notin crossed' PROVE Untouched(v.cell, holders, d, 0, up)
  <2> DEFINE c == v.cell
  <2>1. ~OnTheWay(c) BY <1>1, <1>7
  <2>2. PICK w \in Range(asked) : w.cell = c BY <1>7 DEF cells
  <2>3. \A m \in Range(dn) : ~About(m, c) BY <2>1 DEF OnTheWay, About, Range
  <2>4. \A m \in Range(detached) : ~About(m, c) BY <2>2
  <2>5. Len(d) \in Nat /\ \A j \in 1 .. Len(d) : d[j] \in Range(d) BY <1>2, SeqFacts
  <2>6. \A j \in 1 .. Len(d) : ~About(d[j], c) BY <1>2, <2>3, <2>4, <2>5
  <2>7. Rests(up, c) BY <2>1 DEF OnTheWay, Rests
  <2>8. \A i \in Places : vr[i].uid # c
    <3>1. DOMAIN vr = Places
      <4>1. vr = [i \in Places |-> [val |-> vr[i].val, uid |-> vr[i].uid, attaching |-> (vr[i].uid # NoUid)]]
        BY <1>4 DEF Replays
      <4> QED BY <4>1
    <3> QED BY <2>1, <3>1 DEF OnTheWay
  <2>9. c \in Cells BY NamedFacts
  <2> HIDE DEF c
  <2>10. Untouched(c, holders, d, 0, up) BY <1>4, <2>5, <2>6, <2>7, <2>8, <2>9, QuietUntouched
  <2> QED BY <2>10 DEF c
<1>8. Follows(menus, cells, holders, d, 0, up, vr, crossed') BY <1>4, <1>5, <1>6, <1>7 DEF Follows
<1>9. \E after : Follows(menus, {}, after, d \o [k \in DOMAIN asked |-> AttachMsg(asked[k])], 0, up, vr, crossed')
  <2> DEFINE X == crossed'
  <2>1. Follows(menus, {w.cell : w \in Range(asked)}, holders, d, 0, up, vr, X) BY <1>8 DEF cells
  <2> HIDE DEF X
  <2>2. \E after : Follows(menus, {}, after, d \o [k \in DOMAIN asked |-> AttachMsg(asked[k])], 0, up, vr, X)
    BY <1>2, <2>1, AskAll
  <2> QED BY <2>2 DEF X
<1> QED BY <1>1, <1>9

(***************************************************************************)
(* The order of the menus                                                  *)
(***************************************************************************)
\* The same variable, perhaps with other values.
Like(w, v) ==
  /\ w.cell = v.cell /\ w.do = v.do /\ w.leaf = v.leaf /\ w.logged = v.logged
  /\ w.adr \in Lds /\ Len(w.val) = Len(v.val)
  /\ ~v.logged => w.adr = v.adr

LEMMA LikeArranged ==
  ASSUME NEW menus, MenusOK(menus), Arranged(menus), NEW menus2, MenusOK(menus2), DOMAIN menus2 = DOMAIN menus,
         \A i \in DOMAIN menus :
           /\ menus2[i].name = menus[i].name /\ DOMAIN menus2[i].vars = DOMAIN menus[i].vars
           /\ \A x \in DOMAIN menus[i].vars : Like(menus2[i].vars[x], menus[i].vars[x])
  PROVE  Arranged(menus2)
<1> DEFINE old(i) == menus[i].vars
           new(i) == menus2[i].vars
<1>1. \A i \in DOMAIN menus : DOMAIN new(i) = DOMAIN old(i) /\ \A x \in DOMAIN old(i) : Like(new(i)[x], old(i)[x])
  OBVIOUS
<1>2. \A i \in DOMAIN menus : OneEach(old(i)) /\ \A v \in Range(old(i)) : NamedIn(v, menus[i].name)
  BY DEF Arranged
<1>3. \A i, j \in DOMAIN menus : \A v \in Range(old(i)), w \in Range(old(j)) : v.cell = w.cell => i = j
  BY DEF Arranged
<1>4. \A v, w \in Of(menus) : ~v.logged /\ ~w.logged /\ FindVarrec(v) = FindVarrec(w) => v = w
  BY DEF Arranged
<1>5. /\ \A i \in DOMAIN menus : Range(old(i)) \subseteq Of(menus)
      /\ \A v \in Of(menus2) : \E i \in DOMAIN menus : v \in Range(new(i))
  BY OfIs DEF MenusOK
<1>6. \A i, j \in DOMAIN menus : i < j => menus2[j].name \in Above(menus2[i].name)
  BY DEF Arranged
<1>7. \A i \in DOMAIN menus : menus2[i].name = menus[i].name OBVIOUS
<1> HIDE DEF old, new
<1>8. \A i \in DOMAIN menus : OneEach(new(i)) BY <1>1, <1>2 DEF OneEach, Like
<1>9. ASSUME NEW i \in DOMAIN menus, NEW w \in Range(new(i)) PROVE NamedIn(w, menus[i].name)
  <2>1. PICK x \in DOMAIN old(i) : w = new(i)[x] BY <1>1 DEF Range
  <2>2. NamedIn(old(i)[x], menus[i].name) BY <1>2 DEF Range
  <2>3. Like(w, old(i)[x]) BY <1>1, <2>1
  <2> QED BY <2>2, <2>3 DEF NamedIn, Like
<1>10. ASSUME NEW i \in DOMAIN menus, NEW j \in DOMAIN menus, NEW v \in Range(new(i)), NEW w \in Range(new(j)),
              v.cell = w.cell
       PROVE  i = j
  <2>1. PICK x \in DOMAIN old(i) : v = new(i)[x] BY <1>1 DEF Range
  <2>2. PICK y \in DOMAIN old(j) : w = new(j)[y] BY <1>1 DEF Range
  <2>3. Like(v, old(i)[x]) /\ Like(w, old(j)[y]) BY <1>1, <2>1, <2>2
  <2>4. old(i)[x].cell = old(j)[y].cell BY <1>10, <2>3 DEF Like
  <2>5. old(i)[x] \in Range(old(i)) /\ old(j)[y] \in Range(old(j)) BY DEF Range
  <2> QED BY <1>3, <2>4, <2>5
<1>11. ASSUME NEW v \in Of(menus2), NEW w \in Of(menus2), ~v.logged, ~w.logged, FindVarrec(v) = FindVarrec(w)
       PROVE  v = w
  <2>1. PICK i \in DOMAIN menus : v \in Range(new(i)) BY <1>5
  <2>2. PICK j \in DOMAIN menus : w \in Range(new(j)) BY <1>5
  <2>3. PICK x \in DOMAIN old(i) : v = new(i)[x] BY <1>1, <2>1 DEF Range
  <2>4. PICK y \in DOMAIN old(j) : w = new(j)[y] BY <1>1, <2>2 DEF Range
  <2> DEFINE v0 == old(i)[x]
             w0 == old(j)[y]
  <2>5. Like(v, v0) /\ Like(w, w0) BY <1>1, <2>3, <2>4
  <2>6. v0 \in Range(old(i)) /\ w0 \in Range(old(j)) BY DEF Range
  <2> HIDE DEF v0, w0
  <2>7. ~v0.logged /\ ~w0.logged BY <1>11, <2>5 DEF Like
  <2>8. FindVarrec(v) = FindVarrec(v0) /\ FindVarrec(w) = FindVarrec(w0)
    <3>1. v.adr = v0.adr /\ v.do = v0.do /\ v.leaf = v0.leaf BY <2>5, <2>7 DEF Like
    <3>2. w.adr = w0.adr /\ w.do = w0.do /\ w.leaf = w0.leaf BY <2>5, <2>7 DEF Like
    <3> QED BY <3>1, <3>2 DEF FindVarrec
  <2>9. v0 = w0 BY <1>4, <1>5, <1>11, <2>6, <2>7, <2>8
  <2>10. i = j BY <1>3, <2>6, <2>9
  <2>11. x = y BY <1>2, <2>9, <2>10 DEF OneEach, v0, w0
  <2> QED BY <2>3, <2>4, <2>10, <2>11
<1> QED BY <1>6, <1>7, <1>8, <1>9, <1>10, <1>11 DEF Arranged, new

LEMMA MainArranged == Arranged(<<Main>>)
<1>1. DOMAIN <<Main>> = {1} /\ <<Main>>[1] = Main OBVIOUS
<1>2. Range(Main.vars) = {} /\ DOMAIN Main.vars = {} BY EmptyIs DEF Main
<1>3. Of(<<Main>>) = {} BY MainIs
<1>4. OneEach(Main.vars) BY <1>2 DEF OneEach
<1> QED BY <1>1, <1>2, <1>3, <1>4 DEF Arranged

LEMMA AboveFacts ==
  ASSUME NEW m \in DOMAIN Menus
  PROVE  Clear(m, Above(m))
<1>1. \E above \in SUBSET DOMAIN Menus : Clear(m, above) BY ActualsAssumption DEF Clear
<1> QED BY <1>1 DEF Above

\* What HMI asks for when a menu is opened.
LEMMA NewVarIs ==
  ASSUME NEW item, NEW cell, item.max \in Nat \ {0}, jourtime \in Times
  PROVE  LET v == Asked(NewVar(item, cell), actlnode, jourtime)
         IN  /\ Cleared(v) /\ v.cell = cell /\ v.adr = actlnode /\ v.do = item.do /\ v.leaf = item.leaf
             /\ v.logged = item.logged /\ Len(v.val) = item.max
<1> DEFINE n == item.max
           z == [j \in 1 .. n |-> NoVal]
           new == NewVar(item, cell)
           t == [k \in DOMAIN new.val |-> NoVal]
           v == Asked(new, actlnode, jourtime)
<1>1. n \in Nat /\ n > 0 OBVIOUS
<1>2. new = [do |-> item.do, leaf |-> item.leaf, logged |-> item.logged, cell |-> cell, adr |-> actlnode,
             time |-> NoTime, val |-> z]
  BY DEF NewVar
<1> HIDE DEF n
<1>3. DOMAIN z = 1 .. n OBVIOUS
<1>4. t = z
  <2> HIDE DEF new
  <2>1. new.val = z BY <1>2
  <2> QED BY <1>3, <2>1
<1>5. v = [new EXCEPT !.adr = actlnode, !.time = IF new.logged THEN jourtime ELSE @, !.val = t] BY DEF Asked
<1> HIDE DEF t, new
<1>6. z \in [1 .. n -> {NoVal}] OBVIOUS
<1>7. \A k \in DOMAIN z : z[k] = NoVal OBVIOUS
<1> HIDE DEF z
<1>8. IsSeq(z) /\ Len(z) = n BY <1>1, <1>6, FcnIs
<1> HIDE DEF v
<1>9. v.val = z /\ v.cell = cell /\ v.adr = actlnode /\ v.do = item.do /\ v.leaf = item.leaf /\ v.logged = item.logged
  BY <1>2, <1>4, <1>5
<1> QED BY <1>7, <1>8, <1>9 DEF Cleared, v, n, new

LEMMA NewVarsAre ==
  ASSUME NEW m \in DOMAIN Menus, NEW free, free \subseteq Cells, NEW at \in [DOMAIN Menus[m].items -> free],
         IsInjective(at), jourtime \in Times, actlnode \in Lds
  PROVE  /\ OneEach(NewVars(m, at))
         /\ \A v \in Range(NewVars(m, at)) : Cleared(v) /\ NamedIn(v, m) /\ (~v.logged => Shows(m))
         /\ \A v, w \in Range(NewVars(m, at)) : ~v.logged /\ ~w.logged /\ FindVarrec(v) = FindVarrec(w) => v = w
<1> DEFINE items == Menus[m].items
           n == Len(items)
           Is(k) == Asked(NewVar(items[k], at[k]), actlnode, jourtime)
           new_vars == [k \in 1 .. n |-> Is(k)]
<1>1. /\ n \in Nat /\ DOMAIN items = 1 .. n /\ \A k \in 1 .. n : items[k] \in Range(items)
      /\ \A k \in 1 .. n : items[k].max \in Nat \ {0} /\ items[k].logged \in BOOLEAN
  <2>1. IsSeq(items) BY MenusAssumption DEF IsSeq
  <2>2. n \in Nat /\ DOMAIN items = 1 .. n /\ Range(items) = {items[k] : k \in 1 .. n} BY <2>1, SeqFacts
  <2> QED BY <2>2, MenusAssumption
<1>2. \A k \in 1 .. n : /\ Cleared(Is(k)) /\ Is(k).cell = at[k] /\ Is(k).adr = actlnode
                        /\ Is(k).do = items[k].do /\ Is(k).leaf = items[k].leaf
                        /\ Is(k).logged = items[k].logged /\ Len(Is(k).val) = items[k].max
  BY <1>1, NewVarIs
<1>3. NewVars(m, at) = new_vars BY <1>1 DEF NewVars
<1>4. \A k \in 1 .. n : at[k] \in Cells BY <1>1
<1>5. \A j, k \in 1 .. n : at[j] = at[k] => j = k BY <1>1 DEF IsInjective
<1>6. \A j, k \in 1 .. n : /\ ~items[j].logged /\ ~items[k].logged
                           /\ items[j].do = items[k].do /\ items[j].leaf = items[k].leaf
                           => j = k
  BY <1>1, ActualsAssumption
<1>7. \A k \in 1 .. n : ~items[k].logged => Shows(m) BY <1>1 DEF Shows
<1> HIDE DEF Is, new_vars
<1>8. DOMAIN new_vars = 1 .. n /\ \A k \in 1 .. n : new_vars[k] = Is(k) BY DEF new_vars
<1>9. \A v \in Range(new_vars) : \E k \in 1 .. n : v = Is(k) BY <1>8 DEF Range
<1>10. OneEach(new_vars) BY <1>2, <1>5, <1>8 DEF OneEach
<1>11. \A k \in 1 .. n : NamedIn(Is(k), m)
  <2> SUFFICES ASSUME NEW k \in 1 .. n PROVE NamedIn(Is(k), m) OBVIOUS
  <2>1. items[k] \in Range(Menus[m].items) BY <1>1
  <2> HIDE DEF items
  <2> QED BY <1>1, <1>2, <1>4, <2>1 DEF NamedIn
<1>12. ASSUME NEW j \in 1 .. n, NEW k \in 1 .. n, ~Is(j).logged, ~Is(k).logged, FindVarrec(Is(j)) = FindVarrec(Is(k))
       PROVE  j = k
  <2>1. ASSUME NEW i \in 1 .. n
        PROVE  VarRecs[FindVarrec(Is(i))].name = items[i].do /\ VarRecs[FindVarrec(Is(i))].leaf = items[i].leaf
    <3>1. items[i] \in Range(Menus[m].items) BY <1>1
    <3>2. Is(i).adr \in Lds /\ Is(i).do = items[i].do /\ Is(i).leaf = items[i].leaf BY <1>2
    <3> HIDE DEF items
    <3> QED BY <3>1, <3>2, FindFacts
  <2> HIDE DEF items
  <2> QED BY <1>2, <1>6, <1>12, <2>1
<1> HIDE DEF items
<1>13. \A v \in Range(new_vars) : Cleared(v) /\ NamedIn(v, m) /\ (~v.logged => Shows(m))
  BY <1>2, <1>7, <1>9, <1>11
<1>14. \A v, w \in Range(new_vars) : ~v.logged /\ ~w.logged /\ FindVarrec(v) = FindVarrec(w) => v = w
  BY <1>9, <1>12
<1> QED BY <1>3, <1>10, <1>13, <1>14

\* A menu is opened: if it shows actual values, none that is open does.
LEMMA EnterArranged ==
  ASSUME NEW menus, MenusOK(menus), Arranged(menus), NEW m \in Menus[Last(menus).name].into,
         NEW list, IsSeq(list), OneEach(list),
         \A v \in Range(list) : NamedIn(v, m) /\ (~v.logged => Shows(m)) /\ \A w \in Of(menus) : w.cell # v.cell,
         \A v, w \in Range(list) : ~v.logged /\ ~w.logged /\ FindVarrec(v) = FindVarrec(w) => v = w
  PROVE  /\ Arranged(Append(menus, [name |-> m, vars |-> list]))
         /\ Shows(m) => \A v \in Of(menus) : v.logged
<1> DEFINE n == Len(menus)
           new == [name |-> m, vars |-> list]
           more == Append(menus, new)
<1>1. /\ n \in Nat /\ n > 0 /\ DOMAIN menus = 1 .. n /\ Last(menus) = menus[n]
  BY FrontLast DEF MenusOK
<1>2. /\ Len(more) = n + 1 /\ DOMAIN more = 1 .. n + 1 /\ IsSeq(more)
      /\ \A i \in 1 .. n : more[i] = menus[i]
      /\ more[n + 1] = new
  <2>1. IsSeq(more) BY AppendIs DEF MenusOK
  <2>2. menus \in Seq(Range(menus) \cup {new}) BY SeqMonotonic DEF MenusOK, IsSeq
  <2> HIDE DEF new
  <2> QED BY <2>1, <2>2, AppendProperties, SeqFacts
<1>3. new.name = m /\ new.vars = list OBVIOUS
<1> HIDE DEF more, new
<1>4. \A i \in 1 .. n : menus[i].name \in DOMAIN Menus BY <1>1 DEF MenusOK, MenuOK, Range
<1>5. ASSUME NEW i \in 1 .. n PROVE m \in Above(menus[i].name)
  <2>1. Clear(menus[i].name, Above(menus[i].name)) BY <1>4, AboveFacts
  <2>2. CASE i = n BY <1>1, <2>1, <2>2 DEF Clear
  <2>3. CASE i < n
    <3>1. n \in 1 .. n BY <1>1
    <3>2. menus[n].name \in Above(menus[i].name) BY <1>1, <2>3, <3>1 DEF Arranged
    <3> QED BY <1>1, <2>1, <3>2 DEF Clear
  <2> QED BY <1>1, <2>2, <2>3
<1>6. \A v \in Of(menus) : \E i \in 1 .. n : v \in Range(menus[i].vars) BY <1>1, InMenu
<1>7. ASSUME Shows(m), NEW v \in Of(menus) PROVE v.logged
  <2>1. PICK i \in 1 .. n : v \in Range(menus[i].vars) BY <1>6
  <2>2. NamedIn(v, menus[i].name) BY <1>1, <2>1 DEF Arranged
  <2>3. ~Shows(menus[i].name)
    <3>1. Clear(menus[i].name, Above(menus[i].name)) BY <1>4, AboveFacts
    <3> QED BY <1>5, <1>7, <3>1 DEF Clear
  <2> QED BY <2>2, <2>3 DEF NamedIn, Shows
<1>8. \A i \in 1 .. n + 1 : (i \in 1 .. n /\ more[i] = menus[i]) \/ (i = n + 1 /\ more[i] = new) BY <1>1, <1>2
<1>9. \A i \in 1 .. n + 1 : OneEach(more[i].vars) /\ \A v \in Range(more[i].vars) : NamedIn(v, more[i].name)
  BY <1>1, <1>3, <1>8 DEF Arranged
<1>10. ASSUME NEW i \in 1 .. n + 1, NEW j \in 1 .. n + 1, i < j PROVE more[j].name \in Above(more[i].name)
  <2>1. i \in 1 .. n BY <1>10
  <2>2. CASE j \in 1 .. n BY <1>1, <1>2, <1>10, <2>1, <2>2 DEF Arranged
  <2>3. CASE j = n + 1 BY <1>2, <1>3, <1>5, <2>1, <2>3
  <2> QED BY <1>8, <2>2, <2>3
<1>11. \A v \in Range(list) : \A w \in Of(menus) : w.cell # v.cell OBVIOUS
<1>12. \A i \in 1 .. n : Range(menus[i].vars) \subseteq Of(menus) BY <1>1, OfIs DEF MenusOK
<1>13. \A i, j \in 1 .. n : \A v \in Range(menus[i].vars), w \in Range(menus[j].vars) : v.cell = w.cell => i = j
  BY <1>1 DEF Arranged
<1>14. ASSUME NEW i \in 1 .. n + 1, NEW j \in 1 .. n + 1,
              NEW v \in Range(more[i].vars), NEW w \in Range(more[j].vars), v.cell = w.cell
       PROVE  i = j
  <2>1. CASE i \in 1 .. n /\ j \in 1 .. n BY <1>2, <1>13, <1>14, <2>1
  <2>2. CASE i \in 1 .. n /\ j = n + 1 BY <1>2, <1>3, <1>11, <1>12, <1>14, <2>2
  <2>3. CASE i = n + 1 /\ j \in 1 .. n BY <1>2, <1>3, <1>11, <1>12, <1>14, <2>3
  <2>4. CASE i = n + 1 /\ j = n + 1 BY <2>4
  <2> QED BY <1>8, <2>1, <2>2, <2>3, <2>4
<1>15. \A v \in Of(more) : v \in Of(menus) \/ v \in Range(list)
  BY <1>2, <1>3, <1>8, <1>12, OfIs
<1>16. ASSUME NEW v \in Of(more), NEW w \in Of(more), ~v.logged, ~w.logged, FindVarrec(v) = FindVarrec(w)
       PROVE  v = w
  <2>1. \A x \in Range(list) : ~x.logged => \A y \in Of(menus) : y.logged BY <1>7
  <2>2. CASE v \in Of(menus) /\ w \in Of(menus) BY <1>16, <2>2 DEF Arranged
  <2>3. CASE v \in Range(list) /\ w \in Range(list) BY <1>16, <2>3
  <2> QED BY <1>15, <1>16, <2>1, <2>2, <2>3
<1>17. Arranged(more) BY <1>2, <1>9, <1>10, <1>14, <1>16 DEF Arranged
<1> QED BY <1>7, <1>17 DEF more, new

(***************************************************************************)
(* The keys, again                                                         *)
(***************************************************************************)
LEMMA RemadeFacts ==
  ASSUME NEW some, Arranged(some)
  PROVE  Of(Remade(some)) = Of(some) /\ Arranged(Remade(some))
<1>1. CASE some = <<>>
  <2>1. Of(some) = {} BY <1>1, EmptyIs DEF Of
  <2>2. Remade(some) = <<Main>> BY <1>1 DEF Remade
  <2> QED BY <2>1, <2>2, MainIs, MainArranged
<1>2. CASE some # <<>> BY <1>2 DEF Remade
<1> QED BY <1>1, <1>2

\* A key that only closes menus.
LEMMA AskNothing ==
  ASSUME NEW closed, NEW menus, MenusOK(menus), Arranged(menus), Of(menus) = Of(closed),
         NEW detached, IsSeq(detached), IsSeq(dn),
         NEW holders, Follows(closed, {}, holders, dn \o detached, 0, up, vr, crossed),
         Ask(menus, detached, <<>>)
  PROVE  Playable'
<1>1. IsSeq(<<>>) /\ Range(<<>>) = {} BY EmptyIs
<1>2. OneEach(<<>>) BY DEF OneEach
<1>3. \E after : Follows(menus, {}, after, dn', 0, up', vr', crossed') BY <1>1, <1>2, AskFollows
<1>4. open' = menus BY DEF Ask
<1> QED BY <1>3, <1>4 DEF Playable

LEMMA LeaveMenuPlays ==
  ASSUME WithinInv, Arranged(open), LeaveMenu
  PROVE  Arranged(open') /\ (Playable => Playable')
<1>1. MenusOK(open) /\ IsSeq(dn) BY DEF WithinInv
<1>2. Ask(Under, DetachMsg(Top), <<>>) BY DEF LeaveMenu
<1>3. MenusOK(Under) /\ Arranged(Under) BY <1>1, UnderIs, FrontArranged DEF LeaveMenu, Under
<1>4. open' = Under BY <1>2 DEF Ask
<1>5. ASSUME Playable PROVE Playable'
  <2>1. PICK holders : Follows(open, {}, holders, dn, 0, up, vr, crossed) BY <1>5 DEF Playable
  <2>2. PICK after : Follows(Under, {}, after, dn \o DetachMsg(Top), 0, up, vr, crossed)
    BY <1>1, <2>1, CloseFollows DEF Under, Top
  <2>3. IsSeq(DetachMsg(Top)) BY DetachMsgFacts
  <2> QED BY <1>1, <1>2, <1>3, <2>2, <2>3, AskNothing
<1> QED BY <1>3, <1>4, <1>5

LEMMA ChangeLdPlays ==
  ASSUME WithinInv, Arranged(open), ChangeLd
  PROVE  Arranged(open') /\ (Playable => Playable')
<1>1. MenusOK(open) /\ IsSeq(dn) BY DEF WithinInv
<1>2. Ask(Remade(Under), DetachMsg(Top), <<>>) BY DEF ChangeLd
<1>3. MenusOK(Remade(Under)) /\ Arranged(Under) BY <1>1, UnderIs, FrontArranged DEF Under
<1>4. Of(Remade(Under)) = Of(Under) /\ Arranged(Remade(Under)) BY <1>3, RemadeFacts
<1>5. open' = Remade(Under) BY <1>2 DEF Ask
<1>6. ASSUME Playable PROVE Playable'
  <2>1. PICK holders : Follows(open, {}, holders, dn, 0, up, vr, crossed) BY <1>6 DEF Playable
  <2>2. PICK after : Follows(Under, {}, after, dn \o DetachMsg(Top), 0, up, vr, crossed)
    BY <1>1, <2>1, CloseFollows DEF Under, Top
  <2>3. IsSeq(DetachMsg(Top)) BY DetachMsgFacts
  <2> QED BY <1>1, <1>2, <1>3, <1>4, <2>2, <2>3, AskNothing
<1> QED BY <1>4, <1>5, <1>6

LEMMA SelectLdPlays ==
  ASSUME WithinInv, Arranged(open), SelectLd
  PROVE  Arranged(open') /\ (Playable => Playable')
<1> DEFINE first == DetachMsg(Top)
           second == DetachMsg(Last(Under))
           menus == Front(Under)
<1>1. MenusOK(open) /\ IsSeq(dn) BY DEF WithinInv
<1>2. Ask(Remade(menus), first \o second, <<>>) BY DEF SelectLd
<1>3. MenusOK(Under) /\ Arranged(Under) BY <1>1, UnderIs, FrontArranged DEF SelectLd, Under
<1>4. MenusOK(Remade(menus)) /\ Arranged(menus) BY <1>3, UnderIs, FrontArranged
<1>5. Of(Remade(menus)) = Of(menus) /\ Arranged(Remade(menus)) BY <1>4, RemadeFacts
<1>6. open' = Remade(menus) BY <1>2 DEF Ask
<1>7. ASSUME Playable PROVE Playable'
  <2>1. PICK holders : Follows(open, {}, holders, dn, 0, up, vr, crossed) BY <1>7 DEF Playable
  <2>2. PICK after : Follows(Under, {}, after, dn \o first, 0, up, vr, crossed)
    BY <1>1, <2>1, CloseFollows DEF Under, Top
  <2>3. IsSeq(first) /\ IsSeq(second) /\ IsSeq(first \o second) /\ IsSeq(dn \o first)
    BY <1>1, DetachMsgFacts, ConcatIs
  <2>4. PICK last : Follows(menus, {}, last, (dn \o first) \o second, 0, up, vr, crossed)
    BY <1>3, <2>2, <2>3, CloseFollows
  <2>5. (dn \o first) \o second = dn \o (first \o second)
    <3> DEFINE S == Range(dn) \cup Range(first) \cup Range(second)
    <3>1. dn \in Seq(S) /\ first \in Seq(S) /\ second \in Seq(S)
      BY <1>1, <2>3, SeqMonotonic DEF IsSeq
    <3> HIDE DEF S, first, second
    <3> QED BY <3>1, ConcatAssociative
  <2>6. Follows(menus, {}, last, dn \o (first \o second), 0, up, vr, crossed) BY <2>4, <2>5
  <2> HIDE DEF first, second, menus
  <2> QED BY <1>1, <1>2, <1>4, <1>5, <2>3, <2>6, AskNothing
<1> QED BY <1>5, <1>6, <1>7

LEMMA EnterMenuPlays ==
  ASSUME WithinInv, Arranged(open), actlnode \in Lds, EnterMenu
  PROVE  Arranged(open') /\ (Playable => Playable')
<1>1. PICK m \in Menus[Top.name].into :
        \E at \in [DOMAIN Menus[m].items -> Cells \ InUse] :
          /\ IsInjective(at)
          /\ Ask(Append(open, [name |-> m, vars |-> NewVars(m, at)]), <<>>, NewVars(m, at))
  BY DEF EnterMenu, NewVars
<1>2. PICK at \in [DOMAIN Menus[m].items -> Cells \ InUse] :
          /\ IsInjective(at)
          /\ Ask(Append(open, [name |-> m, vars |-> NewVars(m, at)]), <<>>, NewVars(m, at))
  BY <1>1
<1> DEFINE free == Cells \ InUse
           new_vars == NewVars(m, at)
           menus == Append(open, [name |-> m, vars |-> new_vars])
<1>3. MenusOK(open) /\ jourtime \in Times /\ IsSeq(dn) BY DEF WithinInv
<1>4. m \in DOMAIN Menus
  <2>1. Top \in Range(open) BY <1>3, LastIs DEF MenusOK, Top
  <2>2. Top.name \in DOMAIN Menus BY <1>3, <2>1 DEF MenusOK, MenuOK
  <2> QED BY <2>2, MenusAssumption
<1>5. IsSeq(new_vars) /\ \A v \in Range(new_vars) : v.cell \in free BY <1>2, <1>3, <1>4, NewVarsFacts
<1>6. free \subseteq Cells OBVIOUS
<1>7. /\ OneEach(new_vars)
      /\ \A v \in Range(new_vars) : Cleared(v) /\ NamedIn(v, m) /\ (~v.logged => Shows(m))
      /\ \A v, w \in Range(new_vars) : ~v.logged /\ ~w.logged /\ FindVarrec(v) = FindVarrec(w) => v = w
  BY <1>2, <1>3, <1>4, <1>6, NewVarsAre
<1>8. \A v \in Range(new_vars) : \A w \in Of(open) : w.cell # v.cell
  <2>1. Live = Of(open) BY <1>3, LiveIs DEF MenusOK
  <2> QED BY <1>5, <2>1 DEF InUse
<1>9. Ask(menus, <<>>, new_vars) BY <1>2
<1>10. open' = menus BY <1>9 DEF Ask
<1>11. MenusOK(menus) BY <1>10, EnterMenuKeeps DEF WithinInv
<1> HIDE DEF new_vars
<1>12. Arranged(menus)
  BY <1>1, <1>3, <1>5, <1>7, <1>8, EnterArranged DEF Top
<1>13. Of(menus) = Of(open) \cup Range(new_vars)
  <2> DEFINE menu == [name |-> m, vars |-> new_vars]
  <2>1. menu.vars = new_vars OBVIOUS
  <2> HIDE DEF menu
  <2>2. Range(Append(open, menu)) = Range(open) \cup {menu} BY <1>3, AppendIs DEF MenusOK
  <2>3. Of(Append(open, menu)) = Of(open) \cup Range(new_vars) BY <2>1, <2>2 DEF Of
  <2> QED BY <2>3 DEF menu
<1> HIDE DEF menus
<1>14. ASSUME Playable PROVE Playable'
  <2>1. PICK holders : Follows(open, {}, holders, dn, 0, up, vr, crossed) BY <1>14 DEF Playable
  <2>2. dn \o <<>> = dn BY <1>3 DEF IsSeq
  <2>3. Follows(open, {}, holders, dn \o <<>>, 0, up, vr, crossed) BY <2>1, <2>2
  <2>4. \A v \in Of(open) : v.cell \notin {w.cell : w \in Range(new_vars)} BY <1>8
  <2>5. IsSeq(<<>>) /\ Range(<<>>) = {} BY EmptyIs
  <2>6. \E after : Follows(menus, {}, after, dn', 0, up', vr', crossed')
    BY <1>3, <1>5, <1>7, <1>9, <1>11, <1>12, <1>13, <2>3, <2>4, <2>5, AskFollows
  <2> QED BY <1>10, <2>6 DEF Playable
<1> QED BY <1>10, <1>12, <1>14

LEMMA AppendOneEach ==
  ASSUME NEW s, IsSeq(s), OneEach(s), NEW e, \A v \in Range(s) : v.cell # e.cell
  PROVE  OneEach(Append(s, e))
<1> DEFINE n == Len(s)
           t == Append(s, e)
<1>1. n \in Nat /\ DOMAIN s = 1 .. n /\ \A x \in 1 .. n : s[x] \in Range(s) BY SeqFacts
<1>2. IsSeq(t) BY AppendIs
<1>3. s \in Seq(Range(s) \cup {e}) BY SeqMonotonic DEF IsSeq
<1>4. Len(t) = n + 1 /\ (\A x \in 1 .. n : t[x] = s[x]) /\ t[n + 1] = e BY <1>3, AppendProperties
<1>5. DOMAIN t = 1 .. n + 1 BY <1>2, <1>4, SeqFacts
<1> HIDE DEF n, t
<1>6. \A x \in DOMAIN t : (x \in 1 .. n /\ t[x] = s[x] /\ t[x].cell # e.cell) \/ (x = n + 1 /\ t[x].cell = e.cell)
  BY <1>1, <1>4, <1>5
<1>7. \A x, y \in 1 .. n : s[x].cell = s[y].cell => x = y BY <1>1 DEF OneEach
<1>8. OneEach(t) BY <1>6, <1>7 DEF OneEach
<1> QED BY <1>8 DEF t

LEMMA OfKindOneEach ==
  ASSUME NEW list, IsSeq(list), OneEach(list), NEW logged
  PROVE  OneEach(OfKind(list, logged))
<1> DEFINE n == Len(list)
           Good(s, k) == IsSeq(s) /\ OneEach(s) /\ \A v \in Range(s) : \E j \in 1 .. k : v = list[j]
<1>1. n \in Nat /\ DOMAIN list = 1 .. n BY SeqFacts
<1>2. PICK f : /\ f[0] = <<>>
               /\ \A k \in 1 .. n : f[k] = IF list[k].logged = logged THEN Append(f[k - 1], list[k]) ELSE f[k - 1]
               /\ OfKind(list, logged) = f[n]
  BY <1>1, OfKindLoop
<1> DEFINE S == {k \in Nat : k <= n => Good(f[k], k)}
<1>3. Good(f[0], 0)
  <2>1. OneEach(<<>>) BY DEF OneEach
  <2> QED BY <1>2, <2>1, EmptyIs
<1>4. ASSUME NEW k \in Nat, k \in S PROVE k + 1 \in S
  <2> SUFFICES ASSUME k + 1 <= n PROVE Good(f[k + 1], k + 1) OBVIOUS
  <2> DEFINE s == f[k]
             e == list[k + 1]
  <2>1. Good(s, k) BY <1>1, <1>4
  <2>2. k + 1 \in 1 .. n /\ (k + 1) - 1 = k BY <1>1
  <2>3. f[k + 1] = IF e.logged = logged THEN Append(s, e) ELSE s BY <1>2, <2>2
  <2>4. \A j \in 1 .. k : j \in 1 .. n /\ j \in 1 .. k + 1 /\ j # k + 1 BY <1>1, <2>2
  <2>5. \A v \in Range(s) : v.cell # e.cell
    <3>1. \A j \in 1 .. k : list[j].cell # e.cell BY <1>1, <2>2, <2>4 DEF OneEach
    <3> HIDE DEF s
    <3> QED BY <2>1, <3>1
  <2>6. \A v \in Range(s) \cup {e} : \E j \in 1 .. k + 1 : v = list[j]
    <3>1. k + 1 \in 1 .. k + 1 OBVIOUS
    <3> HIDE DEF s
    <3> QED BY <2>1, <2>4, <3>1
  <2> HIDE DEF s, e
  <2>7. Good(Append(s, e), k + 1) BY <2>1, <2>5, <2>6, AppendIs, AppendOneEach
  <2>8. Good(s, k + 1) BY <2>1, <2>6
  <2> QED BY <2>3, <2>7, <2>8
<1> HIDE DEF Good
<1>5. 0 \in S BY <1>3
<1> HIDE DEF S
<1>6. n \in S BY <1>1, <1>4, <1>5, Induct
<1>7. Good(f[n], n) BY <1>1, <1>6 DEF S
<1> QED BY <1>2, <1>7 DEF Good

LEMMA AskedIs ==
  ASSUME NEW v, Varrec(v), NEW adr, NEW time
  PROVE  LET w == Asked(v, adr, time)
         IN  /\ Cleared(w) /\ w.cell = v.cell /\ w.do = v.do /\ w.leaf = v.leaf /\ w.logged = v.logged
             /\ w.adr = adr /\ Len(w.val) = Len(v.val)
<1> DEFINE n == Len(v.val)
           t == [k \in DOMAIN v.val |-> NoVal]
           w == Asked(v, adr, time)
<1>1. n \in Nat /\ DOMAIN v.val = 1 .. n BY SeqFacts DEF Varrec
<1>2. w = [v EXCEPT !.adr = adr, !.time = IF v.logged THEN time ELSE @, !.val = t] BY DEF Asked
<1>3. t \in [1 .. n -> {NoVal}] /\ \A x \in DOMAIN t : t[x] = NoVal BY <1>1
<1> HIDE DEF t, n, w
<1>4. w = [do |-> v.do, leaf |-> v.leaf, logged |-> v.logged, cell |-> v.cell, adr |-> adr,
           time |-> IF v.logged THEN time ELSE v.time, val |-> t]
  BY <1>2 DEF Varrec
<1>5. Len(t) = n BY <1>1, <1>3, FcnIs
<1>6. /\ Cleared(w) /\ w.cell = v.cell /\ w.do = v.do /\ w.leaf = v.leaf /\ w.logged = v.logged
      /\ w.adr = adr /\ Len(w.val) = n
  BY <1>3, <1>4, <1>5 DEF Cleared
<1> QED BY <1>6 DEF w, n

\* The menu in view, asked again.
LEMMA RefreshPlays ==
  ASSUME WithinInv, actlnode \in Lds, NEW menus, MenusOK(menus), Arranged(menus), Of(menus) \subseteq Of(open),
         NEW detached, IsSeq(detached),
         \A m \in Range(detached) : m.sys_msg = "VARDETACH" /\ \A v \in Of(menus) : ~About(m, v.cell),
         jourtime' \in Times, Refresh(menus, detached, jourtime')
  PROVE  /\ Arranged(open')
         /\ \A holders : Follows(menus, {}, holders, dn \o detached, 0, up, vr, crossed) => Playable'
<1> DEFINE n == Len(menus)
           top == Last(menus)
           vs == top.vars
           time == jourtime'
           Again(v) == IF v.logged THEN Asked(v, actlnode, time) ELSE v
           again == [k \in DOMAIN vs |-> IF vs[k].logged THEN Asked(vs[k], actlnode, time) ELSE vs[k]]
           top2 == [top EXCEPT !.vars = again]
           menus2 == Append(Front(menus), top2)
           asked == OfKind(again, TRUE)
<1>1. Ask(menus2, detached, asked) BY DEF Refresh
<1>2. open' = menus2 BY <1>1 DEF Ask
<1>3. MenusOK(menus2) BY <1>2, RefreshKeeps DEF WithinInv
<1>4. /\ n \in Nat /\ n > 0 /\ DOMAIN menus = 1 .. n
      /\ Len(Front(menus)) = n - 1 /\ \A i \in 1 .. n - 1 : Front(menus)[i] = menus[i]
      /\ top = menus[n] /\ top \in Range(menus)
  BY FrontLast, LastIs DEF MenusOK
<1>5. MenuOK(top) /\ IsSeq(vs) /\ Range(vs) \subseteq Of(menus) BY <1>4 DEF MenusOK, MenuOK, Of
<1>6. \A v \in Range(vs) : Varrec(v) /\ v.logged \in BOOLEAN /\ v.cell \in Cells /\ v.adr \in Lds
  <2>1. \A v \in Of(menus) : Varrec(v) BY DEF MenusOK, Shaped
  <2>2. \A v \in Range(vs) : NamedIn(v, top.name) BY <1>4 DEF Arranged
  <2> QED BY <1>5, <2>1, <2>2 DEF NamedIn
<1>7. \A v \in Range(vs) : Like(Again(v), v)
                           /\ IF v.logged THEN Cleared(Again(v)) /\ Again(v).logged = TRUE ELSE Again(v) = v
  <2> SUFFICES ASSUME NEW v \in Range(vs)
               PROVE  Like(Again(v), v)
                      /\ IF v.logged THEN Cleared(Again(v)) /\ Again(v).logged = TRUE ELSE Again(v) = v
    OBVIOUS
  <2>1. CASE v.logged
    <3>1. Again(v) = Asked(v, actlnode, time) BY <2>1
    <3> HIDE DEF Again, time, vs
    <3>2. LET w == Asked(v, actlnode, time)
          IN  /\ Cleared(w) /\ w.cell = v.cell /\ w.do = v.do /\ w.leaf = v.leaf /\ w.logged = v.logged
              /\ w.adr = actlnode /\ Len(w.val) = Len(v.val)
      BY <1>6, AskedIs
    <3> QED BY <1>6, <2>1, <3>1, <3>2 DEF Like
  <2>2. CASE ~v.logged BY <1>6, <2>2 DEF Like
  <2> QED BY <2>1, <2>2
<1>8. /\ DOMAIN vs = 1 .. Len(vs) /\ Len(vs) \in Nat /\ Range(vs) = {vs[x] : x \in 1 .. Len(vs)}
  BY <1>5, SeqFacts
<1>9. DOMAIN again = DOMAIN vs /\ \A x \in DOMAIN vs : again[x] = Again(vs[x]) OBVIOUS
<1>10. top2 = [name |-> top.name, vars |-> again] BY <1>5 DEF MenuOK
<1>11. top2.name = top.name /\ top2.vars = again BY <1>10
<1>12. IsSeq(again)
  <2>1. again \in [1 .. Len(vs) -> {Again(v) : v \in Range(vs)}] BY <1>8, <1>9
  <2> HIDE DEF again
  <2> QED BY <1>8, <2>1, FcnIs
<1> HIDE DEF Again, again, top2
<1>13. /\ DOMAIN menus2 = 1 .. n /\ menus2[n] = top2
       /\ \A i \in 1 .. n - 1 : menus2[i] = menus[i]
  <2> DEFINE s == Front(menus)
  <2>1. IsSeq(s) /\ Len(s) = n - 1 BY <1>4, FrontIs DEF MenusOK
  <2>2. s \in Seq(Range(s) \cup {top2}) BY <2>1, SeqMonotonic DEF IsSeq
  <2> HIDE DEF s
  <2>3. /\ Len(Append(s, top2)) = Len(s) + 1 /\ Append(s, top2)[Len(s) + 1] = top2
        /\ \A i \in 1 .. Len(s) : Append(s, top2)[i] = s[i]
    BY <2>2, AppendProperties
  <2>4. IsSeq(Append(s, top2)) BY <2>1, AppendIs
  <2>5. DOMAIN Append(s, top2) = 1 .. Len(Append(s, top2)) BY <2>4, SeqFacts
  <2>6. (n - 1) + 1 = n BY <1>4
  <2> HIDE DEF n, top
  <2> QED BY <1>4, <2>1, <2>3, <2>5, <2>6 DEF s
<1>14. Arranged(menus2)
  <2>1. ASSUME NEW i \in DOMAIN menus
        PROVE  /\ menus2[i].name = menus[i].name /\ DOMAIN menus2[i].vars = DOMAIN menus[i].vars
               /\ \A x \in DOMAIN menus[i].vars : Like(menus2[i].vars[x], menus[i].vars[x])
    <3>1. CASE i = n
      <4>1. \A x \in DOMAIN vs : vs[x] \in Range(vs) BY <1>8
      <4> QED BY <1>4, <1>7, <1>9, <1>11, <1>13, <3>1, <4>1
    <3>2. CASE i # n
      <4>1. i \in 1 .. n - 1 BY <1>4, <3>2
      <4>2. menus2[i] = menus[i] BY <1>13, <4>1
      <4>3. \A x \in DOMAIN menus[i].vars : menus[i].vars[x] \in Range(menus[i].vars) BY DEF Range
      <4>4. \A v \in Range(menus[i].vars) : v.adr \in Lds BY DEF Arranged, NamedIn
      <4> QED BY <4>2, <4>3, <4>4 DEF Like
    <3> QED BY <3>1, <3>2
  <2>2. DOMAIN menus2 = DOMAIN menus BY <1>4, <1>13
  <2> HIDE DEF menus2
  <2> QED BY <1>3, <2>1, <2>2, LikeArranged
<1>15. Of(menus) = Of(Front(menus)) \cup Range(vs) BY FrontArranged
<1>16. Of(menus2) = Of(Front(menus)) \cup Range(again)
  <2>1. Range(menus2) = Range(Front(menus)) \cup {top2} BY FrontIs, AppendIs DEF MenusOK
  <2> QED BY <1>11, <2>1 DEF Of
<1> HIDE DEF menus2, top, n
<1>17. IsSeq(asked) /\ Range(asked) = {w \in Range(again) : w.logged = TRUE} BY <1>12, OfKindFacts
<1>18. \A w \in Range(again) : \E v \in Range(vs) : w = Again(v)
  <2>1. \A x \in DOMAIN vs : vs[x] \in Range(vs) BY <1>8
  <2> QED BY <1>9, <2>1 DEF Range
<1>19. \A v \in Range(vs) : Again(v) \in Range(again) BY <1>9 DEF Range
<1>20. OneEach(asked)
  <2>1. OneEach(vs) BY <1>4 DEF Arranged
  <2>2. \A x \in DOMAIN vs : again[x].cell = vs[x].cell BY <1>7, <1>8, <1>9 DEF Like
  <2>3. OneEach(again) BY <1>9, <2>1, <2>2 DEF OneEach
  <2> QED BY <1>12, <2>3, OfKindOneEach
<1>21. \A w \in Range(asked) : Cleared(w) /\ \E v \in Range(vs) : v.logged /\ v.cell = w.cell
  <2> SUFFICES ASSUME NEW w \in Range(asked)
               PROVE  Cleared(w) /\ \E v \in Range(vs) : v.logged /\ v.cell = w.cell
    OBVIOUS
  <2>1. PICK v \in Range(vs) : w = Again(v) BY <1>17, <1>18
  <2>2. w.logged = TRUE /\ Like(w, v) BY <1>7, <1>17, <2>1
  <2>3. v.logged BY <2>2 DEF Like
  <2> QED BY <1>7, <2>1, <2>2, <2>3 DEF Like
<1> HIDE DEF asked, vs
<1>22. \A v \in Of(menus2) : v.cell \notin {w.cell : w \in Range(asked)} => v \in Of(menus)
  <2> SUFFICES ASSUME NEW v \in Range(again), v \notin Range(asked) PROVE v \in Range(vs)
    BY <1>15, <1>16
  <2>1. PICK x \in Range(vs) : v = Again(x) BY <1>18
  <2>2. CASE x.logged BY <1>7, <1>17, <2>1, <2>2
  <2>3. CASE ~x.logged BY <1>7, <2>1, <2>3
  <2> QED BY <2>2, <2>3
<1>23. ASSUME NEW v \in Of(menus), ~v.logged
       PROVE  v \in Of(menus2) /\ v.cell \notin {w.cell : w \in Range(asked)}
  <2>1. v \in Of(menus2) BY <1>7, <1>15, <1>16, <1>19, <1>23
  <2>2. ASSUME NEW w \in Range(asked), w.cell = v.cell PROVE FALSE
    <3>1. PICK x \in Range(vs) : x.logged /\ x.cell = w.cell BY <1>21
    <3>2. x \in Of(menus) BY <1>15
    <3>3. x = v BY <2>2, <3>1, <3>2, OneEachCell
    <3> QED BY <1>23, <3>1, <3>3
  <2> QED BY <2>1, <2>2
<1>24. \A m \in Range(detached) : \A w \in Range(asked) : ~About(m, w.cell)
  <2>1. \A w \in Range(asked) : \E v \in Of(menus) : v.cell = w.cell BY <1>15, <1>21
  <2> QED BY <2>1
<1>25. Range(asked) \subseteq Of(menus2) BY <1>16, <1>17
<1>26. IsSeq(dn) BY DEF WithinInv
<1>27. ASSUME NEW holders, Follows(menus, {}, holders, dn \o detached, 0, up, vr, crossed) PROVE Playable'
  <2>1. \E after : Follows(menus2, {}, after, dn', 0, up', vr', crossed')
    BY <1>1, <1>3, <1>14, <1>17, <1>20, <1>21, <1>22, <1>23, <1>24, <1>25, <1>26, <1>27, AskFollows
  <2> QED BY <1>2, <2>1 DEF Playable
<1> QED BY <1>2, <1>14, <1>27

LEMMA ChangeTimePlays ==
  ASSUME WithinInv, Arranged(open), actlnode \in Lds, ChangeTime
  PROVE  Arranged(open') /\ (Playable => Playable')
<1>1. MenusOK(open) /\ IsSeq(dn) BY DEF WithinInv
<1>2. Refresh(open, <<>>, jourtime') /\ jourtime' \in Times BY DEF ChangeTime
<1>3. IsSeq(<<>>) /\ Range(<<>>) = {} BY EmptyIs
<1>4. Arranged(open') /\ \A holders : Follows(open, {}, holders, dn \o <<>>, 0, up, vr, crossed) => Playable'
  BY <1>1, <1>2, <1>3, RefreshPlays
<1>5. dn \o <<>> = dn BY <1>1 DEF IsSeq
<1> QED BY <1>4, <1>5 DEF Playable

LEMMA LeaveForTimePlays ==
  ASSUME WithinInv, Arranged(open), actlnode \in Lds, LeaveForTime
  PROVE  Arranged(open') /\ (Playable => Playable')
<1>1. MenusOK(open) /\ IsSeq(dn) BY DEF WithinInv
<1>2. Refresh(Under, DetachMsg(Top), jourtime') /\ jourtime' \in Times BY DEF LeaveForTime
<1>3. MenusOK(Under) /\ Of(Under) \subseteq Of(open) BY <1>1, UnderIs DEF LeaveForTime, Under
<1>4. /\ Arranged(Under) /\ Of(open) = Of(Under) \cup Range(Top.vars)
      /\ \A v \in Of(Under), w \in Range(Top.vars) : v.cell # w.cell
  BY <1>1, FrontArranged DEF Under, Top
<1>5. IsSeq(DetachMsg(Top)) /\ \A m \in Range(DetachMsg(Top)) : m.sys_msg = "VARDETACH" BY DetachMsgFacts
<1>6. ASSUME NEW m \in Range(DetachMsg(Top)), NEW v \in Of(Under) PROVE ~About(m, v.cell)
  <2>1. IsSeq(Top.vars) BY <1>1, LastIs DEF MenusOK, MenuOK, Top
  <2>2. \A w \in Range(Top.vars) : w.logged \in BOOLEAN BY <1>1, <1>4, NamedFacts
  <2>3. Range(m.uids) = {w.cell : w \in {x \in Range(Top.vars) : ~x.logged}}
    <3>1. CASE DetachMsg(Top) = <<>> BY <3>1, EmptyIs
    <3>2. CASE DetachMsg(Top) # <<>>
      <4>1. PICK x : /\ DetachMsg(Top) = <<x>>
                     /\ Range(x.uids) = {w.cell : w \in {y \in Range(Top.vars) : ~y.logged}}
        BY <2>1, <2>2, <3>2, DetachIs
      <4>2. m = x BY <4>1 DEF Range
      <4> QED BY <4>1, <4>2
    <3> QED BY <3>1, <3>2
  <2>4. v.cell \notin Range(m.uids) BY <1>4, <2>3
  <2>5. m.sys_msg = "VARDETACH" BY <1>5
  <2> QED BY <2>4, <2>5 DEF About
<1>7. Arranged(open') /\ \A holders : Follows(Under, {}, holders, dn \o DetachMsg(Top), 0, up, vr, crossed) => Playable'
  BY <1>2, <1>3, <1>4, <1>5, <1>6, RefreshPlays
<1>8. ASSUME Playable PROVE Playable'
  <2>1. PICK holders : Follows(open, {}, holders, dn, 0, up, vr, crossed) BY <1>8 DEF Playable
  <2>2. PICK after : Follows(Under, {}, after, dn \o DetachMsg(Top), 0, up, vr, crossed)
    BY <1>1, <2>1, CloseFollows DEF Under, Top
  <2> QED BY <1>7, <2>2
<1> QED BY <1>7, <1>8

LEMMA KeysPlay ==
  ASSUME SettledInv, Keys
  PROVE  SettledInv'
<1>1. WithinInv /\ Arranged(open) /\ actlnode \in Lds BY DEF SettledInv
<1>2. Arranged(open') /\ (Playable => Playable')
  BY <1>1, EnterMenuPlays, LeaveMenuPlays, LeaveForTimePlays, ChangeTimePlays, ChangeLdPlays, SelectLdPlays DEF Keys
<1>3. actlnode' \in Lds
  BY <1>1 DEF Keys, EnterMenu, LeaveMenu, LeaveForTime, ChangeTime, ChangeLd, SelectLd
<1>4. misread' = misread
  BY DEF Keys, EnterMenu, LeaveMenu, LeaveForTime, ChangeTime, ChangeLd, SelectLd, Refresh, Ask
<1>5. WithinInv' BY <1>1, KeysKeep
<1>6. Lds' = Lds BY DEF Lds
<1> QED BY <1>2, <1>3, <1>4, <1>5 DEF SettledInv

(***************************************************************************)
(* Events more on the way                                                  *)
(***************************************************************************)
\* u2 is u and the events e.
Adds(u2, u, e) ==
  /\ IsSeq(u2) /\ Len(u) \in Nat /\ Len(e) \in Nat /\ Len(u2) = Len(u) + Len(e)
  /\ DOMAIN u = 1 .. Len(u) /\ DOMAIN u2 = 1 .. Len(u2)
  /\ \A i \in 1 .. Len(u) : u2[i] = u[i]
  /\ \A i \in 1 .. Len(e) : u2[Len(u) + i] = e[i]
  /\ \A i \in Len(u) + 1 .. Len(u2) : \E x \in 1 .. Len(e) : i = Len(u) + x

LEMMA AddsConcat ==
  ASSUME NEW u, IsSeq(u), NEW e, IsSeq(e)
  PROVE  Adds(u \o e, u, e)
<1> DEFINE S == Range(u) \cup Range(e)
<1>1. u \in Seq(S) /\ e \in Seq(S) BY SeqMonotonic DEF IsSeq
<1> HIDE DEF S
<1>2. IsSeq(u \o e) BY ConcatIs
<1>3. /\ Len(u \o e) = Len(u) + Len(e) /\ Len(u) \in Nat /\ Len(e) \in Nat
      /\ \A i \in 1 .. Len(u) : (u \o e)[i] = u[i]
      /\ \A i \in 1 .. Len(e) : (u \o e)[Len(u) + i] = e[i]
  BY <1>1
<1>4. DOMAIN u = 1 .. Len(u) /\ DOMAIN (u \o e) = 1 .. Len(u \o e) BY <1>2, SeqFacts
<1>5. ASSUME NEW i \in Len(u) + 1 .. Len(u \o e) PROVE \E x \in 1 .. Len(e) : i = Len(u) + x
  <2>1. i - Len(u) \in 1 .. Len(e) /\ i = Len(u) + (i - Len(u)) BY <1>3
  <2> QED BY <2>1
<1> QED BY <1>2, <1>3, <1>4, <1>5 DEF Adds

\* What is added is not for an address.
Spares(e, c) == \A x \in 1 .. Len(e) : e[x].uid # c

LEMMA AddsPlaces ==
  ASSUME NEW u, NEW u2, NEW e, Adds(u2, u, e), NEW c, Spares(e, c)
  PROVE  /\ \A i \in DOMAIN u : i \in DOMAIN u2 /\ u2[i] = u[i]
         /\ \A i \in DOMAIN u2 : u2[i].uid = c => i \in DOMAIN u
<1>1. \A i \in DOMAIN u : i \in DOMAIN u2 /\ u2[i] = u[i] BY DEF Adds
<1>2. ASSUME NEW i \in DOMAIN u2, i \notin DOMAIN u PROVE u2[i].uid # c
  <2>1. i \in Len(u) + 1 .. Len(u2) BY <1>2 DEF Adds
  <2>2. PICK x \in 1 .. Len(e) : i = Len(u) + x BY <2>1 DEF Adds
  <2>3. u2[i] = e[x] BY <2>2 DEF Adds
  <2> QED BY <2>3 DEF Spares
<1> QED BY <1>1, <1>2

LEMMA RestsAdds ==
  ASSUME NEW u, NEW u2, NEW e, Adds(u2, u, e), NEW c, Spares(e, c), Rests(u, c)
  PROVE  Rests(u2, c)
BY AddsPlaces DEF Rests

LEMMA UpToDateAdds ==
  ASSUME NEW u, NEW u2, NEW e, Adds(u2, u, e), NEW v, Spares(e, v.cell), NEW value, UpToDate(v, u, value)
  PROVE  UpToDate(v, u2, value)
<1>1. CASE Rests(u, v.cell) /\ v.val = <<value>>
  <2>1. Rests(u2, v.cell) BY <1>1, RestsAdds
  <2> QED BY <1>1, <2>1 DEF UpToDate
<1>2. CASE \E i \in DOMAIN u : u[i] = Event(v.cell, value) /\ \A j \in i + 1 .. Len(u) : u[j].uid # v.cell
  <2>1. PICK i \in DOMAIN u : u[i] = Event(v.cell, value) /\ \A j \in i + 1 .. Len(u) : u[j].uid # v.cell
    BY <1>2
  <2>2. i \in DOMAIN u2 /\ u2[i] = u[i] BY AddsPlaces
  <2>3. ASSUME NEW j \in i + 1 .. Len(u2), u2[j].uid = v.cell PROVE FALSE
    <3>1. DOMAIN u2 = 1 .. Len(u2) /\ DOMAIN u = 1 .. Len(u) /\ Len(u) \in Nat BY DEF Adds
    <3>2. i \in 1 .. Len(u) BY <3>1
    <3>3. j \in DOMAIN u2 BY <3>1, <3>2
    <3>4. j \in DOMAIN u /\ u2[j] = u[j] BY <2>3, <3>3, AddsPlaces
    <3>5. j \in i + 1 .. Len(u) BY <3>1, <3>2, <3>4
    <3> QED BY <2>1, <2>3, <3>4, <3>5
  <2> QED BY <2>1, <2>2, <2>3 DEF UpToDate
<1> QED BY <1>1, <1>2 DEF UpToDate

LEMMA UpToDateLast ==
  ASSUME NEW u, NEW u2, NEW v, NEW value, Adds(u2, u, <<Event(v.cell, value)>>)
  PROVE  UpToDate(v, u2, value)
<1> DEFINE e == <<Event(v.cell, value)>>
           n == Len(u)
<1>1. Len(e) = 1 /\ e[1] = Event(v.cell, value) OBVIOUS
<1>2. Adds(u2, u, e) OBVIOUS
<1> HIDE DEF e
<1>3. n \in Nat /\ Len(u2) = n + 1 /\ DOMAIN u2 = 1 .. n + 1 BY <1>1, <1>2 DEF Adds
<1>4. 1 \in 1 .. Len(e) BY <1>1
<1>5. u2[n + 1] = Event(v.cell, value) BY <1>1, <1>2, <1>4 DEF Adds
<1>6. n + 1 \in DOMAIN u2 BY <1>3
<1>7. \A j \in (n + 1) + 1 .. Len(u2) : FALSE BY <1>3
<1> QED BY <1>5, <1>6, <1>7 DEF UpToDate

(***************************************************************************)
(* startiec takes a message                                                *)
(***************************************************************************)
LEMMA JournalNext ==
  ASSUME NEW holders, NEW d, Len(d) \in Nat, NEW k \in Nat, k < Len(d), NEW v,
         NEW u, JournalOK(v, holders, d, k, u), ~About(d[k + 1], v.cell),
         NEW u2, NEW e, Adds(u2, u, e), Spares(e, v.cell)
  PROVE  JournalOK(v, holders, d, k + 1, u2)
<1> DEFINE c == v.cell
           l == k + 1
<1>1. l \in Nat /\ l <= Len(d) BY DEF l
<1>2. /\ \A j \in l .. Len(d) : j \in k .. Len(d)
      /\ \A j \in l + 1 .. Len(d) : j \in k + 1 .. Len(d)
      /\ \A j \in k + 1 .. Len(d) : j = k + 1 \/ j \in l + 1 .. Len(d)
  BY DEF l
<1>3. ~About(d[l], c) BY DEF l
<1> HIDE DEF l
<1>4. \A j \in l .. Len(d) : Without(holders[j], c) BY <1>2 DEF JournalOK
<1>5. CASE /\ \E p \in k + 1 .. Len(d) :
                /\ d[p].sys_msg = "VARATTACH" /\ d[p].of = v
                /\ \A j \in k + 1 .. Len(d) : j # p => ~About(d[j], c)
           /\ Rests(u, c) /\ \A x \in DOMAIN v.val : v.val[x] = NoVal
  <2>1. PICK p \in k + 1 .. Len(d) :
                /\ d[p].sys_msg = "VARATTACH" /\ d[p].of = v
                /\ \A j \in k + 1 .. Len(d) : j # p => ~About(d[j], c)
    BY <1>5
  <2>2. About(d[p], c) BY <2>1 DEF About
  <2>3. p \in l + 1 .. Len(d) BY <1>2, <1>3, <2>2 DEF l
  <2>4. Rests(u2, c) BY <1>5, RestsAdds
  <2> QED BY <1>2, <1>4, <1>5, <2>1, <2>3, <2>4 DEF JournalOK, l
<1>6. CASE /\ \A j \in k + 1 .. Len(d) : ~About(d[j], c)
           /\ \A i \in DOMAIN u : u[i].uid = c =>
                u[i].validx \in DOMAIN v.val /\ u[i].value = Record(v, u[i].validx)
           /\ \A x \in DOMAIN v.val :
                v.val[x] = Record(v, x) \/ \E i \in DOMAIN u : u[i].uid = c /\ u[i].validx = x
  <2>1. \A i \in DOMAIN u2 : u2[i].uid = c =>
                u2[i].validx \in DOMAIN v.val /\ u2[i].value = Record(v, u2[i].validx)
    BY <1>6, AddsPlaces
  <2>2. \A x \in DOMAIN v.val :
                v.val[x] = Record(v, x) \/ \E i \in DOMAIN u2 : u2[i].uid = c /\ u2[i].validx = x
    BY <1>6, AddsPlaces
  <2> QED BY <1>2, <1>4, <1>6, <2>1, <2>2 DEF JournalOK, l
<1> QED BY <1>5, <1>6 DEF JournalOK

\* The message asks for the journal.
LEMMA JournalAsked ==
  ASSUME NEW holders, NEW d, Len(d) \in Nat, NEW k \in Nat, k < Len(d), NEW v,
         NEW u, JournalOK(v, holders, d, k, u), About(d[k + 1], v.cell)
  PROVE  /\ d[k + 1].sys_msg = "VARATTACH" /\ d[k + 1].of = v
         /\ Rests(u, v.cell) /\ \A x \in DOMAIN v.val : v.val[x] = NoVal
         /\ \A j \in k + 2 .. Len(d) : ~About(d[j], v.cell)
         /\ \A j \in k + 1 .. Len(d) : Without(holders[j], v.cell)
<1>1. k + 1 \in k + 1 .. Len(d) /\ \A j \in k + 2 .. Len(d) : j \in k + 1 .. Len(d) /\ j # k + 1 OBVIOUS
<1>2. PICK p \in k + 1 .. Len(d) :
                /\ d[p].sys_msg = "VARATTACH" /\ d[p].of = v
                /\ \A j \in k + 1 .. Len(d) : j # p => ~About(d[j], v.cell)
  BY <1>1 DEF JournalOK
<1>3. p = k + 1 BY <1>1, <1>2
<1>4. Rests(u, v.cell) /\ \A x \in DOMAIN v.val : v.val[x] = NoVal BY <1>1 DEF JournalOK
<1>5. \A j \in k + 2 .. Len(d) : ~About(d[j], v.cell) BY <1>1, <1>2, <1>3
<1>6. \A j \in k + 1 .. Len(d) : j \in k .. Len(d) OBVIOUS
<1> QED BY <1>2, <1>3, <1>4, <1>5, <1>6 DEF JournalOK

\* Its answer.
LEMMA JournalAnswered ==
  ASSUME NEW holders, NEW d, Len(d) \in Nat, NEW k \in Nat, k < Len(d),
         NEW v, Shaped(v), v.logged, \A x \in DOMAIN v.val : v.val[x] = NoVal,
         \A j \in k + 2 .. Len(d) : ~About(d[j], v.cell), \A j \in k + 1 .. Len(d) : Without(holders[j], v.cell),
         NEW u, Rests(u, v.cell), NEW u2, Adds(u2, u, LogEvents(v))
  PROVE  JournalOK(v, holders, d, k + 1, u2)
<1> DEFINE n == IF Held(v.time) < Len(v.val) THEN Held(v.time) ELSE Len(v.val)
           e == LogEvents(v)
           Ev(i) == [uid |-> v.cell, validx |-> i, value |-> <<v.adr, v.do, v.time, i>>]
<1>1. Len(v.val) \in Nat /\ DOMAIN v.val = 1 .. Len(v.val) BY SeqFacts DEF Shaped, Varrec
<1>2. Held(v.time) \in Nat BY ArchiveAssumption DEF Shaped
<1>3. e = [i \in 1 .. n |-> Ev(i)] BY DEF LogEvents
<1>4. n \in Nat /\ n <= Held(v.time) /\ n <= Len(v.val) /\ (n = Held(v.time) \/ n = Len(v.val)) BY <1>1, <1>2
<1> HIDE DEF n, e
<1>5. e \in [1 .. n -> {Ev(i) : i \in 1 .. n}] /\ \A i \in 1 .. n : e[i] = Ev(i) BY <1>3
<1>6. Len(e) = n BY <1>4, <1>5, FcnIs
<1>7. Adds(u2, u, e) BY DEF e
<1>8. \A i \in 1 .. n : /\ Ev(i).uid = v.cell /\ Ev(i).validx = i /\ i \in DOMAIN v.val
                        /\ Ev(i).value = Record(v, i)
  BY <1>1, <1>2, <1>4 DEF Record
<1> HIDE DEF Ev
<1>9. ASSUME NEW i \in DOMAIN u2, u2[i].uid = v.cell
      PROVE  u2[i].validx \in DOMAIN v.val /\ u2[i].value = Record(v, u2[i].validx)
  <2>1. i \notin DOMAIN u BY <1>7, <1>9 DEF Adds, Rests
  <2>2. i \in Len(u) + 1 .. Len(u2) BY <1>7, <2>1 DEF Adds
  <2>3. PICK x \in 1 .. n : i = Len(u) + x BY <1>6, <1>7, <2>2 DEF Adds
  <2>4. u2[i] = Ev(x) BY <1>5, <1>6, <1>7, <2>3 DEF Adds
  <2> QED BY <1>8, <2>4
<1>10. ASSUME NEW x \in DOMAIN v.val
       PROVE  v.val[x] = Record(v, x) \/ \E i \in DOMAIN u2 : u2[i].uid = v.cell /\ u2[i].validx = x
  <2>1. CASE x <= n
    <3>1. x \in 1 .. n BY <1>1, <1>4, <2>1
    <3>2. u2[Len(u) + x] = Ev(x) BY <1>5, <1>6, <1>7, <3>1 DEF Adds
    <3>3. Len(u) + x \in DOMAIN u2 BY <1>4, <1>6, <1>7, <3>1 DEF Adds
    <3> QED BY <1>8, <3>1, <3>2, <3>3
  <2>2. CASE ~(x <= n)
    <3>1. ~(x <= Held(v.time)) BY <1>1, <1>2, <1>4, <2>2
    <3> QED BY <3>1 DEF Record
  <2> QED BY <2>1, <2>2
<1>11. \A j \in (k + 1) + 1 .. Len(d) : ~About(d[j], v.cell) OBVIOUS
<1> QED BY <1>9, <1>10, <1>11 DEF JournalOK

\* An actual value.
LEMMA ActualNext ==
  ASSUME NEW holders, NEW d, Len(d) \in Nat, NEW k \in Nat, k < Len(d), NEW v,
         NEW u, NEW r, ActualOK(v, holders, d, k, u, r),
         NEW u2, NEW e, Adds(u2, u, e), ~About(d[k + 1], v.cell) => Spares(e, v.cell),
         NEW r2, r2[FindVarrec(v)].val = r[FindVarrec(v)].val,
         LET m == d[k + 1]
         IN  m.sys_msg = "VARATTACH" /\ ~m.of.logged /\ m.of.cell = v.cell /\ FindVarrec(m.of) = FindVarrec(v) =>
               e = <<Event(v.cell, r[FindVarrec(v)].val)>>
  PROVE  ActualOK(v, holders, d, k + 1, u2, r2)
<1> DEFINE K == FindVarrec(v)
           c == v.cell
           l == k + 1
<1>1. l \in Nat /\ l <= Len(d) /\ l > k /\ \A p \in k .. Len(d) : p = k \/ p = l \/ p \in l + 1 .. Len(d) BY DEF l
<1>2. PICK p \in k .. Len(d) :
        /\ \A j \in p + 1 .. Len(d) : ~About(d[j], c)
        /\ \A j \in p .. Len(d) : holders[j][K] = c
        /\ IF p = k THEN UpToDate(v, u, r[K].val)
           ELSE d[p].sys_msg = "VARATTACH" /\ d[p].of.cell = c /\ ~d[p].of.logged /\ FindVarrec(d[p].of) = K
  BY DEF ActualOK
<1>3. CASE p = k
  <2>1. l \in p + 1 .. Len(d) BY <1>1, <1>3 DEF l
  <2>2. ~About(d[l], c) BY <1>2, <2>1
  <2>3. Spares(e, c) BY <2>2 DEF l
  <2>4. UpToDate(v, u2, r2[K].val) BY <1>2, <1>3, <2>3, UpToDateAdds
  <2>5. l \in l .. Len(d) BY <1>1
  <2>6. \A j \in l + 1 .. Len(d) : j \in p + 1 .. Len(d) BY <1>1, <1>3
  <2>7. \A j \in l .. Len(d) : j \in p .. Len(d) BY <1>1, <1>3
  <2> HIDE DEF l, K
  <2>8. ActualOK(v, holders, d, l, u2, r2) BY <1>2, <2>4, <2>5, <2>6, <2>7 DEF ActualOK, K
  <2> QED BY <2>8 DEF l
<1>4. CASE p = l
  <2>1. d[p].sys_msg = "VARATTACH" /\ d[p].of.cell = c /\ ~d[p].of.logged /\ FindVarrec(d[p].of) = K
    BY <1>1, <1>2, <1>4
  <2>2. e = <<Event(c, r[K].val)>> BY <1>4, <2>1
  <2>3. UpToDate(v, u2, r2[K].val) BY <2>2, UpToDateLast
  <2>4. l \in l .. Len(d) BY <1>1
  <2> HIDE DEF l, K
  <2>5. ActualOK(v, holders, d, l, u2, r2) BY <1>2, <1>4, <2>3, <2>4 DEF ActualOK, K
  <2> QED BY <2>5 DEF l
<1>5. CASE p \in l + 1 .. Len(d)
  <2>1. p \in l .. Len(d) /\ p # l /\ p # k BY <1>1, <1>5
  <2> HIDE DEF l, K
  <2>2. ActualOK(v, holders, d, l, u2, r2) BY <1>2, <2>1 DEF ActualOK, K
  <2> QED BY <2>2 DEF l
<1> QED BY <1>1, <1>3, <1>4, <1>5

\* The varrecs r, held as a says.
Kept(r, a) == [i \in Places |-> [val |-> r[i].val, uid |-> a[i], attaching |-> (a[i] # NoUid)]]

LEMMA KeptIs ==
  ASSUME NEW r, NEW a
  PROVE  \A i \in Places : Kept(r, a)[i].val = r[i].val /\ Kept(r, a)[i].uid = a[i]
BY DEF Kept

LEMMA ReplaysKept ==
  ASSUME NEW holders, NEW d, NEW k, NEW r, Replays(holders, d, k, r)
  PROVE  r = Kept(r, holders[k])
<1>1. holders[k] = [i \in Places |-> r[i].uid] BY DEF Replays
<1>2. r = [i \in Places |-> [val |-> r[i].val, uid |-> r[i].uid, attaching |-> (r[i].uid # NoUid)]] BY DEF Replays
<1>3. \A i \in Places : holders[k][i] = r[i].uid BY <1>1
<1>4. Kept(r, holders[k]) = [i \in Places |-> [val |-> r[i].val, uid |-> r[i].uid, attaching |-> (r[i].uid # NoUid)]]
  BY <1>3 DEF Kept
<1> QED BY <1>2, <1>4

LEMMA ReplaysNext ==
  ASSUME NEW holders, NEW d, Len(d) \in Nat, NEW k \in Nat, k < Len(d), NEW r, Replays(holders, d, k, r)
  PROVE  Replays(holders, d, k + 1, Kept(r, holders[k + 1]))
<1> DEFINE b == holders[k + 1]
           r2 == Kept(r, b)
<1>1. k + 1 \in k + 1 .. Len(d) /\ (k + 1) - 1 = k OBVIOUS
<1>2. Executes(holders[k], d[k + 1], b) BY <1>1 DEF Replays
<1>3. Distinct(b) BY <1>2, ExecutesDistinct DEF Replays
<1>4. \E f : b = [i \in Places |-> f[i]]
  <2>1. holders[k] = [i \in Places |-> r[i].uid] BY DEF Replays
  <2> HIDE DEF b
  <2>2. CASE b = holders[k]
    <3> DEFINE f == [i \in Places |-> r[i].uid]
    <3>1. b = [i \in Places |-> f[i]] BY <2>1, <2>2
    <3> HIDE DEF f
    <3> QED BY <3>1
  <2>3. CASE \E c, K : b = [i \in Places |-> IF i = K THEN c ELSE holders[k][i]]
    <3>1. PICK c, K : b = [i \in Places |-> IF i = K THEN c ELSE holders[k][i]] BY <2>3
    <3> DEFINE f == [i \in Places |-> IF i = K THEN c ELSE holders[k][i]]
    <3>2. b = [i \in Places |-> f[i]] BY <3>1
    <3> HIDE DEF f
    <3> QED BY <3>2
  <2>4. CASE \E U : b = [i \in Places |-> IF holders[k][i] \in U THEN NoUid ELSE holders[k][i]]
    <3>1. PICK U : b = [i \in Places |-> IF holders[k][i] \in U THEN NoUid ELSE holders[k][i]] BY <2>4
    <3> DEFINE f == [i \in Places |-> IF holders[k][i] \in U THEN NoUid ELSE holders[k][i]]
    <3>2. b = [i \in Places |-> f[i]] BY <3>1
    <3> HIDE DEF f
    <3> QED BY <3>2
  <2> QED BY <1>2, <2>2, <2>3, <2>4 DEF Executes
<1>5. PICK f : b = [i \in Places |-> f[i]] BY <1>4
<1> HIDE DEF b
<1>6. \A i \in Places : r2[i].uid = b[i] BY KeptIs
<1>7. b = [i \in Places |-> r2[i].uid] BY <1>5, <1>6
<1>8. r2 = [i \in Places |-> [val |-> r2[i].val, uid |-> r2[i].uid, attaching |-> (r2[i].uid # NoUid)]]
  <2>1. \A i \in Places : r2[i].uid = b[i] /\ r2[i].val = r[i].val BY KeptIs
  <2>2. r2 = [i \in Places |-> [val |-> r[i].val, uid |-> b[i], attaching |-> (b[i] # NoUid)]] BY DEF Kept
  <2> HIDE DEF r2
  <2> QED BY <2>1, <2>2
<1>9. \A j \in (k + 1) + 1 .. Len(d) : j \in k + 1 .. Len(d) OBVIOUS
<1> HIDE DEF r2
<1>10. Replays(holders, d, k + 1, r2) BY <1>3, <1>7, <1>8, <1>9 DEF Replays, b
<1> QED BY <1>10 DEF r2, b

(***************************************************************************)
(* What a detach does                                                      *)
(***************************************************************************)
LetGo(a, U) == [i \in Places |-> IF a[i] \in U THEN NoUid ELSE a[i]]

LEMMA DetachUidIs ==
  ASSUME NEW r, NEW a, Distinct(a), NEW uid \in Cells
  PROVE  DetachUid(Kept(r, a), uid) = Kept(r, LetGo(a, {uid}))
<1> DEFINE recs == Kept(r, a)
           having == {k \in DOMAIN recs : recs[k].uid = uid}
           K == Least(having)
           b == LetGo(a, {uid})
<1>1. DOMAIN recs = Places /\ \A i \in Places : recs[i] = [val |-> r[i].val, uid |-> a[i], attaching |-> (a[i] # NoUid)]
  BY DEF Kept
<1>2. uid # NoUid BY CellsAssumption
<1>3. \A i \in Places : b[i] = IF a[i] = uid THEN NoUid ELSE a[i] BY DEF LetGo
<1>4. DetachUid(recs, uid) = IF having = {} THEN recs
                             ELSE [recs EXCEPT ![K].uid = NoUid, ![K].attaching = FALSE]
  BY DEF DetachUid
<1>5. having = {i \in Places : a[i] = uid} BY <1>1
<1> HIDE DEF having, b
<1>6. CASE having = {}
  <2>1. \A i \in Places : b[i] = a[i] BY <1>3, <1>5, <1>6
  <2>2. Kept(r, b) = recs BY <2>1 DEF Kept
  <2> QED BY <1>4, <1>6, <2>2 DEF b
<1>7. CASE having # {}
  <2>1. having \subseteq Nat BY <1>5, PlacesAre
  <2>2. K \in Places /\ a[K] = uid BY <1>5, <1>7, <2>1, LeastIs
  <2>3. \A i \in Places : a[i] = uid => i = K BY <1>2, <2>2 DEF Distinct
  <2> HIDE DEF K
  <2> DEFINE s == [recs EXCEPT ![K].uid = NoUid, ![K].attaching = FALSE]
  <2>4. s = [i \in Places |-> IF i = K THEN [recs[K] EXCEPT !.uid = NoUid, !.attaching = FALSE] ELSE recs[i]]
    BY <1>1, <2>2
  <2> HIDE DEF s
  <2>5. [recs[K] EXCEPT !.uid = NoUid, !.attaching = FALSE]
          = [val |-> r[K].val, uid |-> b[K], attaching |-> (b[K] # NoUid)]
    <3> DEFINE x == recs[K]
               t == (a[K] # NoUid)
    <3>1. x = [val |-> r[K].val, uid |-> a[K], attaching |-> t] BY <1>1, <2>2
    <3> HIDE DEF recs, x, t
    <3> DEFINE y == [x EXCEPT !.uid = NoUid, !.attaching = FALSE]
    <3>a. y = [x EXCEPT !.uid = NoUid, !.attaching = FALSE] OBVIOUS
    <3> HIDE DEF y
    <3>2. y = [val |-> r[K].val, uid |-> NoUid, attaching |-> FALSE] BY <3>1, <3>a
    <3>3. b[K] = NoUid BY <1>3, <2>2
    <3>4. (b[K] # NoUid) = FALSE BY <3>3
    <3> QED BY <3>2, <3>3, <3>4 DEF x, y
  <2>6. \A i \in Places : i # K => recs[i] = [val |-> r[i].val, uid |-> b[i], attaching |-> (b[i] # NoUid)]
    <3>1. \A i \in Places : i # K => b[i] = a[i] BY <1>3, <2>3
    <3> QED BY <1>1, <3>1
  <2> HIDE DEF recs
  <2>7. s = [i \in Places |-> [val |-> r[i].val, uid |-> b[i], attaching |-> (b[i] # NoUid)]]
    BY <2>4, <2>5, <2>6
  <2>8. s = Kept(r, b) BY <2>7 DEF Kept
  <2> QED BY <1>4, <1>7, <2>8 DEF s, b, K, recs
<1> QED BY <1>6, <1>7

LEMMA LetGoDistinct ==
  ASSUME NEW a, Distinct(a), NEW U
  PROVE  Distinct(LetGo(a, U))
BY DEF Distinct, LetGo

LEMMA LetGoTwice ==
  ASSUME NEW a, NEW U, NEW V, NoUid \notin V
  PROVE  LetGo(LetGo(a, U), V) = LetGo(a, U \cup V)
BY DEF LetGo

LEMMA DetachUidsLoop ==
  ASSUME NEW recs, NEW uids, Len(uids) \in Nat
  PROVE  \E f : /\ f[0] = recs
                /\ \A k \in 1 .. Len(uids) : f[k] = DetachUid(f[k - 1], uids[k])
                /\ DetachUids(recs, uids) = f[Len(uids)]
<1> DEFINE Is(f, n) == f = [k \in 0 .. n |-> IF k = 0 THEN recs ELSE DetachUid(f[k - 1], uids[k])]
           S == {n \in Nat : \E f : Is(f, n)}
<1>1. 0 \in S
  <2> DEFINE f == [k \in 0 .. 0 |-> recs]
  <2>1. f = [k \in 0 .. 0 |-> IF k = 0 THEN recs ELSE DetachUid(f[k - 1], uids[k])] OBVIOUS
  <2>2. Is(f, 0) BY <2>1
  <2> QED BY <2>2
<1>2. ASSUME NEW n \in Nat, n \in S PROVE n + 1 \in S
  <2>1. PICK f : Is(f, n) BY <1>2
  <2> DEFINE g == [k \in 0 .. n + 1 |-> IF k <= n THEN f[k] ELSE DetachUid(f[n], uids[n + 1])]
             h == [k \in 0 .. n + 1 |-> IF k = 0 THEN recs ELSE DetachUid(g[k - 1], uids[k])]
  <2>2. \A k \in 0 .. n : f[k] = IF k = 0 THEN recs ELSE DetachUid(f[k - 1], uids[k]) BY <2>1
  <2>3. ASSUME NEW k \in 0 .. n + 1 PROVE g[k] = h[k]
    <3>1. CASE k = 0 BY <3>1, <2>2
    <3>2. CASE k \in 1 .. n BY <3>2, <2>2
    <3>3. CASE k = n + 1 BY <3>3, <2>2
    <3> QED BY <3>1, <3>2, <3>3
  <2>4. g = h BY <2>3
  <2>5. Is(g, n + 1) BY <2>4
  <2> HIDE DEF g, h, Is
  <2>6. \E x : Is(x, n + 1) BY <2>5
  <2>7. n + 1 \in Nat OBVIOUS
  <2> QED BY <2>6, <2>7
<1> HIDE DEF S
<1>3. Len(uids) \in S BY <1>1, <1>2, Induct
<1>4. PICK f : Is(f, Len(uids)) BY <1>3 DEF S
<1> DEFINE after == CHOOSE x : Is(x, Len(uids))
<1>5. Is(after, Len(uids)) BY <1>4
<1>6. DetachUids(recs, uids) = after[Len(uids)] BY DEF DetachUids
<1> HIDE DEF after
<1>7. after[0] = recs BY <1>5
<1>8. ASSUME NEW k \in 1 .. Len(uids) PROVE after[k] = DetachUid(after[k - 1], uids[k])
  <2>1. k \in 0 .. Len(uids) /\ k # 0 OBVIOUS
  <2> QED BY <1>5, <2>1
<1> QED BY <1>6, <1>7, <1>8

LEMMA DetachUidsIs ==
  ASSUME NEW r, NEW a, Distinct(a), a = [i \in Places |-> a[i]], NEW uids, IsSeq(uids), Range(uids) \subseteq Cells
  PROVE  DetachUids(Kept(r, a), uids) = Kept(r, LetGo(a, Range(uids)))
<1> DEFINE n == Len(uids)
           U(k) == {uids[j] : j \in 1 .. k}
<1>1. n \in Nat /\ Range(uids) = U(n) BY SeqFacts
<1>2. PICK f : /\ f[0] = Kept(r, a)
               /\ \A k \in 1 .. n : f[k] = DetachUid(f[k - 1], uids[k])
               /\ DetachUids(Kept(r, a), uids) = f[n]
  BY <1>1, DetachUidsLoop
<1> DEFINE S == {k \in Nat : k <= n => f[k] = Kept(r, LetGo(a, U(k)))}
<1>3. 0 \in S
  <2>1. LetGo(a, {}) = a BY DEF LetGo
  <2>2. U(0) = {} OBVIOUS
  <2> QED BY <1>2, <2>1, <2>2
<1>4. ASSUME NEW k \in Nat, k \in S PROVE k + 1 \in S
  <2> SUFFICES ASSUME k + 1 <= n PROVE f[k + 1] = Kept(r, LetGo(a, U(k + 1))) OBVIOUS
  <2> DEFINE b == LetGo(a, U(k))
             x == uids[k + 1]
  <2>1. f[k] = Kept(r, b) BY <1>1, <1>4
  <2>2. k + 1 \in 1 .. n /\ (k + 1) - 1 = k BY <1>1
  <2>3. f[k + 1] = DetachUid(Kept(r, b), x) BY <1>2, <2>1, <2>2
  <2>4. x \in Cells /\ x # NoUid BY <1>1, <2>2, CellsAssumption
  <2>5. U(k + 1) = U(k) \cup {x}
    <3>1. 1 .. k + 1 = (1 .. k) \cup {k + 1} OBVIOUS
    <3> QED BY <3>1
  <2> HIDE DEF U, x
  <2>6. Distinct(b) BY LetGoDistinct
  <2>7. LetGo(b, {x}) = LetGo(a, U(k + 1)) BY <2>4, <2>5, LetGoTwice
  <2> HIDE DEF b
  <2> QED BY <2>3, <2>4, <2>6, <2>7, DetachUidIs
<1> HIDE DEF S, U
<1>5. n \in S BY <1>1, <1>3, <1>4, Induct
<1>6. f[n] = Kept(r, LetGo(a, U(n))) BY <1>1, <1>5 DEF S
<1> QED BY <1>1, <1>2, <1>6

LEMMA LogEventsAre ==
  ASSUME NEW v, Shaped(v), v.logged
  PROVE  IsSeq(LogEvents(v)) /\ \A x \in 1 .. Len(LogEvents(v)) : LogEvents(v)[x].uid = v.cell
<1> DEFINE n == IF Held(v.time) < Len(v.val) THEN Held(v.time) ELSE Len(v.val)
           e == LogEvents(v)
           Ev(i) == [uid |-> v.cell, validx |-> i, value |-> <<v.adr, v.do, v.time, i>>]
<1>1. Len(v.val) \in Nat /\ Held(v.time) \in Nat BY SeqFacts, ArchiveAssumption DEF Shaped, Varrec
<1>2. n \in Nat BY <1>1
<1>3. e = [i \in 1 .. n |-> Ev(i)] BY DEF LogEvents
<1> HIDE DEF n, e
<1>4. e \in [1 .. n -> {Ev(i) : i \in 1 .. n}] /\ \A i \in 1 .. n : e[i] = Ev(i) BY <1>3
<1>5. IsSeq(e) /\ Len(e) = n BY <1>2, <1>4, FcnIs
<1>6. \A i \in 1 .. n : Ev(i).uid = v.cell OBVIOUS
<1> HIDE DEF Ev
<1> QED BY <1>4, <1>5, <1>6 DEF e

\* The varrec that is attached.
Put(a, K, c) == [i \in Places |-> IF i = K THEN c ELSE a[i]]

LEMMA AttachKept ==
  ASSUME NEW r, NEW a, r = Kept(r, a), NEW K \in Places, NEW c \in Cells, NEW b, b = Put(a, K, c)
  PROVE  [r EXCEPT ![K].uid = c, ![K].attaching = TRUE] = Kept(r, b)
<1> DEFINE s == [r EXCEPT ![K].uid = c, ![K].attaching = TRUE]
           x == r[K]
           y == [x EXCEPT !.uid = c, !.attaching = TRUE]
           t == (a[K] # NoUid)
<1>1. /\ r = [i \in Places |-> r[i]]
      /\ \A i \in Places : r[i] = [val |-> r[i].val, uid |-> a[i], attaching |-> (a[i] # NoUid)]
  BY DEF Kept
<1>2. s = [i \in Places |-> IF i = K THEN y ELSE r[i]] BY <1>1
<1>3. x = [val |-> x.val, uid |-> a[K], attaching |-> t] BY <1>1
<1>4. y = [x EXCEPT !.uid = c, !.attaching = TRUE] OBVIOUS
<1> HIDE DEF s, t, y
<1>5. x.val = r[K].val OBVIOUS
<1> HIDE DEF x
<1>6. y = [val |-> r[K].val, uid |-> c, attaching |-> TRUE] BY <1>3, <1>4, <1>5
<1>7. \A i \in Places : b[i] = IF i = K THEN c ELSE a[i] BY DEF Put
<1>8. (b[K] # NoUid) = TRUE BY <1>7, CellsAssumption
<1>9. b[K] = c BY <1>7
<1>10. y = [val |-> r[K].val, uid |-> b[K], attaching |-> (b[K] # NoUid)] BY <1>6, <1>8, <1>9
<1>11. \A i \in Places : i # K => r[i] = [val |-> r[i].val, uid |-> b[i], attaching |-> (b[i] # NoUid)]
  <2>1. \A i \in Places : i # K => b[i] = a[i] BY <1>7
  <2> QED BY <1>1, <2>1
<1>12. s = [i \in Places |-> [val |-> r[i].val, uid |-> b[i], attaching |-> (b[i] # NoUid)]]
  BY <1>2, <1>10, <1>11
<1>13. s = Kept(r, b) BY <1>12 DEF Kept
<1> QED BY <1>13 DEF s

\* What a message does to the varrecs of startiec, and the events it brings.
Brings(e, m, r) ==
  /\ IsSeq(e)
  /\ m.sys_msg = "VARATTACH" /\ m.of.logged => e = LogEvents(m.of)
  /\ m.sys_msg = "VARATTACH" /\ ~m.of.logged => e = <<Event(m.of.cell, r[FindVarrec(m.of)].val)>>
  /\ m.sys_msg # "VARATTACH" => e = <<>>

\* What startiec has while it works on a batch.
Account(acc) == acc = [vr |-> acc.vr, up |-> acc.up] /\ IsSeq(acc.up)
Holding(a) == a = [i \in Places |-> a[i]]

Taken(acc, m) ==
  IF m.sys_msg = "VARATTACH" THEN VarAttach(acc, m.of) ELSE [acc EXCEPT !.vr = DetachUids(@, m.uids)]

After(acc2, acc, b, e) == acc2 = [vr |-> Kept(acc.vr, b), up |-> acc.up \o e]

LEMMA TakenIs ==
  ASSUME NEW a, NEW m, NEW b, Executes(a, m, b), Distinct(a), Holding(a),
         m.sys_msg = "VARATTACH" => Shaped(m.of),
         NEW acc, Account(acc), acc.vr = Kept(acc.vr, a),
         NEW acc2, acc2 = Taken(acc, m)
  PROVE  \E e : Brings(e, m, acc.vr) /\ After(acc2, acc, b, e)
<1> DEFINE r == acc.vr
           u == acc.up
<1>a. acc = [vr |-> r, up |-> u] /\ IsSeq(u) BY DEF Account
<1>1. CASE m.sys_msg = "VARATTACH" /\ m.of.logged
  <2> DEFINE e == LogEvents(m.of)
  <2>1. b = a BY <1>1 DEF Executes
  <2>2. acc2 = [acc EXCEPT !.up = @ \o e] BY <1>1 DEF VarAttach, Taken
  <2>3. IsSeq(e) BY <1>1, LogEventsAre
  <2>4. Brings(e, m, r) BY <1>1, <2>3 DEF Brings
  <2> HIDE DEF e
  <2>5. acc2 = [vr |-> r, up |-> u \o e] BY <1>a, <2>2
  <2>6. r = Kept(r, b) BY <2>1
  <2> HIDE DEF r
  <2> QED BY <2>4, <2>5, <2>6 DEF r, After
<1>2. CASE m.sys_msg = "VARATTACH" /\ ~m.of.logged
  <2> DEFINE K == FindVarrec(m.of)
             c == m.of.cell
             x == Event(c, r[K].val)
             s == [r EXCEPT ![K].uid = c, ![K].attaching = TRUE]
  <2>1. c \in Cells /\ K \in Places /\ b = Put(a, K, c) BY <1>2 DEF Executes, Put
  <2>2. acc2 = [vr |-> s, up |-> Append(u, x)] BY <1>2, <1>a DEF VarAttach, Taken
  <2> HIDE DEF K, c
  <2>a. r = Kept(r, a) OBVIOUS
  <2>3. s = Kept(r, b)
    <3> HIDE DEF r
    <3> QED BY <2>1, <2>a, AttachKept
  <2> HIDE DEF s, x
  <2>4. Append(u, x) = u \o <<x>>
    <3>1. u \in Seq(Range(u) \cup {x}) BY <1>a, SeqMonotonic DEF IsSeq
    <3> QED BY <3>1, AppendIsConcat
  <2>5. IsSeq(<<x>>)
    <3>1. <<x>> \in Seq({x}) OBVIOUS
    <3> QED BY <3>1, SeqIs
  <2>6. Brings(<<x>>, m, r) BY <1>2, <2>5 DEF Brings, x, K, c
  <2> HIDE DEF r, u
  <2>7. acc2 = [vr |-> Kept(r, b), up |-> u \o <<x>>] BY <2>2, <2>3, <2>4
  <2> QED BY <2>6, <2>7 DEF r, u, After
<1>3. CASE m.sys_msg # "VARATTACH"
  <2>1. IsSeq(m.uids) /\ Range(m.uids) \subseteq Cells /\ b = LetGo(a, Range(m.uids))
    BY <1>3 DEF Executes, LetGo
  <2>2. DetachUids(r, m.uids) = Kept(r, b)
    <3>1. DetachUids(Kept(r, a), m.uids) = Kept(r, LetGo(a, Range(m.uids))) BY <2>1, DetachUidsIs DEF Holding
    <3> QED BY <2>1, <3>1
  <2>3. acc2 = [acc EXCEPT !.vr = DetachUids(@, m.uids)] BY <1>3 DEF Taken
  <2>4. acc2 = [vr |-> DetachUids(r, m.uids), up |-> u] BY <1>a, <2>3
  <2>5. u \o <<>> = u BY <1>a DEF IsSeq
  <2>6. Brings(<<>>, m, r) BY <1>3, EmptyIs DEF Brings
  <2> HIDE DEF r, u
  <2>7. acc2 = [vr |-> Kept(r, b), up |-> u \o <<>>] BY <2>2, <2>4, <2>5
  <2> QED BY <2>6, <2>7 DEF r, u, After
<1> QED BY <1>1, <1>2, <1>3

LEMMA TakeOne ==
  ASSUME NEW menus, MenusOK(menus), Arranged(menus), NEW holders, NEW d, Len(d) \in Nat, NEW k \in Nat, k < Len(d),
         NEW crosses, NEW acc, Account(acc),
         d[k + 1].sys_msg = "VARATTACH" => Shaped(d[k + 1].of),
         Follows(menus, {}, holders, d, k, acc.up, acc.vr, crosses),
         NEW acc2, acc2 = Taken(acc, d[k + 1])
  PROVE  /\ Account(acc2)
         /\ Follows(menus, {}, holders, d, k + 1, acc2.up, acc2.vr, crosses)
<1> DEFINE m == d[k + 1]
           r == acc.vr
           u == acc.up
           b == holders[k + 1]
           r2 == Kept(r, b)
<1>1. Replays(holders, d, k, r) BY DEF Follows
<1>2. k + 1 \in k + 1 .. Len(d) /\ (k + 1) - 1 = k OBVIOUS
<1>3. /\ Executes(holders[k], m, b) /\ Distinct(holders[k])
      /\ Holding(holders[k])
      /\ r = Kept(r, holders[k])
  <2>1. Executes(holders[k], m, b) /\ Distinct(holders[k]) BY <1>1, <1>2 DEF Replays
  <2>2. holders[k] = [i \in Places |-> r[i].uid] BY <1>1 DEF Replays
  <2>3. r = Kept(r, holders[k]) BY <1>1, ReplaysKept
  <2> HIDE DEF r
  <2>4. \A i \in Places : holders[k][i] = r[i].uid BY <2>2
  <2>5. Holding(holders[k]) BY <2>2, <2>4 DEF Holding
  <2> QED BY <2>1, <2>3, <2>5
<1>4. Replays(holders, d, k + 1, r2) BY <1>1, ReplaysNext
<1> HIDE DEF b
<1>a. (m.sys_msg = "VARATTACH" => Shaped(m.of)) /\ acc2 = Taken(acc, m) OBVIOUS
<1>5. PICK e : Brings(e, m, r) /\ acc2 = [vr |-> r2, up |-> u \o e]
  <2> HIDE DEF m
  <2>1. \E e : Brings(e, m, acc.vr) /\ After(acc2, acc, b, e) BY <1>3, <1>a, TakenIs
  <2> QED BY <2>1 DEF After
<1>6. Adds(u \o e, u, e) BY <1>5, AddsConcat DEF Brings, Account
<1>7. acc2.vr = r2 /\ acc2.up = u \o e BY <1>5
<1> DEFINE u2 == u \o e
<1>8. Adds(u2, u, e) BY <1>6
<1>9. m.sys_msg = "VARATTACH" => Shaped(m.of) OBVIOUS
<1>10. \A i \in Places : r2[i].val = r[i].val BY KeptIs
<1> HIDE DEF r2, u2
<1>11. \A c : ~About(m, c) => Spares(e, c)
  <2> SUFFICES ASSUME NEW c, ~About(m, c) PROVE Spares(e, c) OBVIOUS
  <2>1. CASE m.sys_msg = "VARATTACH" /\ m.of.logged
    <3>1. m.of.cell # c BY <2>1 DEF About
    <3>2. e = LogEvents(m.of) BY <1>5, <2>1 DEF Brings
    <3> QED BY <1>9, <2>1, <3>1, <3>2, LogEventsAre DEF Spares
  <2>2. CASE m.sys_msg = "VARATTACH" /\ ~m.of.logged
    <3> DEFINE x == Event(m.of.cell, r[FindVarrec(m.of)].val)
    <3>1. m.of.cell # c BY <2>2 DEF About
    <3>2. x.uid # c BY <3>1 DEF Event
    <3>3. e = <<x>> BY <1>5, <2>2 DEF Brings
    <3> HIDE DEF x
    <3>4. Len(e) = 1 /\ e[1] = x BY <3>3
    <3>5. \A i \in 1 .. Len(e) : i = 1 BY <3>4
    <3> QED BY <3>2, <3>4, <3>5 DEF Spares
  <2>3. CASE m.sys_msg # "VARATTACH"
    <3>1. e = <<>> BY <1>5, <2>3 DEF Brings
    <3>2. Len(e) = 0 BY <3>1
    <3>3. \A i \in 1 .. Len(e) : FALSE BY <3>2
    <3> QED BY <3>3 DEF Spares
  <2> QED BY <2>1, <2>2, <2>3
<1>12. ASSUME NEW v \in Of(menus) PROVE Shown(v, holders, d, k + 1, u2, r2, crosses)
  <2>1. Shown(v, holders, d, k, u, r, crosses) BY DEF Follows
  <2>2. FindVarrec(v) \in Places /\ Shaped(v) BY NamedFacts DEF MenusOK
  <2>3. CASE v.logged
    <3> SUFFICES ASSUME v.cell \notin crosses PROVE JournalOK(v, holders, d, k + 1, u2) BY <2>3 DEF Shown
    <3>1. JournalOK(v, holders, d, k, u) BY <2>1, <2>3 DEF Shown
    <3>2. CASE ~About(m, v.cell)
      <4>1. Spares(e, v.cell) BY <1>11, <3>2
      <4> HIDE DEF u
      <4> QED BY <1>8, <3>1, <3>2, <4>1, JournalNext
    <3>3. CASE About(m, v.cell)
      <4>1. /\ m.sys_msg = "VARATTACH" /\ m.of = v
            /\ Rests(u, v.cell) /\ \A x \in DOMAIN v.val : v.val[x] = NoVal
            /\ \A j \in k + 2 .. Len(d) : ~About(d[j], v.cell)
            /\ \A j \in k + 1 .. Len(d) : Without(holders[j], v.cell)
        BY <3>1, <3>3, JournalAsked
      <4>2. e = LogEvents(v) BY <1>5, <2>3, <4>1 DEF Brings
      <4>3. Adds(u2, u, LogEvents(v)) BY <1>8, <4>2
      <4> HIDE DEF u
      <4> QED BY <2>2, <2>3, <4>1, <4>3, JournalAnswered
    <3> QED BY <3>2, <3>3
  <2>4. CASE ~v.logged
    <3>1. ActualOK(v, holders, d, k, u, r) BY <2>1, <2>4 DEF Shown
    <3>2. r2[FindVarrec(v)].val = r[FindVarrec(v)].val BY <1>10, <2>2
    <3>3. m.sys_msg = "VARATTACH" /\ ~m.of.logged /\ m.of.cell = v.cell /\ FindVarrec(m.of) = FindVarrec(v) =>
            e = <<Event(v.cell, r[FindVarrec(v)].val)>>
      BY <1>5 DEF Brings
    <3>4. ~About(m, v.cell) => Spares(e, v.cell) BY <1>11
    <3> HIDE DEF u, r
    <3>5. ActualOK(v, holders, d, k + 1, u2, r2) BY <1>8, <3>1, <3>2, <3>3, <3>4, ActualNext
    <3> QED BY <2>4, <3>5 DEF Shown
  <2> QED BY <2>3, <2>4
<1>13. \A i \in Places : holders[Len(d)][i] # NoUid =>
         \E v \in Of(menus) : ~v.logged /\ v.cell \notin {} /\ FindVarrec(v) = i /\ holders[Len(d)][i] = v.cell
  BY DEF Follows
<1>14. Follows(menus, {}, holders, d, k + 1, u2, r2, crosses) BY <1>4, <1>12, <1>13 DEF Follows
<1>15. IsSeq(u2) BY <1>8 DEF Adds
<1>16. acc2.vr = r2 /\ acc2.up = u2 BY <1>7 DEF u2
<1>17. Account(acc2) BY <1>5, <1>7, <1>15, <1>16 DEF Account
<1> QED BY <1>14, <1>15, <1>16, <1>17

\* The uids are those the message has.
LEMMA OwnUids ==
  ASSUME NEW batch, batch[1].sys_msg = "VARDETACH", IsSeq(batch[1].uids)
  PROVE  Uids(batch, 1) = batch[1].uids
<1> DEFINE s == batch[1].uids
<1>1. Uids(batch, 1) = [j \in DOMAIN s |-> IF j <= Len(s) THEN s[j] ELSE NoUid] BY DEF Uids
<1> HIDE DEF s
<1>2. IsSeq(s) BY DEF s
<1>3. DOMAIN s = 1 .. Len(s) /\ Len(s) \in Nat BY <1>2, SeqFacts
<1>4. [j \in DOMAIN s |-> IF j <= Len(s) THEN s[j] ELSE NoUid] = [j \in 1 .. Len(s) |-> s[j]] BY <1>3
<1>5. Uids(batch, 1) = s BY <1>1, <1>2, <1>4, SeqAsFcn
<1> QED BY <1>5 DEF s

\* A batch: every detach reads its own uids.
LEMMA TakeBatch ==
  ASSUME NEW menus, MenusOK(menus), Arranged(menus), NEW holders, IsSeq(dn), IsSeq(up),
         \A m \in Range(dn) : m.sys_msg = "VARATTACH" => Shaped(m.of),
         Follows(menus, {}, holders, dn, 0, up, vr, crossed), NEW n \in DOMAIN dn,
         NEW batch, batch = SubSeq(dn, 1, n),
         \A k \in 2 .. n : batch[k].sys_msg = "VARDETACH" => Uids(batch, k) = batch[k].uids
  PROVE  Follows(menus, {}, holders, dn, n, RcvData(batch).up, RcvData(batch).vr, crossed)
<1>1. DOMAIN dn = 1 .. Len(dn) /\ Len(dn) \in Nat /\ n \in 1 .. Len(dn) /\ \A j \in 1 .. Len(dn) : dn[j] \in Range(dn)
  BY SeqFacts
<1>2. Len(batch) = n /\ \A j \in 1 .. n : batch[j] = dn[j]
  <2>1. 1 \in Int /\ n \in Int BY <1>1
  <2>2. \A i \in 1 .. n : dn[i] \in Range(dn) BY <1>1
  <2>3. /\ Len(SubSeq(dn, 1, n)) = IF 1 <= n THEN n - 1 + 1 ELSE 0
        /\ \A i \in 1 .. n - 1 + 1 : SubSeq(dn, 1, n)[i] = dn[1 + i - 1]
    BY <2>1, <2>2, SubSeqProperties
  <2>4. n - 1 + 1 = n /\ 1 <= n BY <1>1
  <2>5. \A i \in 1 .. n : 1 + i - 1 = i OBVIOUS
  <2> QED BY <2>3, <2>4, <2>5
<1>a. Len(batch) \in Nat BY <1>1, <1>2
<1>b. \E f : /\ f[0] = [vr |-> vr, up |-> up]
             /\ \A k \in 1 .. Len(batch) : f[k] = RcvMsg(batch, f[k - 1], k)
             /\ RcvData(batch) = f[Len(batch)]
  BY <1>a, RcvDataLoop
<1>3. PICK f : /\ f[0] = [vr |-> vr, up |-> up]
               /\ \A k \in 1 .. n : f[k] = RcvMsg(batch, f[k - 1], k)
               /\ RcvData(batch) = f[n]
  BY <1>2, <1>b
<1> DEFINE Good(acc, k) == /\ Account(acc)
                           /\ Follows(menus, {}, holders, dn, k, acc.up, acc.vr, crossed)
           S == {k \in Nat : k <= n => Good(f[k], k)}
<1>4. Good(f[0], 0)
  <2> DEFINE acc == f[0]
  <2>1. acc = [vr |-> vr, up |-> up] BY <1>3
  <2> HIDE DEF acc
  <2>2. acc.vr = vr /\ acc.up = up BY <2>1
  <2>3. Good(acc, 0) BY <2>1, <2>2 DEF Account
  <2> QED BY <2>3 DEF acc
<1>5. ASSUME NEW k \in Nat, k \in S PROVE k + 1 \in S
  <2> SUFFICES ASSUME k + 1 <= n PROVE Good(f[k + 1], k + 1) OBVIOUS
  <2> DEFINE acc == f[k]
             acc2 == f[k + 1]
             m == dn[k + 1]
  <2>1. Good(acc, k) BY <1>1, <1>5
  <2>2. k + 1 \in 1 .. n /\ (k + 1) - 1 = k /\ k < Len(dn) BY <1>1
  <2>3. acc2 = RcvMsg(batch, acc, k + 1) BY <1>3, <2>2
  <2>4. batch[k + 1] = m /\ m \in Range(dn) BY <1>1, <1>2, <2>2
  <2>5. Executes(holders[k], m, holders[k + 1])
    <3>1. Replays(holders, dn, 0, vr) BY DEF Follows
    <3>2. k + 1 \in 0 + 1 .. Len(dn) BY <1>1, <2>2
    <3> QED BY <2>2, <3>1, <3>2 DEF Replays
  <2>6. m.sys_msg # "VARATTACH" => Uids(batch, k + 1) = m.uids
    <3> SUFFICES ASSUME m.sys_msg # "VARATTACH" PROVE Uids(batch, k + 1) = m.uids OBVIOUS
    <3>1. m.sys_msg = "VARDETACH" /\ IsSeq(m.uids) BY <2>5 DEF Executes
    <3>2. CASE k = 0
      <4>1. k + 1 = 1 BY <3>2
      <4>2. batch[1] = m BY <2>4, <4>1
      <4> QED BY <3>1, <4>1, <4>2, OwnUids
    <3>3. CASE k # 0
      <4>1. k + 1 \in 2 .. n BY <2>2, <3>3
      <4> QED BY <2>4, <3>1, <4>1
    <3> QED BY <3>2, <3>3
  <2>7. acc2 = Taken(acc, dn[k + 1])
    <3> HIDE DEF acc, acc2, m
    <3>1. acc2 = Taken(acc, m) BY <2>3, <2>4, <2>6 DEF RcvMsg, Taken
    <3> QED BY <3>1 DEF m
  <2>8. m.sys_msg = "VARATTACH" => Shaped(m.of) BY <2>4
  <2> HIDE DEF acc, acc2
  <2>9. Good(acc2, k + 1) BY <1>1, <2>1, <2>2, <2>7, <2>8, TakeOne
  <2> QED BY <2>9 DEF acc2
<1> HIDE DEF Good
<1>6. 0 \in S BY <1>4
<1> HIDE DEF S
<1>7. n \in S BY <1>1, <1>5, <1>6, Induct
<1>8. Good(f[n], n) BY <1>1, <1>7 DEF S
<1> QED BY <1>3, <1>8 DEF Good

\* d2 is what is left of d after n messages.
Shifted(after, d2, holders, d, n) ==
  /\ Len(d) \in Nat /\ n \in Nat /\ n <= Len(d) /\ Len(d2) = Len(d) - n
  /\ \A j \in 1 .. Len(d2) : d2[j] = d[n + j]
  /\ \A j \in 0 .. Len(d2) : after[j] = holders[n + j]

LEMMA ShiftFacts ==
  ASSUME NEW after, NEW d2, NEW holders, NEW d, NEW n, Shifted(after, d2, holders, d, n)
  PROVE  /\ Len(d2) \in Nat
         /\ \A j \in n + 1 .. Len(d) : j - n \in 0 + 1 .. Len(d2) /\ d2[j - n] = d[j]
         /\ \A j \in 0 + 1 .. Len(d2) : n + j \in n + 1 .. Len(d) /\ d2[j] = d[n + j]
         /\ \A j \in n .. Len(d) : j - n \in 0 .. Len(d2) /\ after[j - n] = holders[j]
         /\ \A j \in 0 .. Len(d2) : n + j \in n .. Len(d) /\ after[j] = holders[n + j]
<1>1. Len(d) \in Nat /\ n \in Nat /\ n <= Len(d) /\ Len(d2) = Len(d) - n BY DEF Shifted
<1>2. ASSUME NEW j \in n + 1 .. Len(d) PROVE j - n \in 0 + 1 .. Len(d2) /\ d2[j - n] = d[j]
  <2>1. j - n \in 1 .. Len(d2) /\ n + (j - n) = j BY <1>1
  <2>2. d2[j - n] = d[n + (j - n)] BY <2>1 DEF Shifted
  <2> QED BY <2>1, <2>2
<1>3. ASSUME NEW j \in n .. Len(d) PROVE j - n \in 0 .. Len(d2) /\ after[j - n] = holders[j]
  <2>1. j - n \in 0 .. Len(d2) /\ n + (j - n) = j BY <1>1
  <2>2. after[j - n] = holders[n + (j - n)] BY <2>1 DEF Shifted
  <2> QED BY <2>1, <2>2
<1>4. \A j \in 0 + 1 .. Len(d2) : n + j \in n + 1 .. Len(d) /\ d2[j] = d[n + j] BY <1>1 DEF Shifted
<1>5. \A j \in 0 .. Len(d2) : n + j \in n .. Len(d) /\ after[j] = holders[n + j] BY <1>1 DEF Shifted
<1> QED BY <1>1, <1>2, <1>3, <1>4, <1>5

LEMMA ShiftJournal ==
  ASSUME NEW after, NEW d2, NEW holders, NEW d, NEW n, Shifted(after, d2, holders, d, n),
         NEW v, NEW u, JournalOK(v, holders, d, n, u)
  PROVE  JournalOK(v, after, d2, 0, u)
<1> DEFINE c == v.cell
<1>1. Len(d2) \in Nat /\ n \in Nat BY ShiftFacts DEF Shifted
<1>2. \A j \in 0 .. Len(d2) : Without(after[j], c)
  <2>1. \A j \in n .. Len(d) : Without(holders[j], c) BY DEF JournalOK
  <2>2. \A j \in 0 .. Len(d2) : n + j \in n .. Len(d) /\ after[j] = holders[n + j] BY ShiftFacts
  <2> QED BY <2>1, <2>2
<1>3. CASE \E p \in n + 1 .. Len(d) :
                /\ d[p].sys_msg = "VARATTACH" /\ d[p].of = v
                /\ \A j \in n + 1 .. Len(d) : j # p => ~About(d[j], c)
  <2>1. PICK p \in n + 1 .. Len(d) :
                /\ d[p].sys_msg = "VARATTACH" /\ d[p].of = v
                /\ \A j \in n + 1 .. Len(d) : j # p => ~About(d[j], c)
    BY <1>3
  <2> DEFINE q == p - n
  <2>2. q \in 0 + 1 .. Len(d2) /\ d2[q] = d[p] BY ShiftFacts
  <2>3. ASSUME NEW j \in 0 + 1 .. Len(d2), j # q PROVE ~About(d2[j], c)
    <3>1. n + j \in n + 1 .. Len(d) /\ d2[j] = d[n + j] BY ShiftFacts
    <3>2. n + j # p BY <1>1, <2>1, <2>3, <3>1
    <3> QED BY <2>1, <3>1, <3>2
  <2> HIDE DEF q
  <2>4. Rests(u, c) /\ \A x \in DOMAIN v.val : v.val[x] = NoVal
    <3>1. About(d[p], c) BY <2>1 DEF About
    <3> QED BY <2>1, <3>1 DEF JournalOK
  <2>5. d2[q].sys_msg = "VARATTACH" /\ d2[q].of = v BY <2>1, <2>2
  <2> QED BY <1>2, <2>2, <2>3, <2>4, <2>5 DEF JournalOK
<1>4. CASE ~ \E p \in n + 1 .. Len(d) :
                /\ d[p].sys_msg = "VARATTACH" /\ d[p].of = v
                /\ \A j \in n + 1 .. Len(d) : j # p => ~About(d[j], c)
  <2>1. \A j \in n + 1 .. Len(d) : ~About(d[j], c) BY <1>4 DEF JournalOK
  <2>2. ASSUME NEW j \in 0 + 1 .. Len(d2) PROVE ~About(d2[j], c)
    <3>1. n + j \in n + 1 .. Len(d) /\ d2[j] = d[n + j] BY ShiftFacts
    <3> QED BY <2>1, <3>1
  <2> QED BY <1>2, <1>4, <2>2 DEF JournalOK
<1> QED BY <1>3, <1>4

LEMMA ShiftActual ==
  ASSUME NEW after, NEW d2, NEW holders, NEW d, NEW n, Shifted(after, d2, holders, d, n),
         NEW v, NEW u, NEW r, ActualOK(v, holders, d, n, u, r)
  PROVE  ActualOK(v, after, d2, 0, u, r)
<1> DEFINE K == FindVarrec(v)
           c == v.cell
<1>1. Len(d2) \in Nat /\ n \in Nat /\ Len(d) \in Nat BY ShiftFacts DEF Shifted
<1>2. PICK p \in n .. Len(d) :
        /\ \A j \in p + 1 .. Len(d) : ~About(d[j], c)
        /\ \A j \in p .. Len(d) : holders[j][K] = c
        /\ IF p = n THEN UpToDate(v, u, r[K].val)
           ELSE d[p].sys_msg = "VARATTACH" /\ d[p].of.cell = c /\ ~d[p].of.logged /\ FindVarrec(d[p].of) = K
  BY DEF ActualOK
<1> DEFINE q == p - n
<1>3. q \in 0 .. Len(d2) /\ (q = 0 <=> p = n) /\ p = n + q BY <1>1, ShiftFacts
<1>4. p # n => d2[q] = d[p]
  <2>1. p # n => p \in n + 1 .. Len(d) BY <1>1
  <2> QED BY <2>1, ShiftFacts
<1> HIDE DEF q, K
<1>5. ASSUME NEW j \in q + 1 .. Len(d2) PROVE ~About(d2[j], c)
  <2>1. j \in 0 + 1 .. Len(d2) /\ n + j \in p + 1 .. Len(d)
    <3>1. j \in 0 + 1 .. Len(d2) BY <1>1, <1>3
    <3>2. n + j \in n + 1 .. Len(d) BY <3>1, ShiftFacts
    <3> QED BY <1>1, <1>3, <3>1, <3>2
  <2>2. d2[j] = d[n + j] BY <2>1, ShiftFacts
  <2>3. ~About(d[n + j], c) BY <1>2, <2>1
  <2> QED BY <2>2, <2>3
<1>6. ASSUME NEW j \in q .. Len(d2) PROVE after[j][K] = c
  <2>1. j \in 0 .. Len(d2) /\ n + j \in p .. Len(d)
    <3>1. j \in 0 .. Len(d2) BY <1>1, <1>3
    <3>2. n + j \in n .. Len(d) BY <3>1, ShiftFacts
    <3> QED BY <1>1, <1>3, <3>1, <3>2
  <2>2. after[j] = holders[n + j] BY <2>1, ShiftFacts
  <2>3. holders[n + j][K] = c BY <1>2, <2>1
  <2> QED BY <2>2, <2>3
<1>7. IF q = 0 THEN UpToDate(v, u, r[K].val)
      ELSE d2[q].sys_msg = "VARATTACH" /\ d2[q].of.cell = c /\ ~d2[q].of.logged /\ FindVarrec(d2[q].of) = K
  BY <1>2, <1>3, <1>4
<1> QED BY <1>3, <1>5, <1>6, <1>7 DEF ActualOK, K

LEMMA ShiftFollows ==
  ASSUME NEW after, NEW d2, NEW holders, NEW d, NEW n, Shifted(after, d2, holders, d, n),
         NEW menus, NEW u, NEW r, NEW crosses, Follows(menus, {}, holders, d, n, u, r, crosses)
  PROVE  Follows(menus, {}, after, d2, 0, u, r, crosses)
<1>1. Len(d2) \in Nat /\ n \in Nat /\ Len(d) \in Nat /\ n <= Len(d) /\ Len(d2) = Len(d) - n BY ShiftFacts DEF Shifted
<1>2. Replays(after, d2, 0, r)
  <2>1. Replays(holders, d, n, r) BY DEF Follows
  <2>2. after[0] = holders[n]
    <3>1. 0 \in 0 .. Len(d2) /\ n + 0 = n BY <1>1
    <3> QED BY <3>1, ShiftFacts
  <2>3. ASSUME NEW j \in 0 + 1 .. Len(d2) PROVE Executes(after[j - 1], d2[j], after[j])
    <3>1. n + j \in n + 1 .. Len(d) /\ d2[j] = d[n + j] BY ShiftFacts
    <3>2. j \in 0 .. Len(d2) /\ j - 1 \in 0 .. Len(d2) /\ n + (j - 1) = (n + j) - 1 BY <1>1
    <3>3. after[j] = holders[n + j] /\ after[j - 1] = holders[(n + j) - 1]
      <4>1. after[j - 1] = holders[n + (j - 1)] BY <3>2, ShiftFacts
      <4> QED BY <3>2, <4>1, ShiftFacts
    <3>4. Executes(holders[(n + j) - 1], d[n + j], holders[n + j]) BY <2>1, <3>1 DEF Replays
    <3> QED BY <3>1, <3>3, <3>4
  <2> QED BY <2>1, <2>2, <2>3 DEF Replays
<1>3. after[Len(d2)] = holders[Len(d)]
  <2>1. Len(d2) \in 0 .. Len(d2) /\ n + Len(d2) = Len(d) BY <1>1
  <2>2. after[Len(d2)] = holders[n + Len(d2)] BY <2>1, ShiftFacts
  <2> QED BY <2>1, <2>2
<1>4. \A v \in Of(menus) : Shown(v, after, d2, 0, u, r, crosses)
  <2> SUFFICES ASSUME NEW v \in Of(menus) PROVE Shown(v, after, d2, 0, u, r, crosses) OBVIOUS
  <2>1. Shown(v, holders, d, n, u, r, crosses) BY DEF Follows
  <2> QED BY <2>1, ShiftJournal, ShiftActual DEF Shown
<1>5. \A i \in Places : holders[Len(d)][i] # NoUid =>
        \E v \in Of(menus) : ~v.logged /\ v.cell \notin {} /\ FindVarrec(v) = i /\ holders[Len(d)][i] = v.cell
  BY DEF Follows
<1> QED BY <1>2, <1>3, <1>4, <1>5 DEF Follows

LEMMA ShiftExists ==
  ASSUME NEW d, IsSeq(d), NEW n \in DOMAIN d, NEW holders
  PROVE  \E after : Shifted(after, SubSeq(d, n + 1, Len(d)), holders, d, n)
<1> DEFINE d2 == SubSeq(d, n + 1, Len(d))
           l == Len(d) - n
           after == [j \in 0 .. l |-> holders[n + j]]
<1>1. Len(d) \in Nat /\ n \in Nat /\ 1 <= n /\ n <= Len(d) /\ \A j \in 1 .. Len(d) : d[j] \in Range(d) BY SeqFacts
<1>2. Len(d2) = l /\ \A j \in 1 .. l : d2[j] = d[n + j]
  <2>1. n + 1 \in Int /\ Len(d) \in Int /\ \A i \in n + 1 .. Len(d) : d[i] \in Range(d) BY <1>1
  <2>2. /\ Len(d2) = IF n + 1 <= Len(d) THEN Len(d) - (n + 1) + 1 ELSE 0
        /\ \A i \in 1 .. Len(d) - (n + 1) + 1 : d2[i] = d[n + 1 + i - 1]
    BY <2>1, SubSeqProperties
  <2>3. Len(d) - (n + 1) + 1 = l /\ \A i \in 1 .. l : n + 1 + i - 1 = n + i BY <1>1
  <2>4. ~(n + 1 <= Len(d)) => l = 0 BY <1>1
  <2> QED BY <2>2, <2>3, <2>4
<1>3. \A j \in 0 .. l : after[j] = holders[n + j] OBVIOUS
<1> HIDE DEF after, d2
<1>4. Shifted(after, d2, holders, d, n) BY <1>1, <1>2, <1>3 DEF Shifted
<1> QED BY <1>4 DEF d2

LEMMA FromHmiPlays ==
  ASSUME SettledInv, FromHmi
  PROVE  SettledInv'
<1>1. WithinInv /\ Arranged(open) /\ actlnode \in Lds BY DEF SettledInv
<1>2. PICK n \in DOMAIN dn :
        LET batch == SubSeq(dn, 1, n)
            done == RcvData(batch)
        IN  /\ vr' = done.vr /\ up' = done.up
            /\ dn' = SubSeq(dn, n + 1, Len(dn))
            /\ misread' = (misread \/ \E k \in 2 .. n : batch[k].sys_msg = "VARDETACH"
                                                        /\ Uids(batch, k) # batch[k].uids)
            /\ UNCHANGED <<open, actlnode, jourtime, alive, crossed>>
  BY DEF FromHmi
<1> DEFINE batch == SubSeq(dn, 1, n)
<1>3. WithinInv' BY <1>1, FromHmiKeeps
<1>4. MenusOK(open) /\ IsSeq(dn) /\ IsSeq(up) /\ \A m \in Range(dn) : m.sys_msg = "VARATTACH" => Shaped(m.of)
  BY <1>1 DEF WithinInv
<1>5. ASSUME ~misread' PROVE Playable'
  <2>1. ~misread /\ \A k \in 2 .. n : batch[k].sys_msg = "VARDETACH" => Uids(batch, k) = batch[k].uids
    BY <1>2, <1>5
  <2>2. PICK holders : Follows(open, {}, holders, dn, 0, up, vr, crossed) BY <2>1 DEF SettledInv, Playable
  <2> DEFINE u2 == RcvData(batch).up
             r2 == RcvData(batch).vr
             d2 == SubSeq(dn, n + 1, Len(dn))
  <2>3. vr' = r2 /\ up' = u2 /\ dn' = d2 /\ open' = open /\ crossed' = crossed BY <1>2
  <2>4. batch = SubSeq(dn, 1, n) OBVIOUS
  <2> HIDE DEF batch
  <2>5. Follows(open, {}, holders, dn, n, u2, r2, crossed) BY <1>1, <1>4, <2>1, <2>2, <2>4, TakeBatch
  <2> HIDE DEF u2, r2
  <2>6. PICK after : Shifted(after, d2, holders, dn, n) BY <1>4, ShiftExists
  <2> HIDE DEF d2
  <2>7. Follows(open, {}, after, d2, 0, u2, r2, crossed) BY <2>5, <2>6, ShiftFollows
  <2> QED BY <2>3, <2>7 DEF Playable
<1>6. open' = open /\ actlnode' = actlnode BY <1>2
<1>7. Arranged(open') /\ actlnode' \in Lds BY <1>1, <1>6
<1> QED BY <1>3, <1>5, <1>7 DEF SettledInv

(***************************************************************************)
(* A value from a meter                                                    *)
(***************************************************************************)
\* The value goes into varrecs nobody holds, and into at most one that somebody holds, whose
\* holder gets it.
Measured(r2, events, r, a) ==
  /\ r2 = Kept(r2, a)
  /\ \/ events = <<>> /\ \A i \in Places : a[i] # NoUid => r2[i].val = r[i].val
     \/ \E K \in Places :
          /\ a[K] # NoUid /\ events = <<[uid |-> a[K], value |-> r2[K].val]>>
          /\ \A i \in Places : a[i] # NoUid /\ i # K => r2[i].val = r[i].val

LEMMA AddVareventIs ==
  ASSUME NEW r, NEW a, r = Kept(r, a), NEW x, NEW adr,
         NEW done, done = AddVarevent([vr |-> r, events |-> <<>>], x, adr)
  PROVE  Measured(done.vr, done.events, r, a)
<1> DEFINE hits == {k \in RunOf(adr) : VarRecs[k].id = x.id}
           attached == {k \in hits : r[k].attaching}
           written == IF attached = {} THEN hits ELSE {k \in hits : k <= Least(attached)}
           value == Number(x)
           K == Least(attached)
           w(k) == [r[k] EXCEPT !.val = value]
           r2 == [k \in Places |-> IF k \in written THEN w(k) ELSE r[k]]
           events == IF attached = {} THEN <<>> ELSE Append(<<>>, [uid |-> r[K].uid, value |-> value])
<1>1. done = [vr |-> r2, events |-> events] BY DEF AddVarevent, Places
<1>2. hits \subseteq Places BY DEF RunOf, Places
<1>3. \A k \in Places : r[k] = [val |-> r[k].val, uid |-> a[k], attaching |-> (a[k] # NoUid)]
  BY DEF Kept
<1>4. \A k \in Places : (r[k].attaching <=> a[k] # NoUid) /\ r[k].uid = a[k]
  <2> SUFFICES ASSUME NEW k \in Places PROVE (r[k].attaching <=> a[k] # NoUid) /\ r[k].uid = a[k]
    OBVIOUS
  <2> DEFINE rec == r[k]
             t == (a[k] # NoUid)
  <2>1. rec = [val |-> rec.val, uid |-> a[k], attaching |-> t] BY <1>3
  <2> HIDE DEF rec, t
  <2>2. rec.attaching = t /\ rec.uid = a[k] BY <2>1
  <2>3. r[k].attaching = (a[k] # NoUid) /\ r[k].uid = a[k] BY <2>2 DEF rec, t
  <2> QED BY <2>3
<1>5. attached = {k \in hits : a[k] # NoUid} BY <1>2, <1>4
<1>6. \A k \in Places : w(k) = [val |-> value, uid |-> a[k], attaching |-> (a[k] # NoUid)]
  <2> SUFFICES ASSUME NEW k \in Places PROVE w(k) = [val |-> value, uid |-> a[k], attaching |-> (a[k] # NoUid)]
    OBVIOUS
  <2> DEFINE rec == r[k]
             t == (a[k] # NoUid)
             y == [rec EXCEPT !.val = value]
  <2>1. rec = [val |-> rec.val, uid |-> a[k], attaching |-> t] BY <1>3
  <2>2. y = [rec EXCEPT !.val = value] OBVIOUS
  <2>3. w(k) = y OBVIOUS
  <2> HIDE DEF rec, t, y, w
  <2>4. y = [val |-> value, uid |-> a[k], attaching |-> t] BY <2>1, <2>2
  <2> QED BY <2>3, <2>4 DEF t
<1> HIDE DEF hits, attached, w, value
<1>7. \A k \in Places : r2[k].val = IF k \in written THEN value ELSE r[k].val
  <2>1. \A k \in Places : w(k).val = value BY <1>6
  <2> QED BY <2>1
<1>8. r2 = Kept(r2, a)
  <2>1. \A k \in Places : r2[k] = [val |-> r2[k].val, uid |-> a[k], attaching |-> (a[k] # NoUid)]
    <3> SUFFICES ASSUME NEW k \in Places
                 PROVE r2[k] = [val |-> r2[k].val, uid |-> a[k], attaching |-> (a[k] # NoUid)]
      OBVIOUS
    <3>1. CASE k \in written
      <4>1. r2[k] = w(k) /\ r2[k].val = value BY <1>7, <3>1
      <4> QED BY <1>6, <4>1
    <3>2. CASE k \notin written
      <4>1. r2[k] = r[k] /\ r2[k].val = r[k].val BY <1>7, <3>2
      <4> QED BY <1>3, <4>1
    <3> QED BY <3>1, <3>2
  <2>2. r2 = [k \in Places |-> r2[k]] OBVIOUS
  <2> HIDE DEF r2
  <2>3. r2 = [k \in Places |-> [val |-> r2[k].val, uid |-> a[k], attaching |-> (a[k] # NoUid)]] BY <2>1, <2>2
  <2> QED BY <2>3 DEF Kept
<1> HIDE DEF r2
<1>9. CASE attached = {}
  <2>1. events = <<>> BY <1>9
  <2>2. \A i \in Places : a[i] # NoUid => r2[i].val = r[i].val BY <1>5, <1>7, <1>9
  <2> HIDE DEF events
  <2> QED BY <1>1, <1>8, <2>1, <2>2 DEF Measured
<1>10. CASE attached # {}
  <2>1. attached \subseteq Nat BY <1>2, <1>5, PlacesAre
  <2>2. K \in attached /\ \A k \in attached : K <= k /\ k \in Nat BY <1>10, <2>1, LeastIs
  <2>3. K \in Places /\ K \in hits /\ a[K] # NoUid /\ K \in Nat BY <1>2, <1>5, <2>1, <2>2
  <2>4. K \in written BY <1>10, <2>3
  <2>5. \A k \in written : a[k] # NoUid => k = K
    <3> SUFFICES ASSUME NEW k \in written, a[k] # NoUid PROVE k = K OBVIOUS
    <3>1. k \in hits /\ k <= K BY <1>10
    <3>2. k \in attached BY <1>5, <3>1
    <3>3. K <= k /\ k \in Nat BY <2>2, <3>2
    <3> HIDE DEF K
    <3> QED BY <2>3, <3>1, <3>3
  <2>6. r2[K].val = value BY <1>7, <2>3, <2>4
  <2>7. \A i \in Places : a[i] # NoUid /\ i # K => r2[i].val = r[i].val BY <1>7, <2>5
  <2>8. r[K].uid = a[K] BY <1>4, <2>3
  <2> HIDE DEF K
  <2>9. events = <<[uid |-> a[K], value |-> r2[K].val]>> BY <1>10, <2>6, <2>8
  <2> HIDE DEF events
  <2> QED BY <1>1, <1>8, <2>3, <2>7, <2>9 DEF Measured
<1> QED BY <1>9, <1>10

LEMMA JournalAdds ==
  ASSUME NEW holders, NEW d, NEW k, NEW v, NEW u, JournalOK(v, holders, d, k, u),
         NEW u2, NEW e, Adds(u2, u, e), Spares(e, v.cell)
  PROVE  JournalOK(v, holders, d, k, u2)
<1>1. Rests(u, v.cell) => Rests(u2, v.cell) BY RestsAdds
<1>2. (\A i \in DOMAIN u : u[i].uid = v.cell =>
         u[i].validx \in DOMAIN v.val /\ u[i].value = Record(v, u[i].validx))
      => \A i \in DOMAIN u2 : u2[i].uid = v.cell =>
           u2[i].validx \in DOMAIN v.val /\ u2[i].value = Record(v, u2[i].validx)
  BY AddsPlaces
<1>3. (\A x \in DOMAIN v.val :
         v.val[x] = Record(v, x) \/ \E i \in DOMAIN u : u[i].uid = v.cell /\ u[i].validx = x)
      => \A x \in DOMAIN v.val :
           v.val[x] = Record(v, x) \/ \E i \in DOMAIN u2 : u2[i].uid = v.cell /\ u2[i].validx = x
  BY AddsPlaces
<1> QED BY <1>1, <1>2, <1>3 DEF JournalOK

LEMMA MeasuredFollows ==
  ASSUME NEW menus, MenusOK(menus), Arranged(menus), NEW holders, NEW d, Len(d) \in Nat,
         NEW u, IsSeq(u), NEW r, NEW crosses, Follows(menus, {}, holders, d, 0, u, r, crosses),
         NEW r2, NEW events, Measured(r2, events, r, holders[0]),
         NEW e, e = [k \in DOMAIN events |-> Event(events[k].uid, events[k].value)]
  PROVE  Follows(menus, {}, holders, d, 0, u \o e, r2, crosses)
<1> DEFINE a == holders[0]
           u2 == u \o e
<1>1. Replays(holders, d, 0, r) BY DEF Follows
<1>2. Distinct(a) /\ a = [i \in Places |-> r[i].uid] BY <1>1 DEF Replays
<1>3. r2 = Kept(r2, a) BY DEF Measured
<1>4. Replays(holders, d, 0, r2)
  <2>1. \A i \in Places : r2[i].uid = a[i] BY <1>3, KeptIs
  <2>2. \A i \in Places : r[i].uid = a[i] BY <1>2
  <2>3. [i \in Places |-> r[i].uid] = [i \in Places |-> r2[i].uid] BY <2>1, <2>2
  <2>4. a = [i \in Places |-> r2[i].uid] BY <1>2, <2>3
  <2>5. r2 = [i \in Places |-> [val |-> r2[i].val, uid |-> r2[i].uid, attaching |-> (r2[i].uid # NoUid)]]
    <3>1. Kept(r2, a) = [i \in Places |-> [val |-> r2[i].val, uid |-> r2[i].uid, attaching |-> (r2[i].uid # NoUid)]]
      BY <2>1 DEF Kept
    <3> QED BY <1>3, <3>1
  <2> QED BY <1>1, <1>2, <2>4, <2>5 DEF Replays
<1> HIDE DEF a
<1>5. \/ e = <<>> /\ \A i \in Places : a[i] # NoUid => r2[i].val = r[i].val
      \/ \E K \in Places :
           /\ a[K] # NoUid /\ e = <<Event(a[K], r2[K].val)>>
           /\ \A i \in Places : a[i] # NoUid /\ i # K => r2[i].val = r[i].val
  <2>1. CASE events = <<>>
    <3>1. DOMAIN events = {} BY <2>1
    <3>2. e = <<>> BY <3>1
    <3>3. \A K \in Places : events # <<[uid |-> a[K], value |-> r2[K].val]>> BY <2>1
    <3> QED BY <3>2, <3>3 DEF Measured, a
  <2>2. CASE events # <<>>
    <3>1. PICK K \in Places :
           /\ a[K] # NoUid /\ events = <<[uid |-> a[K], value |-> r2[K].val]>>
           /\ \A i \in Places : a[i] # NoUid /\ i # K => r2[i].val = r[i].val
      BY <2>2 DEF Measured, a
    <3> DEFINE x == [uid |-> a[K], value |-> r2[K].val]
               y == Event(a[K], r2[K].val)
    <3>2. x.uid = a[K] /\ x.value = r2[K].val OBVIOUS
    <3>3. events = <<x>> BY <3>1
    <3> HIDE DEF x
    <3>4. DOMAIN events = {1} /\ events[1] = x BY <3>3
    <3>5. e = [k \in {1} |-> y] BY <3>2, <3>4
    <3> HIDE DEF y
    <3>6. e = <<y>> BY <3>5
    <3> QED BY <3>1, <3>6 DEF y
  <2> QED BY <2>1, <2>2
<1>6. IsSeq(e)
  <2>1. CASE e = <<>> BY <2>1, EmptyIs
  <2>2. ASSUME NEW x, e = <<x>> PROVE IsSeq(e)
    <3>1. <<x>> \in Seq({x}) OBVIOUS
    <3> QED BY <2>2, <3>1, SeqIs
  <2> QED BY <1>5, <2>1, <2>2
<1>7. Adds(u2, u, e) BY <1>6, AddsConcat
<1>8. \A c : (\A i \in Places : a[i] # NoUid => e = <<>> \/ e # <<Event(a[i], r2[i].val)>> \/ a[i] # c) => Spares(e, c)
  <2> SUFFICES ASSUME NEW c,
                      \A i \in Places : a[i] # NoUid => e = <<>> \/ e # <<Event(a[i], r2[i].val)>> \/ a[i] # c
               PROVE  Spares(e, c)
    OBVIOUS
  <2>1. CASE e = <<>>
    <3>1. \A i \in 1 .. Len(e) : FALSE BY <2>1
    <3> QED BY <3>1 DEF Spares
  <2>2. CASE e # <<>>
    <3>1. PICK K \in Places : a[K] # NoUid /\ e = <<Event(a[K], r2[K].val)>> BY <1>5, <2>2
    <3> DEFINE y == Event(a[K], r2[K].val)
    <3>2. y.uid = a[K] /\ a[K] # c BY <2>2, <3>1 DEF Event
    <3>3. e = <<y>> BY <3>1
    <3> HIDE DEF y
    <3>4. \A i \in 1 .. Len(e) : e[i] = y BY <3>3
    <3> QED BY <3>2, <3>4 DEF Spares
  <2> QED BY <2>1, <2>2
<1> HIDE DEF u2
<1>9. ASSUME NEW v \in Of(menus) PROVE Shown(v, holders, d, 0, u2, r2, crosses)
  <2>1. Shown(v, holders, d, 0, u, r, crosses) BY DEF Follows
  <2>2. FindVarrec(v) \in Places /\ v.cell \in Cells /\ v.cell # NoUid BY NamedFacts, CellsAssumption
  <2>3. CASE v.logged
    <3> SUFFICES ASSUME v.cell \notin crosses PROVE JournalOK(v, holders, d, 0, u2) BY <2>3 DEF Shown
    <3>1. JournalOK(v, holders, d, 0, u) BY <2>1, <2>3 DEF Shown
    <3>2. Without(a, v.cell)
      <4>1. 0 \in 0 .. Len(d) OBVIOUS
      <4> QED BY <3>1, <4>1 DEF JournalOK, a
    <3>3. Spares(e, v.cell) BY <1>8, <3>2 DEF Without
    <3> QED BY <1>7, <3>1, <3>3, JournalAdds
  <2>4. CASE ~v.logged
    <3> DEFINE K == FindVarrec(v)
               c == v.cell
    <3>1. ActualOK(v, holders, d, 0, u, r) BY <2>1, <2>4 DEF Shown
    <3>2. PICK p \in 0 .. Len(d) :
            /\ \A j \in p + 1 .. Len(d) : ~About(d[j], c)
            /\ \A j \in p .. Len(d) : holders[j][K] = c
            /\ IF p = 0 THEN UpToDate(v, u, r[K].val)
               ELSE d[p].sys_msg = "VARATTACH" /\ d[p].of.cell = c /\ ~d[p].of.logged /\ FindVarrec(d[p].of) = K
      BY <3>1 DEF ActualOK
    <3>a. K \in Places /\ c # NoUid BY <2>2
    <3> HIDE DEF K
    <3>3. ASSUME p = 0 PROVE UpToDate(v, u2, r2[K].val)
      <4>1. UpToDate(v, u, r[K].val) BY <3>2, <3>3
      <4>2. a[K] = c
        <5>1. 0 \in p .. Len(d) BY <3>3
        <5> QED BY <3>2, <5>1 DEF a
      <4>3. CASE e = <<Event(a[K], r2[K].val)>>
        <5>1. Adds(u2, u, <<Event(v.cell, r2[K].val)>>) BY <1>7, <4>2, <4>3
        <5> QED BY <5>1, UpToDateLast
      <4>4. CASE e # <<Event(a[K], r2[K].val)>>
        <5>1. r2[K].val = r[K].val BY <1>5, <3>a, <4>2, <4>4
        <5>2. \A i \in Places : a[i] = c => i = K BY <1>2, <3>a, <4>2 DEF Distinct
        <5>3. Spares(e, c) BY <1>8, <4>4, <5>2
        <5> QED BY <1>7, <4>1, <5>1, <5>3, UpToDateAdds
      <4> QED BY <4>3, <4>4
    <3>4. IF p = 0 THEN UpToDate(v, u2, r2[K].val)
          ELSE d[p].sys_msg = "VARATTACH" /\ d[p].of.cell = c /\ ~d[p].of.logged /\ FindVarrec(d[p].of) = K
      BY <3>2, <3>3
    <3>5. ActualOK(v, holders, d, 0, u2, r2) BY <3>2, <3>4 DEF ActualOK, K
    <3> QED BY <2>4, <3>5 DEF Shown
  <2> QED BY <2>3, <2>4
<1>10. \A i \in Places : holders[Len(d)][i] # NoUid =>
         \E v \in Of(menus) : ~v.logged /\ v.cell \notin {} /\ FindVarrec(v) = i /\ holders[Len(d)][i] = v.cell
  BY DEF Follows
<1>11. Follows(menus, {}, holders, d, 0, u2, r2, crosses) BY <1>4, <1>9, <1>10 DEF Follows
<1> QED BY <1>11 DEF u2

LEMMA FromMeterPlays ==
  ASSUME SettledInv, FromMeter
  PROVE  SettledInv'
<1>1. WithinInv /\ Arranged(open) /\ actlnode \in Lds BY DEF SettledInv
<1>2. PICK x, adr :
        LET done == AddVarevent([vr |-> vr, events |-> <<>>], x, adr)
        IN  /\ vr' = done.vr
            /\ up' = up \o [k \in DOMAIN done.events |-> Event(done.events[k].uid, done.events[k].value)]
  BY DEF FromMeter
<1>3. UNCHANGED <<open, actlnode, dn, misread, crossed>> BY DEF FromMeter
<1>4. WithinInv' BY <1>1, FromMeterKeeps
<1> DEFINE done == AddVarevent([vr |-> vr, events |-> <<>>], x, adr)
           r2 == done.vr
           events == done.events
           e == [k \in DOMAIN events |-> Event(events[k].uid, events[k].value)]
<1>5. vr' = r2 /\ up' = up \o e BY <1>2
<1>6. done = AddVarevent([vr |-> vr, events |-> <<>>], x, adr) OBVIOUS
<1> HIDE DEF done
<1>7. MenusOK(open) /\ IsSeq(dn) /\ IsSeq(up) BY <1>1 DEF WithinInv
<1>8. Len(dn) \in Nat BY <1>7, SeqFacts
<1>9. ASSUME ~misread PROVE Playable'
  <2>1. PICK holders : Follows(open, {}, holders, dn, 0, up, vr, crossed) BY <1>9 DEF SettledInv, Playable
  <2>2. vr = Kept(vr, holders[0]) BY <2>1, ReplaysKept DEF Follows
  <2>3. Measured(r2, events, vr, holders[0]) BY <1>6, <2>2, AddVareventIs
  <2> DEFINE e2 == e
  <2>4. e2 = [k \in DOMAIN events |-> Event(events[k].uid, events[k].value)] OBVIOUS
  <2> HIDE DEF e2, events, r2
  <2>5. Follows(open, {}, holders, dn, 0, up \o e2, r2, crossed)
    BY <1>1, <1>7, <1>8, <2>1, <2>3, <2>4, MeasuredFollows
  <2>6. up' = up \o e2 BY <1>5 DEF e2
  <2>7. open' = open /\ dn' = dn /\ crossed' = crossed BY <1>3
  <2> QED BY <1>5, <2>5, <2>6, <2>7 DEF Playable
<1>10. Arranged(open') /\ actlnode' \in Lds /\ misread' = misread BY <1>1, <1>3
<1> QED BY <1>4, <1>9, <1>10 DEF SettledInv

(***************************************************************************)
(* HMI takes an event                                                      *)
(***************************************************************************)
\* What v is after an event for place k at address c: only a variable with the address changes.
Written(w, v, c, k, value) ==
  /\ w.cell = v.cell /\ w.do = v.do /\ w.leaf = v.leaf /\ w.logged = v.logged
  /\ w.adr = v.adr /\ w.time = v.time
  /\ IsSeq(w.val) /\ Len(w.val) = Len(v.val) /\ DOMAIN w.val = DOMAIN v.val
  /\ \A x \in DOMAIN v.val : w.val[x] = IF v.cell = c /\ x = k THEN value ELSE v.val[x]
  /\ v.cell # c => w = v

LEMMA SameWritten ==
  ASSUME NEW v, Shaped(v), NEW c, NEW k, NEW value, v.cell = c => k \notin DOMAIN v.val
  PROVE  Written(v, v, c, k, value)
<1>1. IsSeq(v.val) BY DEF Shaped, Varrec
<1>2. \A x \in DOMAIN v.val : ~(v.cell = c /\ x = k) OBVIOUS
<1> QED BY <1>1, <1>2 DEF Written

LEMMA PutWritten ==
  ASSUME NEW v, Shaped(v), NEW k, NEW value
  PROVE  Written([v EXCEPT !.val[k] = value], v, v.cell, k, value)
<1> DEFINE t == [v.val EXCEPT ![k] = value]
           w == [v EXCEPT !.val[k] = value]
           n == Len(v.val)
<1>1. DOMAIN v.val = 1 .. n /\ n \in Nat /\ \A x \in 1 .. n : v.val[x] \in Range(v.val)
  BY SeqFacts DEF Shaped, Varrec
<1>2. w = [do |-> v.do, leaf |-> v.leaf, logged |-> v.logged, cell |-> v.cell, adr |-> v.adr,
           time |-> v.time, val |-> t]
  BY DEF Shaped, Varrec
<1>3. t = [x \in 1 .. n |-> IF x = k THEN value ELSE v.val[x]] BY <1>1
<1> HIDE DEF t, n
<1>4. t \in [1 .. n -> Range(v.val) \cup {value}] BY <1>1, <1>3
<1>5. IsSeq(t) /\ Len(t) = n /\ DOMAIN t = DOMAIN v.val BY <1>1, <1>4, FcnIs
<1>6. \A x \in DOMAIN v.val : t[x] = IF x = k THEN value ELSE v.val[x] BY <1>1, <1>3
<1> HIDE DEF w
<1>7. /\ w.cell = v.cell /\ w.do = v.do /\ w.leaf = v.leaf /\ w.logged = v.logged
      /\ w.adr = v.adr /\ w.time = v.time /\ w.val = t
  BY <1>2
<1>8. Written(w, v, v.cell, k, value) BY <1>5, <1>6, <1>7 DEF Written, n
<1> QED BY <1>8 DEF w

LEMMA WriteVarIs ==
  ASSUME MenusOK(open), NEW c, NEW k, NEW value
  PROVE  /\ DOMAIN WriteVar(c, k, value) = DOMAIN open
         /\ \A i \in DOMAIN open :
              /\ WriteVar(c, k, value)[i].name = open[i].name
              /\ DOMAIN WriteVar(c, k, value)[i].vars = DOMAIN open[i].vars
              /\ \A x \in DOMAIN open[i].vars :
                   Written(WriteVar(c, k, value)[i].vars[x], open[i].vars[x], c, k, value)
<1> DEFINE put(v) == IF v.cell = c THEN [v EXCEPT !.val[k] = value] ELSE v
           menu(m) == [m EXCEPT !.vars = [j \in DOMAIN m.vars |-> put(m.vars[j])]]
           menus == [j \in DOMAIN open |-> menu(open[j])]
<1>1. menus = WriteVar(c, k, value) BY DEF WriteVar
<1>2. ASSUME NEW v, Shaped(v) PROVE Written(put(v), v, c, k, value)
  <2>1. CASE v.cell = c
    <3> DEFINE w == [v EXCEPT !.val[k] = value]
    <3>1. Written(w, v, v.cell, k, value) BY <1>2, PutWritten
    <3>2. put(v) = w BY <2>1
    <3> HIDE DEF w, put
    <3> QED BY <2>1, <3>1, <3>2
  <2>2. CASE v.cell # c
    <3>1. put(v) = v BY <2>2
    <3> HIDE DEF put
    <3> QED BY <1>2, <2>2, <3>1, SameWritten
  <2> QED BY <2>1, <2>2
<1> HIDE DEF put
<1>3. ASSUME NEW i \in DOMAIN open
      PROVE  /\ menu(open[i]).name = open[i].name /\ DOMAIN menu(open[i]).vars = DOMAIN open[i].vars
             /\ \A x \in DOMAIN open[i].vars : Written(menu(open[i]).vars[x], open[i].vars[x], c, k, value)
  <2> DEFINE m == open[i]
             vs == m.vars
             ws == [j \in DOMAIN vs |-> put(vs[j])]
  <2>1. m \in Range(open) BY DEF Range
  <2>2. MenuOK(m) /\ \A v \in Range(vs) : Shaped(v) BY <2>1 DEF MenusOK, Of
  <2>3. menu(m) = [name |-> m.name, vars |-> ws] BY <2>2 DEF MenuOK
  <2>4. \A x \in DOMAIN vs : Shaped(vs[x]) BY <2>2 DEF Range
  <2> HIDE DEF vs
  <2>5. \A x \in DOMAIN vs : Written(ws[x], vs[x], c, k, value) BY <1>2, <2>4
  <2>6. DOMAIN ws = DOMAIN vs OBVIOUS
  <2> HIDE DEF ws, m, menu
  <2>7. menu(m).name = m.name /\ menu(m).vars = ws BY <2>3
  <2> QED BY <2>5, <2>6, <2>7 DEF vs, m
<1> HIDE DEF menu
<1>4. DOMAIN menus = DOMAIN open /\ \A i \in DOMAIN open : menus[i] = menu(open[i]) OBVIOUS
<1> HIDE DEF menus
<1>5. \A i \in DOMAIN open :
        /\ menus[i].name = open[i].name /\ DOMAIN menus[i].vars = DOMAIN open[i].vars
        /\ \A x \in DOMAIN open[i].vars : Written(menus[i].vars[x], open[i].vars[x], c, k, value)
  BY <1>3, <1>4
<1> QED BY <1>1, <1>4, <1>5

LEMMA TailFacts ==
  ASSUME NEW u, IsSeq(u), u # <<>>
  PROVE  /\ IsSeq(Tail(u)) /\ Len(u) \in Nat /\ Len(u) > 0 /\ Len(Tail(u)) = Len(u) - 1
         /\ DOMAIN u = 1 .. Len(u) /\ DOMAIN Tail(u) = 1 .. Len(u) - 1 /\ Head(u) = u[1]
         /\ \A i \in 1 .. Len(u) - 1 : i + 1 \in DOMAIN u /\ Tail(u)[i] = u[i + 1]
         /\ \A i \in DOMAIN u : i # 1 => i - 1 \in DOMAIN Tail(u) /\ Tail(u)[i - 1] = u[i]
<1> DEFINE n == Len(u)
           t == Tail(u)
<1>1. n \in Nat /\ n > 0 BY LastIs
<1>2. IsSeq(t) BY TailIs
<1>3. u \in Seq(Range(u)) BY DEF IsSeq
<1>4. Len(t) = n - 1 /\ Head(u) = u[1] /\ \A i \in 1 .. n - 1 : t[i] = u[i + 1]
  BY <1>3, HeadTailProperties
<1>5. DOMAIN u = 1 .. n /\ DOMAIN t = 1 .. Len(t) BY <1>2, SeqFacts
<1> HIDE DEF n, t
<1>6. \A i \in 1 .. n - 1 : i + 1 \in 1 .. n BY <1>1
<1>7. ASSUME NEW i \in 1 .. n, i # 1 PROVE i - 1 \in 1 .. n - 1 /\ t[i - 1] = u[i]
  <2> DEFINE j == i - 1
  <2>1. j \in 1 .. n - 1 /\ j + 1 = i BY <1>1, <1>7
  <2> HIDE DEF j
  <2>2. t[j] = u[i] BY <1>4, <2>1
  <2> QED BY <2>1, <2>2 DEF j
<1> QED BY <1>1, <1>2, <1>4, <1>5, <1>6, <1>7 DEF n, t

LEMMA RestsTail ==
  ASSUME NEW u, IsSeq(u), u # <<>>, NEW c, Rests(u, c)
  PROVE  Rests(Tail(u), c) /\ Head(u).uid # c
<1>1. \A i \in DOMAIN Tail(u) : i + 1 \in DOMAIN u /\ Tail(u)[i] = u[i + 1] BY TailFacts
<1>2. 1 \in DOMAIN u /\ Head(u) = u[1] BY TailFacts
<1> QED BY <1>1, <1>2 DEF Rests

LEMMA EventJournal ==
  ASSUME NEW holders, NEW d, NEW v, NEW u, IsSeq(u), u # <<>>, JournalOK(v, holders, d, 0, u),
         NEW w, Written(w, v, Head(u).uid, Head(u).validx, Head(u).value)
  PROVE  JournalOK(w, holders, d, 0, Tail(u))
<1> DEFINE t == Tail(u)
           c == v.cell
<1>1. w.cell = c /\ DOMAIN w.val = DOMAIN v.val /\ (c # Head(u).uid => w = v) BY DEF Written
<1>2. /\ \A i \in DOMAIN t : i + 1 \in DOMAIN u /\ t[i] = u[i + 1]
      /\ \A i \in DOMAIN u : i # 1 => i - 1 \in DOMAIN t /\ t[i - 1] = u[i]
      /\ 1 \in DOMAIN u /\ Head(u) = u[1]
  BY TailFacts
<1>3. \A x : Record(w, x) = Record(v, x) BY DEF Record, Written
<1>4. \A j \in 0 .. Len(d) : Without(holders[j], c) BY DEF JournalOK
<1>5. CASE /\ \E p \in 0 + 1 .. Len(d) :
                /\ d[p].sys_msg = "VARATTACH" /\ d[p].of = v
                /\ \A j \in 0 + 1 .. Len(d) : j # p => ~About(d[j], c)
           /\ Rests(u, c) /\ \A x \in DOMAIN v.val : v.val[x] = NoVal
  <2>1. Rests(t, c) /\ Head(u).uid # c BY <1>5, RestsTail
  <2>2. w = v BY <1>1, <2>1
  <2> HIDE DEF t
  <2> QED BY <1>4, <1>5, <2>1, <2>2 DEF JournalOK, t
<1>6. CASE /\ \A j \in 0 + 1 .. Len(d) : ~About(d[j], c)
           /\ \A i \in DOMAIN u : u[i].uid = c =>
                u[i].validx \in DOMAIN v.val /\ u[i].value = Record(v, u[i].validx)
           /\ \A x \in DOMAIN v.val :
                v.val[x] = Record(v, x) \/ \E i \in DOMAIN u : u[i].uid = c /\ u[i].validx = x
  <2>1. \A i \in DOMAIN t : t[i].uid = w.cell => t[i].validx \in DOMAIN w.val /\ t[i].value = Record(w, t[i].validx)
    BY <1>1, <1>2, <1>3, <1>6
  <2>2. ASSUME NEW x \in DOMAIN w.val
        PROVE  w.val[x] = Record(w, x) \/ \E i \in DOMAIN t : t[i].uid = w.cell /\ t[i].validx = x
    <3>1. CASE c = u[1].uid /\ u[1].validx = x
      <4>1. w.val[x] = u[1].value BY <1>1, <1>2, <3>1 DEF Written
      <4>2. u[1].value = Record(v, x) BY <1>2, <1>6, <3>1
      <4> QED BY <1>3, <4>1, <4>2
    <3>2. CASE ~(c = u[1].uid /\ u[1].validx = x)
      <4>1. w.val[x] = v.val[x] BY <1>1, <1>2, <3>2 DEF Written
      <4>2. CASE v.val[x] = Record(v, x) BY <1>3, <4>1, <4>2
      <4>3. CASE \E i \in DOMAIN u : u[i].uid = c /\ u[i].validx = x
        <5>1. PICK i \in DOMAIN u : u[i].uid = c /\ u[i].validx = x BY <4>3
        <5>2. i # 1 BY <3>2, <5>1
        <5>3. i - 1 \in DOMAIN t /\ t[i - 1] = u[i] BY <1>2, <5>2
        <5> QED BY <1>1, <5>1, <5>3
      <4> QED BY <1>1, <1>6, <4>2, <4>3
    <3> QED BY <3>1, <3>2
  <2> HIDE DEF t
  <2> QED BY <1>1, <1>4, <1>6, <2>1, <2>2 DEF JournalOK, t
<1> QED BY <1>5, <1>6 DEF JournalOK

LEMMA EventUpToDate ==
  ASSUME NEW v, NEW u, IsSeq(u), u # <<>>, NEW value, UpToDate(v, u, value), Len(v.val) = 1,
         NEW w, Written(w, v, Head(u).uid, Head(u).validx, Head(u).value)
  PROVE  UpToDate(w, Tail(u), value)
<1> DEFINE t == Tail(u)
           c == v.cell
           n == Len(u)
<1>1. w.cell = c /\ IsSeq(w.val) /\ Len(w.val) = 1 /\ DOMAIN w.val = 1 .. 1 /\ (c # Head(u).uid => w = v)
  BY SeqFacts DEF Written
<1>2. /\ \A i \in DOMAIN t : i + 1 \in DOMAIN u /\ t[i] = u[i + 1]
      /\ \A i \in DOMAIN u : i # 1 => i - 1 \in DOMAIN t /\ t[i - 1] = u[i]
      /\ 1 \in DOMAIN u /\ Head(u) = u[1]
      /\ n \in Nat /\ Len(t) = n - 1 /\ DOMAIN u = 1 .. n /\ DOMAIN t = 1 .. n - 1
  BY TailFacts
<1> HIDE DEF n, t
<1>3. CASE Rests(u, c) /\ v.val = <<value>>
  <2>1. Rests(t, c) /\ Head(u).uid # c BY <1>3, RestsTail DEF t
  <2> QED BY <1>1, <1>3, <2>1 DEF UpToDate, t
<1>4. CASE \E i \in DOMAIN u : u[i] = Event(c, value) /\ \A j \in i + 1 .. n : u[j].uid # c
  <2>1. PICK i \in DOMAIN u : u[i] = Event(c, value) /\ \A j \in i + 1 .. n : u[j].uid # c BY <1>4
  <2>2. CASE i = 1
    <3>1. Head(u).uid = c /\ Head(u).validx = 1 /\ Head(u).value = value BY <1>2, <2>1, <2>2 DEF Event
    <3>2. 1 \in DOMAIN v.val BY <1>1 DEF Written
    <3>3. w.val[1] = value BY <3>1, <3>2 DEF Written
    <3>4. w.val = <<value>>
      <4> DEFINE s == w.val
      <4>1. IsSeq(s) /\ Len(s) = 1 /\ s[1] = value BY <1>1, <3>3
      <4> HIDE DEF s
      <4>2. s = [j \in 1 .. 1 |-> s[j]] BY <4>1, SeqAsFcn
      <4>3. s = [j \in 1 .. 1 |-> value] BY <4>1, <4>2
      <4>4. s = <<value>> BY <4>3
      <4> QED BY <4>4 DEF s
    <3>5. \A j \in DOMAIN t : t[j].uid # c
      <4> SUFFICES ASSUME NEW j \in DOMAIN t PROVE t[j].uid # c OBVIOUS
      <4>1. j + 1 \in 1 + 1 .. n /\ t[j] = u[j + 1] BY <1>2
      <4> QED BY <2>1, <2>2, <4>1
    <3> QED BY <1>1, <3>4, <3>5 DEF UpToDate, Rests, t
  <2>3. CASE i # 1
    <3> DEFINE k == i - 1
    <3>1. k \in DOMAIN t /\ t[k] = u[i] BY <1>2, <2>3
    <3>2. \A j \in k + 1 .. Len(t) : t[j].uid # c
      <4> SUFFICES ASSUME NEW j \in k + 1 .. Len(t) PROVE t[j].uid # c OBVIOUS
      <4>1. j \in DOMAIN t /\ j + 1 \in i + 1 .. n BY <1>2, <2>3
      <4> QED BY <1>2, <2>1, <4>1
    <3> HIDE DEF k
    <3>3. t[k] = Event(w.cell, value) BY <1>1, <2>1, <3>1
    <3> QED BY <1>1, <3>1, <3>2, <3>3 DEF UpToDate, t
  <2> QED BY <2>2, <2>3
<1> QED BY <1>3, <1>4 DEF UpToDate, n

LEMMA EventActual ==
  ASSUME NEW holders, NEW d, Len(d) \in Nat, NEW v, NEW u, IsSeq(u), u # <<>>, NEW r, ActualOK(v, holders, d, 0, u, r),
         Len(v.val) = 1, NEW w, Written(w, v, Head(u).uid, Head(u).validx, Head(u).value)
  PROVE  ActualOK(w, holders, d, 0, Tail(u), r)
<1> DEFINE K == FindVarrec(v)
           t == Tail(u)
<1>1. w.cell = v.cell BY DEF Written
<1>2. FindVarrec(w) = K BY DEF Written, FindVarrec
<1>3. PICK p \in 0 .. Len(d) :
        /\ \A j \in p + 1 .. Len(d) : ~About(d[j], v.cell)
        /\ \A j \in p .. Len(d) : holders[j][K] = v.cell
        /\ IF p = 0 THEN UpToDate(v, u, r[K].val)
           ELSE d[p].sys_msg = "VARATTACH" /\ d[p].of.cell = v.cell /\ ~d[p].of.logged /\ FindVarrec(d[p].of) = K
  BY DEF ActualOK
<1>4. ASSUME p = 0 PROVE UpToDate(w, t, r[K].val)
  <2>1. UpToDate(v, u, r[K].val) BY <1>3, <1>4
  <2> HIDE DEF K
  <2> QED BY <2>1, EventUpToDate
<1> HIDE DEF K, t
<1>5. IF p = 0 THEN UpToDate(w, t, r[K].val)
      ELSE d[p].sys_msg = "VARATTACH" /\ d[p].of.cell = w.cell /\ ~d[p].of.logged /\ FindVarrec(d[p].of) = K
  BY <1>1, <1>3, <1>4
<1>6. ActualOK(w, holders, d, 0, t, r) BY <1>1, <1>2, <1>3, <1>5 DEF ActualOK
<1> QED BY <1>6 DEF t

\* What a variable with an actual value is shown by: one value.
LEMMA OneValue ==
  ASSUME NEW menus, MenusOK(menus), Arranged(menus), NEW v \in Of(menus), ~v.logged
  PROVE  Len(v.val) = 1
<1>1. PICK i \in DOMAIN menus : v \in Range(menus[i].vars) BY InMenu
<1>2. NamedIn(v, menus[i].name) BY <1>1 DEF Arranged
<1>3. menus[i].name \in DOMAIN Menus BY <1>1 DEF MenusOK, MenuOK, Range
<1>4. PICK item \in Range(Menus[menus[i].name].items) : v.logged = item.logged /\ Len(v.val) = item.max
  BY <1>2 DEF NamedIn
<1> QED BY <1>3, <1>4, ActualsAssumption

LEMMA EventFollows ==
  ASSUME NEW menus, MenusOK(menus), Arranged(menus), NEW holders, NEW d, Len(d) \in Nat,
         NEW u, IsSeq(u), u # <<>>, NEW r, NEW crosses, Follows(menus, {}, holders, d, 0, u, r, crosses),
         NEW menus2, MenusOK(menus2), DOMAIN menus2 = DOMAIN menus,
         \A i \in DOMAIN menus :
           /\ DOMAIN menus2[i].vars = DOMAIN menus[i].vars
           /\ \A x \in DOMAIN menus[i].vars :
                Written(menus2[i].vars[x], menus[i].vars[x], Head(u).uid, Head(u).validx, Head(u).value)
  PROVE  Follows(menus2, {}, holders, d, 0, Tail(u), r, crosses)
<1> DEFINE put(w, v) == Written(w, v, Head(u).uid, Head(u).validx, Head(u).value)
<1>1. \A v, w : put(w, v) => w.cell = v.cell /\ w.logged = v.logged /\ FindVarrec(w) = FindVarrec(v)
  BY DEF Written, FindVarrec
<1>2. \A i \in DOMAIN menus : /\ DOMAIN menus2[i].vars = DOMAIN menus[i].vars
                              /\ \A x \in DOMAIN menus[i].vars : put(menus2[i].vars[x], menus[i].vars[x])
  OBVIOUS
<1> HIDE DEF put
<1>3. ASSUME NEW w \in Of(menus2) PROVE \E v \in Of(menus) : put(w, v)
  <2>1. PICK i \in DOMAIN menus : w \in Range(menus2[i].vars) BY OfIs DEF MenusOK
  <2>2. PICK x \in DOMAIN menus[i].vars : w = menus2[i].vars[x] BY <1>2, <2>1 DEF Range
  <2>3. menus[i].vars[x] \in Range(menus[i].vars) BY DEF Range
  <2>4. menus[i].vars[x] \in Of(menus) BY <2>3, OfIs DEF MenusOK
  <2> QED BY <1>2, <2>2, <2>4
<1>4. ASSUME NEW v \in Of(menus) PROVE \E w \in Of(menus2) : put(w, v)
  <2>1. PICK i \in DOMAIN menus : v \in Range(menus[i].vars) BY InMenu
  <2>2. PICK x \in DOMAIN menus[i].vars : v = menus[i].vars[x] BY <2>1 DEF Range
  <2>3. menus2[i].vars[x] \in Range(menus2[i].vars) BY <1>2 DEF Range
  <2>4. menus2[i].vars[x] \in Of(menus2) BY <2>3, OfIs DEF MenusOK
  <2> QED BY <1>2, <2>2, <2>4
<1>5. ASSUME NEW w \in Of(menus2) PROVE Shown(w, holders, d, 0, Tail(u), r, crosses)
  <2>1. PICK v \in Of(menus) : put(w, v) BY <1>3
  <2>2. Shown(v, holders, d, 0, u, r, crosses) BY DEF Follows
  <2>3. w.cell = v.cell /\ w.logged = v.logged BY <1>1, <2>1
  <2>4. Written(w, v, Head(u).uid, Head(u).validx, Head(u).value) BY <2>1 DEF put
  <2>5. CASE v.logged
    <3>1. ASSUME v.cell \notin crosses PROVE JournalOK(w, holders, d, 0, Tail(u))
      <4>1. JournalOK(v, holders, d, 0, u) BY <2>2, <2>5, <3>1 DEF Shown
      <4> QED BY <2>4, <4>1, EventJournal
    <3> QED BY <2>3, <2>5, <3>1 DEF Shown
  <2>6. CASE ~v.logged
    <3>1. ActualOK(v, holders, d, 0, u, r) BY <2>2, <2>6 DEF Shown
    <3>2. Len(v.val) = 1 BY <2>6, OneValue
    <3>3. ActualOK(w, holders, d, 0, Tail(u), r) BY <2>4, <3>1, <3>2, EventActual
    <3> QED BY <2>3, <2>6, <3>3 DEF Shown
  <2> QED BY <2>5, <2>6
<1>6. ASSUME NEW i \in Places, holders[Len(d)][i] # NoUid
      PROVE  \E w \in Of(menus2) : ~w.logged /\ w.cell \notin {} /\ FindVarrec(w) = i /\ holders[Len(d)][i] = w.cell
  <2>1. PICK v \in Of(menus) : ~v.logged /\ FindVarrec(v) = i /\ holders[Len(d)][i] = v.cell BY <1>6 DEF Follows
  <2>2. PICK w \in Of(menus2) : put(w, v) BY <1>4
  <2> QED BY <1>1, <2>1, <2>2
<1>7. Replays(holders, d, 0, r) BY DEF Follows
<1> QED BY <1>5, <1>6, <1>7 DEF Follows

LEMMA SetVarByEventPlays ==
  ASSUME SettledInv, SetVarByEvent
  PROVE  SettledInv'
<1> DEFINE c == Head(up).uid
           k == Head(up).validx
           value == Head(up).value
<1>1. WithinInv /\ Arranged(open) /\ actlnode \in Lds BY DEF SettledInv
<1>2. MenusOK(open) /\ IsSeq(dn) /\ IsSeq(up) BY <1>1 DEF WithinInv
<1>3. up # <<>> /\ up' = Tail(up) /\ UNCHANGED <<actlnode, dn, vr, misread, crossed>> BY DEF SetVarByEvent
<1>4. WithinInv' BY <1>1, SetVarByEventKeeps
<1>5. MenusOK(open') BY <1>4 DEF WithinInv
<1>6. /\ DOMAIN open' = DOMAIN open
      /\ \A i \in DOMAIN open :
           /\ open'[i].name = open[i].name /\ DOMAIN open'[i].vars = DOMAIN open[i].vars
           /\ \A x \in DOMAIN open[i].vars : Written(open'[i].vars[x], open[i].vars[x], c, k, value)
  <2>1. CASE open' = WriteVar(c, k, value) BY <1>2, <2>1, WriteVarIs
  <2>2. CASE /\ open' = open
             /\ \/ {v \in Live : v.cell = c} = {}
                \/ \E v \in Live : v.cell = c /\ k \notin DOMAIN v.val
    <3>1. Live = Of(open) BY <1>2, LiveIs DEF MenusOK
    <3> HIDE DEF c, k, value
    <3>2. \A v \in Of(open) : v.cell = c => k \notin DOMAIN v.val
      <4>1. CASE {v \in Live : v.cell = c} = {} BY <3>1, <4>1
      <4>2. CASE \E v \in Live : v.cell = c /\ k \notin DOMAIN v.val
        <5>1. PICK w \in Of(open) : w.cell = c /\ k \notin DOMAIN w.val BY <3>1, <4>2
        <5> QED BY <1>1, <1>2, <5>1, OneEachCell
      <4> QED BY <2>2, <4>1, <4>2
    <3>3. \A v \in Of(open) : Shaped(v) BY <1>2 DEF MenusOK
    <3>4. \A i \in DOMAIN open : \A x \in DOMAIN open[i].vars : open[i].vars[x] \in Of(open)
      BY <1>2, OfIs DEF MenusOK, Range
    <3>5. \A i \in DOMAIN open : \A x \in DOMAIN open[i].vars : Written(open[i].vars[x], open[i].vars[x], c, k, value)
      BY <3>2, <3>3, <3>4, SameWritten
    <3> QED BY <2>2, <3>5
  <2> QED BY <2>1, <2>2 DEF SetVarByEvent
<1>7. Arranged(open')
  <2>1. \A i \in DOMAIN open : \A x \in DOMAIN open[i].vars : Like(open'[i].vars[x], open[i].vars[x])
    <3> SUFFICES ASSUME NEW i \in DOMAIN open, NEW x \in DOMAIN open[i].vars
                 PROVE  Like(open'[i].vars[x], open[i].vars[x])
      OBVIOUS
    <3>1. Written(open'[i].vars[x], open[i].vars[x], c, k, value) BY <1>6
    <3>2. open[i].vars[x] \in Range(open[i].vars) BY DEF Range
    <3>3. open[i].vars[x].adr \in Lds BY <1>1, <3>2 DEF Arranged, NamedIn
    <3> QED BY <3>1, <3>3 DEF Written, Like
  <2> QED BY <1>1, <1>2, <1>5, <1>6, <2>1, LikeArranged
<1>8. ASSUME ~misread PROVE Playable'
  <2>1. PICK holders : Follows(open, {}, holders, dn, 0, up, vr, crossed) BY <1>8 DEF SettledInv, Playable
  <2>2. Len(dn) \in Nat BY <1>2, SeqFacts
  <2>3. Follows(open', {}, holders, dn, 0, Tail(up), vr, crossed)
    BY <1>1, <1>2, <1>3, <1>5, <1>6, <2>1, <2>2, EventFollows
  <2>4. dn' = dn /\ vr' = vr /\ crossed' = crossed /\ up' = Tail(up) BY <1>3
  <2> QED BY <2>3, <2>4 DEF Playable
<1>9. actlnode' \in Lds /\ misread' = misread BY <1>1, <1>3
<1> QED BY <1>4, <1>7, <1>8, <1>9 DEF SettledInv

LEMMA InitPlays ==
  ASSUME Init
  PROVE  SettledInv
<1>1. open = <<Main>> /\ dn = <<>> /\ up = <<>> /\ vr = FirstVars /\ actlnode \in Lds /\ jourtime \in Times
  BY DEF Init
<1>2. WithinInv
  <2>1. MenusOK(open) /\ Of(open) = {} BY <1>1, MainIs
  <2> QED BY <1>1, <2>1, EmptyIs DEF WithinInv
<1>3. Arranged(open) BY <1>1, MainArranged
<1> DEFINE a == [i \in Places |-> NoUid]
           holders == [j \in 0 .. 0 |-> a]
<1>4. \A i \in Places : vr[i].uid = NoUid /\ vr[i] = [val |-> vr[i].val, uid |-> NoUid, attaching |-> FALSE]
  BY <1>1 DEF FirstVars, Places
<1>5. vr = [i \in Places |-> vr[i]] BY <1>1 DEF FirstVars, Places
<1>6. holders[0] = a OBVIOUS
<1> HIDE DEF holders
<1>7. a = [i \in Places |-> vr[i].uid] /\ Distinct(a) BY <1>4 DEF Distinct
<1>8. vr = [i \in Places |-> [val |-> vr[i].val, uid |-> vr[i].uid, attaching |-> (vr[i].uid # NoUid)]]
  <2> DEFINE r == vr
             kept(i) == [val |-> r[i].val, uid |-> r[i].uid, attaching |-> (r[i].uid # NoUid)]
  <2>1. \A i \in Places : r[i] = kept(i)
    <3> SUFFICES ASSUME NEW i \in Places PROVE r[i] = kept(i) OBVIOUS
    <3>1. r[i].uid = NoUid /\ r[i] = [val |-> r[i].val, uid |-> NoUid, attaching |-> FALSE] BY <1>4
    <3>2. (r[i].uid # NoUid) = FALSE BY <3>1
    <3> HIDE DEF r
    <3>3. kept(i) = [val |-> r[i].val, uid |-> NoUid, attaching |-> FALSE] BY <3>1, <3>2
    <3> QED BY <3>1, <3>3
  <2>2. r = [i \in Places |-> r[i]] BY <1>5
  <2> HIDE DEF r, kept
  <2>3. r = [i \in Places |-> kept(i)] BY <2>1, <2>2
  <2> QED BY <2>3 DEF r, kept
<1>9. Len(dn) = 0 /\ \A j \in 0 + 1 .. Len(dn) : FALSE BY <1>1
<1>10. Replays(holders, dn, 0, vr) BY <1>6, <1>7, <1>8, <1>9 DEF Replays
<1>11. Of(open) = {} BY <1>1, MainIs
<1>12. \A i \in Places : holders[Len(dn)][i] = NoUid BY <1>6, <1>9
<1>13. Follows(open, {}, holders, dn, 0, up, vr, crossed) BY <1>10, <1>11, <1>12 DEF Follows
<1> QED BY <1>1, <1>2, <1>3, <1>13 DEF SettledInv, Playable

LEMMA SettledFromInv ==
  ASSUME SettledInv
  PROVE  Settled
<1>1. MenusOK(open) /\ Arranged(open) BY DEF SettledInv, WithinInv
<1>2. Live = Of(open) BY <1>1, LiveIs DEF MenusOK
<1> SUFFICES ASSUME dn = <<>>, up = <<>>, ~misread, NEW v \in Of(open), ~(v.logged /\ v.cell \in crossed)
             PROVE  v.val = Due(v)
  BY <1>2 DEF Settled
<1>3. PICK holders : Follows(open, {}, holders, dn, 0, up, vr, crossed) BY DEF SettledInv, Playable
<1>4. Shown(v, holders, dn, 0, up, vr, crossed) BY <1>3 DEF Follows
<1>5. Len(dn) = 0 /\ DOMAIN up = {} BY EmptyIs
<1>6. \A j \in 0 + 1 .. Len(dn) : FALSE BY <1>5
<1>7. IsSeq(v.val) BY <1>1 DEF MenusOK, Shaped, Varrec
<1>8. CASE v.logged
  <2>1. JournalOK(v, holders, dn, 0, up) BY <1>4, <1>8 DEF Shown
  <2>2. \A x \in DOMAIN v.val : v.val[x] = Record(v, x) BY <1>5, <1>6, <2>1 DEF JournalOK
  <2> DEFINE s == v.val
  <2>3. s = [x \in DOMAIN s |-> s[x]] BY <1>7, SeqAsFcn, SeqFacts
  <2>4. Due(v) = [x \in DOMAIN s |-> Record(v, x)] BY <1>8 DEF Due, Record
  <2>5. \A x \in DOMAIN s : s[x] = Record(v, x) BY <2>2
  <2> HIDE DEF s
  <2>6. s = [x \in DOMAIN s |-> Record(v, x)] BY <2>3, <2>5
  <2> QED BY <2>4, <2>6 DEF s
<1>9. CASE ~v.logged
  <2> DEFINE K == FindVarrec(v)
  <2>1. ActualOK(v, holders, dn, 0, up, vr) BY <1>4, <1>9 DEF Shown
  <2>2. UpToDate(v, up, vr[K].val)
    <3>1. PICK p \in 0 .. Len(dn) :
            IF p = 0 THEN UpToDate(v, up, vr[K].val) ELSE dn[p].of.cell = v.cell
      BY <2>1 DEF ActualOK
    <3>2. p = 0 BY <1>5
    <3> QED BY <3>1, <3>2
  <2> HIDE DEF K
  <2>3. v.val = <<vr[K].val>> BY <1>5, <2>2 DEF UpToDate
  <2> QED BY <1>9, <2>3 DEF Due, K
<1> QED BY <1>8, <1>9

(***************************************************************************)
(* When nothing is on the way every variable in HMI shows what startiec    *)
(* has for it (vc_attach_dataset, vc_detach_dataset and setvarbyevent in   *)
(* HMI, rcvdata and add_varevent in startiec), unless a detach was read    *)
(* behind another message or the address of a journal is crossed: Settled, *)
(* for any menus, meters, archives and numbers of messages.                *)
(***************************************************************************)
THEOREM SettledHolds == Spec => []Settled
<1>1. Init => SettledInv BY InitPlays
<1>2. SettledInv /\ [Next]_vars => SettledInv'
  <2> SUFFICES ASSUME SettledInv, [Next]_vars PROVE SettledInv' OBVIOUS
  <2>1. CASE Keys BY <2>1, KeysPlay
  <2>2. CASE FromHmi BY <2>2, FromHmiPlays
  <2>3. CASE FromMeter BY <2>3, FromMeterPlays
  <2>4. CASE SetVarByEvent BY <2>4, SetVarByEventPlays
  <2>5. CASE UNCHANGED vars
    <3>1. UNCHANGED <<open, actlnode, jourtime, crossed, dn, up, vr, misread>> BY <2>5 DEF vars
    <3>2. WithinInv' BY <3>1 DEF SettledInv, WithinInv, MenusOK, Of
    <3>3. Playable => Playable' BY <3>1 DEF Playable
    <3>4. Arranged(open') /\ actlnode' \in Lds BY <3>1 DEF SettledInv
    <3> QED BY <3>1, <3>2, <3>3, <3>4 DEF SettledInv
  <2> QED BY <2>1, <2>2, <2>3, <2>4, <2>5 DEF Next
<1>3. SettledInv => Settled BY SettledFromInv
<1> QED BY <1>1, <1>2, <1>3, PTL DEF Spec
=============================================================================
