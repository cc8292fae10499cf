---------------------------- MODULE MfRingProofs ----------------------------
(***************************************************************************)
(* Theorems about MfRing, for every size of the ring, of a header and of   *)
(* the FIFO, which may hold more than the ring, and for messages of every  *)
(* length.                                                                 *)
(*                                                                         *)
(* The invariant says where the three pointers are.  Between two calls     *)
(* they meet, or the two beginnings are at the end of the ring and the end *)
(* of what was read is at its beginning.  While readchannel goes from its  *)
(* first read to its second one, the ring holds the next bytes of the      *)
(* stream up to its end.  A call that does not empty the FIFO has filled   *)
(* the ring, and no other leaves a message cut.                            *)
(***************************************************************************)
EXTENDS MfRing, SequenceTheorems, TLAPS

\* What is known at any time.
Bounds == /\ taken <= sent
          /\ sent - taken <= PipeSize

\* The stream ends at the end of a message, and so does what was handed over.
Boundaries == /\ sent \in ends
              /\ handed \in ends \/ Len(batch) = N

\* Between two calls everything that was read has been handed over.
Settled == pc # "second" => /\ handed = taken
                            /\ endring = bgnframe \/ (bgnframe = N /\ endring = 0)

\* Between the two reads: the first one began rdlen cells before the end.
Between == pc = "second" =>
  /\ endring = N /\ rdlen <= N /\ taken = handed + rdlen
  /\ N - rdlen = bgnframe \/ (bgnframe = N /\ rdlen = N)
  /\ rdlen = 0 => taken < sent
  /\ \A c \in Cells : c >= N - rdlen => ring[c] = handed + 1 + c - (N - rdlen)

\* What the callback was given, and what was taken for a header before.
Given(from) == /\ batch = Stream(from, Len(batch))
               /\ Len(batch) >= H => \/ header = Stream(from, H)
                                     \/ header = <<>> /\ HeaderMissed

Good == /\ bgnring = bgnframe
        /\ Boundaries /\ Settled /\ Between
        /\ pc = "idle" /\ events = 0 => handed = sent \/ Len(batch) = N
        /\ Given(handed - Len(batch) + 1)

IInv == TypeOK /\ Bounds /\ (~broken => Good)

(***************************************************************************)
(* The operators                                                           *)
(***************************************************************************)
LEMMA Constants ==
  /\ N \in Nat \ {0} /\ H \in Nat \ {0} /\ PipeSize \in Nat \ {0}
  /\ MaxBytes \in Nat \ {0} /\ MaxEvents \in Nat \ {0}
  /\ \A l \in Lens : l \in Nat /\ l >= H
  BY RingAssumption

\* A function on 1..n is a sequence of length n.
LEMMA FunctionIsSeq ==
  ASSUME NEW S, NEW n \in Nat, NEW f \in [1 .. n -> S]
  PROVE  f \in Seq(S) /\ Len(f) = n
<1>1. f \in Seq(S) OBVIOUS
<1>2. DOMAIN f = 1 .. n OBVIOUS
<1>3. Len(f) \in Nat /\ DOMAIN f = 1 .. Len(f) BY <1>1, LenProperties
<1>4. 1 .. Len(f) = 1 .. n BY <1>2, <1>3
<1>5. Len(f) = n BY <1>3, <1>4
<1> QED BY <1>1, <1>5

LEMMA CellFacts ==
  ASSUME NEW from \in Pointers, NEW len \in Nat, len <= N, NEW i \in 1 .. len
  PROVE  Cell(from + i - 1) \in Cells
  BY Constants DEF Pointers, Cells, Cell

\* What the test lets pass is a sequence of len bytes of the ring, and the pointer
\* stays in the ring.
LEMMA TakeType ==
  ASSUME NEW S, NEW rg \in [Cells -> S], NEW from \in Pointers, NEW end \in Pointers,
         NEW len \in Nat, Take(rg, from, end, len).ok
  PROVE  /\ Take(rg, from, end, len).bytes \in Seq(S)
         /\ Len(Take(rg, from, end, len).bytes) = len
         /\ Take(rg, from, end, len).to \in Pointers
<1> DEFINE bytes == [i \in 1 .. len |-> rg[Cell(from + i - 1)]]
<1>1. len <= N /\ Least(len, N) = len BY DEF Take, Least
<1>2. bytes \in [1 .. len -> S] BY <1>1, CellFacts
<1>3. bytes \in Seq(S) /\ Len(bytes) = len BY <1>2, FunctionIsSeq
<1>4. Take(rg, from, end, len).to \in Pointers
  BY <1>1, Constants DEF Take, Pointers
<1> QED BY <1>1, <1>3, <1>4 DEF Take

LEMMA SysReadType ==
  ASSUME TypeOK, NEW rg \in [Cells -> 0 .. MaxBytes], NEW end \in Pointers, NEW len \in Nat,
         SysRead(rg, end, len)
  PROVE  /\ rdlen' = 0 /\ pc' = "idle"
         /\ bgnframe' \in Pointers /\ bgnring' \in Pointers
         /\ handed' \in Nat
         /\ batch' \in Seq(0 .. MaxBytes) /\ header' \in Seq(0 .. MaxBytes)
<1> DEFINE h == Take(rg, bgnring, end, H)
           f == Take(rg, bgnframe, end, len)
<1>1. bgnring \in Pointers /\ bgnframe \in Pointers /\ handed \in Nat BY DEF TypeOK
<1>2. h.ok => h.bytes \in Seq(0 .. MaxBytes) /\ h.to \in Pointers
  BY <1>1, TakeType, Constants
<1>3. f.ok => f.bytes \in Seq(0 .. MaxBytes) /\ f.to \in Pointers
  BY <1>1, TakeType
<1>4. <<>> \in Seq(0 .. MaxBytes) OBVIOUS
<1>5. /\ header' = IF h.ok THEN h.bytes ELSE <<>>
      /\ batch' = IF len > 0 /\ f.ok THEN f.bytes ELSE <<>>
      /\ handed' = handed + Len(batch')
      /\ rdlen' = 0 /\ pc' = "idle"
  BY DEF SysRead
<1>6. bgnring' = IF len > 0 /\ f.ok THEN f.to ELSE IF h.ok THEN h.to ELSE bgnring
  BY DEF SysRead
<1>7. bgnframe' = bgnring' BY DEF SysRead
<1> HIDE DEF h, f
<1>8. header' \in Seq(0 .. MaxBytes) /\ batch' \in Seq(0 .. MaxBytes)
  BY <1>2, <1>3, <1>4, <1>5
<1>9. handed' \in Nat BY <1>1, <1>5, <1>8, LenProperties
<1>10. bgnring' \in Pointers BY <1>1, <1>2, <1>3, <1>6
<1> QED BY <1>5, <1>7, <1>8, <1>9, <1>10

\* Reading no more than what waits and fits keeps the ring a ring of bytes.
LEMMA FilledType ==
  ASSUME TypeOK, NEW c \in Nat, NEW n \in Nat, taken + n <= sent
  PROVE  Filled(c, n) \in [Cells -> 0 .. MaxBytes]
<1> SUFFICES ASSUME NEW x \in Cells
             PROVE  (IF x \in c .. c + n - 1 THEN taken + 1 + x - c ELSE ring[x]) \in 0 .. MaxBytes
  BY DEF Filled
<1>1. ring[x] \in 0 .. MaxBytes BY DEF TypeOK
<1>2. taken \in Nat /\ sent \in Nat /\ sent <= MaxBytes BY Constants DEF TypeOK
<1>3. x \in Nat BY Constants DEF Cells
<1>4. x \in c .. c + n - 1 => taken + 1 + x - c \in 0 .. MaxBytes
  BY <1>2, <1>3, Constants
<1> QED BY <1>1, <1>4

LEMMA PlaceFacts ==
  ASSUME TypeOK, Bounds
  PROVE  /\ N \in Nat /\ bgnframe \in Nat /\ bgnring \in Nat /\ endring \in Nat
         /\ bgnframe <= N /\ bgnring <= N /\ endring <= N
         /\ sent \in Nat /\ taken \in Nat /\ handed \in Nat /\ sent <= MaxBytes
         /\ Waiting \in Nat /\ taken + Waiting = sent /\ Waiting <= PipeSize
         /\ Room \in Nat /\ NotRead \in Nat /\ Room <= N /\ NotRead <= N
         /\ endring + Room <= N
         /\ rdlen \in Nat /\ rdlen <= 2 * N
<1>1. /\ N \in Nat /\ bgnframe \in Nat /\ bgnring \in Nat /\ endring \in Nat
      /\ bgnframe <= N /\ bgnring <= N /\ endring <= N
      /\ rdlen \in Nat /\ rdlen <= 2 * N
  BY Constants DEF TypeOK, Pointers
<1>2. sent \in Nat /\ taken \in Nat /\ handed \in Nat /\ sent <= MaxBytes
  BY Constants DEF TypeOK
<1>3. Waiting \in Nat /\ taken + Waiting = sent /\ Waiting <= PipeSize
  BY <1>2, Constants DEF Bounds, Waiting
<1>4. /\ Room \in Nat /\ NotRead \in Nat /\ Room <= N /\ NotRead <= N
      /\ endring + Room <= N
  BY <1>1 DEF Room, NotRead
<1> QED BY <1>1, <1>2, <1>3, <1>4

(***************************************************************************)
(* Types                                                                   *)
(***************************************************************************)
TInv == TypeOK /\ Bounds

LEMMA TypeInit == Init => TInv
<1> SUFFICES ASSUME Init PROVE TInv OBVIOUS
<1>1. ring \in [Cells -> 0 .. MaxBytes] BY Constants DEF Init
<1>2. <<>> \in Seq(0 .. MaxBytes) OBVIOUS
<1>3. batch \in Seq(0 .. MaxBytes) /\ header \in Seq(0 .. MaxBytes)
  BY <1>2 DEF Init
<1>4. Bounds BY Constants DEF Init, Bounds
<1>5. {bgnframe, bgnring, endring} \subseteq Pointers
  BY Constants DEF Init, Pointers
<1>6. 0 \in 0 .. 2 * N /\ 0 \in 0 .. MaxEvents /\ 0 \in 0 .. MaxBytes
  BY Constants
<1>7. /\ rdlen \in 0 .. 2 * N /\ events \in 0 .. MaxEvents /\ handed \in Nat
      /\ broken \in BOOLEAN /\ pc \in {"idle", "first", "second"}
  BY <1>6 DEF Init
<1>8. {sent, taken} \subseteq 0 .. MaxBytes /\ ends \subseteq 0 .. MaxBytes
  BY <1>6 DEF Init
<1> QED BY <1>1, <1>3, <1>4, <1>5, <1>7, <1>8 DEF TInv, TypeOK

LEMMA TypeStep == TInv /\ [Next]_vars => TInv'
<1> SUFFICES ASSUME TypeOK, Bounds, [Next]_vars PROVE TInv' BY DEF TInv
<1>1. CASE \E len \in Lens : Write(len)
  <2> PICK len \in Lens : Write(len) BY <1>1
  <2>1. len \in Nat BY Constants
  <2>2. sent' = sent + len /\ sent' <= MaxBytes /\ sent' - taken <= PipeSize
    BY <2>1, PlaceFacts DEF Write
  <2>3. sent' \in 0 .. MaxBytes /\ taken <= sent'
    BY <2>1, <2>2, Constants DEF TypeOK, Bounds
  <2>4. ends' \subseteq 0 .. MaxBytes BY <2>2, <2>3 DEF Write, TypeOK
  <2>5. events' \in 0 .. MaxEvents
    <3>1. events \in 0 .. MaxEvents BY DEF TypeOK
    <3>2. \/ events = 0 /\ events' = 1
          \/ events' = events
          \/ events \in 1 .. MaxEvents - 1 /\ events' = events + 1
      BY DEF Write
    <3> QED BY <3>1, <3>2, Constants
  <2> QED BY <2>2, <2>3, <2>4, <2>5 DEF Write, TInv, TypeOK, Bounds
<1>2. CASE TakeEvent
  <2>1. events' \in 0 .. MaxEvents BY <1>2, Constants DEF TakeEvent, TypeOK
  <2> QED BY <1>2, <2>1 DEF TakeEvent, TInv, TypeOK, Bounds
<1>3. CASE ReadNothing
  BY <1>3 DEF ReadNothing, TInv, TypeOK, Bounds
<1>4. CASE ReadFirst
  <2> DEFINE n == Least(Room, Waiting)
  <2>1. n \in Nat /\ n <= Room /\ n <= Waiting BY PlaceFacts DEF Least
  <2>2. /\ ring' = Filled(endring, n) /\ taken' = taken + n /\ endring' = endring + n
        /\ broken' \in BOOLEAN
        /\ UNCHANGED <<events, sent, ends>>
    BY <1>4 DEF ReadFirst, TypeOK
  <2>3. \/ /\ pc' = "second" /\ rdlen' = n + NotRead
           /\ UNCHANGED <<bgnframe, bgnring, batch, header, handed>>
        \/ SysRead(ring', endring', n + NotRead)
    BY <1>4 DEF ReadFirst
  <2> HIDE DEF n
  <2>4. ring' \in [Cells -> 0 .. MaxBytes] BY <2>1, <2>2, FilledType, PlaceFacts
  <2>5. endring' \in Pointers BY <2>1, <2>2, PlaceFacts DEF Pointers
  <2>6. taken' \in 0 .. MaxBytes /\ Bounds'
    BY <2>1, <2>2, PlaceFacts, Constants DEF Bounds
  <2>7. CASE SysRead(ring', endring', n + NotRead)
    <3>1. n + NotRead \in Nat BY <2>1, PlaceFacts
    <3>2. /\ rdlen' = 0 /\ pc' = "idle"
          /\ bgnframe' \in Pointers /\ bgnring' \in Pointers
          /\ handed' \in Nat
          /\ batch' \in Seq(0 .. MaxBytes) /\ header' \in Seq(0 .. MaxBytes)
      BY <2>4, <2>5, <2>7, <3>1, SysReadType
    <3>3. rdlen' \in 0 .. 2 * N BY <3>2, Constants
    <3> QED BY <2>2, <2>4, <2>5, <2>6, <3>2, <3>3 DEF TInv, TypeOK
  <2>8. CASE /\ pc' = "second" /\ rdlen' = n + NotRead
             /\ UNCHANGED <<bgnframe, bgnring, batch, header, handed>>
    <3>1. rdlen' \in 0 .. 2 * N BY <2>1, <2>8, PlaceFacts
    <3> QED BY <2>2, <2>4, <2>5, <2>6, <2>8, <3>1 DEF TInv, TypeOK
  <2> QED BY <2>3, <2>7, <2>8
<1>5. CASE ReadSecond
  <2> DEFINE n == Least(bgnframe, Waiting)
  <2>1. n \in Nat /\ n <= bgnframe /\ n <= Waiting BY PlaceFacts DEF Least
  <2>2. /\ ring' = Filled(0, n) /\ taken' = taken + n
        /\ endring' \in {endring, n}
        /\ SysRead(ring', endring', rdlen + n)
        /\ broken' \in BOOLEAN
        /\ UNCHANGED <<events, sent, ends>>
    BY <1>5 DEF ReadSecond, TypeOK
  <2> HIDE DEF n
  <2>4. ring' \in [Cells -> 0 .. MaxBytes] BY <2>1, <2>2, FilledType, PlaceFacts
  <2>5. endring' \in Pointers BY <2>1, <2>2, PlaceFacts DEF Pointers
  <2>6. taken' \in 0 .. MaxBytes /\ Bounds'
    BY <2>1, <2>2, PlaceFacts, Constants DEF Bounds
  <2>7. rdlen + n \in Nat BY <2>1, PlaceFacts
  <2>8. /\ rdlen' = 0 /\ pc' = "idle"
        /\ bgnframe' \in Pointers /\ bgnring' \in Pointers
        /\ handed' \in Nat
        /\ batch' \in Seq(0 .. MaxBytes) /\ header' \in Seq(0 .. MaxBytes)
    BY <2>2, <2>4, <2>5, <2>7, SysReadType
  <2>9. rdlen' \in 0 .. 2 * N BY <2>8, Constants
  <2> QED BY <2>2, <2>4, <2>5, <2>6, <2>8, <2>9 DEF TInv, TypeOK
<1>6. CASE UNCHANGED vars
  BY <1>6 DEF vars, TInv, TypeOK, Bounds
<1> QED BY <1>1, <1>2, <1>3, <1>4, <1>5, <1>6 DEF Next

\* The pointers never leave the ring, the ring holds only bytes that were written,
\* and the callback is never called with more than the ring holds.
THEOREM RingTypes == Spec => []TypeOK
<1>1. TInv => TypeOK BY DEF TInv
<1> QED BY <1>1, TypeInit, TypeStep, PTL DEF Spec

(***************************************************************************)
(* The stream                                                              *)
(***************************************************************************)
LEMMA StreamFacts ==
  ASSUME NEW from \in Int, NEW len \in Nat
  PROVE  /\ Stream(from, len) \in Seq(Int) /\ Len(Stream(from, len)) = len
         /\ DOMAIN Stream(from, len) = 1 .. len
<1> DEFINE f == [i \in 1 .. len |-> from + i - 1]
<1>1. f \in [1 .. len -> Int] OBVIOUS
<1>2. f \in Seq(Int) /\ Len(f) = len BY <1>1, FunctionIsSeq
<1> QED BY <1>2 DEF Stream

LEMMA StreamEmpty == \A from \in Int : <<>> = Stream(from, 0)
<1> TAKE from \in Int
<1>1. Stream(from, 0) \in Seq(Int) /\ Len(Stream(from, 0)) = 0 BY StreamFacts
<1> QED BY <1>1, EmptySeq

\* Let the ring hold the next len bytes of the stream from bgnframe on and endring be
\* where they end.  Then sys_read hands over exactly these.
LEMMA SysReadGood ==
  ASSUME TypeOK, bgnring = bgnframe,
         NEW rg \in [Cells -> 0 .. MaxBytes], NEW end \in Pointers, NEW len \in Nat,
         0 < len, len <= N,
         \A i \in 1 .. len : rg[Cell(bgnframe + i - 1)] = handed + i,
         \/ bgnframe + len < N /\ end = bgnframe + len
         \/ bgnframe + len = N /\ (end = N \/ (bgnframe = 0 /\ end = 0))
         \/ bgnframe + len > N /\ end = bgnframe + len - N,
         SysRead(rg, end, len)
  PROVE  /\ pc' = "idle" /\ bgnring' = bgnframe'
         /\ end = bgnframe' \/ (bgnframe' = N /\ end = 0)
         /\ handed' = handed + len /\ Len(batch') = len
         /\ Given(handed - Len(batch) + 1)'
<1> DEFINE h == Take(rg, bgnring, end, H)
           f == Take(rg, bgnframe, end, len)
<1>1. /\ bgnframe \in Nat /\ bgnframe <= N /\ handed \in Nat
      /\ N \in Nat /\ H \in Nat /\ H > 0 /\ end \in Nat /\ end <= N
  BY Constants DEF TypeOK, Pointers
<1>2. f.ok /\ f.to = IF bgnframe + len > N THEN bgnframe + len - N ELSE bgnframe + len
  <2>1. /\ bgnframe + len < N => end >= bgnframe + len
        /\ bgnframe + len >= N => end >= bgnframe + len - N
    BY <1>1
  <2>2. f.ok <=> len <= N /\ (IF bgnframe + len < N THEN end >= bgnframe + len
                                                    ELSE end >= bgnframe + len - N)
    BY DEF Take
  <2>3. f.to = IF bgnframe + len > N THEN bgnframe + len - N ELSE bgnframe + len
    BY DEF Take
  <2>4. ~(bgnframe + len < N) => bgnframe + len >= N BY <1>1
  <2> HIDE DEF f
  <2> QED BY <2>1, <2>2, <2>3, <2>4
<1>3. f.bytes = Stream(handed + 1, len)
  <2>1. \A i \in 1 .. len : rg[Cell(bgnframe + i - 1)] = handed + 1 + i - 1 BY <1>1
  <2>2. Least(len, N) = len BY DEF Least
  <2>3. f.bytes = [i \in 1 .. len |-> rg[Cell(bgnframe + i - 1)]] BY <2>2 DEF Take
  <2> HIDE DEF f
  <2> QED BY <2>1, <2>3 DEF Stream
<1>4. len >= H => h.bytes = Stream(handed + 1, H)
  <2> SUFFICES ASSUME len >= H PROVE h.bytes = Stream(handed + 1, H) OBVIOUS
  <2>1. \A i \in 1 .. H : rg[Cell(bgnframe + i - 1)] = handed + 1 + i - 1 BY <1>1
  <2>2. Least(H, N) = H BY <1>1 DEF Least
  <2>3. h.bytes = [i \in 1 .. H |-> rg[Cell(bgnframe + i - 1)]] BY <2>2 DEF Take
  <2> HIDE DEF h
  <2> QED BY <2>1, <2>3 DEF Stream
<1>5. /\ header' = IF h.ok THEN h.bytes ELSE <<>>
      /\ batch' = f.bytes
      /\ handed' = handed + Len(batch')
      /\ bgnring' = f.to /\ bgnframe' = f.to /\ pc' = "idle"
  BY <1>2 DEF SysRead
<1>6. h.ok <=> H <= N /\ (IF bgnframe + H < N THEN end >= bgnframe + H
                                              ELSE end >= bgnframe + H - N)
  BY DEF Take
<1> HIDE DEF h, f
<1>7. Len(batch') = len
  <2>1. handed + 1 \in Int BY <1>1
  <2>2. Len(Stream(handed + 1, len)) = len BY <2>1, StreamFacts
  <2> QED BY <1>3, <1>5, <2>2
<1>8. handed' - Len(batch') + 1 = handed + 1 /\ handed' = handed + len
  BY <1>1, <1>5, <1>7
\* A header that is missed lies in front of the end of the ring, and endring behind it.
<1>9. len >= H /\ ~h.ok => HeaderMissed'
  <2> SUFFICES ASSUME len >= H, ~h.ok PROVE HeaderMissed' OBVIOUS
  <2>1. bgnframe + H < N /\ end < bgnframe + H
    <3>1. CASE bgnframe + H < N
      <4>1. ~(end >= bgnframe + H) BY <1>1, <1>6, <3>1
      <4> QED BY <1>1, <3>1, <4>1
    <3>2. CASE ~(bgnframe + H < N)
      <4>1. end >= bgnframe + H - N BY <1>1, <3>2
      <4> QED BY <1>1, <1>6, <3>2, <4>1
    <3> QED BY <3>1, <3>2
  <2>2. bgnframe + len > N \/ (bgnframe = 0 /\ len = N) BY <1>1, <2>1
  <2>3. bgnring' = IF bgnframe + len > N THEN bgnframe + len - N ELSE bgnframe + len
    BY <1>2, <1>5
  <2>4. Began' = IF len <= bgnring' THEN bgnring' - len ELSE bgnring' + N - len
    BY <1>7 DEF Began
  <2>5. Began' = bgnframe BY <1>1, <2>1, <2>2, <2>3, <2>4
  <2>6. HeaderMissed' <=> /\ Began' + H < N
                          /\ Began' + len > N \/ len = N
    BY <1>7 DEF HeaderMissed
  <2> QED BY <2>1, <2>2, <2>5, <2>6
<1>10. Given(handed - Len(batch) + 1)'
  <2>1. batch' = Stream(handed' - Len(batch') + 1, Len(batch'))
    BY <1>3, <1>5, <1>7, <1>8
  <2>2. len >= H => \/ header' = Stream(handed' - Len(batch') + 1, H)
                    \/ header' = <<>> /\ HeaderMissed'
    BY <1>4, <1>5, <1>8, <1>9
  <2> QED BY <1>7, <2>1, <2>2 DEF Given
<1>11. end = f.to \/ (f.to = N /\ end = 0) BY <1>1, <1>2
<1> QED BY <1>5, <1>7, <1>8, <1>10, <1>11

(***************************************************************************)
(* The invariant                                                           *)
(***************************************************************************)
LEMMA GoodInit == Init => Good
<1> SUFFICES ASSUME Init PROVE Good OBVIOUS
<1>1. Boundaries BY DEF Init, Boundaries
<1>2. Settled /\ Between BY DEF Init, Settled, Between
<1>3. Len(batch) = 0 BY DEF Init
<1>4. handed - Len(batch) + 1 \in Int BY <1>3 DEF Init
<1>5. batch = Stream(handed - Len(batch) + 1, Len(batch))
  BY <1>3, <1>4, StreamEmpty DEF Init
<1>6. ~(Len(batch) >= H) BY <1>3, Constants
<1>7. Given(handed - Len(batch) + 1) BY <1>5, <1>6 DEF Given
<1> QED BY <1>1, <1>2, <1>7 DEF Init, Good

\* What sys_read leaves when it has handed over everything that was read, and either
\* that was everything written or it filled the ring.
LEMMA GoodAfter ==
  ASSUME TypeOK, Boundaries, UNCHANGED <<sent, ends>>,
         handed' = taken', pc' = "idle", taken' = sent \/ Len(batch') = N,
         bgnring' = bgnframe', endring' = bgnframe' \/ (bgnframe' = N /\ endring' = 0),
         Given(handed - Len(batch) + 1)'
  PROVE  Good'
<1>1. Boundaries' BY DEF Boundaries
<1>2. Settled' /\ Between' BY DEF Settled, Between
<1> QED BY <1>1, <1>2 DEF Good

LEMMA GivenStays ==
  ASSUME Given(handed - Len(batch) + 1), UNCHANGED <<bgnring, batch, header, handed>>
  PROVE  Given(handed - Len(batch) + 1)'
<1>1. HeaderMissed' = HeaderMissed BY DEF HeaderMissed, Began
<1> QED BY <1>1 DEF Given

LEMMA GoodWrite ==
  ASSUME TypeOK, Bounds, Good, NEW len \in Lens, Write(len)
  PROVE  Good'
<1>1. len \in Nat /\ len >= H /\ H \in Nat /\ H > 0 BY Constants
<1>2. sent' = sent + len /\ ends' = ends \cup {sent + len}
  BY DEF Write
<1>3. UNCHANGED <<ring, bgnframe, bgnring, endring, pc, rdlen, taken, batch, header, handed>>
  BY DEF Write
<1>4. Boundaries' BY <1>2, <1>3 DEF Good, Boundaries
<1>5. Settled' BY <1>3 DEF Good, Settled
<1>6. Between'
  <2>1. taken < sent => taken' < sent' BY <1>1, <1>2, <1>3, PlaceFacts
  <2> QED BY <1>3, <2>1 DEF Good, Between
<1>7. events' # 0 BY DEF Write, TypeOK
<1>8. Given(handed - Len(batch) + 1)' BY <1>3, GivenStays DEF Good
<1> QED BY <1>3, <1>4, <1>5, <1>6, <1>7, <1>8 DEF Good

LEMMA GoodTakeEvent == TypeOK /\ Good /\ TakeEvent => Good'
<1> SUFFICES ASSUME Good, TakeEvent PROVE Good' OBVIOUS
<1>1. pc = "idle" /\ pc' = "first"
      /\ UNCHANGED <<ring, bgnframe, bgnring, endring, rdlen, sent, taken, ends, batch,
                     header, handed>>
  BY DEF TakeEvent
<1>2. Boundaries' /\ Settled' /\ Between'
  BY <1>1 DEF Good, Boundaries, Settled, Between
<1>3. Given(handed - Len(batch) + 1)' BY <1>1, GivenStays DEF Good
<1> QED BY <1>1, <1>2, <1>3 DEF Good

LEMMA GoodReadNothing == TypeOK /\ Bounds /\ Good /\ ReadNothing => Good'
<1> SUFFICES ASSUME TypeOK, Bounds, Good, ReadNothing PROVE Good' OBVIOUS
<1>1. pc = "first" /\ pc' = "idle"
      /\ UNCHANGED <<ring, bgnframe, bgnring, endring, rdlen, events, sent, taken, ends,
                     batch, header, handed>>
  BY DEF ReadNothing
<1>2. /\ bgnring = bgnframe /\ handed = taken
      /\ endring = bgnframe \/ (bgnframe = N /\ endring = 0)
  BY <1>1 DEF Good, Settled
<1>3. ~Overflow BY <1>2, Constants DEF Overflow
<1>4. Waiting = 0 BY <1>3 DEF ReadNothing
<1>5. handed = sent BY <1>2, <1>4, PlaceFacts
<1>6. Boundaries' /\ Settled' /\ Between'
  BY <1>1, <1>2 DEF Good, Boundaries, Settled, Between
<1>7. Given(handed - Len(batch) + 1)' BY <1>1, GivenStays DEF Good
<1> QED BY <1>1, <1>2, <1>5, <1>6, <1>7 DEF Good

LEMMA GoodReadFirst ==
  ASSUME TypeOK, Bounds, Good, ReadFirst, ~broken'
  PROVE  Good'
<1> DEFINE n == Least(Room, Waiting)
<1>1. pc = "first" /\ Waiting > 0
  <2>1. ~(Room = 0 /\ Waiting = 0) BY DEF ReadFirst
  <2>2. pc = "first" /\ (Room = 0 \/ Waiting > 0) BY DEF ReadFirst
  <2> QED BY <2>1, <2>2, PlaceFacts
<1>2. /\ bgnring = bgnframe /\ handed = taken /\ Boundaries
      /\ endring = bgnframe \/ (bgnframe = N /\ endring = 0)
  BY <1>1 DEF Good, Settled
<1>3. /\ ring' = Filled(endring, n) /\ taken' = taken + n /\ endring' = endring + n
      /\ UNCHANGED <<events, sent, ends>>
  BY DEF ReadFirst
<1>4. Room = N - endring /\ NotRead = 0 BY <1>2, PlaceFacts DEF Room, NotRead
<1>5. n = IF Room <= Waiting THEN Room ELSE Waiting BY DEF Least
<1>6. IF n = Room
      THEN /\ pc' = "second" /\ rdlen' = n + NotRead
           /\ UNCHANGED <<bgnframe, bgnring, batch, header, handed>>
      ELSE SysRead(ring', endring', n + NotRead)
  BY DEF ReadFirst
<1> HIDE DEF n
<1>7. n \in Nat /\ n <= Room /\ n <= Waiting /\ endring + n <= N
  BY <1>4, <1>5, PlaceFacts
\* The next bytes of the stream lie from endring on.
<1>8. \A c \in Cells : c >= endring /\ c < endring + n => ring'[c] = handed + 1 + c - endring
  <2> SUFFICES ASSUME NEW c \in Cells, c >= endring, c < endring + n
               PROVE  ring'[c] = handed + 1 + c - endring
    OBVIOUS
  <2>1. c \in endring .. endring + n - 1
    BY <1>7, PlaceFacts DEF Cells
  <2>2. ring'[c] = taken + 1 + c - endring BY <1>3, <2>1 DEF Filled
  <2> QED BY <1>2, <2>2
<1>9. CASE n = Room
  <2>1. /\ pc' = "second" /\ rdlen' = n + NotRead
        /\ UNCHANGED <<bgnframe, bgnring, batch, header, handed>>
    BY <1>6, <1>9
  <2>2. /\ endring' = N /\ rdlen' = N - endring /\ taken' = handed + rdlen'
        /\ rdlen' <= N /\ N - rdlen' = endring
    BY <1>2, <1>3, <1>4, <1>9, <2>1, PlaceFacts
  <2>3. N - rdlen' = bgnframe' \/ (bgnframe' = N /\ rdlen' = N)
    BY <1>2, <2>1, <2>2, PlaceFacts
  <2>4. rdlen' = 0 => taken' < sent'
    BY <1>1, <1>2, <1>3, <2>1, <2>2, PlaceFacts
  <2>5. \A c \in Cells : c >= N - rdlen' => ring'[c] = handed' + 1 + c - (N - rdlen')
    <3>1. endring + n = N BY <1>4, <1>9, PlaceFacts
    <3>2. \A c \in Cells : c < N BY PlaceFacts DEF Cells
    <3> QED BY <1>8, <2>1, <2>2, <3>1, <3>2
  <2>6. Between' BY <2>1, <2>2, <2>3, <2>4, <2>5 DEF Between
  <2>7. Boundaries' BY <1>2, <1>3, <2>1 DEF Boundaries
  <2>8. Settled' BY <2>1 DEF Settled
  <2>9. Given(handed - Len(batch) + 1)' BY <2>1, GivenStays DEF Good
  <2> QED BY <1>2, <2>1, <2>6, <2>7, <2>8, <2>9 DEF Good
<1>10. CASE n # Room
  <2>1. SysRead(ring', endring', n) BY <1>4, <1>6, <1>7, <1>10
  <2>2. n = Waiting /\ n > 0 /\ endring + n < N /\ n <= N
    BY <1>1, <1>4, <1>5, <1>10, PlaceFacts
  <2>3. taken' = sent /\ taken' = handed + n BY <1>2, <1>3, <2>2, PlaceFacts
  <2>4. ASSUME NEW i \in 1 .. n PROVE ring'[Cell(bgnframe + i - 1)] = handed + i
    <3>1. Cell(bgnframe + i - 1) = endring + i - 1
      BY <1>2, <1>7, <2>2, PlaceFacts DEF Cell
    <3>2. endring + i - 1 \in Cells /\ i \in Int BY <2>2, PlaceFacts DEF Cells
    <3>3. ring'[endring + i - 1] = handed + 1 + (endring + i - 1) - endring
      BY <1>7, <1>8, <3>2, PlaceFacts
    <3> QED BY <3>1, <3>2, <3>3, PlaceFacts
  <2>5. ring' \in [Cells -> 0 .. MaxBytes] BY <1>3, <1>7, FilledType, PlaceFacts
  <2>6. endring' \in Pointers BY <1>3, <1>7, PlaceFacts DEF Pointers
  <2>7. \/ bgnframe + n < N /\ endring' = bgnframe + n
        \/ bgnframe + n = N /\ (endring' = N \/ (bgnframe = 0 /\ endring' = 0))
        \/ bgnframe + n > N /\ endring' = bgnframe + n - N
    BY <1>2, <1>3, <2>2, PlaceFacts
  <2>8. /\ pc' = "idle" /\ bgnring' = bgnframe'
        /\ endring' = bgnframe' \/ (bgnframe' = N /\ endring' = 0)
        /\ handed' = handed + n
        /\ Given(handed - Len(batch) + 1)'
    BY <1>2, <1>7, <2>1, <2>2, <2>4, <2>5, <2>6, <2>7, SysReadGood
  <2>9. handed' = taken' BY <2>3, <2>8
  <2> QED BY <1>2, <1>3, <2>3, <2>8, <2>9, GoodAfter
<1> QED BY <1>9, <1>10

LEMMA GoodReadSecond ==
  ASSUME TypeOK, Bounds, Good, ReadSecond, ~broken'
  PROVE  Good'
<1> DEFINE n == Least(bgnframe, Waiting)
           len == rdlen + n
           from == N - rdlen
<1>1. pc = "second" BY DEF ReadSecond
<1>2. /\ endring = N /\ rdlen <= N /\ taken = handed + rdlen
      /\ from = bgnframe \/ (bgnframe = N /\ rdlen = N)
      /\ rdlen = 0 => taken < sent
      /\ \A c \in Cells : c >= from => ring[c] = handed + 1 + c - from
      /\ bgnring = bgnframe /\ Boundaries
  BY <1>1 DEF Good, Between
<1>3. n = IF bgnframe <= Waiting THEN bgnframe ELSE Waiting BY DEF Least
<1>4. /\ ring' = Filled(0, n) /\ taken' = taken + n
      /\ endring' = IF Waiting = 0 /\ bgnframe > 0 THEN endring ELSE n
      /\ SysRead(ring', endring', len)
      /\ ~(len > N)
      /\ UNCHANGED <<events, sent, ends>>
  BY DEF ReadSecond
<1> HIDE DEF n
<1>5. n \in Nat /\ n <= bgnframe /\ n <= Waiting /\ from \in Nat /\ from <= N
  BY <1>2, <1>3, PlaceFacts
<1>6. len \in Nat /\ 0 < len /\ len <= N /\ taken' = handed + len
  <2>1. len \in Nat /\ len <= N BY <1>4, <1>5, PlaceFacts
  <2>2. rdlen = 0 => n > 0
    <3>1. rdlen = 0 => Waiting > 0 /\ bgnframe > 0 BY <1>2, PlaceFacts, Constants
    <3> QED BY <1>3, <3>1
  <2>3. 0 < len BY <1>5, <2>2, PlaceFacts
  <2> QED BY <1>2, <1>4, <1>5, <2>1, <2>3, PlaceFacts
\* What was left in the FIFO found no room in the ring.
<1>7. taken' = sent \/ len = N
  <2>1. CASE n = Waiting BY <1>4, <2>1, PlaceFacts
  <2>2. CASE n = bgnframe /\ from = bgnframe BY <1>2, <2>2, PlaceFacts
  <2>3. CASE n = bgnframe /\ bgnframe = N /\ rdlen = N
    BY <1>4, <2>3, PlaceFacts, Constants
  <2> QED BY <1>2, <1>3, <2>1, <2>2, <2>3
\* A ring that was filled from its beginning is not read over.
<1>8. from = bgnframe \/ (n = 0 /\ bgnframe = N /\ from = 0)
  BY <1>2, <1>4, <1>5, PlaceFacts
<1>9. \/ bgnframe + len < N /\ endring' = bgnframe + len
      \/ bgnframe + len = N /\ (endring' = N \/ (bgnframe = 0 /\ endring' = 0))
      \/ bgnframe + len > N /\ endring' = bgnframe + len - N
  BY <1>2, <1>3, <1>4, <1>5, <1>8, PlaceFacts
<1>10. ASSUME NEW i \in 1 .. len PROVE ring'[Cell(bgnframe + i - 1)] = handed + i
  <2>1. i \in Nat /\ i > 0 /\ i <= rdlen + n BY <1>6
  <2>2. CASE from + i - 1 < N
    <3> DEFINE c == from + i - 1
    <3>1. Cell(bgnframe + i - 1) = c /\ c \in Cells /\ c >= from
      BY <1>2, <1>5, <2>1, <2>2, PlaceFacts DEF Cell, Cells
    <3>2. c \notin 0 .. 0 + n - 1 BY <1>2, <1>4, <1>5, <1>8, <2>1, PlaceFacts
    <3>3. ring'[c] = ring[c] BY <1>4, <3>1, <3>2 DEF Filled
    <3>4. ring[c] = handed + 1 + c - from BY <1>2, <3>1
    <3> QED BY <1>5, <2>1, <3>1, <3>3, <3>4, PlaceFacts
  <2>3. CASE from + i - 1 >= N
    <3> DEFINE c == bgnframe + i - 1 - N
    <3>1. from = bgnframe BY <1>8, <2>1, <2>3, PlaceFacts
    <3>2. Cell(bgnframe + i - 1) = c /\ c \in Cells /\ c \in 0 .. 0 + n - 1
      BY <1>2, <1>5, <2>1, <2>3, <3>1, PlaceFacts DEF Cell, Cells
    <3>3. ring'[c] = taken + 1 + c - 0 BY <1>4, <3>2 DEF Filled
    <3> QED BY <1>2, <2>1, <3>1, <3>2, <3>3, PlaceFacts
  <2> QED BY <1>5, <2>1, <2>2, <2>3, PlaceFacts
<1>11. ring' \in [Cells -> 0 .. MaxBytes] BY <1>4, <1>5, FilledType, PlaceFacts
<1>12. endring' \in Pointers BY <1>4, <1>5, PlaceFacts DEF Pointers
<1> HIDE DEF len, from
<1>13. /\ pc' = "idle" /\ bgnring' = bgnframe'
       /\ endring' = bgnframe' \/ (bgnframe' = N /\ endring' = 0)
       /\ handed' = handed + len /\ Len(batch') = len
       /\ Given(handed - Len(batch) + 1)'
  BY <1>2, <1>4, <1>6, <1>9, <1>10, <1>11, <1>12, SysReadGood
<1>14. handed' = taken' BY <1>6, <1>13
<1> QED BY <1>2, <1>4, <1>7, <1>13, <1>14, GoodAfter

LEMMA GoodStep == IInv /\ [Next]_vars => (~broken' => Good')
<1> SUFFICES ASSUME TypeOK, Bounds, ~broken => Good, [Next]_vars, ~broken' PROVE Good'
  BY DEF IInv
<1>1. CASE \E len \in Lens : Write(len)
  <2>1. Good BY <1>1 DEF Write
  <2> QED BY <1>1, <2>1, GoodWrite
<1>2. CASE TakeEvent
  <2>1. Good BY <1>2 DEF TakeEvent
  <2> QED BY <1>2, <2>1, GoodTakeEvent
<1>3. CASE ReadNothing
  <2>1. Good BY <1>3 DEF ReadNothing
  <2> QED BY <1>3, <2>1, GoodReadNothing
<1>4. CASE ReadFirst
  <2>1. Good BY <1>4 DEF ReadFirst
  <2> QED BY <1>4, <2>1, GoodReadFirst
<1>5. CASE ReadSecond
  <2>1. Good BY <1>5 DEF ReadSecond
  <2> QED BY <1>5, <2>1, GoodReadSecond
<1>6. CASE UNCHANGED vars
  <2>1. Good BY <1>6 DEF vars
  <2> QED BY <1>6, <2>1 DEF vars, Good, Boundaries, Settled, Between, Given, HeaderMissed, Began
<1> QED BY <1>1, <1>2, <1>3, <1>4, <1>5, <1>6 DEF Next

\* The inductive invariant holds in every state.
THEOREM RingInvariant == Spec => []IInv
<1>1. Init => IInv BY TypeInit, GoodInit DEF IInv, TInv
<1>2. IInv /\ [Next]_vars => IInv'
  <2> SUFFICES ASSUME IInv, [Next]_vars PROVE IInv' OBVIOUS
  <2>1. TypeOK' /\ Bounds' BY TypeStep DEF IInv, TInv
  <2>2. ~broken' => Good' BY GoodStep
  <2> QED BY <2>1, <2>2 DEF IInv
<1> QED BY <1>1, <1>2, PTL DEF Spec

\* What the callback of a channel is given is the stream of its writer: nothing is
\* left out, repeated or taken from an earlier turn of the ring, also when the FIFO holds
\* more than the ring; what is taken for a header is its beginning, and is missed only
\* when what was read goes round the end of the ring behind it.
THEOREM RingInOrder == Spec => []InOrder
<1>1. IInv => InOrder BY DEF IInv, Good, Given, InOrder
<1> QED BY <1>1, RingInvariant, PTL

\* It is given whole messages, unless it is given as much as the ring holds.
THEOREM RingWholeMessages == Spec => []WholeMessages
<1>1. IInv => WholeMessages BY DEF IInv, Good, Boundaries, WholeMessages
<1> QED BY <1>1, RingInvariant, PTL

\* Without an event in the queue, nothing is left behind in the FIFO or in the ring,
\* unless the callback was given as much as the ring holds.
THEOREM RingNothingForgotten == Spec => []NothingForgotten
<1>1. IInv => NothingForgotten BY DEF IInv, Good, NothingForgotten
<1> QED BY <1>1, RingInvariant, PTL

\* handed and batch change only in a call of sys_read, by what the callback is given.
LEMMA HandedBy ==
  ASSUME TypeOK, [Next]_vars
  PROVE  /\ (sent' = sent /\ ends' = ends) \/ (\E len \in Lens : Write(len))
         /\ \/ handed' = handed /\ batch' = batch
            \/ handed' = handed + Len(batch')
         /\ broken => broken'
<1>1. CASE \E len \in Lens : Write(len) BY <1>1 DEF Write
<1>2. CASE TakeEvent BY <1>2 DEF TakeEvent
<1>3. CASE ReadNothing BY <1>3 DEF ReadNothing
<1>4. CASE ReadFirst BY <1>4 DEF ReadFirst, SysRead
<1>5. CASE ReadSecond BY <1>5 DEF ReadSecond, SysRead
<1>6. CASE UNCHANGED vars BY <1>6 DEF vars
<1> QED BY <1>1, <1>2, <1>3, <1>4, <1>5, <1>6 DEF Next

\* No more is handed over than was written.
LEMMA HandedBounds == IInv /\ ~broken => handed <= sent /\ sent \in Nat
<1> SUFFICES ASSUME IInv, ~broken PROVE handed <= sent /\ sent \in Nat OBVIOUS
<1>1. /\ taken <= sent /\ handed \in Nat /\ taken \in Nat /\ rdlen \in Nat
      /\ sent \in Nat
  BY PlaceFacts DEF IInv, Bounds
<1>2. handed = taken \/ taken = handed + rdlen
  BY DEF IInv, Good, Settled, Between
<1>3. handed <= taken BY <1>1, <1>2
<1> QED BY <1>1, <1>3

\* A step of the ring is a step of the abstract channel: a batch that continues the
\* stream and ends at the end of a message is delivered, or one that fills the ring.
LEMMA StepIsChannelStep ==
  ASSUME IInv, IInv', [Next]_vars
  PROVE  [Chan!Next]_(Chan!vars)
<1>1. CASE broken'
  <2>1. CASE \E len \in Lens : Write(len)
    <3>1. PICK len \in Lens : Write(len) BY <2>1
    <3>2. Chan!Write(len) BY <3>1 DEF Write, Chan!Write
    <3> QED BY <3>2 DEF Chan!Next
  <2>2. CASE sent' = sent /\ ends' = ends
    <3>1. Chan!Break BY <1>1, <2>2 DEF Chan!Break
    <3> QED BY <3>1 DEF Chan!Next
  <2> QED BY <2>1, <2>2, HandedBy DEF IInv
<1>2. CASE ~broken' /\ handed' = handed /\ batch' = batch
  <2>1. ~broken BY <1>2, HandedBy DEF IInv
  <2>2. CASE \E len \in Lens : Write(len)
    <3>1. PICK len \in Lens : Write(len) BY <2>2
    <3>2. Chan!Write(len) BY <3>1 DEF Write, Chan!Write
    <3> QED BY <3>2 DEF Chan!Next
  <2>3. CASE sent' = sent /\ ends' = ends
    BY <1>2, <2>1, <2>3 DEF Chan!vars, IInv, TypeOK
  <2> QED BY <2>2, <2>3, HandedBy DEF IInv
<1>3. CASE ~broken' /\ handed' = handed + Len(batch') /\ sent' = sent /\ ends' = ends
  <2>1. broken = FALSE /\ broken' = FALSE BY <1>3, HandedBy DEF IInv, TypeOK
  <2>2. /\ handed' \in ends \/ Len(batch') = N
        /\ batch' = Stream(handed' - Len(batch') + 1, Len(batch'))
    BY <1>3 DEF IInv, Good, Boundaries, Given
  <2>3. handed \in Nat /\ batch' \in Seq(0 .. MaxBytes) BY DEF IInv, TypeOK
  <2>4. Len(batch') \in Nat BY <2>3, LenProperties
  <2> DEFINE len == Len(batch')
  <2>5. /\ len \in Nat /\ handed' = handed + len /\ batch' = Stream(handed' - len + 1, len)
        /\ handed' \in ends \/ len = N
    BY <1>3, <2>2, <2>4
  <2> HIDE DEF len
  <2>6. CASE len = 0
    <3>1. batch' = <<>>
      <4>1. handed' - len + 1 \in Int BY <2>3, <2>5
      <4> QED BY <2>5, <2>6, <4>1, StreamEmpty
    <3>2. handed' = handed BY <2>3, <2>5, <2>6
    <3>3. Chan!DeliverNothing BY <1>3, <2>1, <3>1, <3>2 DEF Chan!DeliverNothing
    <3> QED BY <3>3 DEF Chan!Next
  <2>7. CASE len > 0
    <3>1. handed < handed' /\ len = handed' - handed /\ handed' - len + 1 = handed + 1
      BY <2>3, <2>5, <2>7
    <3>2. batch' = [i \in 1 .. len |-> handed + 1 + i - 1] BY <2>5, <3>1 DEF Stream
    <3>3. \A i \in 1 .. len : handed + 1 + i - 1 = handed + i BY <2>3, <2>5
    <3>4. batch' = [i \in 1 .. len |-> handed + i] BY <3>2, <3>3
    <3>5. CASE handed' \in ends
      <4>1. batch' = [i \in 1 .. handed' - handed |-> handed + i] BY <3>1, <3>4
      <4>2. Chan!Deliver(handed') BY <1>3, <2>1, <3>1, <4>1 DEF Chan!Deliver
      <4> QED BY <3>5, <4>2 DEF Chan!Next
    \* The ring was filled, and something was left in the FIFO.
    <3>6. CASE handed' \notin ends
      <4>1. len = N BY <2>5, <3>6
      <4>2. handed' # sent BY <1>3, <3>6 DEF IInv, Good, Boundaries
      <4>3. handed' <= sent /\ sent \in Nat
        <5>1. (IInv /\ ~broken => handed <= sent /\ sent \in Nat)' BY HandedBounds, PTL
        <5> QED BY <1>3, <5>1
      <4>4. sent - handed > N
        <5>1. N \in Nat /\ sent \in Nat /\ handed \in Nat
          BY <2>3, <4>3, Constants
        <5>2. handed + N <= sent /\ handed + N # sent BY <1>3, <2>5, <4>1, <4>2, <4>3
        <5> QED BY <5>1, <5>2
      <4>5. Chan!DeliverFull
        BY <1>3, <2>1, <2>5, <3>4, <4>1, <4>4 DEF Chan!DeliverFull
      <4> QED BY <4>5 DEF Chan!Next
    <3> QED BY <3>5, <3>6
  <2> QED BY <2>5, <2>6, <2>7
<1>4. CASE ~broken' /\ (\E len \in Lens : Write(len))
  <2>1. handed' = handed /\ batch' = batch BY <1>4 DEF Write
  <2> QED BY <1>2, <1>4, <2>1
<1> QED BY <1>1, <1>2, <1>3, <1>4, HandedBy DEF IInv

\* readchannel, getdatafromring, getframefromring and sys_read, on a ring of any size,
\* implement the abstract channel.
THEOREM RingIsChannel == Spec => IsChannel
<1>1. Init => Chan!Init BY DEF Init, Chan!Init
<1>2. IInv /\ IInv' /\ [Next]_vars => [Chan!Next]_(Chan!vars)
  BY StepIsChannelStep
<1> QED BY <1>1, <1>2, RingInvariant, PTL DEF Spec, IsChannel, Chan!Spec
=============================================================================
