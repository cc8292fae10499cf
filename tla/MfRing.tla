------------------------------- MODULE MfRing -------------------------------
(***************************************************************************)
(* The reading side of one channel of common/multififo.c: a FIFO, the      *)
(* inotify events its writers cause, and the ring buffer in which          *)
(* readchannel, getdatafromring and getframefromring move three pointers.  *)
(*                                                                         *)
(* A byte is known by its place in the stream of everything ever written.  *)
(* Pointers are offsets into ch->ring: like the code's they may be N, one  *)
(* past the last byte, which is not the same as 0.                         *)
(*                                                                         *)
(* The writer is the process at the other end: its messages are no longer  *)
(* than PIPE_BUF, so that each arrives in one piece.                       *)
(***************************************************************************)
EXTENDS Integers, Sequences

CONSTANTS N,           \* LENRINGBUF
          H,           \* sizeof(ep_data_header)
          PipeSize,    \* bytes the FIFO holds: of Linux 64 KiB, twice LENRINGBUF
          Lens,        \* lengths of messages
          MaxBytes,    \* bound: bytes written
          MaxEvents    \* bound: events queued

ASSUME RingAssumption == /\ {N, H, PipeSize, MaxBytes, MaxEvents} \subseteq Nat \ {0}
                         /\ Lens \subseteq {l \in Nat : l >= H}

VARIABLES
  ring,       \* what each cell holds: 0, nothing yet
  bgnframe,   \* start of what the callback has not been given
  bgnring,    \* start of what getdatafromring has not taken
  endring,    \* end of what was read
  pc,         \* the inotify thread: "idle", or "first" or "second" read of readchannel
  rdlen,      \* rdlen + notreadlen after the first read
  events,     \* IN_MODIFY events queued for the channel
  sent,       \* bytes written
  taken,      \* bytes read from the FIFO
  ends,       \* history: places where messages end
  batch,      \* history: what the callback was given last
  header,     \* history: what was taken for a header last
  handed,     \* history: bytes the callback was given
  broken      \* history: from here on nothing is promised, see ReadFirst, ReadSecond

vars == <<ring, bgnframe, bgnring, endring, pc, rdlen, events, sent, taken, ends, batch,
          header, handed, broken>>

Pointers == 0 .. N
Cells == 0 .. N - 1

Init == /\ ring = [c \in Cells |-> 0]
        /\ bgnframe = 0 /\ bgnring = 0 /\ endring = 0
        /\ pc = "idle" /\ rdlen = 0 /\ events = 0
        /\ sent = 0 /\ taken = 0 /\ ends = {0}
        /\ batch = <<>> /\ header = <<>> /\ handed = 0 /\ broken = FALSE

(***************************************************************************)
(* The other end.  inotify drops an event equal to the last one queued, so *)
(* that a second one is queued only when another channel's is between.     *)
(***************************************************************************)
Write(len) ==
  /\ sent + len - taken <= PipeSize /\ sent + len <= MaxBytes
  /\ sent' = sent + len
  /\ ends' = ends \cup {sent + len}
  /\ \/ events = 0 /\ events' = 1
     \/ events > 0 /\ events' = events
     \/ events \in 1 .. MaxEvents - 1 /\ events' = events + 1
  /\ UNCHANGED <<ring, bgnframe, bgnring, endring, pc, rdlen, taken, batch,
                 header, handed, broken>>

\* inotify_thr takes an event; what was written meanwhile may cause another.
TakeEvent == /\ pc = "idle" /\ events > 0
             /\ pc' = "first" /\ events' = events - 1
             /\ UNCHANGED <<ring, bgnframe, bgnring, endring, rdlen, sent, taken, ends,
                            batch, header, handed, broken>>

(***************************************************************************)
(* Taking bytes from the ring                                              *)
(***************************************************************************)
Least(a, b) == IF a <= b THEN a ELSE b

\* The cell a place counted from the beginning of the ring falls into.
Cell(x) == IF x < N THEN x ELSE x - N

\* Mutant: what goes on at the beginning of the ring is forgotten.
TakeNoWrap(rg, from, end, len) ==
  [ok |-> len <= N /\ (IF from + len < N THEN end >= from + len ELSE end >= from + len - N),
   bytes |-> [i \in 1 .. Least(len, N) |-> rg[Cell(from + i - 1)]],
   to |-> IF from + len > N THEN N ELSE from + len]

\* getdatafromring and getframefromring: len bytes from a pointer on, where they
\* end, and whether the test lets them be taken.  When they go on at the beginning
\* of the ring only their second part is compared with endring; when they end
\* exactly at the end of the ring nothing is.
Take(rg, from, end, len) ==
  [ok |-> len <= N /\ (IF from + len < N THEN end >= from + len ELSE end >= from + len - N),
   bytes |-> [i \in 1 .. Least(len, N) |-> rg[Cell(from + i - 1)]],
   to |-> IF from + len > N THEN from + len - N ELSE from + len]

\* Mutant: after the callback the frame pointer is where the header ended.
SysReadHeader(rg, end, len) ==
  LET h == Take(rg, bgnring, end, H)
      f == Take(rg, bgnframe, end, len)
      given == len > 0 /\ f.ok
      to == IF h.ok THEN h.to ELSE IF given THEN f.to ELSE bgnring
  IN  /\ rdlen' = 0
      /\ header' = IF h.ok THEN h.bytes ELSE <<>>
      /\ batch' = IF given THEN f.bytes ELSE <<>>
      /\ handed' = handed + Len(batch')
      /\ bgnring' = to /\ bgnframe' = to
      /\ pc' = "idle"

\* The rest of sys_read once readchannel has returned len: the header of the first
\* message, the callback, which takes everything, and getframefalse.  The number
\* behind a NEWEP header, which is taken too, is left out: the callback begins at
\* bgnframe again.
SysRead(rg, end, len) ==
  LET h == Take(rg, bgnring, end, H)
      f == Take(rg, bgnframe, end, len)
      given == len > 0 /\ f.ok
      to == IF given THEN f.to ELSE IF h.ok THEN h.to ELSE bgnring
  IN  /\ rdlen' = 0
      /\ header' = IF h.ok THEN h.bytes ELSE <<>>
      /\ batch' = IF given THEN f.bytes ELSE <<>>
      /\ handed' = handed + Len(batch')
      /\ bgnring' = to /\ bgnframe' = to
      /\ pc' = "idle"

(***************************************************************************)
(* readchannel                                                             *)
(***************************************************************************)
Waiting == sent - taken
NotRead == IF bgnring > endring THEN endring + N - bgnring ELSE endring - bgnring
Room == IF bgnring > endring THEN bgnring - endring ELSE N - endring

\* n bytes are read into the ring from cell c on.
Filled(c, n) == [x \in Cells |-> IF x \in c .. c + n - 1 THEN taken + 1 + x - c ELSE ring[x]]

Overflow == bgnframe = endring /\ bgnring # endring

\* A buffer without room, or an empty FIFO: sys_read returns.
ReadNothing == /\ pc = "first"
               /\ Overflow \/ (Room > 0 /\ Waiting = 0)
               /\ pc' = "idle"
               /\ UNCHANGED <<ring, bgnframe, bgnring, endring, rdlen, events, sent, taken,
                              ends, batch, header, handed, broken>>

\* The first read, up to the end of the ring.  When it fills that, even with no
\* bytes, a second one follows.
ReadFirst ==
  /\ pc = "first" /\ ~Overflow /\ (Room = 0 \/ Waiting > 0)
  /\ \E n \in {Least(Room, Waiting)} :
       /\ ring' = Filled(endring, n)
       /\ taken' = taken + n
       /\ endring' = endring + n
       /\ IF n = Room
          THEN /\ pc' = "second" /\ rdlen' = n + NotRead
               /\ UNCHANGED <<bgnframe, bgnring, batch, header, handed>>
          ELSE SysRead(ring', endring', n + NotRead)
  /\ broken' = (broken \/ (Room = 0 /\ Waiting = 0))
  /\ UNCHANGED <<events, sent, ends>>

\* Mutants: no second read; it leaves one byte; endring goes on past the end.
ReadSecondNever == /\ pc = "second"
                   /\ SysRead(ring, endring, rdlen)
                   /\ UNCHANGED <<ring, endring, taken, events, sent, ends, broken>>

ReadSecondShort ==
  /\ pc = "second"
  /\ \E n \in {Least(bgnframe, IF Waiting = bgnframe THEN Waiting - 1 ELSE Waiting)} :
       /\ ring' = Filled(0, n)
       /\ taken' = taken + n
       /\ endring' = IF Waiting = 0 /\ bgnframe > 0 THEN endring ELSE n
       /\ SysRead(ring', endring', rdlen + n)
       /\ broken' = (broken \/ rdlen + n > N)
  /\ UNCHANGED <<events, sent, ends>>

\* The second read, from the beginning of the ring to bgnframe.  An empty FIFO
\* leaves endring at the end of the ring, unless there was no room to read into.  What
\* the ring has no room for stays in the FIFO, and no event is left for it.  When the
\* first read filled the ring from its beginning, the second one goes over it again.
ReadSecond ==
  /\ pc = "second"
  /\ \E n \in {Least(bgnframe, Waiting)} :
       /\ ring' = Filled(0, n)
       /\ taken' = taken + n
       /\ endring' = IF Waiting = 0 /\ bgnframe > 0 THEN endring ELSE n
       /\ SysRead(ring', endring', rdlen + n)
       /\ broken' = (broken \/ rdlen + n > N)
  /\ UNCHANGED <<events, sent, ends>>

Next == \/ \E len \in Lens : Write(len)
        \/ TakeEvent
        \/ ReadNothing
        \/ ReadFirst
        \/ ReadSecond

Spec == Init /\ [][Next]_vars

(***************************************************************************)
(* Properties.  The writers may fill the FIFO with more than the ring      *)
(* holds.  The properties hold until one of two things has happened        *)
(* (broken), each at one place of the pointers only: the thread is called  *)
(* for nothing while the ring is full to its end, and readchannel returns  *)
(* 0 instead of -1, so that what lies at the beginning of the ring is      *)
(* taken for a header once more and the pointers no longer meet; or a ring *)
(* that was filled from its beginning is read over.                        *)
(***************************************************************************)
TypeOK == /\ ring \in [Cells -> 0 .. MaxBytes]
          /\ {bgnframe, bgnring, endring} \subseteq Pointers
          /\ pc \in {"idle", "first", "second"}
          /\ rdlen \in 0 .. 2 * N /\ events \in 0 .. MaxEvents
          /\ {sent, taken} \subseteq 0 .. MaxBytes /\ handed \in Nat
          /\ ends \subseteq 0 .. MaxBytes /\ broken \in BOOLEAN
          /\ {batch, header} \subseteq Seq(0 .. MaxBytes)

\* The bytes from..from + len - 1 of the stream.
Stream(from, len) == [i \in 1 .. len |-> from + i - 1]

\* Where the last batch began, and the one case in which its header is missed: the
\* batch goes on at the beginning of the ring, where endring is then, and the header
\* does not, so that it is compared with an endring in front of it.
Began == IF Len(batch) <= bgnring THEN bgnring - Len(batch) ELSE bgnring + N - Len(batch)
HeaderMissed == /\ Began + H < N
                /\ Began + Len(batch) > N \/ Len(batch) = N

\* The callback is given the stream, nothing twice, nothing left out, however much the
\* writers send; and what is taken for a header is the beginning of what it is given.
\* The header of NEWEP or EPRDY is missed in the one case only.  Less than a header can
\* be left behind by a batch that filled the ring: then anything is taken for one.
InOrder == LET from == handed - Len(batch) + 1
           IN  ~broken => /\ batch = Stream(from, Len(batch))
                          /\ Len(batch) >= H => \/ header = Stream(from, H)
                                                \/ header = <<>> /\ HeaderMissed

\* The callback is never given a part of a message (recv_data drops a message whose end
\* is missing and takes what follows for a header), except in a batch that fills the
\* whole ring.
WholeMessages == ~broken => handed \in ends \/ Len(batch) = N

\* When no event is queued nothing is left in the FIFO or in the ring: a byte left there
\* would wait for the next message.  Only a batch that fills the whole ring leaves some.
NothingForgotten == (~broken /\ pc = "idle" /\ events = 0) => handed = sent \/ Len(batch) = N

\* MfRing implements the abstract channel, an overloaded one too.
Chan == INSTANCE Channel WITH Size <- N
IsChannel == Chan!Spec

=============================================================================
