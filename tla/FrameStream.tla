---------------------------- MODULE FrameStream ----------------------------
(***************************************************************************)
(* How frames are found again in what a line delivers.  One end builds     *)
(* frames; the other gets their bytes in chunks cut anywhere, and finds    *)
(* frames in them the way its process does:                                *)
(*   "apdu"  iec104_frame_recv parses each chunk until its end and keeps   *)
(*           nothing for the next one; "lpdu", which no process uses yet,  *)
(*           is read the same way                                          *)
(*   "dlt", "m700"  dlt645_frame_recv and m700_frame_recv put the chunk    *)
(*           behind the last ones, parse from the beginning, and empty     *)
(*           the buffer once a frame is found or the answer is too late    *)
(* Bytes of noise may come between frames and, on a serial line, bytes may *)
(* be lost.                                                                *)
(***************************************************************************)
EXTENDS SequencesExt, Naturals

CONSTANTS Frames,      \* [protocol -> frames it may build]
          NoiseBytes,  \* what noise consists of
          BuffSize,    \* RECV_BUFF_SIZE
          AdrLen,      \* length of a link address of "lpdu"
          MaxFrames,   \* bound: frames built
          MaxFaults    \* bound: bytes of noise and lost bytes

ASSUME StreamAssumption == /\ DOMAIN Frames \subseteq {"apdu", "lpdu", "dlt", "m700"}
                           /\ AdrLen \in 0 .. 2
                           /\ {BuffSize, MaxFrames, MaxFaults} \subseteq Nat

Apdu == INSTANCE ApduFrame
Lpdu == INSTANCE LpduFrame
Dlt == INSTANCE DltFrame
M700 == INSTANCE M700Frame

VARIABLES
  proto,    \* which of the four
  wire,     \* what is on its way: frames and bytes of noise, each a piece
  buf,      \* recv_buff of a serial protocol
  got,      \* frames found
  sent,     \* history: frames built
  due,      \* history: of these, those to be found since the two ends were in step
  spoiled,  \* history: something happened since that may cost a frame
  faults,   \* history: their number
  past      \* history: bytes behind the end of a buffer were read

vars == <<proto, wire, buf, got, sent, due, spoiled, faults, past>>

Serial == {"dlt", "m700"}

Parse(b, o) == CASE proto = "apdu" -> Apdu!Parse(b, o)
                 [] proto = "lpdu" -> Lpdu!Parse(b, o)
                 [] proto = "dlt" -> Dlt!Parse(b, o)
                 [] proto = "m700" -> M700!Parse(b, o)

Build(f) == CASE proto = "apdu" -> Apdu!Build(f)
              [] proto = "lpdu" -> Lpdu!Build(f)
              [] proto = "dlt" -> Dlt!Build(f)
              [] proto = "m700" -> M700!Build(f)

\* The frame the other end should see: dlt_frame_buff_parse fills in both forms of
\* the address, a parsed single character has no data.
Meant(f) ==
  CASE proto = "dlt" -> LET b == IF f.adr_hex # Dlt!NoAdr THEN f.adr_hex ELSE Dlt!PutBcd(f.adr, 6)
                        IN  [f EXCEPT !.adr_hex = b, !.adr = Dlt!GetBcd(b, 0, 6, 65536)]
    [] proto = "lpdu" /\ f.type = "SC" -> [f EXCEPT !.data = <<>>]
    [] OTHER -> f

StartBytes == IF proto = "lpdu" THEN Lpdu!Starts ELSE {104}

Init == /\ proto \in DOMAIN Frames
        /\ wire = <<>> /\ buf = <<>> /\ got = <<>> /\ sent = <<>> /\ due = <<>>
        /\ spoiled = FALSE /\ faults = 0 /\ past = FALSE

InStep == wire = <<>> /\ buf = <<>>

\* A frame goes onto the line.  A meter answers one request at a time.
Send(f) == /\ Len(sent) < MaxFrames
           /\ proto \in Serial => wire = <<>>
           /\ Build(f).res = "SUCCESS"
           /\ wire' = Append(wire, Build(f).bytes)
           /\ sent' = Append(sent, Meant(f))
           /\ due' = IF InStep THEN <<Meant(f)>> ELSE Append(due, Meant(f))
           /\ spoiled' = (~InStep /\ spoiled)
           /\ UNCHANGED <<proto, buf, got, faults, past>>

\* A byte of noise.  A start byte may cost the frame behind it.
Noise(x) == /\ faults < MaxFaults /\ faults' = faults + 1
            /\ wire' = Append(wire, <<x>>)
            /\ due' = IF InStep THEN <<>> ELSE due
            /\ spoiled' = (x \in StartBytes \/ (~InStep /\ spoiled))
            /\ UNCHANGED <<proto, buf, got, sent, past>>

\* The line loses a byte.
Lose == /\ proto # "apdu" /\ wire # <<>>
        /\ faults < MaxFaults /\ faults' = faults + 1
        /\ wire' = IF Len(Head(wire)) = 1 THEN Tail(wire) ELSE <<Tail(Head(wire))>> \o Tail(wire)
        /\ spoiled' = TRUE
        /\ UNCHANGED <<proto, buf, got, sent, due, past>>

\* How many bytes of b a parser has looked at that returned p: a check sum or a stop
\* byte that is wrong is the one at the offset it leaves.
LookedTo(b, p) == CASE p.res = "PAST_END" -> Len(b) + 1
                    [] p.res \in {"FCS_INCORRECT", "INCORRECT"} -> p.to + 1
                    [] OTHER -> p.to

\* iec104_frame_recv: parsed from each offset to the next until the end of the
\* chunk.
FramesIn(c) ==
  LET from[o \in 0 .. Len(c)] ==
        IF o = Len(c) THEN [frames |-> <<>>, past |-> FALSE]
        ELSE LET p == Parse(c, o)
                 rest == from[p.to]
             IN  [frames |-> IF p.res = "SUCCESS" THEN <<p.frame>> \o rest.frames ELSE rest.frames,
                  past |-> rest.past \/ LookedTo(c, p) > Len(c)]
  IN  from[0]

FrameRecvEach(c) == /\ got' = got \o FramesIn(c).frames
                    /\ past' = (past \/ FramesIn(c).past)
                    /\ buf' = buf

\* dlt645_frame_recv, m700_frame_recv, from the moment an answer is waited for.
FrameRecvBuffered(c) ==
  LET p == Parse(buf \o c, 0)
  IN  IF Len(buf) + Len(c) > BuffSize THEN buf' = <<>> /\ UNCHANGED <<got, past>>
      ELSE /\ got' = IF p.res = "SUCCESS" THEN Append(got, p.frame) ELSE got
           /\ buf' = IF p.res = "SUCCESS" THEN <<>> ELSE buf \o c
           /\ past' = (past \/ LookedTo(buf \o c, p) > Len(buf \o c))

\* One read of the line returns k pieces and n bytes of the next one.
Receive(k, n) ==
  LET rest == SubSeq(wire, k + 1, Len(wire))
      chunk == FlattenSeq(SubSeq(wire, 1, k)) \o (IF n = 0 THEN <<>> ELSE SubSeq(Head(rest), 1, n))
  IN  /\ chunk # <<>>
      /\ wire' = IF n = 0 THEN rest
                 ELSE <<SubSeq(Head(rest), n + 1, Len(Head(rest)))>> \o Tail(rest)
      /\ IF proto \in Serial THEN FrameRecvBuffered(chunk) ELSE FrameRecvEach(chunk)
      /\ spoiled' = (spoiled \/ (n > 0 /\ proto \notin Serial))
      /\ UNCHANGED <<proto, sent, due, faults>>

\* The answer is too late: the alarm, or the next request, empties the buffer.
TimeOut == /\ buf # <<>>
           /\ buf' = <<>>
           /\ spoiled' = (spoiled \/ wire # <<>>)
           /\ due' = <<>>
           /\ UNCHANGED <<proto, wire, got, sent, faults, past>>

Next == \/ \E f \in Frames[proto] : Send(f)
        \/ \E x \in NoiseBytes : Noise(x)
        \/ Lose
        \/ \E k \in 0 .. Len(wire) :
             \E n \in 0 .. (IF k = Len(wire) THEN 0 ELSE Len(wire[k + 1]) - 1) : Receive(k, n)
        \/ TimeOut

Spec == Init /\ [][Next]_vars

(***************************************************************************)
(* Properties                                                              *)
(***************************************************************************)
\* Nothing is made up and nothing found twice: the frames found are frames built,
\* in their order.  On a serial line that holds whatever is lost, cut or added;
\* an apdu has no check sum, and the rest of a cut one may look like another.
OnlySent == (proto \in Serial \/ ~spoiled) =>
  \E place \in [1 .. Len(got) -> 1 .. Len(sent)] :
    \A i \in 1 .. Len(got) : /\ got[i] = sent[place[i]]
                              /\ \A j \in 1 .. i - 1 : place[j] < place[i]

\* When all has arrived, every frame built since the ends were in step has been
\* found, wherever the chunks of a serial line were cut and however many frames
\* came in one chunk of a connection: each process misses a frame only to a lost
\* byte, a false start byte, a timeout, or, in "apdu", a frame cut in two.
NothingMissed == (wire = <<>> /\ ~spoiled) =>
  Len(due) <= Len(got) /\ due = SubSeq(got, Len(got) - Len(due) + 1, Len(got))

\* No parser that a process uses looks behind the end of what was read, wherever that
\* was cut and whatever length a byte of noise or a lost byte puts into a frame: its
\* length tests come before the looks they are for.
InBounds == past => proto = "lpdu"
=============================================================================
