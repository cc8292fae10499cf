------------------------------ MODULE DltFrame ------------------------------
(***************************************************************************)
(* unitlinks/src/dlt_frame.c: the frames of DL/T 645.                      *)
(*                                                                         *)
(* A link address is its six bytes, low byte first (adr_hex of the code is *)
(* the number they make).                                                  *)
(***************************************************************************)
EXTENDS Bytes

StartByte == 104
StopByte == 22
LenMin == 12
Offset == 51      \* 0x33, added to every byte of data on the line

NoAdr == <<0, 0, 0, 0, 0, 0>>

\* dlt_frame_buff_parse_ctrl_field, dlt_frame_buff_build_ctrl_field
Ctrl(x) == [fnc |-> x % 32, sseq |-> (x \div 32) % 2, err |-> (x \div 64) % 2, dir |-> x \div 128]
CtrlByte(c) == c.fnc + 32 * c.sseq + 64 * c.err + 128 * c.dir

Result(res, to) == [res |-> res, to |-> to]

\* dlt_frame_buff_parse.  A false first start byte ends it with the offset just
\* behind that byte.
Parse(b, o) ==
  LET s == AfterStart(b, o, {StartByte})
      n == At(b, s + 8)
      d == s + 9
      all == Slice(b, s - 1, 10 + n)
  IN  IF Len(b) - s + 1 < LenMin THEN Result("LEN_INVALID", s)
      ELSE IF At(b, s - 1) # StartByte \/ At(b, s + 6) # StartByte
           THEN Result("INCORRECT", s)
      ELSE IF n > 0 /\ Len(b) - d < n + 2 THEN Result("LEN_INVALID", Len(b))
      ELSE IF ~SumEnds(all) THEN Result("HANGS", d + n)
      ELSE IF Fcs(all) # At(b, d + n) THEN Result("FCS_INCORRECT", d + n)
      ELSE IF At(b, d + n + 1) # StopByte THEN Result("INCORRECT", d + n + 1)
      ELSE [res |-> "SUCCESS", to |-> d + n + 2,
            frame |-> [adr_hex |-> Slice(b, s, 6), adr |-> GetBcd(b, s, 6, 65536),
                       ctrl |-> Ctrl(At(b, s + 7)),
                       data |-> [k \in 1 .. n |-> (At(b, d + k - 1) - Offset) % 256]]]

\* dlt_frame_buff_build: adr_hex wins over adr.
Build(f) ==
  LET adr == IF f.adr_hex # NoAdr THEN f.adr_hex ELSE PutBcd(f.adr, 6)
      data == [k \in 1 .. Len(f.data) |-> (f.data[k] + Offset) % 256]
      all == <<StartByte>> \o adr \o <<StartByte, CtrlByte(f.ctrl), Len(data) % 256>> \o data
  IN  IF ~SumEnds(all) THEN [res |-> "HANGS", bytes |-> <<>>]
      ELSE [res |-> "SUCCESS", bytes |-> all \o <<Fcs(all), StopByte>>]
=============================================================================
