----------------------------- MODULE M700Frame -----------------------------
(***************************************************************************)
(* The frames of unitlinks/src/m700_frame.c.                               *)
(***************************************************************************)
EXTENDS Bytes

StartByte == 104
StopByte == 13
LenMin == 6

Result(res, to) == [res |-> res, to |-> to]

\* Mutant: the check sum is not compared.
ParseNoFcs(b, o) ==
  LET s == AfterStart(b, o, {StartByte})
      n == At(b, s + 2)
      d == s + 3
      all == Slice(b, s - 1, 4 + n)
  IN  IF Len(b) - s + 1 < LenMin THEN Result("LEN_INVALID", s)
      ELSE IF n > 0 /\ Len(b) - d < n + 2 THEN Result("LEN_INVALID", Len(b))
      ELSE IF ~SumEnds(all) THEN Result("HANGS", d + n)
      ELSE IF At(b, d + n + 1) # StopByte THEN Result("INCORRECT", d + n + 1)
      ELSE [res |-> "SUCCESS", to |-> d + n + 2,
            frame |-> [adr |-> At(b, s), cmd |-> At(b, s + 1), data |-> Slice(b, d, n)]]

\* Mutant: the length test forgets the check sum and the stop byte.
ParseNoTail(b, o) ==
  LET s == AfterStart(b, o, {StartByte})
      n == At(b, s + 2)
      d == s + 3
      all == Slice(b, s - 1, 4 + n)
  IN  IF Len(b) - s + 1 < LenMin THEN Result("LEN_INVALID", s)
      ELSE IF n > 0 /\ Len(b) - d < n THEN Result("LEN_INVALID", Len(b))
      ELSE IF ~SumEnds(all) THEN Result("HANGS", d + n)
      ELSE IF Fcs(all) # At(b, d + n) THEN Result("FCS_INCORRECT", d + n)
      ELSE IF At(b, d + n + 1) # StopByte THEN Result("INCORRECT", d + n + 1)
      ELSE [res |-> "SUCCESS", to |-> d + n + 2,
            frame |-> [adr |-> At(b, s), cmd |-> At(b, s + 1), data |-> Slice(b, d, n)]]

\* m700_frame_buff_parse
Parse(b, o) ==
  LET s == AfterStart(b, o, {StartByte})
      n == At(b, s + 2)
      d == s + 3
      all == Slice(b, s - 1, 4 + n)
  IN  IF Len(b) - s + 1 < LenMin THEN Result("LEN_INVALID", s)
      ELSE IF n > 0 /\ Len(b) - d < n + 2 THEN Result("LEN_INVALID", Len(b))
      ELSE IF ~SumEnds(all) THEN Result("HANGS", d + n)
      ELSE IF Fcs(all) # At(b, d + n) THEN Result("FCS_INCORRECT", d + n)
      ELSE IF At(b, d + n + 1) # StopByte THEN Result("INCORRECT", d + n + 1)
      ELSE [res |-> "SUCCESS", to |-> d + n + 2,
            frame |-> [adr |-> At(b, s), cmd |-> At(b, s + 1), data |-> Slice(b, d, n)]]

\* m700_frame_buff_build
Build(f) ==
  LET all == <<StartByte, f.adr, f.cmd, Len(f.data) % 256>> \o f.data
  IN  IF ~SumEnds(all) THEN [res |-> "HANGS", bytes |-> <<>>]
      ELSE [res |-> "SUCCESS", bytes |-> all \o <<Fcs(all), StopByte>>]
=============================================================================
