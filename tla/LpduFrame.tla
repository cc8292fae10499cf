----------------------------- MODULE LpduFrame -----------------------------
(***************************************************************************)
(* unitlinks/src/lpdu_frame.c: the frames FT 1.2 of IEC 60870-5-101, the   *)
(* only format it knows.                                                   *)
(***************************************************************************)
EXTENDS Bytes

CONSTANT AdrLen     \* bytes of a link address, up to 2

StartVar == 104
StartFix == 16
Stop == 22
SingleChars == {229, 162}
Starts == {StartVar, StartFix} \cup SingleChars

Result(res, to) == [res |-> res, to |-> to]

\* lpdu_frame_buff_parse_ctrl_field, lpdu_frame_buff_build_ctrl_field: two bits
\* mean fcv and fcb from a primary station, dfc and acd from a secondary one.
Ctrl(x) ==
  LET prm == (x \div 64) % 2
      b4 == (x \div 16) % 2
      b5 == (x \div 32) % 2
  IN  [fnc |-> x % 16, prm |-> prm, dir |-> x \div 128,
       fcv |-> IF prm = 1 THEN b4 ELSE 0, fcb |-> IF prm = 1 THEN b5 ELSE 0,
       dfc |-> IF prm = 1 THEN 0 ELSE b4, acd |-> IF prm = 1 THEN 0 ELSE b5]
CtrlByte(c) ==
  c.fnc + 64 * c.prm + 128 * c.dir
    + (IF c.prm = 1 THEN 16 * c.fcv + 32 * c.fcb ELSE 16 * c.dfc + 32 * c.acd)

\* lpdu_frame_buff_parse_link_address, lpdu_frame_buff_build_link_address
LinkAddress(b, o) == GetLe(b, o, AdrLen)
AddressBytes(a) == PutLe(a, AdrLen)

Frame(type, ctrl, adr, data) == [type |-> type, ctrl |-> ctrl, adr |-> adr, data |-> data]

\* A frame of variable length whose first start byte is at o.  Its two lengths and
\* its second start byte are read before the length of the buffer is looked at; a
\* length too small for control field and address wraps and is copied past the end.
ParseVar(b, o) ==
  LET n == At(b, o + 1)
      data_len == n - 1 - AdrLen
      d == o + 5 + AdrLen
  IN  IF Len(b) - o < 3 THEN Result("PAST_END", Len(b))
      ELSE IF n # At(b, o + 2) THEN Result("LEN_INVALID", o + 2)
      ELSE IF Len(b) - o < 4 THEN Result("PAST_END", Len(b))
      ELSE IF At(b, o + 3) # StartVar THEN Result("INCORRECT", o + 3)
      ELSE IF Len(b) - (o + 4) < n + 2 THEN Result("LEN_INVALID", Len(b))
      ELSE IF data_len < 0 THEN Result("PAST_END", Len(b))
      ELSE IF Fcs(Slice(b, o + 4, n)) # At(b, o + 4 + n) THEN Result("FCS_INCORRECT", o + 4 + n)
      ELSE IF At(b, o + 5 + n) # Stop THEN Result("INCORRECT", o + 5 + n)
      ELSE [res |-> "SUCCESS", to |-> o + 6 + n,
            frame |-> Frame("VAR", Ctrl(At(b, o + 4)), LinkAddress(b, o + 5),
                            Slice(b, d, data_len))]

\* A frame of fixed length.
ParseFix(b, o) ==
  LET n == 1 + AdrLen
  IN  IF Len(b) - (o + 1) < n + 2 THEN Result("LEN_INVALID", o + 1)
      ELSE IF Fcs(Slice(b, o + 1, n)) # At(b, o + 1 + n) THEN Result("FCS_INCORRECT", o + 1 + n)
      ELSE IF At(b, o + 2 + n) # Stop THEN Result("INCORRECT", o + 2 + n)
      ELSE [res |-> "SUCCESS", to |-> o + 3 + n,
            frame |-> Frame("FIX", Ctrl(At(b, o + 1)), LinkAddress(b, o + 2), <<>>)]

\* lpdu_frame_buff_parse, lpdu_frame_buff_parse_ft12
Parse(b, o) ==
  LET s == AfterStart(b, o, Starts) - 1
  IN  IF \A k \in o .. Len(b) - 1 : At(b, k) \notin Starts THEN Result("UNKNOWN", Len(b))
      ELSE CASE At(b, s) = StartVar -> ParseVar(b, s)
             [] At(b, s) = StartFix -> ParseFix(b, s)
             [] OTHER -> [res |-> "SUCCESS", to |-> s + 1,
                          frame |-> [type |-> "SC", sc |-> At(b, s), data |-> <<>>]]

BuildVar(f) ==
  LET user == <<CtrlByte(f.ctrl)>> \o AddressBytes(f.adr) \o f.data
      n == Len(user) % 256
  IN  IF f.data = <<>> THEN [res |-> "INCORRECT", bytes |-> <<>>]
      ELSE IF ~SumEnds(user) THEN [res |-> "HANGS", bytes |-> <<>>]
      ELSE [res |-> "SUCCESS",
            bytes |-> <<StartVar, n, n, StartVar>> \o user \o <<Fcs(user), Stop>>]

BuildFix(f) ==
  LET user == <<CtrlByte(f.ctrl)>> \o AddressBytes(f.adr)
  IN  [res |-> "SUCCESS", bytes |-> <<StartFix>> \o user \o <<Fcs(user), Stop>>]

\* A single character wants one byte of data, which no parsed one has.
BuildSc(f) == IF Len(f.data) # 1 THEN [res |-> "INCORRECT", bytes |-> <<>>]
              ELSE [res |-> "SUCCESS", bytes |-> <<f.sc>>]

\* lpdu_frame_buff_build, lpdu_frame_buff_build_ft12
Build(f) == CASE f.type = "VAR" -> BuildVar(f)
              [] f.type = "FIX" -> BuildFix(f)
              [] f.type = "SC" -> BuildSc(f)
=============================================================================
