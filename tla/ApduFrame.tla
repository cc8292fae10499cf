----------------------------- MODULE ApduFrame -----------------------------
(***************************************************************************)
(* unitlinks/src/apdu_frame.c: the frames of IEC 60870-5-104.              *)
(***************************************************************************)
EXTENDS Bytes

StartByte == 104
LenMin == 6

I == 0
S == 1
U == 3

\* An apdu_frame; fields a format does not use keep the zero of calloc.
IFrame(ns, nr, d) == [type |-> I, u_cmd |-> 0, send_num |-> ns, recv_num |-> nr, data |-> d]
SFrame(nr) == [type |-> S, u_cmd |-> 0, send_num |-> 0, recv_num |-> nr, data |-> <<>>]
UFrame(c) == [type |-> U, u_cmd |-> c, send_num |-> 0, recv_num |-> 0, data |-> <<>>]

\* apdu_frame_buff_parse_ctrl_field
Ctrl(b, o) ==
  LET nr == GetLe(b, o + 2, 2) \div 2
      bits == At(b, o) % 4
  IN  CASE bits \in {0, 2} -> IFrame(GetLe(b, o, 2) \div 2, nr, <<>>)
        [] bits = 1 -> SFrame(nr)
        [] bits = 3 -> UFrame(At(b, o) - 3)

\* apdu_frame_buff_build_ctrl_field; sequence numbers have 15 bits.
CtrlBytes(f) ==
  CASE f.type = I -> PutLe(2 * f.send_num, 2) \o PutLe(2 * f.recv_num, 2)
    [] f.type = S -> PutLe(S, 2) \o PutLe(2 * f.recv_num, 2)
    [] f.type = U -> <<f.u_cmd + U, 0, 0, 0>>

\* apdu_frame_buff_parse.  The length counts for an I frame only; below 4 it
\* wraps in the uint16_t and is too long for any buffer.
Parse(b, o) ==
  LET s == AfterStart(b, o, {StartByte})
      data_len == (At(b, s) - 4) % 65536
      f == Ctrl(b, s + 1)
      end == s + 5 + data_len
  IN  IF Len(b) - s + 1 < LenMin THEN [res |-> "LEN_INVALID", to |-> s]
      ELSE IF f.type # I THEN [res |-> "SUCCESS", to |-> s + 5, frame |-> f]
      ELSE IF data_len > 0 /\ end <= Len(b)
           THEN [res |-> "SUCCESS", to |-> end,
                 frame |-> [f EXCEPT !.data = Slice(b, s + 5, data_len)]]
      ELSE [res |-> "LEN_INVALID", to |-> Len(b)]

\* apdu_frame_buff_build
Build(f) ==
  IF f.type = I /\ f.data = <<>> THEN [res |-> "INCORRECT", bytes |-> <<>>]
  ELSE [res |-> "SUCCESS",
        bytes |-> <<StartByte, (4 + Len(f.data)) % 256>> \o CtrlBytes(f) \o f.data]
=============================================================================
