------------------------------- MODULE Bytes -------------------------------
(***************************************************************************)
(* Bytes in a buffer: common/p_num.c and the check sum the three serial    *)
(* frame formats share.  A buffer is a sequence of bytes; like the code's, *)
(* offsets count from 0.  A number goes into a buffer as its low bytes.    *)
(***************************************************************************)
EXTENDS Integers, Sequences

\* buff_get_le_uint8.  Behind the end of a buffer lies something else, here 0.
At(b, o) == IF o < Len(b) THEN b[o + 1] ELSE 0

\* The n bytes from offset o on.
Slice(b, o, n) == SubSeq(b, o + 1, o + n)

\* buff_get_le_uint8 .. buff_get_le_uint32, buff_get_le_uint: low byte first.
GetLe(b, o, size) ==
  LET high[k \in 0 .. size] == IF k = 0 THEN 0 ELSE 256 * high[k - 1] + At(b, o + size - k)
  IN  high[size]

\* buff_put_le_uint8 .. buff_put_le_uint32
PutLe(n, size) == [k \in 1 .. size |-> (n \div 256 ^ (k - 1)) % 256]

Low(x) == x % 16
High(x) == x \div 16

\* buff_bcd_check
BcdCheck(b, o, len) == \A k \in 0 .. len - 1 : Low(At(b, o + k)) < 10 /\ High(At(b, o + k)) < 10

\* buff_bcd_get_le_uint, as kept in a variable below m; 0 for bytes that are no BCD.
GetBcd(b, o, len, m) ==
  LET digits(k) == Low(At(b, o + len - k)) + 10 * High(At(b, o + len - k))
      high[k \in 0 .. len] == IF k = 0 THEN 0 ELSE (100 * high[k - 1] + digits(k)) % m
  IN  IF BcdCheck(b, o, len) THEN high[len] ELSE 0

\* buff_bcd_put_le_uint.  Above two bytes the numbers handed to it are shorter.
PutBcd(n, len) ==
  LET pair(k) == IF k <= 4 THEN (n \div 100 ^ (k - 1)) % 100 ELSE 0
  IN  [k \in 1 .. len |-> (pair(k) % 10) + 16 * (pair(k) \div 10)]

\* dlt_frame_get_fcs, m700_frame_get_fcs, lpdu_frame_get_fcs.  Their counter is a
\* uint8_t: of 256 bytes or more they never come to the end.
SumEnds(s) == Len(s) < 256
Fcs(s) == LET sum[k \in 0 .. Len(s)] == IF k = 0 THEN 0 ELSE (sum[k - 1] + s[k]) % 256
          IN  sum[Len(s)]

\* Mutant: a start byte that is not the first byte is not found.
AfterStartHere(b, o, starts) == IF o < Len(b) /\ At(b, o) \in starts THEN o + 1 ELSE Len(b)

\* Where the frame start is looked for: just behind the first start byte at or
\* after o, or the end of the buffer.
AfterStart(b, o, starts) ==
  LET found == {k \in o .. Len(b) - 1 : At(b, k) \in starts}
  IN  IF found = {} THEN Len(b) ELSE 1 + CHOOSE k \in found : \A j \in found : k <= j
=============================================================================
