------------------------------ MODULE DltAsdu ------------------------------
(***************************************************************************)
(* unitlinks/src/dlt_asdu.c: what a DL/T 645 meter answers to Read Data.   *)
(*                                                                         *)
(* An id is its four bytes, low byte first.  A float is a pair <<n, f>>:   *)
(* the number n with f digits behind the point.                            *)
(***************************************************************************)
EXTENDS IecAsdu

LenMin == 4

\* Bound: what is kept of a whole number (2^32 in the code, 16 bits of which reach
\* the IEC side).
UiMod == 65536

AnyB == -1

\* dlt_asdu_pb_tab: which ids, bytes of a value, digits behind the point, number of
\* the first item of a block.
Row(id, size, frc, start) == [id |-> id, type_size |-> size, frc_size |-> frc, start_id |-> start]
PbTab ==
  <<Row(<<AnyB, AnyB, AnyB, 0>>, 4, 2, 0),
    Row(<<AnyB, AnyB, 1, 2>>, 2, 1, 1), Row(<<AnyB, AnyB, 2, 2>>, 3, 3, 1), Row(<<AnyB, AnyB, 3, 2>>, 3, 4, 0),
    Row(<<AnyB, AnyB, 4, 2>>, 3, 4, 0), Row(<<AnyB, AnyB, 5, 2>>, 3, 4, 0), Row(<<AnyB, AnyB, 6, 2>>, 2, 3, 0),
    Row(<<AnyB, AnyB, 7, 2>>, 2, 1, 1), Row(<<AnyB, AnyB, 8, 2>>, 2, 2, 1), Row(<<AnyB, AnyB, 9, 2>>, 2, 2, 1),
    Row(<<AnyB, AnyB, 10, 2>>, 2, 2, 1), Row(<<AnyB, AnyB, 11, 2>>, 2, 2, 1),
    Row(<<1, AnyB, 128, 2>>, 3, 3, 0), Row(<<2, AnyB, 128, 2>>, 2, 2, 0), Row(<<3, AnyB, 128, 2>>, 3, 4, 0),
    Row(<<4, AnyB, 128, 2>>, 3, 4, 0), Row(<<5, AnyB, 128, 2>>, 3, 4, 0), Row(<<6, AnyB, 128, 2>>, 3, 4, 0),
    Row(<<7, AnyB, 128, 2>>, 2, 1, 0), Row(<<8, AnyB, 128, 2>>, 2, 2, 0), Row(<<9, AnyB, 128, 2>>, 2, 2, 0),
    Row(<<10, AnyB, 128, 2>>, 4, 0, 0),
    Row(<<0, 13, 48, 3>>, 3, 0, 0), Row(<<0, 14, 48, 3>>, 3, 0, 0),
    Row(<<1, 4, 0, 4>>, 6, 0, 0)>>

\* dlt_asdu_find_type_params: the rows that fit; the first of them counts.
RowsFor(id) == {r \in DOMAIN PbTab : \A k \in 1 .. 4 : PbTab[r].id[k] \in {AnyB, id[k]}}
FindTypeParams(id) == PbTab[CHOOSE r \in RowsFor(id) : \A q \in RowsFor(id) : r <= q]

\* dlt_asdu_check_data_block: the places that say "all of them"; the lowest counts.
BlockAt(id) == {k \in 1 .. 3 : id[k] = 255}
CheckDataBlock(id) == CHOOSE k \in BlockAt(id) : \A j \in BlockAt(id) : k <= j

\* dlt_asdu_build_data_unit_id
BuildDataUnitId(id, place, n) == [id EXCEPT ![place] = n]

\* Mutant: the number of the first item is not added.
ParseItemsFromZero(b, now, cot) ==
  LET id == Slice(b, 0, 4)
      p == FindTypeParams(id)
      n == IF BlockAt(id) = {} THEN 1 ELSE ((Len(b) - 4) \div p.type_size) % 256
      unit(k) == IF BlockAt(id) = {} THEN id ELSE BuildDataUnitId(id, CheckDataBlock(id), k - 1)
      float(k) == [Object("FLT", <<GetBcd(b, 4 + ((k - 1) * p.type_size), p.type_size, 10 ^ 8),
                                   p.frc_size>>, 0) EXCEPT !.time_tag = now]
      whole(k) == [Object("UINT", GetBcd(b, 4 + ((k - 1) * p.type_size), p.type_size, UiMod), 0)
                     EXCEPT !.time_tag = now]
      missed == [Object("NONE", 0, 0) EXCEPT !.time_tag = now]
      object(k) == IF p.frc_size > 0 THEN float(k) ELSE IF k = 1 THEN whole(n) ELSE missed
  IN  IF RowsFor(id) = {} THEN [res |-> "NOT_FOUND"]
      ELSE IF Len(b) - 4 # n * p.type_size THEN [res |-> "INCORRECT"]
      ELSE [res |-> "SUCCESS",
            asdu |-> [proto |-> PROTO_DLT645, adr |-> 0, type |-> IF p.frc_size > 0 THEN 36 ELSE 35,
                      fnc |-> cot, attr |-> 0, size |-> n,
                      data |-> [k \in 1 .. n |-> [id |-> unit(k)] @@ object(k)]]]

\* What the four functions below have in common.  In a block of whole numbers each
\* value is stored in the first unit, so that the last one stays there and the other
\* units have none.
ParseItems(b, now, cot) ==
  LET id == Slice(b, 0, 4)
      p == FindTypeParams(id)
      n == IF BlockAt(id) = {} THEN 1 ELSE ((Len(b) - 4) \div p.type_size) % 256
      unit(k) == IF BlockAt(id) = {} THEN id
                 ELSE BuildDataUnitId(id, CheckDataBlock(id), k - 1 + p.start_id)
      float(k) == [Object("FLT", <<GetBcd(b, 4 + ((k - 1) * p.type_size), p.type_size, 10 ^ 8),
                                   p.frc_size>>, 0) EXCEPT !.time_tag = now]
      whole(k) == [Object("UINT", GetBcd(b, 4 + ((k - 1) * p.type_size), p.type_size, UiMod), 0)
                     EXCEPT !.time_tag = now]
      missed == [Object("NONE", 0, 0) EXCEPT !.time_tag = now]
      object(k) == IF p.frc_size > 0 THEN float(k) ELSE IF k = 1 THEN whole(n) ELSE missed
  IN  IF RowsFor(id) = {} THEN [res |-> "NOT_FOUND"]
      ELSE IF Len(b) - 4 # n * p.type_size THEN [res |-> "INCORRECT"]
      ELSE [res |-> "SUCCESS",
            asdu |-> [proto |-> PROTO_DLT645, adr |-> 0, type |-> IF p.frc_size > 0 THEN 36 ELSE 35,
                      fnc |-> cot, attr |-> 0, size |-> n,
                      data |-> [k \in 1 .. n |-> [id |-> unit(k)] @@ object(k)]]]

CotCyclic == 1
CotReq == 5

\* dlt_asdu_parse_energy, dlt_asdu_parse_inst_value, dlt_asdu_parse_event_log,
\* dlt_asdu_parse_parameter.  The last two leave the time 0.
ParseEnergy(b, now) == ParseItems(b, now, CotCyclic)
ParseInstValue(b, now) == ParseItems(b, now, CotCyclic)
ParseEventLog(b) == ParseItems(b, Epoch, CotCyclic)
ParseParameter(b) == ParseItems(b, Epoch, CotReq)

\* dlt_asdu_buff_parse
DltParse(b, now) ==
  IF Len(b) < LenMin THEN [res |-> "INCORRECT"]
  ELSE CASE At(b, 3) = 0 -> ParseEnergy(b, now)
         [] At(b, 3) = 2 -> ParseInstValue(b, now)
         [] At(b, 3) = 3 -> ParseEventLog(b)
         [] At(b, 3) = 4 -> ParseParameter(b)
         [] OTHER -> [res |-> "UNKNOWN"]
=============================================================================
