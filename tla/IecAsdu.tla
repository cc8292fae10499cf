------------------------------ MODULE IecAsdu ------------------------------
(***************************************************************************)
(* unitlinks/src/iec_asdu.c: the ASDUs of IEC 60870-5-101/104.             *)
(*                                                                         *)
(* A time_t is the broken-down time localtime makes of it, whose year      *)
(* counts from 1900 and whose month from 0.  A float is put into a buffer  *)
(* as four opaque bytes that hold it.                                      *)
(***************************************************************************)
EXTENDS Bytes, TLC, SequencesExt

CONSTANTS CotLen, CoaLen, IoaLen   \* lengths of cause, common address and object address

ASSUME LengthsAssumption == CotLen \in 1 .. 2 /\ CoaLen \in 1 .. 2 /\ IoaLen \in 1 .. 3

PROTO_IEC101 == 1
PROTO_IEC104 == 2
PROTO_DLT645 == 3
PROTO_M700 == 4

Epoch == [sec |-> 0, min |-> 0, hour |-> 0, su |-> 0, mday |-> 1, wday |-> 4, mon |-> 0, year |-> 70]

\* A data_unit without its id and name, as calloc and one parser leave it.
Object(vt, v, attr) == [value_type |-> vt, value |-> v, attr |-> attr, time_tag |-> Epoch, time_iv |-> 0]

\* Mutant: the flag of an invalid time is not sent.
TimeBytesNoIv(t, iv) ==
  PutLe(1000 * t.sec, 2)
    \o <<t.min, t.hour + (128 * t.su),
         t.mday + (32 * (IF t.wday = 0 THEN 7 ELSE t.wday)), t.mon + 1, (t.year - 100) % 256>>

\* time_t_to_cp56time2a and iec_asdu_build_cp56time2a.
TimeBytes(t, iv) ==
  PutLe(1000 * t.sec, 2)
    \o <<t.min + (128 * iv), t.hour + (128 * t.su),
         t.mday + (32 * (IF t.wday = 0 THEN 7 ELSE t.wday)), t.mon + 1, (t.year - 100) % 256>>

\* Mutant: the month is left to count from 1.
TimeOfMonth1(b, o) == [sec |-> GetLe(b, o, 2) \div 1000, min |-> At(b, o + 2) % 64,
                       hour |-> At(b, o + 3) % 32, su |-> At(b, o + 3) \div 128,
                       mday |-> At(b, o + 4) % 32, wday |-> (At(b, o + 4) \div 32) % 7,
                       mon |-> At(b, o + 5) % 16, year |-> (At(b, o + 6) % 128) + 100]

\* iec_asdu_parse_cp56time2a and cp56time2a_to_time_t, which drops the milliseconds.
TimeOf(b, o) == [sec |-> GetLe(b, o, 2) \div 1000, min |-> At(b, o + 2) % 64,
                 hour |-> At(b, o + 3) % 32, su |-> At(b, o + 3) \div 128,
                 mday |-> At(b, o + 4) % 32, wday |-> (At(b, o + 4) \div 32) % 7,
                 mon |-> (At(b, o + 5) % 16) - 1, year |-> (At(b, o + 6) % 128) + 100]

Timed(type) == type \in 30 .. 37
WithTime(x, b, o, type) ==
  IF Timed(type) THEN [x EXCEPT !.time_tag = TimeOf(b, o), !.time_iv = At(b, o + 2) \div 128] ELSE x
TimeIn(x, type) == IF Timed(type) THEN TimeBytes(x.time_tag, x.time_iv) ELSE <<>>

\* A byte whose low bits are the value and whose other bits are attributes; of an
\* object a parser made, the two share no bit.
Flags(vt, n, x) == Object(vt, x % n, x - (x % n))
FlagByte(x) == <<x.value + x.attr>>

Float(v) == [k \in 1 .. 4 |-> [float |-> v, byte |-> k]]
FloatAt(b, o) == At(b, o).float

\* The parse and build functions, one pair per kind of object.
ParseC_CS(b, o) == [Object("NONE", 0, 0) EXCEPT !.time_tag = TimeOf(b, o),
                                                !.time_iv = At(b, o + 2) \div 128]
BuildC_CS(x) == TimeBytes(x.time_tag, x.time_iv)

ParseC_CI(b, o) == Flags("UINT", 64, At(b, o))
BuildC_CI(x) == FlagByte(x)

ParseC_IC(b, o) == Object("UINT", At(b, o), 0)
BuildC_IC(x) == <<x.value>>

ParseC_SE(b, o, type) == IF type = 50 THEN Object("FLT", FloatAt(b, o), At(b, o + 4))
                         ELSE Object("INT", GetLe(b, o, 2), At(b, o + 2))
BuildC_SE(x, type) == (IF type = 50 THEN Float(x.value) ELSE PutLe(x.value, 2)) \o <<x.attr>>

ParseC_RC(b, o) == Flags("UINT", 4, At(b, o))
BuildC_RC(x) == FlagByte(x)

ParseC_DC(b, o) == Flags("UINT", 4, At(b, o))
BuildC_DC(x) == FlagByte(x)

ParseC_SC(b, o) == Flags("BOOL", 2, At(b, o))
BuildC_SC(x) == FlagByte(x)

ParseM_IT(b, o, type) == WithTime(Object("UINT", GetLe(b, o, 4), At(b, o + 4)), b, o + 5, type)
BuildM_IT(x, type) == PutLe(x.value, 4) \o <<x.attr>> \o TimeIn(x, type)

\* The 16 bits of a measured value are read without their sign.
ParseM_ME(b, o, type) ==
  IF type \in {13, 36} THEN WithTime(Object("FLT", FloatAt(b, o), At(b, o + 4)), b, o + 5, type)
  ELSE WithTime(Object("INT", GetLe(b, o, 2), At(b, o + 2)), b, o + 3, type)
BuildM_ME(x, type) ==
  (IF type \in {13, 36} THEN Float(x.value) ELSE PutLe(x.value, 2)) \o <<x.attr>> \o TimeIn(x, type)

\* The transient bit of the value becomes bit 3 of the attributes.
ParseM_ST(b, o, type) ==
  LET transient == 8 * (At(b, o) \div 128)
      quality == At(b, o + 1)
  IN  WithTime(Object("UINT", At(b, o) % 128,
                      IF (quality \div 8) % 2 = 1 THEN quality ELSE quality + transient), b, o + 2, type)
BuildM_ST(x, type) ==
  LET transient == (x.attr \div 8) % 2
  IN  <<x.value + (128 * transient), x.attr - (8 * transient)>> \o TimeIn(x, type)

ParseM_DP(b, o, type) == WithTime(Flags("UINT", 4, At(b, o)), b, o + 1, type)
BuildM_DP(x, type) == FlagByte(x) \o TimeIn(x, type)

ParseM_SP(b, o, type) == WithTime(Flags("BOOL", 2, At(b, o)), b, o + 1, type)
BuildM_SP(x, type) == FlagByte(x) \o TimeIn(x, type)

\* iec_asdu_pb_tab: the size of an object, and who parses and builds it.
TypeSize == (1 :> 1) @@ (3 :> 1) @@ (5 :> 2) @@ (9 :> 3) @@ (11 :> 3) @@ (13 :> 5) @@ (15 :> 5)
         @@ (30 :> 8) @@ (31 :> 8) @@ (32 :> 9) @@ (34 :> 10) @@ (35 :> 10) @@ (36 :> 12) @@ (37 :> 12)
         @@ (45 :> 1) @@ (46 :> 1) @@ (47 :> 1) @@ (48 :> 3) @@ (49 :> 3) @@ (50 :> 5)
         @@ (100 :> 1) @@ (101 :> 1) @@ (103 :> 7)
ParseObject(b, o, type) ==
  CASE type \in {1, 30} -> ParseM_SP(b, o, type)
    [] type \in {3, 31} -> ParseM_DP(b, o, type)
    [] type \in {5, 32} -> ParseM_ST(b, o, type)
    [] type \in {9, 11, 13, 34, 35, 36} -> ParseM_ME(b, o, type)
    [] type \in {15, 37} -> ParseM_IT(b, o, type)
    [] type = 45 -> ParseC_SC(b, o)
    [] type = 46 -> ParseC_DC(b, o)
    [] type = 47 -> ParseC_RC(b, o)
    [] type \in {48, 49, 50} -> ParseC_SE(b, o, type)
    [] type = 100 -> ParseC_IC(b, o)
    [] type = 101 -> ParseC_CI(b, o)
    [] type = 103 -> ParseC_CS(b, o)
BuildObject(x, type) ==
  CASE type \in {1, 30} -> BuildM_SP(x, type)
    [] type \in {3, 31} -> BuildM_DP(x, type)
    [] type \in {5, 32} -> BuildM_ST(x, type)
    [] type \in {9, 11, 13, 34, 35, 36} -> BuildM_ME(x, type)
    [] type \in {15, 37} -> BuildM_IT(x, type)
    [] type = 45 -> BuildC_SC(x)
    [] type = 46 -> BuildC_DC(x)
    [] type = 47 -> BuildC_RC(x)
    [] type \in {48, 49, 50} -> BuildC_SE(x, type)
    [] type = 100 -> BuildC_IC(x)
    [] type = 101 -> BuildC_CI(x)
    [] type = 103 -> BuildC_CS(x)

HeadLen == 2 + CotLen + CoaLen
Sq(attr) == attr % 2

\* iec_asdu_parse_header; an originator address is skipped.
Header(b) ==
  LET cause == At(b, 2) % 64
  IN  [proto |-> PROTO_IEC101, adr |-> GetLe(b, 2 + CotLen, CoaLen), type |-> At(b, 0), fnc |-> cause,
       attr |-> (At(b, 1) \div 128) + (At(b, 2) - cause), size |-> At(b, 1) % 128, data |-> <<>>]

\* iec_asdu_build_header
HeaderBytes(a) ==
  LET sq == IF a.proto \in {PROTO_IEC101, PROTO_IEC104} THEN 128 * Sq(a.attr) ELSE 0
  IN  <<a.type, a.size + sq, a.fnc + (64 * (a.attr \div 64))>> \o PutLe(0, CotLen - 1) \o PutLe(a.adr, CoaLen)

\* What size objects take, with one address for all or one for each.
ObjectsLen(size, attr, type) ==
  IF Sq(attr) = 1 THEN IoaLen + (size * TypeSize[type]) ELSE size * (IoaLen + TypeSize[type])

\* Object k, numbered from 1: one address for all and the others counted on from
\* it, or each behind its own.
ObjectAt(b, h, k) ==
  LET n == TypeSize[h.type]
      o == HeadLen + ((k - 1) * (IoaLen + n))
  IN  IF Sq(h.attr) = 1
      THEN [id |-> GetLe(b, HeadLen, IoaLen) + k - 1]
             @@ ParseObject(b, HeadLen + IoaLen + ((k - 1) * n), h.type)
      ELSE [id |-> GetLe(b, o, IoaLen)] @@ ParseObject(b, o + IoaLen, h.type)

\* iec_asdu_buff_parse; a parsed ASDU keeps no SQ flag.
BuffParse(b) ==
  LET h == Header(b)
  IN  IF Len(b) < HeadLen THEN [res |-> "INCORRECT"]
      ELSE IF h.type \notin DOMAIN TypeSize THEN [res |-> "UNKNOWN"]
      ELSE IF Len(b) - HeadLen < ObjectsLen(h.size, h.attr, h.type) THEN [res |-> "INCORRECT"]
      ELSE [res |-> "SUCCESS",
            asdu |-> [h EXCEPT !.attr = h.attr - Sq(h.attr),
                               !.data = [k \in 1 .. h.size |-> ObjectAt(b, h, k)]]]

\* iec_asdu_buff_build.  With one address for all the ids are those from the first on.
BuffBuild(a) ==
  LET address(k) == IF Sq(a.attr) = 0 \/ k = 1 THEN PutLe(a.data[k].id, IoaLen) ELSE <<>>
  IN  IF a.type \notin DOMAIN TypeSize THEN [res |-> "UNKNOWN"]
      ELSE [res |-> "SUCCESS",
            bytes |-> HeaderBytes(a)
              \o FlattenSeq([k \in 1 .. a.size |-> address(k) \o BuildObject(a.data[k], a.type)])]
=============================================================================
