------------------------------ MODULE M700Asdu ------------------------------
(***************************************************************************)
(* What an M700 meter answers: the ASDUs m700_frame.c and m700.c make of   *)
(* the data of one frame.  A float is a pair, as in DltAsdu.               *)
(***************************************************************************)
EXTENDS IecAsdu

\* m700_asdu_p_tab: for each part of an answer, which commands have it, the number
\* of its first value, how many values of how many bytes, digits behind the point,
\* and the part that follows (0: none).
Part(idx, num, size, frc, next) ==
  [idx |-> idx, num |-> num, type_size |-> size, frc |-> frc, sseq |-> next]
Parts ==
  (0 :> ((176 :> Part(1, 3, 2, 2, 1)) @@ (177 :> Part(1, 3, 3, 3, 0)) @@ (178 :> Part(1, 6, 4, 2, 0))
      @@ (181 :> Part(1, 1, 2, 0, 0)) @@ (183 :> Part(1, 1, 1, 0, 0)) @@ (185 :> Part(1, 3, 2, 3, 0))
      @@ [c \in {179, 180, 186, 187, 188, 203, 204} |-> Part(1, 3, 2, 2, 0)]
      @@ [c \in 205 .. 210 |-> Part(1, 20, 2, 2, 0)] @@ (211 :> Part(1, 3, 1, 0, 0))
      @@ [c \in 212 .. 217 |-> Part(1, 4, 4, 2, 0)] @@ (223 :> Part(1, 1, 1, 0, 0))
      @@ (224 :> Part(1, 6, 2, 2, 1)) @@ (225 :> Part(1, 24, 4, 2, 1)) @@ (226 :> Part(1, 13, 2, 0, 0))
      @@ [c \in 234 .. 236 |-> Part(1, 1, 2, 2, 1)]))
  @@ (1 :> ((176 :> Part(4, 2, 1, 0, 0)) @@ (224 :> Part(7, 3, 3, 3, 2)) @@ (225 :> Part(25, 3, 2, 2, 0))
         @@ [c \in 234 .. 236 |-> Part(2, 1, 3, 3, 2)]))
  @@ (2 :> ((224 :> Part(10, 6, 4, 2, 3)) @@ [c \in 234 .. 236 |-> Part(3, 42, 2, 2, 0)]))
  @@ (3 :> (224 :> Part(16, 6, 2, 2, 4)))
  @@ (4 :> (224 :> Part(22, 2, 1, 0, 5)))
  @@ (5 :> (224 :> Part(24, 1, 2, 0, 6)))
  @@ (6 :> (224 :> Part(25, 6, 2, 0, 0)))

\* m700_asdu_find_cmd_params
Known(cmd, sseq) == cmd \in DOMAIN Parts[sseq]

\* m700_asdu_buff_parse, at offset o of the data of a frame.
M700Parse(cmd, b, o, sseq, now) ==
  LET p == Parts[sseq][cmd]
      value(k) == GetLe(b, o + ((k - 1) * p.type_size), p.type_size)
      object(k) == IF p.frc > 0 THEN Object("FLT", <<value(k), p.frc>>, 0) ELSE Object("UINT", value(k), 0)
  IN  IF b = <<>> THEN [res |-> "INCORRECT"]
      ELSE IF ~Known(cmd, sseq) THEN [res |-> "NOT_FOUND"]
      ELSE IF Len(b) - o < p.num * p.type_size THEN [res |-> "INCORRECT"]
      ELSE [res |-> "SUCCESS", to |-> o + (p.num * p.type_size), sseq |-> p.sseq,
            asdu |-> [proto |-> PROTO_M700, adr |-> 0, type |-> IF p.frc > 0 THEN 36 ELSE 35,
                      fnc |-> 1, attr |-> 0, size |-> p.num,
                      data |-> [k \in 1 .. p.num |->
                                  [id |-> (256 * cmd) + k - 1 + p.idx]
                                    @@ [object(k) EXCEPT !.time_tag = now]]]]

\* m700_read_data_recv: the ASDUs of one frame, each handed on before the next part
\* is looked at, until a part is not understood, none follows, or the data ends.
M700Asdus(cmd, b, now) ==
  LET from[s \in 0 .. 7, o \in 0 .. Len(b)] ==
        LET p == M700Parse(cmd, b, o, s, now)
        IN  IF s = 7 \/ o = Len(b) \/ p.res # "SUCCESS" THEN <<>>
            ELSE <<p.asdu>> \o (IF p.sseq = 0 THEN <<>> ELSE from[p.sseq, p.to])
  IN  from[0, 0]
=============================================================================
