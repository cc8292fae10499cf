------------------------------ MODULE DataPath ------------------------------
(***************************************************************************)
(* The way of a measured value: the meter's telegram, the unitlink that    *)
(* parses it and maps its ids, startiec, which notes it for the archive    *)
(* and for HMI and maps it again, the unitlink-iec104 that is a slave of   *)
(* the control centre, and the centre itself.                              *)
(*                                                                         *)
(* Telegrams are whole and connections are up: FrameStream, MfRing and     *)
(* Iec104Link are about what happens to bytes on their way.                *)
(***************************************************************************)
EXTENDS StartIec, DltAsdu, M700Asdu

CONSTANTS
  ProtoMaps,      \* protocol -> lines of its map file
  Telegrams,      \* what meters send: [adr, proto, cmd (M700), bytes, means]
  Now,            \* the time of day, of every telegram
  MaxTelegrams    \* bound on the telegrams of a run

VARIABLES
  up, down,   \* FIFOs into startiec and from it to the slave: [adr, bytes]
  line,       \* ASDUs on the line from the slave to the centre
  seen,       \* what the centre knows: <<ASDU address, object address>> -> value
  rec,        \* log_rec of every SCADA_CH
  vr,         \* the values of VarRecs
  heap,       \* the last buffer for the SCADA
  sent,       \* telegrams so far
  due,        \* <<meter, object>> -> the value the meter last said it has
  lost        \* what has gone wrong on the way: "hole", "long"

vars == <<up, down, line, seen, rec, vr, heap, sent, due, lost>>

Objects == {<<adr, Dobjs[k]>> : adr \in ScadaChs, k \in DOMAIN Dobjs}

Init ==
  /\ up = <<>> /\ down = <<>> /\ line = <<>> /\ heap = <<>>
  /\ seen = <<>>
  /\ rec = [adr \in ScadaChs |-> [k \in 0 .. Len(Dobjs) |-> NoVal]]
  /\ vr = FirstVars
  /\ sent = 0
  /\ due = [o \in Objects |-> NoVal]
  /\ lost = {}

\* The maps as iec104_config_read, dlt645_config_read and m700_config_read load them.
Map(proto) == MapRead(ProtoMaps[proto])

\* dlt645_read_data_recv, m700_read_data_recv and iec104_frame_i_recv: the ASDUs a
\* telegram is parsed into, under the meter's address but for the last.  The message
\* that a meter told its own address says nothing to startiec and is left out.
Asdus(t) ==
  LET one(p) == IF p.res = "SUCCESS" THEN <<p.asdu>> ELSE <<>>
      of(adr, as) == [k \in DOMAIN as |-> [as[k] EXCEPT !.adr = adr]]
  IN  CASE t.proto = PROTO_DLT645 -> of(t.adr, one(DltParse(t.bytes, Now)))
        [] t.proto = PROTO_M700 -> of(t.adr, M700Asdus(t.cmd, t.bytes, Now))
        [] t.proto = PROTO_IEC104 -> one(BuffParse(t.bytes))

\* A meter's telegram comes in.  dlt645_asdu_send, m700_asdu_send, iec104_asdu_send
\* map the ids and write to startiec.
Hear(t) ==
  /\ sent < MaxTelegrams
  /\ LET as == Asdus(t)
     IN  up' = up \o [k \in DOMAIN as |-> [adr |-> t.adr, bytes |-> ToByte(MapIds(Map(t.proto), as[k]))]]
  /\ sent' = sent + 1
  /\ due' = [o \in Objects |-> IF o[1] = t.adr /\ o[2] \in DOMAIN t.means THEN t.means[o[2]] ELSE due[o]]
  /\ UNCHANGED <<down, line, seen, rec, vr, heap, lost>>

\* calloc'ed memory: what a hole has when the heap gave a fresh page.
ZeroUnit == [id |-> 0, name |-> NoName] @@ Object("NONE", 0, 0)

\* rcvdata of startiec for EP_USER_DATA.
Receive ==
  /\ up # <<>>
  /\ LET m == Head(up)
         units == m.bytes.units
         old(k, stale) == IF stale /\ k \in DOMAIN heap /\ heap[k].value_type = units[k].value_type
                          THEN heap[k] ELSE ZeroUnit
         step(acc, x) == AddVarevent(acc, x, m.adr)
     IN  /\ rec' = FoldLeft(LAMBDA r, x : LogRec(r, x, m.bytes.head.adr), rec, units)
         /\ vr' = FoldLeft(step, [vr |-> vr, events |-> <<>>], units).vr
         /\ \E stale \in BOOLEAN :
              LET buffer == Buffer(units, m.adr, [k \in DOMAIN units |-> old(k, stale)])
              IN  /\ heap' = buffer
                  /\ down' = down \o ToScada(m.bytes.head, buffer, Cardinality(Mapped(units, m.adr)))
         /\ lost' = IF Holed(units, m.adr) THEN lost \cup {"hole"} ELSE lost
  /\ up' = Tail(up)
  /\ UNCHANGED <<line, seen, sent, due>>

\* What apdu_frame_buff_build leaves for the centre of an ASDU of n bytes: the length
\* of the frame, in one byte, cuts it, and the rest is no frame.
MaxAsdu == 251
FrameData(b) == SubSeq(b, 1, ((Len(b) + 4) % 256) - 4)

\* iec104_asdu_recv and iec104_frame_i_send of the slave.
Forward ==
  /\ down # <<>>
  /\ LET b == Head(down).bytes
         built == BuffBuild(FromByte(b))
     IN  IF FromByteRefuses(b) \/ built.res # "SUCCESS" THEN UNCHANGED <<line, lost>>
         ELSE /\ line' = Append(line, FrameData(built.bytes))
              /\ lost' = IF Len(built.bytes) > MaxAsdu THEN lost \cup {"long"} ELSE lost
  /\ down' = Tail(down)
  /\ UNCHANGED <<up, seen, rec, vr, heap, sent, due>>

\* The control centre, which reads ASDUs as this program does.
Centre ==
  /\ line # <<>>
  /\ LET p == BuffParse(Head(line))
         new == IF p.res # "SUCCESS" THEN <<>>
                ELSE FoldLeft(LAMBDA s, x : (<<p.asdu.adr, x.id>> :> <<Number(x), x.time_tag>>) @@ s,
                              <<>>, p.asdu.data)
     IN  seen' = new @@ seen
  /\ line' = Tail(line)
  /\ UNCHANGED <<up, down, rec, vr, heap, sent, due, lost>>

HearAny == \E t \in Telegrams : Hear(t)

Done == sent = MaxTelegrams /\ up = <<>> /\ down = <<>> /\ line = <<>> /\ UNCHANGED vars

Next == HearAny \/ Receive \/ Forward \/ Centre \/ Done

Spec == Init /\ [][Next]_vars
-----------------------------------------------------------------------------
\* The objects the configuration really has: those whose number is the one of their
\* own line of mainmap.cfg and of no other type's object.  An object whose name is
\* part of the name in an earlier line gets that line's number, and of two types with
\* one object name only the first is ever found.
OwnNumber(name) == \E k \in DOMAIN MainMap : MainMap[k].name = name /\ MainMap[k].id = MapByName(name)
Configured(ln, d) ==
  /\ d.options # 0
  /\ OwnNumber(d.name)
  /\ LET entries == {k \in DOMAIN DataMap : DataMap[k].meterid = MapByName(d.name)}
     IN  DataMap[Least(entries)].lntype = ln.lntype

MeterObjects ==
  {<<LNodes[k], d>> : k \in {j \in DOMAIN LNodes : ~IsScada(LNodes[j].ldinst)},
                      d \in UNION {{LnTypes[i].dobjs[j] : j \in DOMAIN LnTypes[i].dobjs} : i \in DOMAIN LnTypes}}
TypeHas(ln, d) == \E i \in DOMAIN LnTypes : LnTypes[i].id = ln.lntype /\ \E j \in DOMAIN LnTypes[i].dobjs :
                                              LnTypes[i].dobjs[j] = d
ConfiguredObjects == {o \in MeterObjects : TypeHas(o[1], o[2]) /\ Configured(o[1], o[2])}

\* Where the centre looks for an object: the offset of its logical node, plus the
\* position given in the model.
CentreKeys(o) == {<<Scadas[k].ldinst, BaseOffset(o[1]) + o[2].options>> : k \in DOMAIN Scadas}

Quiet == up = <<>> /\ down = <<>> /\ line = <<>>

\* When everything that was sent has arrived, the centre has, for every object the
\* configuration maps, the value and the time its meter last gave, under the object's
\* own address; nothing on the way (two id maps, four codecs, the bytes of processes)
\* has changed it, put it elsewhere or kept an older one.  Unless a hole was sent, or
\* an ASDU longer than a frame.
CentreKnows ==
  Quiet /\ lost = {}
    => \A o \in ConfiguredObjects : \A key \in CentreKeys(o) :
         LET value == due[<<o[1].ldinst, o[2].name>>]
         IN  IF value = NoVal THEN key \notin DOMAIN seen
             ELSE key \in DOMAIN seen /\ seen[key] = <<value, Now>>

\* The centre is told nothing under an address that no configured object has: no data
\* of one meter under another's, no position counted wrong, no left-over memory.
NothingElse ==
  lost = {} => \A key \in DOMAIN seen : \E o \in ConfiguredObjects : key \in CentreKeys(o)

\* The objects with their own number: where the record has them, and their variables.
OwnPlaces == {k \in DOMAIN Dobjs : OwnNumber(Dobjs[k]) /\ DobjIdx(Dobjs[k]) = k}
OwnVars == {k \in DOMAIN VarRecs : OwnNumber(VarRecs[k].name)}

\* When startiec has read all its messages, the record the archive is written from and
\* the variables HMI reads have the last value of every object: also of those that
\* never reach the centre, because of a hole or of their length.
KeptAtHome ==
  up = <<>> => /\ \A k \in OwnPlaces : \A adr \in ScadaChs : rec[adr][k] = due[<<adr, Dobjs[k]>>]
               /\ \A k \in OwnVars : vr[k].val = due[<<VarRecs[k].asdu, VarRecs[k].name>>]

\* What the slave builds from an ASDU says the same as what the unitlink parsed: each
\* value, its attributes, its time, for every type of object, commands of the centre
\* included (both directions use the same table).  Two digits of a year are sent and
\* read as 20xx: a time before 2000, such as the 0 of a DL/T 645 event, is not kept.
CodecKeeps ==
  \A k \in DOMAIN up :
    LET a == FromByte(up[k].bytes)
        p == BuffParse(BuffBuild(a).bytes)
        kept(x) == Timed(a.type) /\ x.time_tag.year >= 100
        said(x, y) == <<Number(x), x.attr, IF kept(y) THEN <<x.time_tag, x.time_iv>> ELSE <<>>>>
    IN  /\ p.res = "SUCCESS"
        /\ p.asdu.type = a.type /\ p.asdu.fnc = a.fnc /\ p.asdu.adr = a.adr
        /\ DOMAIN p.asdu.data = DOMAIN a.data
        /\ \A j \in DOMAIN a.data : said(p.asdu.data[j], a.data[j]) = said(a.data[j], a.data[j])

=============================================================================
