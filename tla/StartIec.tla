------------------------------ MODULE StartIec ------------------------------
(***************************************************************************)
(* iec61850/virtualize.c: what startiec makes of the IEC 61850 model and   *)
(* of the data that reach it.  Operators for DataPath and Vars.            *)
(*                                                                         *)
(* A data object is named in the model, in mainmap.cfg (its number) and in *)
(* the map of each protocol (what the meter calls it).                     *)
(***************************************************************************)
EXTENDS AsduMap, FiniteSetsExt

CONSTANTS
  LnTypes,   \* sequence of [id, dobjs]; a dobj is [name, options, leaves], options 0: none
  LNodes,    \* sequence of [ldinst, lninst, mmxu, lntype]
  MainMap    \* lines of mainmap.cfg: [id, name, holds], the object names its text holds

CHLENGTH == 400
SLAVE_START_INST == 100
MaxId == 508                     \* VIRT_ASDU_MAXSIZE - 4

Least(S) == CHOOSE k \in S : \A j \in S : k <= j

\* vc_get_map_by_name: the first line with the name somewhere in its text.
MapByName(name) ==
  LET found == {k \in DOMAIN MainMap : name \in MainMap[k].holds}
  IN  IF found = {} THEN 0 ELSE MainMap[Least(found)].id

\* asdu_parser: fdm, fscadach, fasdu and fscada.
DataMap ==
  LET mapped(d) == d.options # 0
      entry(t, d) == [name |-> d.name, scadaid |-> d.options, meterid |-> MapByName(d.name), lntype |-> t.id]
      entries(t) == LET ds == SelectSeq(t.dobjs, mapped)
                    IN  [k \in DOMAIN ds |-> entry(t, ds[k])]
  IN  FlattenSeq([k \in DOMAIN LnTypes |-> entries(LnTypes[k])])

ScadaChs == {LNodes[k].ldinst : k \in DOMAIN LNodes}
BaseOffset(ln) == ln.lninst * CHLENGTH
Scadas == LET slave(ln) == ln.lninst >= SLAVE_START_INST /\ ln.mmxu IN SelectSeq(LNodes, slave)
IsScada(adr) == \E k \in DOMAIN Scadas : Scadas[k].ldinst = adr

\* get_dobj_idx counts from 0 and gives -1 for a name the model has not; here the
\* objects count from 1 and 0 is the word before the array.
Dobjs == FlattenSeq([k \in DOMAIN LnTypes |-> [j \in DOMAIN LnTypes[k].dobjs |-> LnTypes[k].dobjs[j].name]])
DobjIdx(name) == LET named == {k \in DOMAIN Dobjs : Dobjs[k] = name}
                 IN  IF named = {} THEN 0 ELSE Least(named)

\* create_varctrl: a variable for each leaf of an object that has a number, all of
\* them with that number.
VarRecs ==
  LET typeOf(ln) == CHOOSE k \in DOMAIN LnTypes : LnTypes[k].id = ln.lntype
      numbered(d) == MapByName(d.name) # 0
      leaves(ln, d) == [k \in DOMAIN d.leaves |->
                          [asdu |-> ln.ldinst, id |-> MapByName(d.name), name |-> d.name, leaf |-> d.leaves[k]]]
      vars(ln) == LET ds == SelectSeq(LnTypes[typeOf(ln)].dobjs, numbered)
                  IN  FlattenSeq([k \in DOMAIN ds |-> leaves(ln, ds[k])])
  IN  FlattenSeq([k \in DOMAIN LNodes |-> vars(LNodes[k])])

NoUid == 0
NoVal == <<>>
\* Four bytes of a value, as a pair <<number, digits behind the point>>.
Number(x) == IF x.value_type = "FLT" THEN x.value ELSE <<x.value, 0>>
FirstVars == [k \in DOMAIN VarRecs |-> [val |-> NoVal, uid |-> NoUid, attaching |-> FALSE]]

\* The archive's copy that add_dataunit makes of a value.
LogRec(rec, x, adr) ==
  IF x.id \in 0 .. MaxId /\ x.name # NoName /\ adr \in ScadaChs
  THEN [rec EXCEPT ![adr][DobjIdx(x.name)] = Number(x)]
  ELSE rec

\* The rest of add_dataunit: the first entry with the unit's number, then the first
\* logical node of the meter with that entry's type.  <<>>: the unit is not copied.
Remap(x, adr) ==
  LET entries == {k \in DOMAIN DataMap : DataMap[k].meterid = x.id}
      entry == DataMap[Least(entries)]
      nodes == {k \in DOMAIN LNodes : LNodes[k].ldinst = adr /\ LNodes[k].lntype = entry.lntype}
  IN  IF x.id \notin 0 .. MaxId \/ entries = {} \/ nodes = {} THEN <<>>
      ELSE <<[x EXCEPT !.id = BaseOffset(LNodes[Least(nodes)]) + entry.scadaid]>>

\* The variables of a meter add_varevent looks at: the first of them and those that
\* follow without a gap.
RunOf(adr) ==
  LET of == {k \in DOMAIN VarRecs : VarRecs[k].asdu = adr}
  IN  {k \in of : \A j \in Least(of) .. k : j \in of}

\* add_varevent: the value goes into every variable with its number up to the first
\* that HMI has attached, which gives the event.
AddVarevent(acc, x, adr) ==
  LET hits == {k \in RunOf(adr) : VarRecs[k].id = x.id}
      attached == {k \in hits : acc.vr[k].attaching}
      written == IF attached = {} THEN hits ELSE {k \in hits : k <= Least(attached)}
  IN  [vr |-> [k \in DOMAIN VarRecs |-> IF k \in written THEN [acc.vr[k] EXCEPT !.val = Number(x)] ELSE acc.vr[k]],
       events |-> IF attached = {} THEN acc.events
                  ELSE Append(acc.events, [uid |-> acc.vr[Least(attached)].uid, value |-> Number(x)])]

\* Which units of a message are copied.  The others leave a hole in the buffer.
Mapped(units, adr) == {k \in DOMAIN units : Remap(units[k], adr) # <<>>}
Holed(units, adr) == \E k \in Mapped(units, adr) : k > Cardinality(Mapped(units, adr))

\* The buffer for the SCADA: malloc does not clear it, so that a hole has what was
\* there before.
Buffer(units, adr, before) ==
  [k \in DOMAIN units |-> IF k \in Mapped(units, adr) THEN Remap(units[k], adr)[1] ELSE before[k]]

\* Mutant: the buffer goes out as long as the message was.
ToScadaAll(head, buffer, cntdm) ==
  [k \in DOMAIN Scadas |->
     [adr |-> Scadas[k].ldinst,
      bytes |-> ToByte([head EXCEPT !.adr = Scadas[k].ldinst, !.size = Len(buffer), !.data = buffer])]]

\* send_asdu2scada: as many units as were copied, from the start of the buffer.
ToScada(head, buffer, cntdm) ==
  IF cntdm = 0 THEN <<>>
  ELSE [k \in DOMAIN Scadas |->
          [adr |-> Scadas[k].ldinst,
           bytes |-> ToByte([head EXCEPT !.adr = Scadas[k].ldinst, !.size = cntdm, !.data = buffer])]]
=============================================================================
