------------------------------ MODULE AsduMap ------------------------------
(***************************************************************************)
(* common/asdu.c: the ids a protocol uses against those of mainmap.cfg,    *)
(* and an ASDU as the bytes that go from process to process.               *)
(***************************************************************************)
EXTENDS Integers, Sequences, SequencesExt, TLC

\* What is written for an id no map knows: 0xFFFFFFFF and an empty name.
NoId == -1
NoName == ""

\* One line of asdu_map_read: sscanf finds at most two ids and a name.  A line that
\* ends before its name is given the name of the line before.  asdu_add_map_item
\* puts the item last.
MapLine(acc, line) ==
  IF line.comment \/ Len(line.ids) < 2 THEN acc
  ELSE LET name == IF line.name # NoName THEN line.name ELSE acc.name
       IN  [name |-> name,
            items |-> Append(acc.items, [proto_id |-> line.ids[1], base_id |-> line.ids[2], name |-> name])]

\* asdu_map_read
MapRead(lines) == FoldLeft(MapLine, [name |-> NoName, items |-> <<>>], lines).items

\* asdu_get_map_item by PROTO_ID: the first item that has the id.
ItemsOf(items, id) == {k \in DOMAIN items : items[k].proto_id = id}
GetMapItem(items, id) == items[CHOOSE k \in ItemsOf(items, id) : \A j \in ItemsOf(items, id) : k <= j]

\* asdu_map_ids
MapIds(items, a) ==
  LET mapped(x) == IF ItemsOf(items, x.id) = {}
                   THEN [id |-> NoId, name |-> NoName] @@ x
                   ELSE LET item == GetMapItem(items, x.id)
                        IN  [id |-> item.base_id, name |-> item.name] @@ x
  IN  [a EXCEPT !.data = [k \in DOMAIN a.data |-> mapped(a.data[k])]]

\* asdu_to_byte and asdu_from_byte: the units must be there, one at least.
ToByte(a) == [head |-> [a EXCEPT !.data = <<>>], units |-> SubSeq(a.data, 1, a.size)]
FromByteRefuses(b) == b.head.size = 0 \/ Len(b.units) < b.head.size
FromByte(b) == [b.head EXCEPT !.data = SubSeq(b.units, 1, b.head.size)]
=============================================================================
