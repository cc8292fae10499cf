----------------------------- MODULE MCDataPath -----------------------------
(***************************************************************************)
(* A DL/T 645 meter 1, an M700 2, a meter 3 that speaks IEC 104, and the   *)
(* control centre 9.  Numbers and names are those of src/configs; D1 to    *)
(* D17 stand for a meter with many objects in a row.                       *)
(***************************************************************************)
EXTENDS DataPath

Dobj(name, options) == [name |-> name, options |-> options, leaves |-> <<"mag.f">>]
Many == <<"D01", "D02", "D03", "D04", "D05", "D06", "D07", "D08", "D09", "D10", "D11", "D12", "D13",
          "D14", "D15", "D16", "D17">>
MCLnTypes ==
  <<[id |-> "MMXU_1", dobjs |-> <<Dobj("TotVAr", 4), Dobj("TotVA", 5), Dobj("Hz", 3), Dobj("PhVphsA", 1),
                                  Dobj("PhVphsB", 0), [Dobj("PhVphsC", 2) EXCEPT !.leaves = <<"mag.f", "q">>]>>],
    [id |-> "MMXU_2", dobjs |-> <<Dobj("Hz", 1)>> \o [k \in DOMAIN Many |-> Dobj(Many[k], k + 1)]]>>

Node(ldinst, lninst, lntype) == [ldinst |-> ldinst, lninst |-> lninst, mmxu |-> TRUE, lntype |-> lntype]
MCLNodes == <<Node(1, 1, "MMXU_1"), Node(2, 2, "MMXU_1"), Node(3, 3, "MMXU_2"), Node(9, 100, "MMXU_1")>>

Line(id, name, holds) == [id |-> id, name |-> name, holds |-> holds \cup {name}]
MCMainMap ==
  <<Line(199, "TotVAr", {"TotVA"}), Line(203, "TotVA", {}), Line(208, "Hz", {}), Line(209, "PhVphsA", {}),
    Line(210, "PhVphsB", {}), Line(211, "PhVphsC", {})>>
  \o [k \in DOMAIN Many |-> Line(300 + k, Many[k], {})]

MapOf(ids, name) == [comment |-> FALSE, ids |-> ids, name |-> name]
Remark == [comment |-> TRUE, ids |-> <<>>, name |-> NoName]
MCProtoMaps ==
  (PROTO_DLT645 :> <<MapOf(<<<<0, 0, 4, 2>>, 199>>, "TotVAr"), MapOf(<<<<0, 0, 5, 2>>, 203>>, "TotVA"), Remark,
                     MapOf(<<<<2, 0, 128, 2>>, 208>>, "Hz"), MapOf(<<<<0, 1, 1, 2>>, 209>>, "PhVphsA"),
                     MapOf(<<<<0, 2, 1, 2>>, 210>>, "PhVphsB"), MapOf(<<<<0, 3, 1, 2>>, 211>>, "PhVphsC")>>)
  @@ (PROTO_M700 :> <<MapOf(<<45057, 209>>, "PhVphsA"), MapOf(<<45058, 211>>, "PhVphsC"), MapOf(<<45060, 208>>, "Hz")>>)
  @@ (PROTO_IEC104 :> <<MapOf(<<>>, NoName)>> \o [k \in DOMAIN Many |-> MapOf(<<100 + k, 300 + k>>, Many[k])])

MCNow == [sec |-> 7, min |-> 35, hour |-> 23, su |-> 1, mday |-> 31, wday |-> 0, mon |-> 11, year |-> 112]

Dlt(bytes, means) == [adr |-> 1, proto |-> PROTO_DLT645, cmd |-> 0, bytes |-> bytes, means |-> means]
M700(cmd, bytes, means) == [adr |-> 2, proto |-> PROTO_M700, cmd |-> cmd, bytes |-> bytes, means |-> means]
Iec(bytes, means) == [adr |-> 3, proto |-> PROTO_IEC104, cmd |-> 0, bytes |-> bytes, means |-> means]
F(n) == <<n, 1>>

\* MCNow in seven bytes, called invalid.
MCTime == <<88, 27, 163, 151, 255, 12, 12>>

\* One object of each other type with its bytes: single and double points, a step
\* position in transit, scaled values, totals, and what the centre may command.
Others == {<<1, <<129>>>>, <<3, <<18>>>>, <<5, <<133, 64>>>>, <<11, <<1, 2, 16>>>>, <<15, <<1, 2, 0, 0, 129>>>>,
           <<30, <<17>>>>, <<31, <<2>>>>, <<32, <<5, 0>>>>, <<37, <<0, 1, 0, 0, 3>>>>}
Commands == {<<45, <<129>>>>, <<46, <<2>>>>, <<47, <<1>>>>, <<48, <<9, 1, 128>>>>, <<50, Float(<<5, 0>>) \o <<0>>>>,
             <<101, <<69>>>>}
Command(bytes) == [adr |-> 9, proto |-> PROTO_IEC104, cmd |-> 0, bytes |-> bytes, means |-> <<>>]

MCTelegrams ==
  { \* PhVphsA = 230.5, then 228.1 and 1.0 for it and its neighbours in a block
    Dlt(<<0, 1, 1, 2, 5, 35>>, "PhVphsA" :> <<2305, 1>>),
    Dlt(<<0, 255, 1, 2, 129, 34, 16, 0, 7, 0>>,
        ("PhVphsA" :> <<2281, 1>>) @@ ("PhVphsB" :> <<10, 1>>) @@ ("PhVphsC" :> <<7, 1>>)),
    Dlt(<<0, 0, 4, 2, 86, 52, 18>>, "TotVAr" :> <<123456, 4>>),
    Dlt(<<0, 0, 5, 2, 1, 0, 0>>, "TotVA" :> <<1, 4>>),
    \* too short; then energy, an event, and the meter's own address, which nobody maps
    Dlt(<<2, 0, 128, 2, 0>>, <<>>),
    Dlt(<<0, 0, 1, 0, 1, 2, 3, 4>>, <<>>), Dlt(<<0, 13, 48, 3, 4, 0, 0>>, <<>>),
    Dlt(<<1, 4, 0, 4, 1, 2, 3, 4, 5, 6>>, <<>>),
    \* three voltages, of which two are mapped, and two whole numbers
    M700(176, <<44, 1, 44, 0, 9, 9, 50, 51>>, ("PhVphsA" :> <<300, 2>>) @@ ("PhVphsC" :> <<44, 2>>) @@ ("Hz" :> <<50, 0>>)),
    M700(176, <<0, 2, 1, 0, 9, 9>>, ("PhVphsA" :> <<512, 2>>) @@ ("PhVphsC" :> <<1, 2>>)),
    \* two floats with their times, one by one
    Iec(<<36, 2, 1, 0, 3, 0, 102, 0, 0>> \o Float(F(2)) \o <<0>> \o TimeBytes(MCNow, 0)
          \o <<101, 0, 0>> \o Float(F(1)) \o <<0>> \o TimeBytes(MCNow, 0),
        ("D02" :> F(2)) @@ ("D01" :> F(1))),
    \* three under one address, and seventeen
    Iec(<<36, 131, 1, 0, 3, 0, 101, 0, 0>>
          \o FlattenSeq([k \in 1 .. 3 |-> Float(F(k + 3)) \o <<0>> \o TimeBytes(MCNow, 0)]),
        [n \in {"D01", "D02", "D03"} |-> F(3 + (CHOOSE k \in 1 .. 3 : Many[k] = n))]),
    Iec(<<36, 145, 1, 0, 3, 0, 101, 0, 0>>
          \o FlattenSeq([k \in DOMAIN Many |-> Float(F(k)) \o <<0>> \o TimeBytes(MCNow, 0)]),
        [n \in {Many[k] : k \in DOMAIN Many} |-> F(CHOOSE k \in DOMAIN Many : Many[k] = n)]) }
  \cup {Iec(<<o[1], 1, 3, 0, 3, 0, 203, 0, 0>> \o o[2] \o (IF Timed(o[1]) THEN MCTime ELSE <<>>), <<>>)
         : o \in Others}
  \cup {Command(<<o[1], 1, 6, 0, 9, 0, 7, 0, 0>> \o o[2]) : o \in Commands}
=============================================================================
