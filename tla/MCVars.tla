------------------------------- MODULE MCVars -------------------------------
(***************************************************************************)
(* Two meters with the same two objects, a menu of actual values, one of   *)
(* journals with a menu of dates under it, as in src/menus.                *)
(***************************************************************************)
EXTENDS Vars

CONSTANTS c1, c2
MCCells == {c1, c2}
\* Where to stop: after a misread nothing is promised.
Promising == ~misread
Symm == Permutations(MCCells)

MCLnTypes == <<[id |-> "T", dobjs |-> <<[name |-> "Hz", options |-> 1, leaves |-> <<"mag.f">>],
                                        [name |-> "TotW", options |-> 2, leaves |-> <<"mag.f">>]>>]>>
MCLNodes == [k \in 1 .. 2 |-> [ldinst |-> k, lninst |-> k, mmxu |-> TRUE, lntype |-> "T"]]
MCMainMap == <<[id |-> 1, name |-> "Hz", holds |-> {"Hz"}], [id |-> 2, name |-> "TotW", holds |-> {"TotW"}]>>

Actual(do) == [do |-> do, leaf |-> "mag.f", logged |-> FALSE, max |-> 1]
Journal(do, n) == [do |-> do, leaf |-> "mag.f", logged |-> TRUE, max |-> n]
Menu(items, consts, into) == [items |-> items, consts |-> consts, into |-> into]
MCMenus ==
  [main |-> Menu(<<>>, TRUE, {"practual", "prarch"}),
   practual |-> Menu(<<Actual("Hz"), Actual("TotW")>>, TRUE, {}),
   prarch |-> Menu(<<Journal("Hz", 2)>>, TRUE, {"jourdate"}),
   jourdate |-> Menu(<<>>, FALSE, {})]

MCHeld(t) == t
MCSamples == {[adr |-> 1, name |-> n, value |-> <<7, 1>>] : n \in {"Hz", "TotW"}}
=============================================================================
