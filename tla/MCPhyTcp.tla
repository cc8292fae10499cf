----------------------------- MODULE MCPhyTcp -----------------------------
(* Instances of PhyTcp for TLC. *)
EXTENDS PhyTcp

Route(m, a, p) == [mode |-> m, addr |-> a, port |-> p]

\* Two routes: the centre before the meter, as in configs/lowlevel.cfg, or two meters.
MCTables == {<<Route("LISTEN", "a", 1), Route("CONNECT", "b", 1)>>,
             <<Route("CONNECT", "a", 1), Route("CONNECT", "b", 1)>>}
MCStrangers == {"x"}
===========================================================================
