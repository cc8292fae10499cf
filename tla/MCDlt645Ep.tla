----------------------------- MODULE MCDlt645Ep -----------------------------
(* Instances of Dlt645Ep for TLC.                                          *)
EXTENDS Dlt645Ep
=============================================================================
