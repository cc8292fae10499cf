----------------------------- MODULE MCIec104Ep -----------------------------
(* Instances of Iec104Ep for TLC.                                          *)
EXTENDS Iec104Ep
=============================================================================
