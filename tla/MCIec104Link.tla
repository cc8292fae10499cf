---------------------------- MODULE MCIec104Link ----------------------------
(* Instances of Iec104Link for TLC.                                        *)
EXTENDS Iec104Link
=============================================================================
