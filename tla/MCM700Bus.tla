----------------------------- MODULE MCM700Bus -----------------------------
(* Instances of M700Bus for TLC.                                           *)
EXTENDS M700Bus

CONSTANTS l1, l2

\* One line for both meters, or one each.
MCWirings == {<<l1, l1>>, <<l1, l2>>}
MCCommands == <<2, 1>>
=============================================================================
