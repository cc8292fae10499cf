--------------------------- MODULE MCFrameStream ---------------------------
EXTENDS FrameStream

\* Frames with a start byte or a stop byte among their data, where there is room
\* for one.
MCFrames ==
  [apdu |-> {Apdu!IFrame(1, 13364, <<104, 4>>), Apdu!SFrame(2), Apdu!UFrame(4)},
   lpdu |-> {[type |-> "VAR", ctrl |-> Lpdu!Ctrl(83), adr |-> 7, data |-> <<104, 22>>],
             [type |-> "FIX", ctrl |-> Lpdu!Ctrl(32), adr |-> 104, data |-> <<>>],
             [type |-> "SC", sc |-> 229, data |-> <<0>>]},
   dlt |-> {[adr_hex |-> <<104, 1, 0, 0, 0, 0>>, adr |-> 0, ctrl |-> Dlt!Ctrl(145),
             data |-> <<53>>],
            [adr_hex |-> Dlt!NoAdr, adr |-> 1234, ctrl |-> Dlt!Ctrl(17), data |-> <<227, 0>>]},
   m700 |-> {[adr |-> 1, cmd |-> 48, data |-> <<104>>], [adr |-> 104, cmd |-> 13, data |-> <<>>]}]
MCNoise == {254, 104}
=============================================================================
