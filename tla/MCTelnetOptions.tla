------------------------- MODULE MCTelnetOptions -------------------------
(* TelnetOptions for TLC.  SGA is accepted in both directions, LINEMODE in *)
(* one, and TM is the timing mark.                                         *)
EXTENDS TelnetOptions

OptionsHere == {"SGA", "TM", "LINEMODE"}
=============================================================================
