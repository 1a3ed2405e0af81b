--------------------------- MODULE MCTelnetRing ---------------------------
(* An instance of TelnetRing for TLC.                                      *)
EXTENDS TelnetRing

\* Replies that fit a part of the ring and one that takes all of it.
SubLensHere == {3, 8}
=============================================================================
