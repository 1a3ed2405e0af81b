--------------------------- MODULE MCFetchBroker ---------------------------
(* Instances of FetchBroker for TLC.                                       *)
EXTENDS FetchBroker

CONSTANTS h1, h2

HostsHere  == {h1, h2}
\* 443 is listed; 8000 and 9000 are custom ports.
PortsHere  == {443, 8000, 9000}
ListedHere == {443}
ZeroPort   == 0
=============================================================================
