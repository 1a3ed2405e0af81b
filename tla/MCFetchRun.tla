----------------------------- MODULE MCFetchRun -----------------------------
(* Instances of FetchRun for TLC.                                          *)
EXTENDS FetchRun

CONSTANTS h1

HostsHere  == {h1}
\* 443 is listed; 8000 and 9000 are custom ports.
PortsHere  == {443, 8000, 9000}
ListedHere == {443}
ZeroPort   == 0

FlagsHere == {{}, {"a"}, {"r"}, {"a", "r"}}
\* Nothing, a part of the remote file, and another, longer or empty.
FilesHere == {[exists |-> FALSE, data |-> <<>>, same |-> FALSE],
              [exists |-> TRUE, data |-> <<1>>, same |-> TRUE],
              [exists |-> TRUE, data |-> <<0>>, same |-> FALSE],
              [exists |-> TRUE, data |-> <<>>, same |-> FALSE]}
\* Three bytes: a pass may add one to a part and a later pass the last.
RemotesHere == {<<>>, <<1, 2, 3>>}
=============================================================================
