---------------------------- MODULE MCFilterCheck ----------------------------
(* Instances of FilterCheck for TLC.                                       *)
EXTENDS FilterCheck

\* Numbers that are also numbers of limited calls: 0 read, 1 write, 8 lseek,
\* 9 mmap; 3 is not one.
FdsHere == {0, 1, 3, 8, 9}

LookupsHere == {<< >>, <<3>>, <<0, 8>>, <<0, 1, 3, 8, 9, 10, 11, 12>>}

\* Read-only and write-only streams, an mmap-able input, and no rights.
DenialsHere == {Classes \ {"RD"}, Classes \ {"WR"},
                {"WR", "TRUNC", "FSYNC", "SHUT"}, Classes}

\* One limited fd, and several, with one registered fd before another, each
\* denied any of DenialsHere.
RegistriesHere ==
    UNION {{[i \in 1..Len(o) |-> [fd |-> o[i], deny |-> d[i]]] :
              d \in [1..Len(o) -> DenialsHere]} :
           o \in {<<0>>, <<3>>, <<9>>, <<0, 1>>, <<1, 0>>, <<3, 8, 1>>}}

\* Up to 96 commands: one list, full lists of 16, the 5 safe ioctls on as
\* many fds as cmd_idx holds, empty lists, and one past the jump budget.
ShapesHere == {<<1, 0>>, <<1, 16>>, <<3, 2>>, <<6, 16>>, <<19, 5>>,
               <<30, 0>>, <<32, 0>>, <<32, 3>>}

\* What tee(1) registers: every output limited to CAP_WRITE | CAP_FSTAT,
\* so the 5 safe ioctls on each of up to 32 descriptors.
TeeShapes == {<<n, 5>> : n \in 1..32}

FlagSetsHere == SUBSET OpenFlags

\* What caph_limit_stdio registers: stdin is limited to reading, stdout and
\* stderr to writing, in this order.
StdioFds      == {0, 1, 2}
StdioRegistry == {<<[fd |-> 0, deny |-> Classes \ {"RD"}],
                    [fd |-> 1, deny |-> Classes \ {"WR"}],
                    [fd |-> 2, deny |-> Classes \ {"WR"}]>>}

NoShapes     == {}
NoRegistries == {}
NoLookups    == {}
=============================================================================
