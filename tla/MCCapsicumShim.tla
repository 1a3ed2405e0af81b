--------------------------- MODULE MCCapsicumShim ---------------------------
(* An instance of CapsicumShim for TLC with every table at a small size,   *)
(* so that each runs full.                                                 *)
EXTENDS CapsicumShim

CONSTANTS DirA, DirB

\* 0 and 1 are also the numbers of read and write.
FdsHere  == {0, 1, 3}
DirsHere == {DirA, DirB}


\* FIONREAD and TIOCGWINSZ stand for the safe ioctls, MTIOCTOP for the rest.
FIONREAD   == 21531
TIOCGWINSZ == 21523
MTIOCTOP   == 27905
IoctlsHere == {FIONREAD, TIOCGWINSZ, MTIOCTOP}
SafeHere   == {FIONREAD, TIOCGWINSZ}

\* The rights of an mmap-able input and of a directory to look up beneath;
\* the stream calls add read-only and write-only streams without ioctl.
RightsHere == {{"READ", "SEEK", "MMAP", "IOCTL", "FCNTL"},
               {"READ", "LOOKUP", "IOCTL"}}
ListsHere  == {<<MTIOCTOP, FIONREAD>>, <<FIONREAD, TIOCGWINSZ, MTIOCTOP>>}
\* stdin a directory, stdout a file, and one number still free.
TablesHere == {[fd \in FdsHere |->
                   CASE fd = 0 -> DirAt(DirA) [] fd = 1 -> File [] fd = 3 -> Closed]}
FcntlHere  == {{F_GETFL}}
=============================================================================
