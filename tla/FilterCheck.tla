----------------------------- MODULE FilterCheck -----------------------------
(***************************************************************************)
(* Every seccomp program the Capsicum shim can assemble, run on every      *)
(* system call of a small universe and compared with what the code's       *)
(* comments say the program decides.  A behaviour picks one program and    *)
(* makes one call under it.                                                *)
(***************************************************************************)
EXTENDS BpfFilter, FiniteSets

CONSTANTS
    Fds,         \* descriptor numbers calls are made on
    Lookups,     \* sequences of CAP_LOOKUP descriptors, as lookup_fds
    Registries,  \* sequences of [fd, deny], as fd_limits in registration order
    ArgShapes,   \* <<number of registered fds, commands allowed on each>>
    FlagSets     \* sets of open flags a call may pass

\* The array size of cmd_idx[] and the jump budget in install_arg1_limits,
\* the size of insns[] and of lookup_fds[], and the entries of one program.
CMD_IDX_SIZE  == 96
JUMP_BUDGET   == 200
BPF_PROG_SIZE == 512
LOOKUP_MAX    == 8
FLUSH_CHUNK   == 60

ASSUME CheckAssumption ==
    /\ Fds \subseteq Nat
    /\ \A l \in Lookups : l \in Seq(Nat) /\ Len(l) <= LOOKUP_MAX
    /\ Registries \subseteq Seq([fd : Nat, deny : SUBSET Classes])
    /\ ArgShapes \subseteq Nat \X Nat

\* The flags of open(2) the filters tell apart.
OpenFlags == {"WRONLY", "RDWR", "CREAT", "TRUNC", "APPEND", "TMPFILE", "DIRECTORY"}

\* The bits of a set of flags; O_TMPFILE already has the bit of O_DIRECTORY.
Flags(fs) ==
    LET Bits(f, v) == IF f \in fs THEN v ELSE 0 IN
    O_RDONLY + Bits("WRONLY", O_WRONLY) + Bits("RDWR", O_RDWR)
      + Bits("CREAT", O_CREAT) + Bits("TRUNC", O_TRUNC) + Bits("APPEND", O_APPEND)
      + Bits("TMPFILE", O_TMPFILE)
      + (IF "TMPFILE" \in fs THEN 0 ELSE Bits("DIRECTORY", O_DIRECTORY))

VARIABLES filter, call, verdict

vars == <<filter, call, verdict>>

-----------------------------------------------------------------------------
(* The programs, described by what they are assembled from.                *)

NamespaceFilters == [kind : {"ns"}, mode : Modes, lookup : Lookups]

FdFilters == [kind : {"fd"}, reg : Registries]
Ents(f) ==
    FlattenSeq([i \in 1..Len(f.reg) |-> FdEntries(f.reg[i].fd, f.reg[i].deny)])

\* n registered fds, each with the same number of allowed commands.
ArgFilters == [kind : {"arg1"}, shape : ArgShapes]
Blocks(f) ==
    [i \in 1..f.shape[1] |->
        [fd |-> i - 1, list |-> [j \in 1..f.shape[2] |-> 100 + j]]]
CmdCount(f) == f.shape[1] * f.shape[2]

\* An fd program is one chunk; CapsicumShim cuts longer lists of entries.
Filters ==
    NamespaceFilters \cup ArgFilters
      \cup {f \in FdFilters : Len(Ents(f)) \in 1..FLUSH_CHUNK}

Program(f) ==
    CASE f.kind = "ns"   -> install_namespace_filter(f.mode, f.lookup)
      [] f.kind = "fd"   -> install_entry_chunk(Ents(f))
      [] f.kind = "arg1" -> install_arg1_limits(SYS_ioctl, Blocks(f))

\* install_arg1_limits gives up with ENOSPC past its jump budget.
Refused(f) == f.kind = "arg1" /\ AllowIdx(SYS_ioctl, Blocks(f)) > JUMP_BUDGET

-----------------------------------------------------------------------------
(* The calls.  Unused arguments hold whatever the registers held, so       *)
(* argument 4 of a call with fewer arguments is any small number.          *)

Args(a0, a1, a2, a4) ==
    [n \in 0..4 |-> CASE n = 0 -> a0 [] n = 1 -> a1 [] n = 2 -> a2
                      [] n = 3 -> 0  [] n = 4 -> a4]
Call(nr, args) == [native |-> TRUE, nr |-> nr, args |-> args]

ClassNrs == UNION {Range(ClassCalls[c]) : c \in Classes}
NamespaceNrs ==
    {SYS_open, SYS_openat, SYS_newfstatat, SYS_statx, SYS_openat2, SYS_creat}
      \cup Range(PathMutation) \cup Range(PathRead) \cup Range(AlwaysDenied)
      \cup ClassNrs \cup {SYS_ioctl, SYS_fcntl}
NamespaceCalls ==
    {Call(nr, Args(fd, 0, 0, 0)) : nr \in NamespaceNrs, fd \in Fds}
      \cup {Call(SYS_open, Args(0, Flags(fs), 0, 0)) : fs \in FlagSets}
      \cup {Call(SYS_openat, Args(0, 0, Flags(fs), 0)) : fs \in FlagSets}

FdCalls ==
    {Call(nr, Args(fd, 0, 0, reg)) : nr \in ClassNrs, fd \in Fds, reg \in Fds}

ArgCalls(f) ==
    {Call(nr, Args(fd, cmd, 0, 0)) :
        nr \in {SYS_ioctl, SYS_fcntl}, fd \in 0..f.shape[1],
        cmd \in 100..(101 + f.shape[2])}

Foreign(c) == [c EXCEPT !.native = FALSE]
Calls(f) ==
    LET native == CASE f.kind = "ns"   -> NamespaceCalls
                    [] f.kind = "fd"   -> FdCalls
                    [] f.kind = "arg1" -> ArgCalls(f)
    IN  native \cup {Foreign(c) : c \in {Call(0, Args(0, 0, 0, 0))}}

-----------------------------------------------------------------------------
NoCall == Call(-1, Args(0, 0, 0, 0))

Init == /\ filter \in Filters
        /\ call = NoCall
        /\ verdict = ALLOW

\* One system call under the loaded program; a refused program never runs.
Syscall == /\ call = NoCall
           /\ ~Refused(filter)
           /\ \E c \in Calls(filter) :
                /\ call' = c
                /\ verdict' = Run(Program(filter), c)
           /\ UNCHANGED filter

Next == Syscall

Spec == Init /\ [][Next]_vars

-----------------------------------------------------------------------------
(* What the programs are meant to decide.                                  *)

Made == call # NoCall

\* A read-only open: no write access mode and no creating, truncating,
\* appending or temporary-file flag.  Opening a directory reads.
ReadOnlyFlags(fs) ==
    fs \cap {"WRONLY", "RDWR", "CREAT", "TRUNC", "APPEND", "TMPFILE"} = {}
OpenFlagsOf(d) == IF d.nr = SYS_open THEN d.args[1] ELSE d.args[2]

\* The calls each mode denies.
NamespaceDenied(mode, lookup, d) ==
    \/ d.nr \in Range(AlwaysDenied)
    \/ /\ mode # MODE_PATHS
       /\ d.nr \in {SYS_openat2, SYS_creat} \cup Range(PathMutation)
    \/ /\ mode = MODE_FULL
       /\ \/ d.nr \in {SYS_open} \cup Range(PathRead)
          \/ /\ d.nr \in {SYS_openat, SYS_newfstatat, SYS_statx}
             /\ d.args[0] \notin Range(lookup)
    \/ /\ mode = MODE_CASPER
       /\ d.nr \in {SYS_open, SYS_openat}
       /\ \E fs \in FlagSets : ~ReadOnlyFlags(fs) /\ Flags(fs) = OpenFlagsOf(d)

\* A read-only open of a directory with O_DIRECTORY, as opendir(3) makes it.
\* The mask of emit_openflags_check holds that bit with O_TMPFILE.
DirectoryOpen(d) ==
    /\ d.nr \in {SYS_open, SYS_openat}
    /\ \E fs \in FlagSets : /\ ReadOnlyFlags(fs) /\ "DIRECTORY" \in fs
                            /\ Flags(fs) = OpenFlagsOf(d)

(* The state types of this module.                                         *)
TypeOK == /\ filter \in Filters
          /\ call \in Calls(filter) \cup {NoCall}
          /\ verdict \in {ALLOW, EPERM, KILL}

(* install_namespace_filter answers EPERM to the calls its mode denies and *)
(* to no other: skipping one block never skips into another, a lookup fd   *)
(* opens only the *at calls, and read-only flags only matter in casper     *)
(* mode.  The one exception is named: what casper mode does to a read-only *)
(* open with O_DIRECTORY is CasperReadsAnything's question.  A call of a   *)
(* foreign architecture, whose numbers mean other calls, is killed before  *)
(* any number is looked at.                                                *)
NamespaceExact ==
    Made /\ filter.kind = "ns" =>
        /\ verdict = KILL <=> ~call.native
        /\ call.native =>
             LET denied == NamespaceDenied(filter.mode, filter.lookup, call) IN
             /\ denied => verdict = EPERM
             /\ verdict = EPERM /\ ~denied
                  => filter.mode = MODE_CASPER /\ DirectoryOpen(call)

(* install_arg1_limits (and limit_fd_arg1) answers EPERM to exactly the    *)
(* ioctls on a registered fd whose command is not on that fd's list,       *)
(* however many blocks the shared RET_ALLOW is away.                       *)
ArgLimitsExact ==
    Made /\ call.native /\ filter.kind = "arg1" =>
        (verdict = EPERM <=>
            /\ call.nr = SYS_ioctl
            /\ \E b \in Range(Blocks(filter)) :
                 b.fd = call.args[0] /\ call.args[1] \notin Range(b.list))

\* emit_fd_deny's comment: "denying nr when its fd argument equals the
\* entry's fd".
EntryDenies(ents, d) ==
    \E e \in Range(ents) : e.nr = d.nr /\ d.args[e.argn] = e.fd

(* A filter built for one fd (limit_fd_syscalls after entering, or a       *)
(* registry holding one fd) denies every call of every denied class on     *)
(* that fd, and denies nothing else, except that a call on the fd numbered *)
(* like mmap may be answered by the mmap entry's argument 4.               *)
OneFdRightsExact ==
    Made /\ call.native /\ filter.kind = "fd" /\ Len(filter.reg) = 1 =>
        LET e == Ents(filter) IN
        /\ EntryDenies(e, call) => verdict = EPERM
        /\ verdict = EPERM /\ call.args[0] # ClassCalls["MMAP"][1]
             => EntryDenies(e, call)

(* In a filter for several fds the first entry of a call number is always  *)
(* enforced: the register still holds the number when it is reached.       *)
FirstFdEnforced ==
    Made /\ call.native /\ filter.kind = "fd" =>
        LET e     == Ents(filter)
            ofNr  == {i \in DOMAIN e : e[i].nr = call.nr}
            first == CHOOSE i \in ofNr : \A j \in ofNr : i <= j
        IN  ofNr # {} /\ call.args[e[first].argn] = e[first].fd
              => verdict = EPERM

(* Every program that is not refused fits the 512 instructions of struct   *)
(* bpf_prog, so emit() does not abort, and passes the kernel's checker, so *)
(* seccomp_load never fails on a malformed jump.                           *)
ProgramsLoadable ==
    \/ Refused(filter)
    \/ LET p == Program(filter) IN Len(p) <= BPF_PROG_SIZE /\ Loadable(p)

(* The claim of the comment on the modes for caph_enter_casper: "read-only *)
(* opens of anything, no writes, no exec, no sockets".  Every open whose   *)
(* flags only read is let through.                                         *)
CasperReadsAnything ==
    /\ Made /\ call.native /\ filter.kind = "ns" /\ filter.mode = MODE_CASPER
    /\ call.nr \in {SYS_open, SYS_openat}
    /\ \E fs \in FlagSets : ReadOnlyFlags(fs) /\ Flags(fs) = OpenFlagsOf(call)
    => verdict = ALLOW

(* The claim of emit_fd_deny's comment for any number of fds: "A syscall   *)
(* matching no entry falls through to RET_ALLOW; an fd match jumps to the  *)
(* RET_EPERM at the end."                                                  *)
FdRightsExact ==
    Made /\ call.native /\ filter.kind = "fd" =>
        (verdict = EPERM <=> EntryDenies(Ents(filter), call))

(* install_arg1_limits stays inside cmd_idx[96] whenever it does not give  *)
(* up on the jump budget, which its comment says no real tool gets near.   *)
CmdIdxInBounds ==
    filter.kind = "arg1" /\ ~Refused(filter) => CmdCount(filter) <= CMD_IDX_SIZE
=============================================================================
