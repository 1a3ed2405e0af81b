------------------------------ MODULE BpfFilter ------------------------------
(***************************************************************************)
(* The seccomp programs src.compat/capsicum.c assembles, and the classic   *)
(* BPF machine that runs them on every system call.                        *)
(*                                                                         *)
(* A program is a sequence of instructions; jump distances are the 8-bit   *)
(* fields of struct sock_filter, so every distance is taken modulo 256.    *)
(* System calls keep their x86-64 numbers: emit_fd_deny compares a         *)
(* register that sometimes holds an fd with a number that means a call,    *)
(* so which numbers coincide matters.                                      *)
(***************************************************************************)
EXTENDS Integers, Sequences, SequencesExt

\* Enforcement modes (capsicum.c, MODE_*).
MODE_FULL   == 0
MODE_CASPER == 1
MODE_PATHS  == 2
Modes       == {MODE_FULL, MODE_CASPER, MODE_PATHS}

-----------------------------------------------------------------------------
(* System call numbers, grouped as the code groups them.                   *)

SYS_open       == 2
SYS_openat     == 257
SYS_newfstatat == 262
SYS_statx      == 332
SYS_openat2    == 437
SYS_creat      == 85
SYS_ioctl      == 16
SYS_fcntl      == 72

\* The rights classes of a descriptor: LDENY_RD .. LDENY_MMAP.
Classes == {"RD", "WR", "SEEK", "TRUNC", "FSYNC", "SHUT", "MMAP"}

\* The calls a class stands for, in the order the code emits them.  The
\* fd is argument 4 of mmap and argument 0 of every other call.
ClassCalls ==
    [RD    |-> <<0, 19, 17, 295, 327>>,    \* read readv pread64 preadv preadv2
     WR    |-> <<1, 20, 18, 296, 328>>,    \* write writev pwrite64 pwritev pwritev2
     SEEK  |-> <<8>>,                      \* lseek
     TRUNC |-> <<77>>,                     \* ftruncate
     FSYNC |-> <<74, 75>>,                 \* fsync fdatasync
     SHUT  |-> <<48>>,                     \* shutdown
     MMAP  |-> <<9>>]                      \* mmap
FdArg(nr) == IF nr = 9 THEN 4 ELSE 0

\* The entries one fd contributes to a rights program: its denied classes in
\* the fixed order of flush_registered_limits and caph_rights_limit.
ClassEntries(fd, deny, c) ==
    IF c \in deny
      THEN [i \in 1..Len(ClassCalls[c]) |->
              [nr |-> ClassCalls[c][i], argn |-> FdArg(ClassCalls[c][i]), fd |-> fd]]
      ELSE << >>
FdEntries(fd, deny) ==
    ClassEntries(fd, deny, "RD") \o ClassEntries(fd, deny, "WR")
      \o ClassEntries(fd, deny, "SEEK") \o ClassEntries(fd, deny, "TRUNC")
      \o ClassEntries(fd, deny, "FSYNC") \o ClassEntries(fd, deny, "SHUT")
      \o ClassEntries(fd, deny, "MMAP")

\* link .. futimesat: denied except in path-scoped mode.
PathMutation ==
    <<86, 265, 88, 266, 82, 264, 316, 83, 258, 84, 87, 263, 133, 259, 80,
      161, 165, 166, 155, 430, 432, 431, 433, 429, 428, 442, 167, 168, 76,
      132, 235, 280, 261>>

\* access .. getcwd: denied in full mode only.
PathRead == <<21, 269, 439, 4, 6, 89, 267, 79>>

\* inotify_add_watch .. quotactl: denied in every mode.
AlwaysDenied ==
    <<254, 301, 303, 304, 59, 322, 41, 53, 42, 49, 50, 43, 288, 101, 310,
      311, 312, 246, 320, 175, 313, 176, 321, 298, 425, 308, 272, 163, 248,
      250, 249, 179>>

\* Open flags (asm-generic/fcntl.h); O_TMPFILE includes O_DIRECTORY.
O_RDONLY    == 0
O_WRONLY    == 1
O_RDWR      == 2
O_ACCMODE   == 3
O_CREAT     == 64
O_TRUNC     == 512
O_APPEND    == 1024
O_DIRECTORY == 65536
O_TMPFILE   == 4194304 + O_DIRECTORY

-----------------------------------------------------------------------------
(* The assembler: emit() and the E_* macros.                               *)

ALLOW == 0
EPERM == 1
KILL  == 2

Insn(op, k, jt, jf) ==
    [op |-> op, k |-> k, jt |-> jt % 256, jf |-> jf % 256]

LD_ARCH        == Insn("ldarch", 0, 0, 0)
LD_NR          == Insn("ldnr", 0, 0, 0)
LD_ARG(n)      == Insn("ldarg", n, 0, 0)
E_AND(v)       == Insn("and", v, 0, 0)
E_JEQ(v, t, f) == Insn("jeq", v, t, f)
RET_ALLOW      == Insn("ret", ALLOW, 0, 0)

\* Faulty: SECCOMP_RET_ERRNO with a data value no reader expects.
RET_ErrnoLost  == Insn("ret", 3, 0, 0)
RET_EPERM      == Insn("ret", EPERM, 0, 0)
RET_KILL       == Insn("ret", KILL, 0, 0)

emit_arch_guard == <<LD_ARCH, E_JEQ(1, 1, 0), RET_KILL>>

\* DENY(X) for every X of a sequence.
DenyEach(s) ==
    [i \in 1..(2 * Len(s)) |->
        IF i % 2 = 1 THEN E_JEQ(s[(i + 1) \div 2], 0, 1) ELSE RET_EPERM]

\* Faulty: the skip over the block is one short.
OpenflagsSkipShort(nr, argn) ==
    <<E_JEQ(nr, 0, 7),
      LD_ARG(argn), E_AND(O_ACCMODE), E_JEQ(O_RDONLY, 0, 3),
      LD_ARG(argn), E_AND(O_CREAT + O_TRUNC + O_APPEND + O_TMPFILE),
      E_JEQ(0, 1, 0), RET_EPERM, RET_ALLOW>>
emit_openflags_check(nr, argn) ==
    <<E_JEQ(nr, 0, 8),
      LD_ARG(argn), E_AND(O_ACCMODE), E_JEQ(O_RDONLY, 0, 3),
      LD_ARG(argn), E_AND(O_CREAT + O_TRUNC + O_APPEND + O_TMPFILE),
      E_JEQ(0, 1, 0), RET_EPERM, RET_ALLOW>>

emit_lookup_check(nr, lookup) ==
    LET n == Len(lookup) IN
    <<E_JEQ(nr, 0, n + 3), LD_ARG(0)>>
      \o [j \in 1..n |-> E_JEQ(lookup[j], n - (j - 1), 0)]
      \o <<RET_EPERM, RET_ALLOW>>

\* openat, newfstatat and statx in full mode.
LookupOrDeny(nr, lookup) ==
    IF Len(lookup) > 0 THEN emit_lookup_check(nr, lookup) ELSE DenyEach(<<nr>>)

install_namespace_filter(mode, lookup) ==
    emit_arch_guard \o <<LD_NR>>
      \o (CASE mode = MODE_CASPER ->
                 emit_openflags_check(SYS_open, 1)
                   \o emit_openflags_check(SYS_openat, 2)
            [] mode = MODE_FULL ->
                 DenyEach(<<SYS_open>>)
                   \o LookupOrDeny(SYS_openat, lookup)
                   \o LookupOrDeny(SYS_newfstatat, lookup)
                   \o LookupOrDeny(SYS_statx, lookup)
            [] mode = MODE_PATHS -> << >>)
      \o (IF mode # MODE_PATHS
            THEN DenyEach(<<SYS_openat2, SYS_creat>> \o PathMutation)
            ELSE << >>)
      \o (IF mode = MODE_FULL THEN DenyEach(PathRead) ELSE << >>)
      \o DenyEach(AlwaysDenied)
      \o <<RET_ALLOW>>

\* The three instructions of each entry; ents is a sequence of
\* [nr, argn, fd] (struct deny_ent) and Dist(e) the distance of entry e's
\* jump to the shared RET_EPERM.
DenyEntries(ents, Dist(_)) ==
    [i \in 1..(3 * Len(ents)) |->
        LET e == ((i - 1) \div 3) + 1 IN
        CASE i % 3 = 1 -> E_JEQ(ents[e].nr, 0, 2)
          [] i % 3 = 2 -> LD_ARG(ents[e].argn)
          [] i % 3 = 0 -> E_JEQ(ents[e].fd, Dist(e), 0)]

\* Faulty: the jump lands one short, or one past the end.
FdDenyShort(ents) ==
    DenyEntries(ents, LAMBDA e : 3 * (Len(ents) - (e - 1)) - 3)
      \o <<RET_ALLOW, RET_EPERM>>
FdDenyLong(ents) ==
    DenyEntries(ents, LAMBDA e : 3 * (Len(ents) - (e - 1)) - 1)
      \o <<RET_ALLOW, RET_EPERM>>
emit_fd_deny(ents) ==
    DenyEntries(ents, LAMBDA e : 3 * (Len(ents) - (e - 1)) - 2)
      \o <<RET_ALLOW, RET_EPERM>>

\* limit_fd_syscalls after the fds are filled in, and install_entry_chunk.
\* Faulty: the call number is not loaded.
EntryChunkNoNr(ents) == emit_arch_guard \o emit_fd_deny(ents)
install_entry_chunk(ents) == emit_arch_guard \o <<LD_NR>> \o emit_fd_deny(ents)

\* The per-fd blocks of install_arg1_limits from the k-th on; blocks is a
\* sequence of [fd, list], list the allowed values of argument 1.  A jump to the shared
\* RET_ALLOW crosses the rest of its own block, its RET_EPERM and every later
\* block: Cross(rest) counts the last two.
ArgBlocksFrom(blocks, Cross(_)) ==
    LET from[k \in 1..(Len(blocks) + 1)] ==
          IF k > Len(blocks)
            THEN << >>
            ELSE LET n    == Len(blocks[k].list)
                     rest == from[k + 1]
                 IN  <<LD_ARG(0), E_JEQ(blocks[k].fd, 0, n + 2), LD_ARG(1)>>
                       \o [j \in 1..n |->
                             E_JEQ(blocks[k].list[j], (n - j) + Cross(rest), 0)]
                       \o <<RET_EPERM>> \o rest
    IN  from

\* Faulty: the distance forgets the RET_EPERM of the block.
Arg1BlocksShort(blocks) == ArgBlocksFrom(blocks, LAMBDA rest : Len(rest))[1]
Arg1Blocks(blocks) == ArgBlocksFrom(blocks, LAMBDA rest : 1 + Len(rest))[1]

\* install_arg1_limits; with one block also the layout limit_fd_arg1 builds.
install_arg1_limits(nr, blocks) ==
    LET body == Arg1Blocks(blocks) IN
    emit_arch_guard \o <<LD_NR, E_JEQ(nr, 0, Len(body))>> \o body \o <<RET_ALLOW>>

\* The index allow_idx the code compares with its jump budget.
AllowIdx(nr, blocks) == Len(install_arg1_limits(nr, blocks)) - 1

-----------------------------------------------------------------------------
(* The kernel: which programs seccomp(2) accepts and what they answer.     *)

\* Every path stays inside the program and the last instruction returns.
Loadable(p) ==
    /\ Len(p) > 0
    /\ p[Len(p)].op = "ret"
    /\ \A i \in 1..Len(p) :
         p[i].op = "jeq" => /\ i + 1 + p[i].jt <= Len(p)
                            /\ i + 1 + p[i].jf <= Len(p)

\* Bitwise and of two naturals below 2^23, by the weights of the bits.
Both(a, b, w) == IF (a \div w) % 2 = 1 /\ (b \div w) % 2 = 1 THEN w ELSE 0
BitAnd(a, b) ==
    Both(a, b, 1) + Both(a, b, 2) + Both(a, b, 4) + Both(a, b, 8)
      + Both(a, b, 16) + Both(a, b, 32) + Both(a, b, 64) + Both(a, b, 128)
      + Both(a, b, 256) + Both(a, b, 512) + Both(a, b, 1024) + Both(a, b, 2048)
      + Both(a, b, 4096) + Both(a, b, 8192) + Both(a, b, 16384)
      + Both(a, b, 32768) + Both(a, b, 65536) + Both(a, b, 131072)
      + Both(a, b, 262144) + Both(a, b, 524288) + Both(a, b, 1048576)
      + Both(a, b, 2097152) + Both(a, b, 4194304)

\* The program counter and the register after instruction i, for call
\* d = [native, nr, args]; args is indexed from 0.
Step(i, d, pc, a) ==
    CASE i.op = "ldarch" -> <<pc + 1, IF d.native THEN 1 ELSE 0>>
      [] i.op = "ldnr"   -> <<pc + 1, d.nr>>
      [] i.op = "ldarg"  -> <<pc + 1, d.args[i.k]>>
      [] i.op = "and"    -> <<pc + 1, BitAnd(a, i.k)>>
      [] i.op = "jeq"    -> <<pc + 1 + (IF a = i.k THEN i.jt ELSE i.jf), a>>

\* The answer of program p to call d from each program counter and register
\* on, and from the start.
Exec(p, d) ==
    LET exec[s \in (1..Len(p)) \X Int] ==
          IF p[s[1]].op = "ret" THEN p[s[1]].k
                                ELSE exec[Step(p[s[1]], d, s[1], s[2])]
    IN  exec
Run(p, d) == Exec(p, d)[<<1, 0>>]
=============================================================================
