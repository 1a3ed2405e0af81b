-------------------------- MODULE FilterCheckProofs --------------------------
(***************************************************************************)
(* The properties of FilterCheck for every set of descriptors, lookup      *)
(* lists, registries of rights, command lists and open flags.  A   *)
(* behaviour makes at most one call, so the invariant only remembers that  *)
(* the verdict is the program's answer; what the program answers is read   *)
(* off BpfFilterProofs.                                                    *)
(***************************************************************************)
EXTENDS FilterCheck, BpfFilterProofs

-----------------------------------------------------------------------------
(* Calls.                                                                  *)

\* The arguments of a call.
LEMMA ArgsValues ==
    ASSUME NEW a0 \in Int, NEW a1 \in Int, NEW a2 \in Int, NEW a4 \in Int
    PROVE  LET a == Args(a0, a1, a2, a4) IN
           /\ a \in [0..4 -> Int]
           /\ a[0] = a0 /\ a[1] = a1 /\ a[2] = a2 /\ a[4] = a4
<1> DEFINE a == Args(a0, a1, a2, a4)
           V(n) == CASE n = 0 -> a0 [] n = 1 -> a1 [] n = 2 -> a2
                      [] n = 3 -> 0  [] n = 4 -> a4
<1>1. a = [n \in 0..4 |-> V(n)]
  BY DEF Args
<1>2. V(0) = a0 /\ V(1) = a1 /\ V(2) = a2 /\ V(4) = a4
  OBVIOUS
<1>3. \A n \in 0..4 : V(n) \in Int
  OBVIOUS
<1> HIDE DEF V
<1>4. 0 \in 0..4 /\ 1 \in 0..4 /\ 2 \in 0..4 /\ 4 \in 0..4
  OBVIOUS
<1> HIDE DEF a
<1>5. a \in [0..4 -> Int]
  BY <1>1, <1>3
<1>6. a[0] = a0 /\ a[1] = a1 /\ a[2] = a2 /\ a[4] = a4
  BY <1>1, <1>2, <1>4
<1> QED BY <1>5, <1>6 DEF a

\* The fields of a call.
LEMMA CallFields ==
    ASSUME NEW nr \in Int, NEW a \in [0..4 -> Int]
    PROVE  /\ Call(nr, a) \in SysCalls
           /\ Call(nr, a).native /\ Call(nr, a).nr = nr /\ Call(nr, a).args = a
BY DEF Call, SysCalls

\* The value of a flag set, bit by bit.
Bit(P) == IF P THEN 1 ELSE 0
Weighed(w, r, c, t, a, e, m) ==
    w + 2 * r + 64 * c + 512 * t + 1024 * a + 65536 * e + 4194304 * m

BitsOf(f, w, r, c, t, a, e, m) ==
    /\ f \in Nat
    /\ (f \div 1) % 2 = w /\ (f \div 2) % 2 = r /\ (f \div 64) % 2 = c /\ (f \div 512) % 2 = t
    /\ (f \div 1024) % 2 = a /\ (f \div 65536) % 2 = e /\ (f \div 4194304) % 2 = m

\* The bits of a sum of flags.
LEMMA WeighedBits ==
    ASSUME NEW w \in {0, 1}, NEW r \in {0, 1}, NEW c \in {0, 1}, NEW t \in {0, 1},
           NEW a \in {0, 1}, NEW e \in {0, 1}, NEW m \in {0, 1}
    PROVE  BitsOf(Weighed(w, r, c, t, a, e, m), w, r, c, t, a, e, m)
<1> DEFINE f == Weighed(w, r, c, t, a, e, m)
<1>1. f \in Nat
  BY DEF Weighed
<1>2. (f \div 1) % 2 = w
  BY DEF Weighed
<1>2a. (f \div 2) % 2 = r
  BY DEF Weighed
<1>3. (f \div 64) % 2 = c
  BY DEF Weighed
<1>4. (f \div 512) % 2 = t
  BY DEF Weighed
<1>5. (f \div 1024) % 2 = a
  BY DEF Weighed
<1>6. (f \div 65536) % 2 = e
  BY DEF Weighed
<1>7. (f \div 4194304) % 2 = m
  BY DEF Weighed
<1> HIDE DEF f
<1>8. BitsOf(f, w, r, c, t, a, e, m)
  BY <1>1, <1>2, <1>2a, <1>3, <1>4, <1>5, <1>6, <1>7 DEF BitsOf
<1> QED BY <1>8 DEF f

\* The flags of fcntl.h are such a sum.
LEMMA FlagsAre ==
    ASSUME NEW fs
    PROVE  Flags(fs) =
              Weighed(Bit("WRONLY" \in fs), Bit("RDWR" \in fs), Bit("CREAT" \in fs),
                      Bit("TRUNC" \in fs), Bit("APPEND" \in fs),
                      Bit("TMPFILE" \in fs \/ "DIRECTORY" \in fs),
                      Bit("TMPFILE" \in fs))
BY DEF Flags, Weighed, Bit, O_RDONLY, O_WRONLY, O_RDWR, O_CREAT, O_TRUNC, O_APPEND, O_TMPFILE,
       O_DIRECTORY

\* emit_openflags_check's two masks catch every writing flag of fcntl.h, and
\* O_DIRECTORY with them.
LEMMA FlagBits ==
    ASSUME NEW fs
    PROVE  /\ Flags(fs) \in Nat
           /\ ReadsOnly(Flags(fs)) <=> ReadOnlyFlags(fs) /\ "DIRECTORY" \notin fs
<1> DEFINE w == Bit("WRONLY" \in fs)
           r == Bit("RDWR" \in fs)
           c == Bit("CREAT" \in fs)
           t == Bit("TRUNC" \in fs)
           a == Bit("APPEND" \in fs)
           e == Bit("TMPFILE" \in fs \/ "DIRECTORY" \in fs)
           m == Bit("TMPFILE" \in fs)
           f == Flags(fs)
           plain == ReadOnlyFlags(fs) /\ "DIRECTORY" \notin fs
<1>1. /\ w \in {0, 1} /\ r \in {0, 1} /\ c \in {0, 1} /\ t \in {0, 1} /\ a \in {0, 1}
      /\ e \in {0, 1} /\ m \in {0, 1}
  BY DEF Bit
<1>2. f = Weighed(w, r, c, t, a, e, m)
  BY FlagsAre
<1>3. plain <=> w = 0 /\ r = 0 /\ c = 0 /\ t = 0 /\ a = 0 /\ e = 0
  BY DEF ReadOnlyFlags, Bit
<1>3a. plain => m = 0
  BY DEF ReadOnlyFlags, Bit
<1> HIDE DEF w, r, c, t, a, e, m, f, plain
<1>4. /\ f \in Nat
      /\ (f \div 1) % 2 = w /\ (f \div 2) % 2 = r /\ (f \div 64) % 2 = c /\ (f \div 512) % 2 = t
      /\ (f \div 1024) % 2 = a /\ (f \div 65536) % 2 = e /\ (f \div 4194304) % 2 = m
  <2>1. BitsOf(f, w, r, c, t, a, e, m)
    BY <1>1, <1>2, WeighedBits
  <2> QED BY <2>1 DEF BitsOf
<1>5. plain => f = 0
  BY <1>2, <1>3, <1>3a DEF Weighed
<1>6. O_ACCMODE \in Int /\ WriteFlags \in Int /\ O_ACCMODE = 3 /\ WriteFlags = 4261440
  BY DEF O_ACCMODE, WriteFlags, O_CREAT, O_TRUNC, O_APPEND, O_TMPFILE, O_DIRECTORY
<1>7. f = 0 => ReadsOnly(f)
  BY <1>4, <1>6, BitAndZero DEF ReadsOnly
<1>8. ReadsOnly(f) => plain
  <2> SUFFICES ASSUME ReadsOnly(f) PROVE plain
    OBVIOUS
  <2>1. /\ \A v \in {1, 2, 64, 512, 1024, 65536, 4194304} : Both(f, O_ACCMODE, v) = 0
        /\ \A v \in {1, 2, 64, 512, 1024, 65536, 4194304} : Both(f, WriteFlags, v) = 0
    BY <1>4, <1>6, BitAndZero DEF ReadsOnly
  <2>2. Both(f, 3, 1) = 0 /\ Both(f, 3, 2) = 0 /\ Both(f, 4261440, 64) = 0 /\ Both(f, 4261440, 512) = 0
        /\ Both(f, 4261440, 1024) = 0 /\ Both(f, 4261440, 65536) = 0
    BY <1>6, <2>1
  <2>3. (3 \div 1) % 2 = 1 /\ (3 \div 2) % 2 = 1 /\ (4261440 \div 64) % 2 = 1 /\ (4261440 \div 512) % 2 = 1
        /\ (4261440 \div 1024) % 2 = 1 /\ (4261440 \div 65536) % 2 = 1
    OBVIOUS
  <2>4. w # 1
    BY <1>4, <2>2, <2>3 DEF Both
  <2>4a. r # 1
    BY <1>4, <2>2, <2>3 DEF Both
  <2>5. c # 1
    BY <1>4, <2>2, <2>3 DEF Both
  <2>6. t # 1
    BY <1>4, <2>2, <2>3 DEF Both
  <2>7. a # 1
    BY <1>4, <2>2, <2>3 DEF Both
  <2>8. e # 1
    BY <1>4, <2>2, <2>3 DEF Both
  <2> QED BY <1>1, <1>3, <2>4, <2>4a, <2>5, <2>6, <2>7, <2>8
<1> QED BY <1>4, <1>5, <1>7, <1>8 DEF f, plain

\* Call numbers are integers.
LEMMA NumbersAreInts == NamespaceNrs \subseteq Int /\ ClassNrs \subseteq Int
<1>1. ASSUME NEW c \in Classes, NEW nr \in Range(ClassCalls[c]) PROVE nr \in Int
  BY <1>1, ClassesApart
<1>2. ClassNrs \subseteq Int
  BY <1>1 DEF ClassNrs
<1>3. /\ Range(PathMutation) \subseteq Int /\ Range(PathRead) \subseteq Int
      /\ Range(AlwaysDenied) \subseteq Int
  <2>1. \A q \in Seq(Int) : Range(q) \subseteq Int
    BY DEF Range
  <2> QED BY <2>1, CallLists
<1>4. {SYS_open, SYS_openat, SYS_newfstatat, SYS_statx, SYS_openat2, SYS_creat} \subseteq Int
  BY DEF SYS_open, SYS_openat, SYS_newfstatat, SYS_statx, SYS_openat2, SYS_creat
<1>5. {SYS_ioctl, SYS_fcntl} \subseteq Int
  BY DEF SYS_ioctl, SYS_fcntl
<1> QED BY <1>2, <1>3, <1>4, <1>5 DEF NamespaceNrs

\* A call made of integers is a system call with these fields.
Fields(d, nr, a0, a1, a2, a4) ==
    /\ d \in SysCalls /\ d.native /\ d.nr = nr
    /\ d.args[0] = a0 /\ d.args[1] = a1 /\ d.args[2] = a2 /\ d.args[4] = a4

\* A call and its arguments together.
LEMMA CallIs ==
    ASSUME NEW nr \in Int, NEW a0 \in Int, NEW a1 \in Int, NEW a2 \in Int, NEW a4 \in Int
    PROVE  Fields(Call(nr, Args(a0, a1, a2, a4)), nr, a0, a1, a2, a4)
<1> DEFINE a == Args(a0, a1, a2, a4)
<1>1. a \in [0..4 -> Int] /\ a[0] = a0 /\ a[1] = a1 /\ a[2] = a2 /\ a[4] = a4
  BY ArgsValues
<1> HIDE DEF a
<1>2. /\ Call(nr, a) \in SysCalls
      /\ Call(nr, a).native /\ Call(nr, a).nr = nr /\ Call(nr, a).args = a
  BY <1>1, CallFields
<1>3. Fields(Call(nr, a), nr, a0, a1, a2, a4)
  BY <1>1, <1>2 DEF Fields
<1> QED BY <1>3 DEF a

\* The flags an opening call passes are none or those of a flag set.
Opened(d) ==
    d.nr \in {SYS_open, SYS_openat} =>
        OpenFlagsOf(d) = 0 \/ \E fs \in FlagSets : OpenFlagsOf(d) = Flags(fs)

\* The calls made under a namespace program are system calls.
LEMMA NamespaceCallType ==
    ASSUME NEW d \in NamespaceCalls
    PROVE  d \in SysCalls /\ d.native /\ Opened(d)
<1>1. CASE d \in {Call(nr, Args(fd, 0, 0, 0)) : nr \in NamespaceNrs, fd \in Fds}
  <2>1. PICK nr \in NamespaceNrs, fd \in Fds : d = Call(nr, Args(fd, 0, 0, 0))
    BY <1>1
  <2>2. nr \in Int /\ fd \in Int /\ 0 \in Int
    BY NumbersAreInts, CheckAssumption
  <2>3. /\ d \in SysCalls /\ d.native /\ d.nr = nr
        /\ d.args[0] = fd /\ d.args[1] = 0 /\ d.args[2] = 0
    <3> DEFINE z == 0
    <3>1. z \in Int
      OBVIOUS
    <3> HIDE DEF z
    <3>2. Fields(Call(nr, Args(fd, z, z, z)), nr, fd, z, z, z)
      BY <2>2, <3>1, CallIs
    <3> QED BY <2>1, <3>2 DEF Fields, z
  <2> QED BY <2>3 DEF Opened, OpenFlagsOf
<1>2. CASE d \in {Call(SYS_open, Args(0, Flags(fs), 0, 0)) : fs \in FlagSets}
  <2>1. PICK fs \in FlagSets : d = Call(SYS_open, Args(0, Flags(fs), 0, 0))
    BY <1>2
  <2>2. Flags(fs) \in Int /\ SYS_open \in Int /\ 0 \in Int
    BY FlagBits DEF SYS_open
  <2>3. d \in SysCalls /\ d.native /\ d.nr = SYS_open /\ d.args[1] = Flags(fs)
    <3> DEFINE z == 0
    <3>1. z \in Int
      OBVIOUS
    <3> HIDE DEF z
    <3>2. Fields(Call(SYS_open, Args(z, Flags(fs), z, z)), SYS_open, z, Flags(fs), z, z)
      BY <2>2, <3>1, CallIs
    <3> QED BY <2>1, <3>2 DEF Fields, z
  <2> QED BY <2>3 DEF Opened, OpenFlagsOf
<1>3. CASE d \in {Call(SYS_openat, Args(0, 0, Flags(fs), 0)) : fs \in FlagSets}
  <2>1. PICK fs \in FlagSets : d = Call(SYS_openat, Args(0, 0, Flags(fs), 0))
    BY <1>3
  <2>2. Flags(fs) \in Int /\ SYS_openat \in Int /\ 0 \in Int
    BY FlagBits DEF SYS_openat
  <2>3. d \in SysCalls /\ d.native /\ d.nr = SYS_openat /\ d.args[2] = Flags(fs)
    <3> DEFINE z == 0
    <3>1. z \in Int
      OBVIOUS
    <3> HIDE DEF z
    <3>2. Fields(Call(SYS_openat, Args(z, z, Flags(fs), z)), SYS_openat, z, z, Flags(fs), z)
      BY <2>2, <3>1, CallIs
    <3> QED BY <2>1, <3>2 DEF Fields, z
  <2>4. d.nr # SYS_open
    BY <2>3 DEF SYS_open, SYS_openat
  <2> QED BY <2>3, <2>4 DEF Opened, OpenFlagsOf
<1> QED BY <1>1, <1>2, <1>3 DEF NamespaceCalls

\* So are those on an fd.
LEMMA FdCallType ==
    ASSUME NEW d \in FdCalls
    PROVE  d \in SysCalls /\ d.native
<1>1. PICK nr \in ClassNrs, fd \in Fds, reg \in Fds : d = Call(nr, Args(fd, 0, 0, reg))
  BY DEF FdCalls
<1>2. nr \in Int /\ fd \in Int /\ reg \in Int /\ 0 \in Int
  BY NumbersAreInts, CheckAssumption
<1> DEFINE z == 0
<1>5. z \in Int
  OBVIOUS
<1> HIDE DEF z
<1>6. Fields(Call(nr, Args(fd, z, z, reg)), nr, fd, z, z, reg)
  BY <1>2, <1>5, CallIs
<1> QED BY <1>1, <1>6 DEF Fields, z

\* So are those with a command.
LEMMA ArgCallType ==
    ASSUME NEW f \in ArgFilters, NEW d \in ArgCalls(f)
    PROVE  d \in SysCalls /\ d.native
<1>1. f.shape \in Nat \X Nat
  BY CheckAssumption DEF ArgFilters
<1>2. f.shape[1] \in Nat /\ f.shape[2] \in Nat
  BY <1>1
<1>3. PICK nr \in {SYS_ioctl, SYS_fcntl}, fd \in 0..f.shape[1],
           cmd \in 100..(101 + f.shape[2]) : d = Call(nr, Args(fd, cmd, 0, 0))
  BY DEF ArgCalls
<1>4. nr \in Int /\ fd \in Int /\ cmd \in Int /\ 0 \in Int
  BY <1>2 DEF SYS_ioctl, SYS_fcntl
<1> DEFINE z == 0
<1>5. z \in Int
  OBVIOUS
<1> HIDE DEF z
<1>6. Fields(Call(nr, Args(fd, cmd, z, z)), nr, fd, cmd, z, z)
  BY <1>4, <1>5, CallIs
<1> QED BY <1>3, <1>6 DEF Fields, z

\* So is one of another architecture.
LEMMA ForeignType ==
    LET d == Foreign(Call(0, Args(0, 0, 0, 0))) IN d \in SysCalls /\ ~d.native
<1> DEFINE a == Args(0, 0, 0, 0)
<1>1. a \in [0..4 -> Int] /\ 0 \in Int
  BY ArgsValues
<1> HIDE DEF a
<1>2. LET d == Foreign(Call(0, a)) IN d \in SysCalls /\ ~d.native
  BY <1>1 DEF Foreign, Call, SysCalls
<1> QED BY <1>2 DEF a

\* The three kinds of program.
LEMMA Kinds ==
    ASSUME NEW f \in Filters
    PROVE  \/ f.kind = "ns" /\ f \in NamespaceFilters
           \/ f.kind = "arg1" /\ f \in ArgFilters
           \/ f.kind = "fd" /\ f \in FdFilters /\ Len(Ents(f)) \in 1..FLUSH_CHUNK
<1>1. CASE f \in NamespaceFilters
  BY <1>1 DEF NamespaceFilters
<1>2. CASE f \in ArgFilters
  BY <1>2 DEF ArgFilters
<1>3. CASE f \in FdFilters /\ Len(Ents(f)) \in 1..FLUSH_CHUNK
  <2>1. f.kind = "fd"
    BY <1>3 DEF FdFilters
  <2> QED BY <1>3, <2>1
<1> QED BY <1>1, <1>2, <1>3 DEF Filters

\* The calls made under a program: native ones of its kind, and a foreign one.
LEMMA CallTypes ==
    ASSUME NEW f \in Filters, NEW d \in Calls(f)
    PROVE  /\ d \in SysCalls
           /\ f.kind = "ns" /\ d.native => d \in NamespaceCalls
           /\ f.kind = "fd" /\ d.native => d \in FdCalls
           /\ f.kind = "arg1" /\ d.native => d \in ArgCalls(f)
<1>1. CASE d = Foreign(Call(0, Args(0, 0, 0, 0)))
  BY <1>1, ForeignType
<1>2. CASE d # Foreign(Call(0, Args(0, 0, 0, 0)))
  <2>1. d \in CASE f.kind = "ns"   -> NamespaceCalls
                [] f.kind = "fd"   -> FdCalls
                [] f.kind = "arg1" -> ArgCalls(f)
    BY <1>2 DEF Calls
  <2>2. CASE f.kind = "ns"
    BY <2>1, <2>2, NamespaceCallType
  <2>3. CASE f.kind = "fd"
    BY <2>1, <2>3, FdCallType
  <2>4. CASE f.kind = "arg1" /\ f \in ArgFilters
    BY <2>1, <2>4, ArgCallType
  <2> QED BY <2>2, <2>3, <2>4, Kinds
<1> QED BY <1>1, <1>2

-----------------------------------------------------------------------------
(* What each kind of program answers.                                      *)

\* A program whose jumps stay inside is one the kernel loads.
LEMMA RunnableLoads ==
    ASSUME NEW p, Runnable(p) PROVE Loadable(p)
<1>1. p \in Seq(Instrs) /\ Len(p) \in 1..Len(p) /\ Len(p) \in Nat
  BY DEF Runnable, Fits
<1>2. p[Len(p)].op = "ret"
  BY <1>1 DEF Runnable, Fits
<1> QED BY <1>1, <1>2 DEF Runnable, Fits, Loadable

\* The reference definition of a mode is what its program refuses, the opens
\* of directories apart.
LEMMA RefusesIsDenied ==
    ASSUME NEW mode \in Modes, NEW lookup, NEW d \in SysCalls, Opened(d)
    PROVE  NamespaceRefuses(mode, lookup, d) <=>
              \/ NamespaceDenied(mode, lookup, d)
              \/ mode = MODE_CASPER /\ DirectoryOpen(d)
<1> DEFINE x == OpenFlagsOf(d)
<1>1. d.nr \in {SYS_open, SYS_openat} =>
        (~ReadsOnly(x) <=>
           \/ \E fs \in FlagSets : ~ReadOnlyFlags(fs) /\ Flags(fs) = x
           \/ \E fs \in FlagSets : /\ ReadOnlyFlags(fs) /\ "DIRECTORY" \in fs
                                  /\ Flags(fs) = x)
  <2> SUFFICES ASSUME d.nr \in {SYS_open, SYS_openat}
               PROVE  ~ReadsOnly(x) <=>
                  \/ \E fs \in FlagSets : ~ReadOnlyFlags(fs) /\ Flags(fs) = x
                  \/ \E fs \in FlagSets : /\ ReadOnlyFlags(fs) /\ "DIRECTORY" \in fs
                                         /\ Flags(fs) = x
    OBVIOUS
  <2>1. x = 0 \/ \E fs \in FlagSets : x = Flags(fs)
    BY DEF Opened
  <2>2. ReadsOnly(0)
    BY BitAndZero DEF ReadsOnly, O_ACCMODE, WriteFlags, O_CREAT, O_TRUNC, O_APPEND,
       O_TMPFILE, O_DIRECTORY
  <2> HIDE DEF x
  <2> QED BY <2>1, <2>2, FlagBits
<1>2. x = IF d.nr = SYS_open THEN d.args[1] ELSE d.args[2]
  BY DEF OpenFlagsOf
<1>3. SYS_open # SYS_openat
  BY DEF SYS_open, SYS_openat
<1> HIDE DEF x
<1>4. (\/ d.nr = SYS_open /\ ~ReadsOnly(d.args[1])
       \/ d.nr = SYS_openat /\ ~ReadsOnly(d.args[2]))
        <=> d.nr \in {SYS_open, SYS_openat} /\ ~ReadsOnly(x)
  BY <1>2, <1>3
<1>5. Range(Mutating) = {SYS_openat2, SYS_creat} \cup Range(PathMutation)
  BY MutatingShape
<1> QED BY <1>1, <1>4, <1>5
        DEF NamespaceRefuses, NamespaceDenied, DirectoryOpen, Listed, OpenRefused, x

\* What the namespace program answers.
LEMMA NamespaceDecides ==
    ASSUME NEW f \in NamespaceFilters, NEW d \in SysCalls, d.native => Opened(d)
    PROVE  LET p == Program(f) IN
           /\ Runnable(p) /\ Len(p) <= BPF_PROG_SIZE
           /\ ~d.native => Run(p, d) = KILL
           /\ d.native /\ NamespaceDenied(f.mode, f.lookup, d) => Run(p, d) = EPERM
           /\ d.native /\ f.mode = MODE_CASPER /\ DirectoryOpen(d) => Run(p, d) = EPERM
           /\ \/ Run(p, d) = ALLOW
              \/ ~d.native
              \/ NamespaceDenied(f.mode, f.lookup, d)
              \/ f.mode = MODE_CASPER /\ DirectoryOpen(d)
<1> DEFINE p == Program(f)
           l == f.lookup
           n == Len(l)
<1>1. p = install_namespace_filter(f.mode, f.lookup) /\ f.mode \in Modes
  BY DEF Program, NamespaceFilters
<1>2. l \in Seq(Nat) /\ n <= LOOKUP_MAX
  BY CheckAssumption DEF NamespaceFilters
<1> HIDE DEF l
<1>3. l \in Seq(Int) /\ n \in Nat
  BY <1>2
<1> HIDE DEF n, p
<1>4. n + 3 < 256 /\ 3 * n + 173 <= BPF_PROG_SIZE
  BY <1>2, <1>3 DEF LOOKUP_MAX, BPF_PROG_SIZE
<1>5. /\ Runnable(p) /\ Len(p) <= 3 * n + 173
      /\ ~d.native => Run(p, d) = KILL
      /\ d.native => Run(p, d) = IF NamespaceRefuses(f.mode, l, d) THEN EPERM ELSE ALLOW
  BY <1>1, <1>3, <1>4, NamespaceAnswer DEF n, l
<1>6. d.native => (NamespaceRefuses(f.mode, l, d) <=>
                     \/ NamespaceDenied(f.mode, l, d)
                     \/ f.mode = MODE_CASPER /\ DirectoryOpen(d))
  BY <1>1, RefusesIsDenied
<1>7. Len(p) <= BPF_PROG_SIZE
  <2>1. Len(p) \in Nat /\ BPF_PROG_SIZE \in Nat
    BY <1>5 DEF Runnable, Fits, BPF_PROG_SIZE
  <2> QED BY <1>3, <1>4, <1>5, <2>1
<1> QED BY <1>5, <1>6, <1>7 DEF p, l

\* The blocks of an allowlist program.
LEMMA BlocksType ==
    ASSUME NEW f \in ArgFilters
    PROVE  /\ Blocks(f) \in Seq(ArgBlks) /\ Distinct(Blocks(f))
<1> DEFINE n == f.shape[1]
           m == f.shape[2]
           list == [j \in 1..m |-> 100 + j]
           b == [i \in 1..n |-> [fd |-> i - 1, list |-> list]]
<1>1. n \in Nat /\ m \in Nat
  <2>1. f.shape \in Nat \X Nat
    BY CheckAssumption DEF ArgFilters
  <2> QED BY <2>1
<1>2. list \in Seq(Int)
  <2> HIDE DEF m
  <2> QED BY <1>1
<1>3. Blocks(f) = b
  BY DEF Blocks
<1> HIDE DEF n, list
<1>4. b \in Seq(ArgBlks) /\ Len(b) = n
  <2>1. \A i \in 1..n : [fd |-> i - 1, list |-> list] \in ArgBlks
    BY <1>1, <1>2 DEF ArgBlks
  <2> QED BY <1>1, <2>1
<1>5. Distinct(b)
  <2>1. ASSUME NEW i \in 1..n, NEW j \in 1..n, b[i].fd = b[j].fd PROVE i = j
    <3>1. b[i].fd = i - 1 /\ b[j].fd = j - 1
      OBVIOUS
    <3> QED BY <1>1, <2>1, <3>1
  <2> HIDE DEF b
  <2> QED BY <1>4, <2>1 DEF Distinct
<1> QED BY <1>3, <1>4, <1>5

\* What the allowlist program answers.
LEMMA ArgDecides ==
    ASSUME NEW f \in ArgFilters, ~Refused(f), NEW d \in SysCalls
    PROVE  LET p == Program(f)
               all == \A i \in 1..Len(Blocks(f)) : Grants(Blocks(f)[i], d)
           IN  /\ Runnable(p) /\ Len(p) <= BPF_PROG_SIZE
               /\ ~d.native => Run(p, d) = KILL
               /\ d.native /\ (d.nr # SYS_ioctl \/ all) => Run(p, d) = ALLOW
               /\ d.native /\ ~(d.nr # SYS_ioctl \/ all) => Run(p, d) = EPERM
<1> DEFINE b == Blocks(f)
           nr == SYS_ioctl
           p == install_arg1_limits(nr, b)
           l == Len(Arg1Blocks(b))
<1>1. f.kind = "arg1" /\ Program(f) = p
  BY DEF Program, ArgFilters
<1>2. b \in Seq(ArgBlks) /\ Distinct(b)
  BY BlocksType
<1>3. ~(Len(p) - 1 > JUMP_BUDGET)
  BY <1>1 DEF Refused, AllowIdx
<1> HIDE DEF b
<1>4. nr \in Int
  BY DEF SYS_ioctl
<1> HIDE DEF nr
<1>5. l \in Nat /\ Len(p) = l + 6
  BY <1>2, <1>4, ArgLength
<1> HIDE DEF p, l
<1>6. l < 256 /\ Len(p) <= BPF_PROG_SIZE
  BY <1>3, <1>5 DEF JUMP_BUDGET, BPF_PROG_SIZE
<1> DEFINE all == \A i \in 1..Len(b) : Grants(b[i], d)
<1>7. /\ Runnable(p)
      /\ ~d.native => Run(p, d) = KILL
      /\ d.native /\ (d.nr # nr \/ all) => Run(p, d) = ALLOW
      /\ d.native /\ ~(d.nr # nr \/ all) => Run(p, d) = EPERM
  BY <1>2, <1>4, <1>6, ArgAnswer DEF p, l
<1> QED BY <1>1, <1>6, <1>7 DEF b, nr

\* The entries of a rights program.
LEMMA EntsChunk ==
    ASSUME NEW f \in FdFilters, Len(Ents(f)) \in 1..FLUSH_CHUNK
    PROVE  /\ Chunk(Ents(f))
           /\ Len(f.reg) = 1 => Single(Ents(f), f.reg[1].fd)
<1> DEFINE o == f.reg
           s == [i \in 1..Len(o) |-> FdEntries(o[i].fd, o[i].deny)]
<1>1. o \in Seq([fd : Nat, deny : SUBSET Classes])
  BY CheckAssumption DEF FdFilters
<1>2. Ents(f) = FlattenSeq(s)
  BY DEF Ents
<1> HIDE DEF o
<1>3. ASSUME NEW i \in 1..Len(o)
      PROVE  /\ Built(FdEntries(o[i].fd, o[i].deny), o[i].fd, o[i].deny, Classes)
             /\ \A k \in 1..Len(FdEntries(o[i].fd, o[i].deny)) :
                  FdEntries(o[i].fd, o[i].deny)[k].nr = 9
                    => k = Len(FdEntries(o[i].fd, o[i].deny))
  <2>1. o[i].fd \in Int
    <3> DEFINE S == [fd : Nat, deny : SUBSET Classes]
    <3>1. o[i] \in S
      <4>1. o \in Seq(S)
        BY <1>1
      <4> HIDE DEF S, s
      <4> QED BY <4>1
    <3> QED BY <3>1
  <2> QED BY <2>1, FdEntriesBuilt
<1>4. s \in Seq(Seq(DenyEnts)) /\ Len(s) = Len(o)
  <2>1. \A i \in 1..Len(o) : FdEntries(o[i].fd, o[i].deny) \in Seq(DenyEnts)
    BY <1>3 DEF Built
  <2> QED BY <1>1, <2>1
<1> HIDE DEF s
<1> DEFINE e == Ents(f)
<1>5. e \in Seq(DenyEnts)
  BY <1>2, <1>4, FlattenOrigin
<1> HIDE DEF e
<1>6. Chunk(e)
  <2>1. Len(e) \in Nat /\ Len(e) <= 60
    <3> DEFINE n == Len(e)
    <3>1. n \in 1..FLUSH_CHUNK
      BY DEF e
    <3> HIDE DEF n
    <3>2. n \in Nat /\ n <= 60
      BY <3>1 DEF FLUSH_CHUNK
    <3> QED BY <3>2 DEF n
  <2> QED BY <1>5, <2>1 DEF Chunk
<1>7. ASSUME Len(o) = 1 PROVE Single(e, o[1].fd)
  <2> DEFINE t == FdEntries(o[1].fd, o[1].deny)
  <2>1. Len(s) > 0 /\ Len(s) = 1 /\ 1 \in 1..Len(o)
    BY <1>4, <1>7
  <2>2. FlattenSeq(s) = FlattenUpTo(s)[Len(s)] /\ FlattenUpTo(s)[1] = s[1]
    BY <1>4, <2>1, FlattenDefined
  <2>3. e = t
    BY <1>2, <2>1, <2>2 DEF s, e
  <2>4. /\ Built(t, o[1].fd, o[1].deny, Classes)
        /\ \A k \in 1..Len(t) : t[k].nr = 9 => k = Len(t)
    BY <1>3, <2>1
  <2> HIDE DEF t
  <2>5. ASSUME NEW k \in 1..Len(t) PROVE t[k].fd = o[1].fd /\ t[k].argn = FdArg(t[k].nr)
    <3>1. PICK nr : t[k] = EntryOf(o[1].fd, nr)
      BY <2>4 DEF Built
    <3> QED BY <3>1 DEF EntryOf
  <2> QED BY <2>3, <2>4, <2>5 DEF Single
<1> QED BY <1>6, <1>7 DEF e, o

\* What the rights program answers.
LEMMA FdDecides ==
    ASSUME NEW f \in FdFilters, Len(Ents(f)) \in 1..FLUSH_CHUNK, NEW d \in SysCalls
    PROVE  LET p == Program(f)
               e == Ents(f)
           IN  /\ p = install_entry_chunk(e) /\ Chunk(e)
               /\ Runnable(p) /\ Len(p) <= BPF_PROG_SIZE
               /\ ~d.native => Run(p, d) = KILL
               /\ Run(p, d) \in {ALLOW, EPERM, KILL}
<1> DEFINE p == Program(f)
           e == Ents(f)
           n == Len(e)
<1>1. f.kind = "fd"
  BY DEF FdFilters
<1>2. p = install_entry_chunk(e)
  BY <1>1 DEF Program
<1>3. Chunk(e) /\ n \in 1..FLUSH_CHUNK
  BY EntsChunk
<1> HIDE DEF p, e
<1>4. /\ Runnable(p) /\ Len(p) = 3 * n + 6
      /\ ~d.native => Run(p, d) = KILL
  BY <1>2, <1>3, DoEnds
<1>5. Run(p, d) \in {ALLOW, EPERM, KILL}
  BY <1>2, <1>3, ChunkAnswers
<1>6. Len(p) <= BPF_PROG_SIZE
  <2> HIDE DEF n
  <2> QED BY <1>3, <1>4 DEF FLUSH_CHUNK, BPF_PROG_SIZE
<1> QED BY <1>2, <1>3, <1>4, <1>5, <1>6 DEF p, e

\* The first entry of a call number, as FirstFdEnforced picks it.
LEMMA FirstIsLeast ==
    ASSUME NEW S \in SUBSET Nat, S # {}
    PROVE  LET i == CHOOSE j \in S : \A k \in S : j <= k
           IN  i \in S /\ \A k \in S : i <= k
<1>1. \E i \in S : \A k \in S : i <= k
  BY LeastExists
<1> QED BY <1>1

-----------------------------------------------------------------------------
(* The verdict is the program's answer.                                    *)

Answered ==
    Made => /\ call \in Calls(filter) /\ ~Refused(filter)
            /\ verdict = Run(Program(filter), call)
CheckInv == TypeOK /\ Answered

\* Every answer is one of the three.
LEMMA AnswerTypes ==
    ASSUME NEW f \in Filters, ~Refused(f), NEW d \in Calls(f)
    PROVE  /\ Run(Program(f), d) \in {ALLOW, EPERM, KILL}
           /\ d \in SysCalls
           /\ ~d.native => Run(Program(f), d) = KILL
<1>1. /\ d \in SysCalls
      /\ f.kind = "ns" /\ d.native => d \in NamespaceCalls
  BY CallTypes
<1>2. CASE f.kind = "ns" /\ f \in NamespaceFilters
  <2>1. d.native => Opened(d)
    BY <1>1, <1>2, NamespaceCallType
  <2> QED BY <1>1, <1>2, <2>1, NamespaceDecides
<1>3. CASE f.kind = "arg1" /\ f \in ArgFilters
  BY <1>1, <1>3, ArgDecides
<1>4. CASE f \in FdFilters /\ Len(Ents(f)) \in 1..FLUSH_CHUNK
  BY <1>1, <1>4, FdDecides
<1> QED BY <1>2, <1>3, <1>4, Kinds

\* Nothing has been answered at first.
LEMMA CheckInit == Init => CheckInv
BY DEF Init, CheckInv, TypeOK, Answered, Made

\* Each run records the answer of its program.
LEMMA CheckNext == CheckInv /\ [Next]_vars => CheckInv'
<1> SUFFICES ASSUME CheckInv, [Next]_vars PROVE CheckInv'
  OBVIOUS
<1>1. CASE UNCHANGED vars
  BY <1>1 DEF vars, CheckInv, TypeOK, Answered, Made
<1>2. CASE Syscall
  <2>1. filter \in Filters /\ filter' = filter /\ ~Refused(filter)
    BY <1>2 DEF Syscall, CheckInv, TypeOK
  <2>2. PICK c \in Calls(filter) : call' = c /\ verdict' = Run(Program(filter), c)
    BY <1>2 DEF Syscall
  <2>3. verdict' \in {ALLOW, EPERM, KILL}
    BY <2>1, <2>2, AnswerTypes
  <2> QED BY <2>1, <2>2, <2>3 DEF CheckInv, TypeOK, Answered, Made
<1> QED BY <1>1, <1>2 DEF Next

\* What the recorded answer says.
LEMMA CheckHolds == CheckInv => /\ NamespaceExact /\ ArgLimitsExact /\ OneFdRightsExact
                                /\ FirstFdEnforced /\ ProgramsLoadable
<1> SUFFICES ASSUME CheckInv
             PROVE  /\ NamespaceExact /\ ArgLimitsExact /\ OneFdRightsExact
                    /\ FirstFdEnforced /\ ProgramsLoadable
  OBVIOUS
<1> DEFINE d == call
           p == Program(filter)
<1>1. filter \in Filters /\ (Made => d \in Calls(filter) /\ ~Refused(filter) /\ verdict = Run(p, d))
  BY DEF CheckInv, TypeOK, Answered
<1>2. ALLOW # EPERM /\ EPERM # KILL /\ ALLOW # KILL
  BY DEF ALLOW, EPERM, KILL
<1>3. Made => d \in SysCalls /\ (~d.native => verdict = KILL)
  BY <1>1, AnswerTypes
<1>4. NamespaceExact
  <2> DEFINE denied == NamespaceDenied(filter.mode, filter.lookup, d)
  <2> SUFFICES ASSUME Made, filter.kind = "ns"
               PROVE  /\ verdict = KILL <=> ~d.native
                      /\ d.native => (denied => verdict = EPERM)
                      /\ d.native /\ verdict = EPERM /\ ~denied
                           => filter.mode = MODE_CASPER /\ DirectoryOpen(d)
    BY DEF NamespaceExact
  <2>1. filter \in NamespaceFilters
    BY <1>1, Kinds
  <2>2. d.native => Opened(d)
    BY <1>1, CallTypes, NamespaceCallType
  <2>3. /\ d.native /\ denied => verdict = EPERM
        /\ \/ verdict = ALLOW
           \/ ~d.native
           \/ denied
           \/ filter.mode = MODE_CASPER /\ DirectoryOpen(d)
        /\ verdict \in {ALLOW, EPERM} \/ ~d.native
    <3> HIDE DEF p
    <3> QED BY <1>1, <1>3, <2>1, <2>2, NamespaceDecides DEF p
  <2> QED BY <1>2, <1>3, <2>3
<1>5. ArgLimitsExact
  <2> SUFFICES ASSUME Made, d.native, filter.kind = "arg1"
               PROVE  verdict = EPERM <=>
                        /\ d.nr = SYS_ioctl
                        /\ \E b \in Range(Blocks(filter)) :
                             b.fd = d.args[0] /\ d.args[1] \notin Range(b.list)
    BY DEF ArgLimitsExact
  <2> DEFINE b == Blocks(filter)
             all == \A i \in 1..Len(b) : Grants(b[i], d)
  <2>1. filter \in ArgFilters
    BY <1>1, Kinds
  <2>2. /\ (d.nr # SYS_ioctl \/ all) => verdict = ALLOW
        /\ ~(d.nr # SYS_ioctl \/ all) => verdict = EPERM
    BY <1>1, <1>3, <2>1, ArgDecides
  <2>3. b \in Seq(ArgBlks)
    BY <2>1, BlocksType
  <2> HIDE DEF b
  <2>4. ~all <=> \E k \in Range(b) : k.fd = d.args[0] /\ d.args[1] \notin Range(k.list)
    BY <2>3 DEF Range, Grants
  <2> HIDE DEF all
  <2> QED BY <1>2, <2>2, <2>4 DEF b
<1>6. OneFdRightsExact
  <2> DEFINE e == Ents(filter)
             f == filter.reg[1].fd
  <2> SUFFICES ASSUME Made, d.native, filter.kind = "fd", Len(filter.reg) = 1
               PROVE  /\ EntryDenies(e, d) => verdict = EPERM
                      /\ verdict = EPERM /\ d.args[0] # ClassCalls["MMAP"][1]
                           => EntryDenies(e, d)
    BY DEF OneFdRightsExact
  <2>1. filter \in FdFilters /\ Len(e) \in 1..FLUSH_CHUNK
    BY <1>1, Kinds
  <2>2. p = install_entry_chunk(e) /\ Chunk(e) /\ Single(e, f)
    BY <1>3, <2>1, FdDecides, EntsChunk
  <2>3. ClassCalls["MMAP"][1] = 9
    BY ClassSeqs
  <2> HIDE DEF e, f, p
  <2> DEFINE denied == \E i \in 1..Len(e) : e[i].nr = d.nr /\ EntryArg(d, e[i]) = e[i].fd
  <2>4. /\ denied => Run(p, d) = EPERM
        /\ ~denied /\ d.args[0] # 9 => Run(p, d) = ALLOW
    BY <1>3, <2>2, SingleExact
  <2>5. denied <=> EntryDenies(e, d)
    <3>1. e \in Seq(DenyEnts)
      BY <2>2 DEF Chunk
    <3> QED BY <3>1 DEF EntryDenies, EntryArg, Range
  <2> HIDE DEF denied
  <2> QED BY <1>1, <1>2, <2>3, <2>4, <2>5
<1>7. FirstFdEnforced
  <2> DEFINE e     == Ents(filter)
             ofNr  == {i \in DOMAIN e : e[i].nr = d.nr}
             first == CHOOSE i \in ofNr : \A j \in ofNr : i <= j
  <2> SUFFICES ASSUME Made, d.native, filter.kind = "fd", ofNr # {},
                      d.args[e[first].argn] = e[first].fd
               PROVE  verdict = EPERM
    BY DEF FirstFdEnforced
  <2>1. filter \in FdFilters /\ Len(e) \in 1..FLUSH_CHUNK
    BY <1>1, Kinds
  <2>2. p = install_entry_chunk(e) /\ Chunk(e)
    BY <1>3, <2>1, FdDecides
  <2> HIDE DEF e, p
  <2>3. e \in Seq(DenyEnts) /\ DOMAIN e = 1..Len(e) /\ Len(e) \in Nat
    BY SMTT(30), <2>2 DEF Chunk
  <2>4. ofNr \in SUBSET Nat
    BY <2>3
  <2>5. first \in ofNr /\ \A j \in ofNr : first <= j
    <3> HIDE DEF ofNr
    <3> QED BY <2>4, FirstIsLeast
  <2> HIDE DEF first
  <2>6. first \in 1..Len(e) /\ e[first].nr = d.nr /\ EntryArg(d, e[first]) = e[first].fd
    BY <2>3, <2>5 DEF EntryArg
  <2>7. \A i \in 1..(first - 1) : e[i].nr # d.nr
    <3> SUFFICES ASSUME NEW i \in 1..(first - 1), e[i].nr = d.nr PROVE FALSE
      OBVIOUS
    <3>1. i \in 1..Len(e) /\ ~(first <= i)
      BY <2>3, <2>6
    <3> QED BY <2>3, <2>5, <3>1
  <2> HIDE DEF ofNr
  <2>8. Run(p, d) = EPERM
    BY <1>3, <2>2, <2>6, <2>7, ChunkDenies
  <2> QED BY <1>1, <2>8
<1>8. ProgramsLoadable
  <2> SUFFICES ASSUME ~Refused(filter) PROVE Len(p) <= BPF_PROG_SIZE /\ Loadable(p)
    BY DEF ProgramsLoadable
  <2> DEFINE c == Foreign(Call(0, Args(0, 0, 0, 0)))
  <2>1. c \in SysCalls /\ ~c.native
    BY ForeignType
  <2> HIDE DEF c
  <2>2. Runnable(p) /\ Len(p) <= BPF_PROG_SIZE
    <3>1. CASE filter \in NamespaceFilters
      BY <2>1, <3>1, NamespaceDecides
    <3>2. CASE filter \in ArgFilters
      BY <2>1, <3>2, ArgDecides
    <3>3. CASE filter \in FdFilters /\ Len(Ents(filter)) \in 1..FLUSH_CHUNK
      BY <2>1, <3>3, FdDecides
    <3> QED BY <1>1, <3>1, <3>2, <3>3, Kinds
  <2> QED BY <2>2, RunnableLoads
<1> QED BY <1>4, <1>5, <1>6, <1>7, <1>8

(* The verdict of every call is what the loaded program answers: the       *)
(* invariant the results below are read off.                               *)
THEOREM CheckInvariance == Spec => []CheckInv
BY CheckInit, CheckNext, PTL DEF Spec

(* Only assembled programs run, only on the calls made of numbers they     *)
(* know, and they answer allow, EPERM or kill and nothing else: no program *)
(* of install_namespace_filter, install_arg1_limits or install_entry_chunk *)
(* runs off its end.                                                       *)
THEOREM CheckTypes == Spec => []TypeOK
<1>1. CheckInv => TypeOK
  BY DEF CheckInv
<1> QED BY <1>1, CheckInvariance, PTL

(* In every mode, for every list of at most eight lookup fds, every call   *)
(* number of the filter and every set of open flags,                       *)
(* install_namespace_filter denies what its mode denies and, the read-only *)
(* opens with O_DIRECTORY of casper mode apart, nothing else.              *)
THEOREM NamespaceIsExact == Spec => []NamespaceExact
<1>1. CheckInv => NamespaceExact
  BY CheckHolds
<1> QED BY <1>1, CheckInvariance, PTL

(* However many fds have a list and however long the lists are, a program  *)
(* of install_arg1_limits within its jump budget denies exactly the        *)
(* commands that are on no list of their fd: no 8-bit jump distance wraps. *)
THEOREM ArgLimitsAreExact == Spec => []ArgLimitsExact
<1>1. CheckInv => ArgLimitsExact
  BY CheckHolds
<1> QED BY <1>1, CheckInvariance, PTL

(* For every descriptor and every set of denied classes the program        *)
(* limit_fd_syscalls builds for one fd denies what it should, and too much *)
(* only on the fd whose number is that of mmap.                            *)
THEOREM OneFdRightsAreExact == Spec => []OneFdRightsExact
<1>1. CheckInv => OneFdRightsExact
  BY CheckHolds
<1> QED BY <1>1, CheckInvariance, PTL

(* For every registry of rights the first entry of a call number is        *)
(* enforced by emit_fd_deny, whatever entries stand before it.             *)
THEOREM FirstFdIsEnforced == Spec => []FirstFdEnforced
<1>1. CheckInv => FirstFdEnforced
  BY CheckHolds
<1> QED BY <1>1, CheckInvariance, PTL

(* Every program within the code's table sizes and jump budget fits struct *)
(* bpf_prog and every jump of it lands inside the program.                 *)
THEOREM ProgramsAreLoadable == Spec => []ProgramsLoadable
<1>1. CheckInv => ProgramsLoadable
  BY CheckHolds
<1> QED BY <1>1, CheckInvariance, PTL
=============================================================================
