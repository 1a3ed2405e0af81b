---------------------------- MODULE CapsicumShim ----------------------------
(***************************************************************************)
(* The Capsicum shim of src.compat/capsicum.c as one tool process uses it: *)
(* limit calls fill a registry, entering turns registry and directory      *)
(* lists into a Landlock domain and a stack of seccomp programs, and limit *)
(* calls after entering stack one more program each.  The kernel's answer  *)
(* to a system call comes from running the assembled programs (BpfFilter). *)
(*                                                                         *)
(* Every caller of the shim exits through err(1) when a call fails, so a   *)
(* failing call ends the behaviour of the process: tool = "exited".        *)
(***************************************************************************)
EXTENDS BpfFilter, FiniteSets

CONSTANTS
    Fds,          \* descriptor numbers of the tool
    Dirs,         \* directories of the file system
    IoctlCmds,    \* ioctl commands
    SafeIoctls,   \* safe_ioctls[]
    RightsSets,   \* rights a tool passes to caph_rights_limit
    IoctlLists,   \* command lists a tool passes to caph_ioctls_limit
    FD_LIMITS,    \* size of fd_limits[]           (32)
    LOOKUP_MAX,   \* size of lookup_fds[]          (8)
    ALLOW_MAX,    \* size of allow_fds[]           (8)
    IOCTL_MAX,    \* size of fd_limit.ioctls[]     (16)
    FLUSH_CHUNK,  \* entries per program           (60)
    JUMP_BUDGET,  \* largest allow_idx             (200)
    FdTables,     \* descriptor tables the tool may start from
    FcntlRights,  \* rights a tool passes to caph_fcntls_limit
    MaxCalls,     \* bound: limit, open and close calls of one run
    Unrestricted, \* nioctls or nfcntls = -1
    NoDir         \* the place of a descriptor that is not a directory

F_DUPFD == 0
F_GETFD == 1
F_SETFD == 2
F_GETFL == 3
F_SETFL == 4
FcntlCmds == {F_DUPFD, F_GETFD, F_SETFD, F_GETFL, F_SETFL}

\* Only a directory's place in the file system matters to the shim.
Closed     == [kind |-> "closed", at |-> NoDir]
File       == [kind |-> "file", at |-> NoDir]
DirAt(dir) == [kind |-> "dir", at |-> dir]

Descriptors == {Closed, File} \cup {DirAt(dir) : dir \in Dirs}

ASSUME ConstantsAssumption ==
    /\ Fds \subseteq Nat
    /\ IoctlCmds \subseteq Nat /\ IsFiniteSet(IoctlCmds)
    /\ SafeIoctls \subseteq IoctlCmds
    /\ IoctlLists \subseteq Seq(IoctlCmds)
    /\ \A n \in {FD_LIMITS, LOOKUP_MAX, ALLOW_MAX, IOCTL_MAX, FLUSH_CHUNK,
                 JUMP_BUDGET, MaxCalls} : n \in Nat \ {0}
    \* What keeps the 8-bit distances of the emitted jumps from wrapping, and
    \* the entries of one fd in one program.
    /\ LOOKUP_MAX + 3 < 256 /\ JUMP_BUDGET < 256
    /\ FLUSH_CHUNK >= 16 /\ 3 * FLUSH_CHUNK - 2 < 256
    /\ \A S \in SUBSET (IoctlCmds \cup FcntlCmds) : S # Unrestricted
    /\ FcntlRights \subseteq SUBSET {F_GETFL, F_SETFL}
    /\ NoDir \notin Dirs
    /\ FdTables \subseteq [Fds -> Descriptors]

VARIABLES
    disabled,  \* ASTROUTILS_SANDBOX=NONE, read anew by every call
    tool,      \* "running" or "exited"
    entered,   \* sandbox_entered
    mode,      \* the mode entered with
    order,     \* fd_limits[i].fd for i = 1..nfd_limits
    limit,     \* the fd_limits entry of each fd
    lookup,    \* lookup_fds[]
    allow,     \* the directories behind allow_fds[]
    fds,       \* the descriptor table
    filters,   \* seccomp programs in force (kernel)
    landlock,  \* Landlock domain in force (kernel)
    calls,     \* calls so far (bound)
    \* What successful calls asked for; only properties read these.
    asked,     \* narrowest request per fd
    cut,       \* fds given a list longer than IOCTL_MAX
    late,      \* classes denied by calls after entering, per fd
    looked,    \* directories that received CAP_LOOKUP, and through which fd
    reused     \* directories opened before entering on a number in lookup_fds[]

shim   == <<order, limit, lookup, allow, entered, mode>>
kernel == <<filters, landlock>>
ghosts == <<asked, cut, late, looked>>
vars   == <<disabled, tool, shim, fds, kernel, calls, ghosts, reused>>

-----------------------------------------------------------------------------
(* Registry entries.                                                       *)

Fresh == [deny |-> {}, ioctls |-> Unrestricted, fcntls |-> Unrestricted]

\* lim_find: the fd has an entry or there is room for one.
HasSlot(fd) == fd \in Range(order) \/ Len(order) < FD_LIMITS
lim_find(fd) == IF fd \in Range(order) THEN order ELSE Append(order, fd)

\* Allowlists are kept as sets: no answer depends on their order.
\* Faulty: the last call wins.
LimReplace(dst, src) == src
lim_merge(dst, src) == IF dst = Unrestricted THEN src ELSE dst \cap src

\* The classes caph_rights_limit denies under rights r.
DeniedClasses(r) ==
    {c \in Classes :
        CASE c = "RD"    -> "READ" \notin r
          [] c = "WR"    -> r \cap {"WRITE", "PWRITE"} = {}
          [] c = "SEEK"  -> "SEEK" \notin r
          [] c = "TRUNC" -> "FTRUNCATE" \notin r
          [] c = "FSYNC" -> "FSYNC" \notin r
          [] c = "SHUT"  -> "SHUTDOWN" \notin r
          [] c = "MMAP"  -> "MMAP" \notin r}

safe_fcntls == {F_GETFD, F_SETFD, F_GETFL, F_SETFL}

\* caph_rights_limit's update of an entry before entering.
LimitRights(l, r) ==
    [deny   |-> l.deny \cup DeniedClasses(r),
     ioctls |-> IF "IOCTL" \in r THEN l.ioctls ELSE lim_merge(l.ioctls, SafeIoctls),
     fcntls |-> IF "FCNTL" \in r THEN l.fcntls ELSE lim_merge(l.fcntls, safe_fcntls)]

-----------------------------------------------------------------------------
(* Layers: one record per thing loaded into the kernel.  A "deny" layer    *)
(* stands for the chunked programs of one flush, an "args" layer for one   *)
(* allowlist program.                                                      *)

NoDeny  == [fd \in Fds |-> {}]
NoLists == [fd \in Fds |-> Unrestricted]
NsLayer(m) == [kind |-> "ns", mode |-> m, nr |-> 0, order |-> lookup,
               deny |-> NoDeny, lists |-> NoLists]
DenyLayer(o, d) == [kind |-> "deny", mode |-> MODE_FULL, nr |-> 0, order |-> o,
                    deny |-> d, lists |-> NoLists]
ArgsLayer(nr, o, l) == [kind |-> "args", mode |-> MODE_FULL, nr |-> nr,
                        order |-> o, deny |-> NoDeny, lists |-> l]

Entries(layer) ==
    FlattenSeq([i \in 1..Len(layer.order) |->
                   FdEntries(layer.order[i], layer.deny[layer.order[i]])])

\* The chunks flush_registered_limits cuts the entries into.
\* Faulty: the last, partial chunk is left out.
ChunksFull(ents) ==
    [k \in 1..(Len(ents) \div FLUSH_CHUNK) |->
        SubSeq(ents, (k - 1) * FLUSH_CHUNK + 1, k * FLUSH_CHUNK)]
Chunks(ents) ==
    [k \in 1..((Len(ents) + FLUSH_CHUNK - 1) \div FLUSH_CHUNK) |->
        SubSeq(ents, (k - 1) * FLUSH_CHUNK + 1,
               IF k * FLUSH_CHUNK < Len(ents) THEN k * FLUSH_CHUNK ELSE Len(ents))]

\* The blocks of the first n registered fds, without those that have no list.
ArgBlock(layer, fd) == [fd |-> fd, list |-> SetToSeq(layer.lists[fd])]
BlocksOf(layer, n) ==
    FlattenSeq([i \in 1..n |->
        IF layer.lists[layer.order[i]] = Unrestricted
          THEN << >> ELSE <<ArgBlock(layer, layer.order[i])>>])
\* Faulty: the loop over the registry stops one short.
BlocksButLast(layer) == BlocksOf(layer, Len(layer.order) - 1)
Blocks(layer) == BlocksOf(layer, Len(layer.order))

\* install_arg1_limits refuses a program past its jump budget; the single
\* block of limit_fd_arg1 has no such test and never reaches it.
Refused(layer) ==
    layer.kind = "args" /\ AllowIdx(layer.nr, Blocks(layer)) > JUMP_BUDGET

\* The programs a layer is loaded as.
LayerPrograms(layer) ==
    CASE layer.kind = "ns" ->
           <<install_namespace_filter(layer.mode, layer.order)>>
      [] layer.kind = "deny" ->
           LET chunks == Chunks(Entries(layer)) IN
           [k \in 1..Len(chunks) |-> install_entry_chunk(chunks[k])]
      [] layer.kind = "args" ->
           <<install_arg1_limits(layer.nr, Blocks(layer))>>
\* All programs in force, and those that can answer a call on an open fd:
\* the namespace program lets every such call pass (NamespaceExact in
\* FilterCheck), so it is left out where only those calls are made.
Programs ==
    FlattenSeq([i \in 1..Len(filters) |-> LayerPrograms(filters[i])])
FdPrograms ==
    FlattenSeq([i \in 1..Len(filters) |->
        IF filters[i].kind = "ns" THEN << >> ELSE LayerPrograms(filters[i])])

\* Stacked seccomp programs: the most restrictive answer wins.
Allows(programs, d) == \A i \in DOMAIN programs : Run(programs[i], d) = ALLOW

LandlockAllows(dir, access) ==
    access \in landlock.handled => dir \in landlock.beneath

-----------------------------------------------------------------------------
(* enter_mode.                                                             *)

\* landlock_lockdown's rules; a registered fd that is closed or no longer
\* a directory makes landlock_add_rule fail.
RulesOk(m) == m = MODE_FULL => \A i \in DOMAIN lookup : fds[lookup[i]].kind = "dir"
\* The directories a mode's rules cover.
Beneath(m) == CASE m = MODE_FULL   -> {fds[lookup[i]].at : i \in DOMAIN lookup}
                [] m = MODE_PATHS  -> Range(allow)
                [] m = MODE_CASPER -> {}
\* Faulty: reading is not a handled access.
LockdownWritesOnly(m) == [handled |-> {"mutate"}, beneath |-> Beneath(m)]
landlock_lockdown(m) ==
    [handled |-> IF m = MODE_CASPER THEN {"mutate"} ELSE {"mutate", "read"},
     beneath |-> Beneath(m)]

\* flush_registered_limits: a rights layer if any class is denied, then an
\* ioctl and an fcntl layer if any fd has such a list.
flush_registered_limits ==
    LET deny   == [fd \in Fds |-> limit[fd].deny]
        ioctls == [fd \in Fds |-> limit[fd].ioctls]
        fcntls == [fd \in Fds |-> limit[fd].fcntls]
        AnyFd(f, none) == \E fd \in Range(order) : f[fd] # none
    IN  (IF AnyFd(deny, {}) THEN <<DenyLayer(order, deny)>> ELSE << >>)
          \o (IF AnyFd(ioctls, Unrestricted)
                THEN <<ArgsLayer(SYS_ioctl, order, ioctls)>> ELSE << >>)
          \o (IF AnyFd(fcntls, Unrestricted)
                THEN <<ArgsLayer(SYS_fcntl, order, fcntls)>> ELSE << >>)

\* A failing call: the caller reports the error and exits.
Fail == /\ tool' = "exited"
        /\ UNCHANGED <<disabled, shim, fds, reused, kernel, calls, ghosts>>

\* A call that returns 0 and does nothing.
Noop == UNCHANGED vars

\* Loading the layers of l; any seccomp(2) call may fail for want of memory
\* and a refused program is never loaded.  The earlier layers stay loaded.
\* Faulty: a failed load is not noticed.
LoadUnchecked(l) ==
    \E done \in 0..Len(l) :
        /\ \A i \in 1..done : ~Refused(l[i])
        /\ filters' = filters \o SubSeq(l, 1, done)
        /\ tool' = tool
Load(l) ==
    \E done \in 0..Len(l) :
        /\ \A i \in 1..done : ~Refused(l[i])
        /\ filters' = filters \o SubSeq(l, 1, done)
        /\ tool' = IF done = Len(l) THEN tool ELSE "exited"

\* Entering does nothing with the sandbox disabled, and not twice.
\* Faulty: a second entry is not recognised.
SkipEnterOnce == disabled
SkipEnter == disabled \/ entered

\* caph_enter, caph_enter_casper and caph_enter_paths.  The checks are the
\* code's, in order: the environment, a second entry, Landlock, then the
\* namespace program and the registry's programs.
EnterMode(m) ==
    /\ tool = "running"
    /\ \/ SkipEnter /\ Noop
       \/ ~SkipEnter /\ Fail                    \* no Landlock, or a bad rule
       \/ /\ ~SkipEnter
          /\ RulesOk(m)
          /\ landlock' = landlock_lockdown(m)
          /\ Load(<<NsLayer(m)>> \o flush_registered_limits)
          /\ entered' = (tool' = "running")
          /\ mode' = m
          /\ UNCHANGED <<disabled, order, limit, lookup, allow, fds, reused, calls, ghosts>>

-----------------------------------------------------------------------------
(* Limit calls.                                                            *)

Narrow(old, new) == IF old = Unrestricted THEN new ELSE old \cap new

\* What a successful caph_rights_limit(fd, r) promises from now on.
AskRights(fd, r) ==
    /\ asked' = [asked EXCEPT
         ![fd] = [deny   |-> @.deny \cup DeniedClasses(r),
                  ioctls |-> IF "IOCTL" \in r THEN @.ioctls
                             ELSE Narrow(@.ioctls, SafeIoctls),
                  fcntls |-> IF "FCNTL" \in r THEN @.fcntls
                             ELSE Narrow(@.fcntls, safe_fcntls)]]
    /\ late' = IF entered
                 THEN [late EXCEPT ![fd] = @ \cup DeniedClasses(r)] ELSE late
    /\ looked' = IF "LOOKUP" \in r
                   THEN looked \cup {[fd |-> fd, at |-> fds[fd].at]} ELSE looked
    /\ UNCHANGED cut

\* The programs caph_rights_limit loads at once after entering.
RightsLayers(fd, r) ==
    LET one(x, none) == [f \in Fds |-> IF f = fd THEN x ELSE none] IN
    (IF DeniedClasses(r) # {}
       THEN <<DenyLayer(<<fd>>, one(DeniedClasses(r), {}))>> ELSE << >>)
      \o (IF "IOCTL" \notin r
            THEN <<ArgsLayer(SYS_ioctl, <<fd>>, one(SafeIoctls, Unrestricted))>>
            ELSE << >>)
      \o (IF "FCNTL" \notin r
            THEN <<ArgsLayer(SYS_fcntl, <<fd>>, one(safe_fcntls, Unrestricted))>>
            ELSE << >>)

\* The errors of caph_rights_limit: EBADF; for CAP_LOOKUP, ENOSYS after
\* entering and ENOTDIR; ENOSPC.
\* Faulty: CAP_LOOKUP on something that is not a directory.
RefusesAnyKind(fd, r) ==
    \/ fds[fd].kind = "closed"
    \/ "LOOKUP" \in r /\ entered
    \/ ~entered /\ ~HasSlot(fd)
RightsRefused(fd, r) ==
    \/ fds[fd].kind = "closed"
    \/ "LOOKUP" \in r /\ (entered \/ fds[fd].kind # "dir")
    \/ ~entered /\ ~HasSlot(fd)

\* caph_rights_limit past its environment test.
RightsLimit(fd, r) ==
    \/ RightsRefused(fd, r) /\ Fail
    \/ /\ ~RightsRefused(fd, r) /\ ~entered
       /\ lookup' = IF "LOOKUP" \in r /\ Len(lookup) < LOOKUP_MAX
                      THEN Append(lookup, fd) ELSE lookup
       /\ order' = lim_find(fd)
       /\ limit' = [limit EXCEPT ![fd] = LimitRights(@, r)]
       /\ AskRights(fd, r)
       /\ calls' = calls + 1
       /\ UNCHANGED <<disabled, tool, entered, mode, allow, fds, reused, kernel>>
    \/ /\ ~RightsRefused(fd, r) /\ entered
       /\ Load(RightsLayers(fd, r))
       /\ IF tool' = "running" THEN AskRights(fd, r) ELSE UNCHANGED ghosts
       /\ calls' = calls + 1
       /\ UNCHANGED <<disabled, shim, fds, reused, landlock>>

caph_rights_limit(fd, r) ==
    /\ tool = "running" /\ calls < MaxCalls
    /\ IF disabled THEN Noop ELSE RightsLimit(fd, r)

\* The rights caph_limit_stream derives from its flags.
StreamRights(flags) ==
    (IF "READ" \in flags THEN {"READ"} ELSE {})
      \cup (IF "WRITE" \in flags THEN {"WRITE", "PWRITE"} ELSE {})

\* caph_limit_stream; caph_limit_stdio is three of these in a row.
caph_limit_stream(fd, flags) ==
    /\ tool = "running" /\ calls < MaxCalls
    /\ IF disabled \/ (fds[fd].kind = "closed" /\ "IGNORE_EBADF" \in flags)
         THEN Noop
         ELSE RightsLimit(fd, StreamRights(flags))

\* An allowlist for one argument-1 call, before and after entering.
\* Neither caph_ioctls_limit nor caph_fcntls_limit looks whether fd is open.
ArgLimit(fd, nr, list) ==
    \/ ~entered /\ ~HasSlot(fd) /\ Fail                       \* ENOSPC
    \/ /\ ~entered /\ HasSlot(fd)
       /\ order' = lim_find(fd)
       /\ limit' = IF nr = SYS_ioctl
                     THEN [limit EXCEPT ![fd].ioctls = lim_merge(@, list)]
                     ELSE [limit EXCEPT ![fd].fcntls = lim_merge(@, list)]
       /\ UNCHANGED <<disabled, tool, lookup, allow, entered, mode, fds, reused, kernel>>
    \/ /\ entered
       /\ Load(<<ArgsLayer(nr, <<fd>>,
                   [f \in Fds |-> IF f = fd THEN list ELSE Unrestricted])>>)
       /\ UNCHANGED <<disabled, shim, fds, reused, landlock>>

caph_ioctls_limit(fd, cmds) ==
    LET n == IF Len(cmds) < IOCTL_MAX THEN Len(cmds) ELSE IOCTL_MAX IN
    /\ tool = "running" /\ calls < MaxCalls
    /\ IF disabled THEN Noop
       ELSE /\ ArgLimit(fd, SYS_ioctl, {cmds[i] : i \in 1..n})
            /\ IF tool' = "running"
                 THEN /\ asked' = [asked EXCEPT ![fd].ioctls = Narrow(@, Range(cmds))]
                      /\ cut' = IF n < Len(cmds) THEN cut \cup {fd} ELSE cut
                      /\ calls' = calls + 1
                      /\ UNCHANGED <<late, looked>>
                 ELSE UNCHANGED <<calls, ghosts>>

caph_fcntls_limit(fd, fcntlrights) ==
    LET list == {F_GETFD, F_SETFD} \cup fcntlrights IN
    /\ tool = "running" /\ calls < MaxCalls
    /\ IF disabled THEN Noop
       ELSE /\ ArgLimit(fd, SYS_fcntl, list)
            /\ IF tool' = "running"
                 THEN /\ asked' = [asked EXCEPT ![fd].fcntls = Narrow(@, list)]
                      /\ calls' = calls + 1
                      /\ UNCHANGED <<late, looked, cut>>
                 ELSE UNCHANGED <<calls, ghosts>>

\* The descriptor caph_allow_path opens stays private to the shim; opening
\* may fail for reasons of its own.
caph_allow_path(dir) ==
    /\ tool = "running" /\ calls < MaxCalls
    /\ \/ disabled /\ Noop
       \/ ~disabled /\ Fail             \* ENOSYS when entered, ENOSPC, open
       \/ /\ ~disabled /\ ~entered /\ Len(allow) < ALLOW_MAX
          /\ allow' = Append(allow, dir)
          /\ calls' = calls + 1
          /\ UNCHANGED <<disabled, tool, order, limit, lookup, entered, mode,
                         fds, reused, kernel, ghosts>>

-----------------------------------------------------------------------------
(* The tool's own descriptors.                                             *)

AT_FDCWD == -100
OpenFlags(access) == IF access = "read" THEN O_RDONLY ELSE O_WRONLY + O_CREAT
NoArgs == [n \in 0..4 |-> 0]
openat(d, access) ==
    [native |-> TRUE, nr |-> SYS_openat,
     args |-> [NoArgs EXCEPT ![0] = d, ![2] = OpenFlags(access)]]
FdCall(nr, fd) ==
    [native |-> TRUE, nr |-> nr, args |-> [NoArgs EXCEPT ![FdArg(nr)] = fd]]
ArgCall(nr, fd, cmd) ==
    [native |-> TRUE, nr |-> nr, args |-> [NoArgs EXCEPT ![0] = fd, ![1] = cmd]]

\* openat(d, ...) of something in dir passes both layers.
MayOpen(programs, d, dir, access) ==
    Allows(programs, openat(d, access)) /\ LandlockAllows(dir, access)

\* Opening gives a free number to a file in dir or to dir itself.
Open(fd, kind, dir) ==
    /\ tool = "running" /\ calls < MaxCalls
    /\ fds[fd].kind = "closed"
    /\ LET programs == Programs IN
         \E d \in Fds \cup {AT_FDCWD} : MayOpen(programs, d, dir, "read")
    /\ fds' = [fds EXCEPT ![fd] = IF kind = "dir" THEN DirAt(dir) ELSE File]
    /\ reused' = IF kind = "dir" /\ ~entered /\ fd \in Range(lookup)
                   THEN reused \cup {[fd |-> fd, at |-> dir]} ELSE reused
    /\ calls' = calls + 1
    /\ UNCHANGED <<disabled, tool, shim, kernel, ghosts>>

\* lookup_fds[] and fd_limits[] keep the number of a closed descriptor.
Close(fd) ==
    /\ tool = "running" /\ calls < MaxCalls
    /\ fds[fd].kind # "closed"
    /\ fds' = [fds EXCEPT ![fd] = Closed]
    /\ calls' = calls + 1
    /\ UNCHANGED <<disabled, tool, shim, kernel, ghosts, reused>>

-----------------------------------------------------------------------------
StreamFlags == {{"READ"}, {"WRITE", "IGNORE_EBADF"}}

Init ==
    /\ disabled \in BOOLEAN
    /\ tool = "running"
    /\ entered = FALSE /\ mode = MODE_FULL
    /\ order = << >> /\ limit = [fd \in Fds |-> Fresh]
    /\ lookup = << >> /\ allow = << >>
    /\ fds \in FdTables
    /\ filters = << >> /\ landlock = [handled |-> {}, beneath |-> {}]
    /\ calls = 0
    /\ asked = [fd \in Fds |-> Fresh] /\ cut = {}
    /\ late = [fd \in Fds |-> {}] /\ looked = {} /\ reused = {}

Next ==
    \/ \E m \in Modes : EnterMode(m)
    \/ \E fd \in Fds :
         \/ \E r \in RightsSets : caph_rights_limit(fd, r)
         \/ \E fl \in StreamFlags : caph_limit_stream(fd, fl)
         \/ \E cmds \in IoctlLists : caph_ioctls_limit(fd, cmds)
         \/ \E fr \in FcntlRights : caph_fcntls_limit(fd, fr)
         \/ \E k \in {"file", "dir"}, dir \in Dirs : Open(fd, k, dir)
         \/ Close(fd)
    \/ \E dir \in Dirs : caph_allow_path(dir)

Spec == Init /\ [][Next]_vars

-----------------------------------------------------------------------------
Limits == [deny : SUBSET Classes,
           ioctls : (SUBSET IoctlCmds) \cup {Unrestricted},
           fcntls : (SUBSET FcntlCmds) \cup {Unrestricted}]
Layers == [kind : {"ns", "deny", "args"}, mode : Modes, nr : Nat,
           order : Seq(Fds), deny : [Fds -> SUBSET Classes],
           lists : [Fds -> (SUBSET (IoctlCmds \cup FcntlCmds)) \cup {Unrestricted}]]

(* The types of the shim's tables and of the kernel objects it creates.    *)
TypeOK ==
    /\ disabled \in BOOLEAN /\ entered \in BOOLEAN
    /\ tool \in {"running", "exited"}
    /\ mode \in Modes
    /\ order \in Seq(Fds) /\ limit \in [Fds -> Limits]
    /\ lookup \in Seq(Fds) /\ allow \in Seq(Dirs)
    /\ fds \in [Fds -> Descriptors]
    /\ filters \in Seq(Layers)
    /\ landlock \in [handled : SUBSET {"read", "mutate"}, beneath : SUBSET Dirs]
    /\ calls \in Nat
    /\ asked \in [Fds -> Limits] /\ cut \subseteq Fds
    /\ late \in [Fds -> SUBSET Classes]
    /\ looked \subseteq [fd : Fds, at : Dirs]
    /\ reused \subseteq [fd : Fds, at : Dirs]

(* Before a successful entry, and with ASTROUTILS_SANDBOX=NONE for ever,   *)
(* a running tool is under no restriction at all: limit calls only fill    *)
(* the registry.  After it, Landlock and the namespace program of the      *)
(* entered mode, built from the directories registered by then, are in     *)
(* force underneath everything else.                                       *)
AllOrNothing ==
    tool = "running" =>
        IF entered /\ ~disabled
          THEN /\ filters # << >>
               /\ filters[1] = NsLayer(mode)
               /\ "mutate" \in landlock.handled
          ELSE /\ filters = << >>
               /\ landlock.handled = {}
               /\ ~entered

(* The registry holds each fd once, within its 32 slots, and before        *)
(* entering its entry is what the successful limit calls asked for so far: *)
(* repeated calls intersect, they never widen.                             *)
RegistryFaithful ==
    /\ Len(order) <= FD_LIMITS
    /\ \A i, j \in 1..Len(order) : order[i] = order[j] => i = j
    /\ tool = "running" /\ ~entered =>
         \A fd \in Fds :
            /\ limit[fd].deny = asked[fd].deny
            /\ limit[fd].fcntls = asked[fd].fcntls
            /\ fd \notin cut => limit[fd].ioctls = asked[fd].ioctls
            /\ (\A i \in 1..Len(order) : order[i] # fd) => asked[fd] = Fresh

Sandboxed == tool = "running" /\ entered /\ ~disabled

(* Inside the sandbox an ioctl or fcntl on an fd passes exactly if every   *)
(* limit call on that fd, before or after entering, allows its command;    *)
(* the consolidated programs and the stacked ones agree.  A list longer    *)
(* than 16 commands is cut, which only ever denies more.                   *)
ArgLimitsEnforced ==
    Sandboxed =>
        LET programs == FdPrograms IN
        \A fd \in Fds :
           /\ \A c \in IoctlCmds :
                LET passes  == Allows(programs, ArgCall(SYS_ioctl, fd, c))
                    granted == asked[fd].ioctls = Unrestricted \/ c \in asked[fd].ioctls
                IN  (passes => granted) /\ (granted /\ fd \notin cut => passes)
           /\ \A c \in FcntlCmds :
                Allows(programs, ArgCall(SYS_fcntl, fd, c)) <=>
                   (asked[fd].fcntls = Unrestricted \/ c \in asked[fd].fcntls)

\* Directories whose CAP_LOOKUP still stands: no directory was opened on the
\* number again before entering.
Kept == {l \in looked : \A u \in reused : u.fd # l.fd}
PlacesOf(S) == {l.at : l \in S}
LookupNumbers == {l.fd : l \in looked}

(* Inside the sandbox an open passes both layers exactly where the mode    *)
(* promises: in full mode through a number that received CAP_LOOKUP and    *)
(* beneath a directory that received it, or one opened on such a number    *)
(* before entering (LookupConfined asks whether that may be); beneath an   *)
(* allowed path in path-scoped mode; for reading anywhere in casper mode.  *)
(* In full mode a promise is only broken, by denying, once a CAP_LOOKUP    *)
(* number found lookup_fds[] full and was dropped.                         *)
FsConfined ==
    Sandboxed =>
        LET programs == Programs IN
        \A d \in Fds \cup {AT_FDCWD}, dir \in Dirs, access \in {"read", "mutate"} :
           LET may == MayOpen(programs, d, dir, access) IN
           /\ mode = MODE_FULL =>
                /\ may => d \in LookupNumbers /\ dir \in PlacesOf(Kept \cup reused)
                /\ /\ LookupNumbers \subseteq Range(lookup)
                   /\ d \in LookupNumbers /\ dir \in PlacesOf(Kept)
                   => may
           /\ mode = MODE_PATHS  => (may <=> dir \in Range(allow))
           /\ mode = MODE_CASPER => (may <=> access = "read")

(* The claim of the head comment of capsicum.c for a reused number: "a     *)
(* closed-then-reused fd number inherits a stale limit (over-restriction,  *)
(* the safe direction)".  Held to lookup_fds[]: in full mode only          *)
(* directories that received CAP_LOOKUP can be reached.                    *)
LookupConfined ==
    Sandboxed /\ mode = MODE_FULL =>
        LET programs == Programs IN
        \A d \in Fds, dir \in Dirs :
           MayOpen(programs, d, dir, "read") => dir \in PlacesOf(looked)

(* A class denied to an fd by a call after entering stays denied for the   *)
(* rest of the run; so does a class denied before entering, unless an fd   *)
(* registered earlier is denied it too (see FdRightsExact in FilterCheck). *)
RightsEnforced ==
    Sandboxed =>
        LET programs == FdPrograms IN
        \A fd \in Fds : \A c \in asked[fd].deny :
           \/ \A nr \in Range(ClassCalls[c]) : ~Allows(programs, FdCall(nr, fd))
           \/ /\ c \notin late[fd]
              /\ \E g \in Range(order) \ {fd} :
                    /\ c \in limit[g].deny
                    /\ \E i, j \in DOMAIN order : order[i] = g /\ order[j] = fd /\ i < j

(* Entering is final: no later call leaves the sandbox, changes its mode   *)
(* or its Landlock domain, or takes a program off the stack.               *)
OnlyTightens ==
    [][entered => /\ entered' /\ mode' = mode /\ landlock' = landlock
                  /\ IsPrefix(filters, filters')]_vars
=============================================================================
