# Verification of astroutils: sandbox, fetch, timeout, telnet, xargs

astroutils is a set of FreeBSD userland tools ported to Linux.  Most of its
400,000 lines are imported, sequential tools; the code the port adds, and the
code in which several processes or kernel layers interact, is small.  This
directory holds TLA+ models of that code, the TLC runs that check them on small
instances, and proofs checked by TLAPS.  Paths below are relative to the
repository.

## Inventory

| component | state | operations | interacts with |
|---|---|---|---|
| Capsicum shim, `src.compat/capsicum.c` | `fd_limits[32]`, `lookup_fds[8]`, `allow_fds[8]`, `sandbox_entered` | `caph_rights_limit`, `caph_ioctls_limit`, `caph_fcntls_limit`, `caph_limit_stream` and the stdio forms, `caph_allow_path`, `caph_enter`, `caph_enter_casper`, `caph_enter_paths` | every sandboxed tool; the kernel's seccomp and Landlock |
| Seccomp programs, same file | the instruction buffer, jump patches, `cmd_idx[96]` | `emit*`, `install_*`, `limit_fd_*` | run by the kernel on each system call |
| Connection broker, `src.freebsd/libfetch/sandbox.c` | `broker_fd`, `broker_pid`, `broker_first_port`, packets on the socket pair | `fetch_sandbox_begin`, `fetch_sandbox_connect`, `broker_loop` | fetch(1) and its alarms; the shim (`caph_allow_path`, `caph_enter_paths`) |
| timeout(1), `src.freebsd/coreutils/timeout/timeout.c` | `sig_chld`, `sig_alrm`, `sig_term`, `sig_other`, `killsig`, `do_second_kill`, the timer, the control pipe | the start sequence, the `sigsuspend` loop | the command, its descendants, job control, signals from outside |
| fetch(1), `src.freebsd/fetch/fetch.c` | `sigalrm`, `sigint`, offsets, counts, the output and the temporary file | `fetch()` per URL and retry | libfetch, the broker, the local file |
| libfetch protocols, `http.c`, `ftp.c`, `common.c` | connections, chunked decoding | `fetchXGet` and others | the broker |
| telnet rings, `src.freebsd/telnet/telnet/ring.c` | `supply`, `consume`, `mark`, two time stamps | supply, consume, mark and the counts | `telsnd`, `telrcv`, `netflush`, `ttyflush`, `process_rings`, signal handlers |
| telnet options, `telnet.c` | `options[]`, `do_dont_resp[]`, `will_wont_resp[]`, `flushout` | `send_*`, `*option`, `doflush`, `bye` | the server, the user |
| xargs, `src.freebsd/findutils/xargs/xargs.c` | the argument buffer, pid slots, `childerr`, `rval` | `parse_input`, `run`, `xwait`, `waitchildren` | its children, and children it was started with |
| sh, nvi, ee, ed, awk, sed, grep, m4, find, diffutils, patch, gzip, compress, netcat, tip, su, dbcompat, the other coreutils and miscutils, `src.custom` | | | |
| fuzz harnesses, tests, CI, build | | | |

What is hard in each, and the properties that make it correct:

* **Shim.** Limits given before entering are collected and turned into a few
  consolidated programs; limits given afterwards are stacked one by one.  Both
  ways must enforce the same thing: exactly what was asked.  Entering is several
  kernel calls that cannot be undone and may fail midway; tables have fixed
  sizes; descriptor numbers are remembered, files are not.
* **Programs.** Hand-counted jumps in 8-bit fields, a register that holds a call
  number at one time and a descriptor at another.  Each program must answer
  every call as its comment says.
* **Broker.** Two processes, unnumbered requests and answers, alarms that cut a
  wait short, either side dying at any point.  An answer must belong to the
  request, the port policy must hold, no wait and no broker may last for ever.
* **timeout.** Four kinds of signal arriving together, a one-shot timer used for
  two intervals, zombies of the command and of orphans.  No signal may be lost,
  the command must be killed, the status must be the right one.

* **fetch.** What is at the path, what is in a temporary file and what is still in
  a buffer differ, and each pass decides anew from a `stat`; a flag set by one
  URL is read by the next.  A file reported fetched must be the remote one.
* **telnet rings.** Full and empty have the same pointers; some callers do not
  look for room; handlers run inside an update.  Bytes must leave once and in
  order, and nothing may be read or written outside the buffer.
* **telnet options.** Requests of both sides cross and answers carry no number.
  Both sides must end up with the same options, and stop talking.
* **xargs.** A child's failure to exec is reported through memory, its end through
  `waitpid`, and the two can come apart; limits cut the input anywhere.  Every
  word must be handed over once, every child collected, the status must tell.

`PROJECT.json` lists every hazard at its line with the properties that cover it.

## Modules

| module | models | notes |
|---|---|---|
| `BpfFilter` | the assembler and every program of `capsicum.c`; the kernel's program checker and interpreter | operators only |
| `BpfFilterProofs` | lemmas: how each block and each whole program answers | used by the next two proof modules |
| `FilterCheck` | one program, one system call, one answer | a behaviour is two states; `MCFilterCheck` gives the programs and calls |
| `FilterCheckProofs` | theorems about `FilterCheck` | |
| `CapsicumShim` | the shim's tables, all its entry points, seccomp and Landlock as it uses them, the tool's descriptors | composes `BpfFilter`: the kernel's answers come from running the programs |
| `CapsicumShimProofs` | theorems about `CapsicumShim` | |
| `FetchBroker` | fetch and the broker | |
| `FetchRun` | a run of fetch(1) over several URLs | composes `FetchBroker`: each step is one of its steps or leaves its state alone |
| `FetchRunProofs` | theorems about `FetchBroker`; `FetchRun` implements it; what fetch leaves at the path | |
| `RingQueue` | what a ring buffer promises | abstract specification |
| `TelnetRing` | `ring.c` and everything that calls it | refines `RingQueue` |
| `TelnetRingProofs` | theorems about `TelnetRing`, the refinement of `RingQueue` among them | |
| `TelnetOptions` | option negotiation of telnet with a server | |
| `TelnetOptionsProofs` | both sides agree, for any number of requests | |
| `Xargs` | xargs and its children | |
| `XargsProofs` | theorems about `Xargs` | |
| `Timeout` | timeout(1) with command, descendants, timers, job control, outside signals | |
| `TimeoutProofs` | theorems about `Timeout` | |

Operators introduced by a comment "Faulty: ..." are wrong variants of the
definition that follows them.  No specification uses them; they show that a
property would notice the mistake.

### How state and actions correspond to the code

*BpfFilter.*  A program is a sequence of records with the fields of `struct
sock_filter`; `Insn` reduces jumps modulo 256.  x86-64 call numbers are kept,
because whether a descriptor number equals a call number decides what
`emit_fd_deny` answers.  `limit_fd_arg1` lays its program out exactly as
`install_arg1_limits` does for one descriptor, and `limit_fd_syscalls` as
`install_entry_chunk`, so each pair is one operator.  The interpreter is a
recursive function of the program counter and the register, the blocks of an
allowlist program one of the index of the first block.

*CapsicumShim.*  `order` and `limit` are `fd_limits[]`, `lookup` and `allow` the
two directory tables, `filters` and `landlock` what the kernel holds.  One action
per entry point; the three enter calls are `EnterMode(m)`.  A loaded filter is
kept as a layer (what it was built from) and its instructions are recomputed when
a call is made.  Allowlists are sets.  Landlock's access bits are two, reading
and mutating, and a directory stands for what is beneath it.  A failing call
ends the process, because every caller in the tree leaves through `err()`;
`seccomp(2)` and Landlock may fail at any point.  `asked`, `cut`, `late` and
`looked` record what successful calls asked for, `reused` the directories opened on
a number in `lookup_fds[]` before entering; they are read by properties only.
`caph_limit_stdio` is three `caph_limit_stream` steps;
`caph_cache_*` and `openlog` change no state of the shim.

*FetchBroker.*  `requests` and `answers` are the two directions of the socket
pair, `work` the request in `broker_connect_one`.  Requests are numbered in the
model only; the code's packets carry no number.  The start is taken apart:
`Confine` is one of its three fallible calls, `KillBroker`, `ReapBroker` and `CloseFd`
undo it, and the broker may die by itself, or SIGINT arrive, between any two.
`Alarm` is fetch's SIGALRM
interrupting `recvmsg` (the handler is installed without SA_RESTART); the code
returns EPIPE and fetch goes on.  Resolution, binding and connecting are one
answer that succeeds, if `broker_port_ok`, or fails.  A broker that dies with
requests unread resets fetch's end, as AF_UNIX sockets do.  Over-long host
names, `ASTROUTILS_SANDBOX=NONE` and a second `fetch_sandbox_begin` change no
state and have no action.

*Timeout.*  `pc` is the place in `main`; `pend` the signals blocked and pending.
All handlers run with every signal masked, so each `sigsuspend` delivers one
signal; which of several is left open.  `due` is what was sent to the command.
Durations are zero or not; a `-k` may also be so large that `setitimer(2)` refuses it
after the first signal was sent ("gaveup").  The command exits with timeout's own 124
or with another status.  "INT" stands for the caught terminating signals,
"WINCH" for the merely propagated ones.  The command is stubborn (survives what
it can) or not.  Orphans come to timeout only when it is the subreaper, that is
without `-f`.  `-s CHLD` is left out: it makes `sig_handler` take every SIGCHLD
for a terminating signal, so timeout never reaps and never leaves.

*FetchRun.*  `phase` is the place in `fetch()`; `job` holds its variables and the
file it has open: all that was written (`out`), where the next byte goes (`pos`),
how much has left the stdio buffer (`flushed`).  The remote file is
`<<1, ..., n>>`, so a byte out of place shows.  Opening and copying are one step
each, since nobody else touches the files; how many bytes arrive, how the stream
ends and how much stdio wrote by itself are open.  `us` (is the size known, is the
time) and where at or before the offset asked for the server's stream begins are
open too; a later start is refused ("too far?", `http.c:2051`).  `conn`, `armed` and
`sigalrm` tie `fetch()` to the broker: an alarm that cuts a wait short is
`FetchBroker`'s `Alarm`.  An interrupt ends the run.  `dirty` and `stale` are read
by `FileWhole` only; `dirty` is set by the retries named under Observations, and by
`-r` going on with a file while the remote time is not known.  `FilesAssumption`
is what resuming relies on: a local file with the time of the remote one has its
bytes, as far as both go.

*TelnetRing.*  Pointers are offsets, the two time stamps are their order
(`newer`), bytes are numbered.  One ring is followed; `use` says which of the
four it is.  An addition that no guard of the code limits has none here: the ring
is then "overrun", and its pointers are followed further while its bytes are not.
`SignalInNETADD` and `SignalInConsumed` are handlers in the middle of an update.
`netflush`'s recursion is a `pc` of its own, because a handler may run between two
levels.  `netclear` has an empty body and no counterpart.  To `RingQueue` the place of
a byte is unknown but for one bit, `edge`: the newest byte went to the buffer's first
place.  A mark set then is lost (Observations); the queue asks for it everywhere else.

*TelnetOptions.*  `me` is the client, `peer` a server that follows RFC 854
(external): it answers what changes its state and nothing else.  Each has the
messages the other has not read.  `hasty`, `uncounted`, `markAsked` and `stale`
record what the properties leave out.  `AcceptWill` and `AcceptDo` are the cases
of the two `switch` statements.  `Opening` has all requests of `telnet()` for the
options there are, XDISPLOC apart.  A connection with `telnetport < 0` (a port given
as `+port`), on which `send_*` count and send nothing and `telrcv` takes no IAC for
one, is left out.  SLC, NAWS and other sub-options, and what an
option does to the terminal, are left out.

*Xargs.*  `ps` holds the variables of `parse_input`; a step is one character.
`Words` is a second, independent definition of what the words of an input are.
A child whose exec fails has set `childerr` before `vfork` returns and is "dying",
not yet there to be waited for.  `stray` is a child xargs was started with.

## Runs

All passing runs say `CHECK_DEADLOCK FALSE`: the modelled processes end, and
bounds on calls, connects and signals stop the others.

| run | states | what it shows |
|---|---|---|
| `filters` | 52,000 | `NamespaceExact`: each mode's program denies that mode's calls and no other, except casper mode's read-only opens with O_DIRECTORY. `ArgLimitsExact`: allowlist programs deny exactly the unlisted commands, up to the jump budget. `OneFdRightsExact`, `FirstFdEnforced`: what rights programs do enforce. `ProgramsLoadable`: none overflows the buffer or jumps outside. |
| `filters_fd` | violation | `FdRightsExact` fails for what `caph_limit_stdio` registers: a read of descriptor 2 passes. |
| `filters_cmdidx` | violation | `CmdIdxInBounds` fails for tee with 20 descriptors. |
| `shim` | 113,000 | `AllOrNothing`, `RegistryFaithful`, `ArgLimitsEnforced`, `FsConfined`, `RightsEnforced`, `OnlyTightens` for every sequence of calls within the bounds. |
| `broker` | 670,000 | `FetchRun` and the broker. `AnswerSkewedByTimeouts`; `PortPolicy`: at most one port off the list; `CleanFailure`: whichever step of a start fails, no broker is left; `FileWhole`: a file reported fetched is the remote file; under fairness `WaitEnds`, `BrokerLeaves`. |
| `broker_timeout` | violation | `AnswerMatchesRequest` fails: a late answer is taken for the next request's. |
| `timeout` | 336,000 | `FlagsClear`, `StartGated`, `WaitsForAll`, `StatusTells`, `NoStraySignal`; under fairness `Ends`, `LimitEnforced`, `KillAfterEnforced`. |
| `timeout_descendants` | violation | `LimitReachesDescendants` fails: descendants are waited for, never signalled. |
| `timeout_early` | violation | `KillNotEarly` fails: a pending first expiry becomes an early SIGKILL. |
| `ring` | 171,000 | `InBounds`: `supply`, `consume` and every block read or written stay inside the buffer, after overruns too; the mark may lie outside (`Stray`) and nothing is read there. `QueriesAgree`: the counts the scheduler looks at and those the transfers use agree. `QueueSpec`: the ring implements `RingQueue`. `Drained`: it empties. |
| `options` | 474,000 | `Agree`: when nothing is on its way both sides have the same options. `Quiesces`: negotiation ends. `FlushEnds`: output is thrown away only until the timing mark is answered. |
| `xargs` | 443,000 | `Delivered`: each word once, in order. `ChildrenTracked`: slots are the children. `StatusTells`: the exit status. `Terminates`: also with a child that never ends. |

### Where a comment promises more

Six further configurations check what a comment or manual page says beyond the
properties above; TLC finds each of them violated within seconds.  The passing
properties name the same cases as exceptions.

| configuration | module | what fails |
|---|---|---|
| `filters_dir.cfg` | `MCFilterCheck` | `CasperReadsAnything` fails: casper mode refuses `opendir`. |
| `shim_reuse.cfg` | `MCCapsicumShim` | `LookupConfined` fails: a directory opened on the number of a closed CAP_LOOKUP one. |
| `broker_pin.cfg` | `MCFetchBroker` | `FirstConnectPins` fails: a first connect to a listed port pins nothing. |
| `timeout_status.cfg` | `MCTimeout` | `OnlyLimitReplaces` fails: 124 for the `-k` interval after a signal from outside. |
| `timeout_alrm.cfg` | `MCTimeout` | `LimitGives124` fails for `-s ALRM`. |
| `ring_mark.cfg` | `MCTelnetRing` | `MarkSpec`, the refinement without the exception at the edge, fails: the mark is lost there. |

### Bounds

* `filters`: descriptors 0, 1, 3, 8, 9, of which 0, 1, 8 and 9 are also numbers
  of limited calls (read, write, lseek, mmap) and 3 is not; lookup tables empty,
  with one, two and all eight descriptors; up to three limited descriptors in
  several orders; allowlists from one descriptor to the largest that pass the
  budget and one that does not.  A program's answer depends on equality of these
  numbers only.
* `shim`: three descriptors, two directories, `FD_LIMITS` 2, `LOOKUP_MAX` 1,
  `ALLOW_MAX` 1, `IOCTL_MAX` 2, so every table overflows; `FLUSH_CHUNK` 20 so
  that two limited descriptors need a full and a partial chunk; `JUMP_BUDGET` 15
  so that a registry may be refused; `MaxCalls` 3 limit, open and close calls
  around any number of enter calls: two limits on one descriptor and one on
  another, or a limit, a close and an open reusing the number.
* `broker`: one listed and two custom ports, two connects, two URLs (or retries by
  `-a`) with two passes each: a pinned and a refused port, a timeout in the first
  and its late answer in the second.  Local files absent, a part of the remote
  one, other, empty; remote ones empty or of three bytes, so that a first pass can
  resume a file and still be cut, and a second one can finish it.
  `broker_timeout` has two hosts and two connects, `broker_pin` the same without
  timeouts.  The proofs remove the bounds
  on hosts, ports, connects, files, URLs and passes.
* `timeout`: 23 command lines, one descendant, one outside signal, one stop.  Two
  timer expiries, a child's end, a stop and an outside signal can then all be
  pending together.

* `ring`: 8 bytes, the smallest ring that holds the longest addition (7 bytes)
  and one more; 18 bytes supplied, so that the pointers pass the top twice.
  Sub-option answers of 3 and of all 8 bytes.
* `options`: SGA (both sides may), LINEMODE (only the client, and it pulls SGA
  along) and TM (the flush's mark); one request of the user, one of the server,
  one flush, two connections.  The other options, and `-8` and `-L`, which add requests
  to the opening, are covered by the proof only.
* `xargs`: two slots, `-n` 2, a buffer of three bytes (`-s`) and inputs with quotes,
  escapes, NULs and an end-of-file word that fill and overflow it; one stray child.

### Fairness

* `broker`: weak fairness of the broker's and of fetch's receiving steps.  Both
  are ordinary processes, and a lookup or `connect(2)` ends by its own timeout.
  Alarms, exits, interrupts and kills are never forced.
* `ring`: weak fairness of the draining steps.  The scheduler flushes whatever
  there is (`flushline` is never cleared), and the peer or terminal is assumed to
  take what it is sent sooner or later.
* `options`: weak fairness of both sides reading.
* `xargs`: weak fairness of xargs' own steps and of the end of each child it
  started; nothing is assumed of a stray child.
* `timeout`: weak fairness of timeout's steps, of the timers, of the command's
  start and of the kernel acting on signals sent to it.  Nothing forces the
  command or a descendant to end by itself.

## Findings

1. `emit_fd_deny` (`capsicum.c:773`) does not reload the call number after a
   descriptor that does not match.  Of the entries for one call only the first
   is enforced in a program for several descriptors: after `caph_limit_stdio` a read
   of descriptor 1 is denied and one of descriptor 2 is not.
2. `install_arg1_limits` (`capsicum.c:899`) stores into `cmd_idx[96]` before any
   size test; 20 descriptors with the five safe ioctls pass the test afterwards.
   With 22 or more the test refuses and entering fails with ENOSPC.
3. `fetch_sandbox_connect` (`sandbox.c:244`) leaves the answer of an interrupted
   wait queued for the next request.  `MatchesWithoutTimeouts` proves that a
   timeout is the only way to a mismatch.
4. `send_sig` (`timeout.c:196`) signals the command alone, where timeout.1 says
   that without `-f` descendants are signalled.
5. With `-k`, a first expiry pending while a terminating signal is handled sends
   SIGKILL without the interval (`timeout.c:469-473`).

### Observations

What properties of the passing runs except by name, each checked to be reachable and
needed:

* fetch: a `sigalrm` left by one URL makes the next ones time out although they
  have a stream (`fetch.c:596`), with `-a` for ever; an empty remote file is then
  reported fetched and not created.  A retry by `-a` (`fetch.c:879`) goes on in a
  temporary file, behind an unflushed buffer, or with a stream that begins elsewhere
  than the file ends, and reports a damaged file as fetched.  So does one that
  follows an `-r` pass without a remote time: that pass may have gone on with
  another file, and the next does not compare times any more (`fetch.c:651`,
  `tries == 1`).  `-r` with an empty
  local file of another time passes a null stream to `setvbuf` (`fetch.c:653`,
  `789`).  `failure_keep` leaves a temporary file behind.
* programs: `emit_openflags_check` (`capsicum.c:334`) refuses O_DIRECTORY with
  O_TMPFILE, so casper mode answers `opendir` with EPERM, where the comments promise
  "read-only opens of anything" (71, 315, 323).
* shim: a CAP_LOOKUP number that is closed and reopened on another directory before
  entering (`capsicum.c:1151`) gives that directory away; the head comment calls what a
  reused number inherits over-restriction (22-24).  It also says that
  `caph_enter_casper` enforces exactly like `caph_enter` (26); the code does what the
  comment on the modes says (67-72).
* broker: `broker_port_ok` (`sandbox.c:88`) pins the first port off the list, whenever
  it comes.  The comments say that the first connect pins its port (84) and that
  everything off the list fails closed (26): after a first connect to port 80 a
  redirect may pin any port.
* timeout: 124 may come from the `-k` interval after a signal from outside
  (`timeout.c:458`), and with `-s ALRM` the limit gives no 124 (`timeout.c:148`), where
  timeout.1 ties 124 to the limit (177-183).
* timeout: a `-k` time too large for `setitimer` ends timeout after the first signal,
  with the command left alone (`timeout.c:470`).
* telnet rings: `ring_decrement` at the bottom (`ring.c:77`) puts the mark outside the
  buffer, where `ring_mark` is to "mark the most recently supplied byte" (119): the
  urgent byte goes out as ordinary data.  Additions without a look at the room (`telnet.c:259`, `2323`)
  overrun a full ring, which then looks nearly empty.  `commands.c:398` promises that `send synch` makes room; the
  `netclear` it calls does nothing.
* telnet options: a user who asks again before the answer, or the uncounted DO SGA
  at `telnet.c:527`, can start a loop of DO and DONT.  A refused option leaves a
  response count (`366`, `511`).  `init_telnet` keeps counts and `flushout` across
  connections (`178`).  `send do tm` answered by WILL keeps every later flush
  from ending (`345`).
* xargs: an exec failure collected late ends in status 1 and further commands
  (`xargs.c:602`).  With SIGCHLD ignored slots are never freed and xargs stops with
  an internal error (`763`).  `-x -n N` without `-L` runs one command per argument
  (`400`).  A quoted empty word before the end of the input can get lost (`317`).

## Proofs

Every safety property of every passing run is proved: for each of them a theorem
`Spec => []P` (or the action property, or the refinement) holds for every value
of the constants that satisfies the module's named assumption.

`FetchRunProofs` first proves of `FetchBroker`, for any hosts, ports, list of ports and number of
connects, from `BrokerAssumption` (the listed ports are ports, `NoPort` is none,
the bound is a natural number):

* `TypeCorrect`, `AnswersPaired`, `PortsConfined`, `FailsClean`: the four safety
  properties of run `broker`;
* `MatchesWithoutTimeouts`: with `Timeouts = FALSE` every accepted connection is
  the one asked for.

`AnswerSkewedByTimeouts` speaks of accepted answers and says nothing of packets
under way, so it is not inductive.  `IInv` adds `InFlight` (the queued answers,
the request being connected and the queued requests carry consecutive numbers
from the first unread one to the last one sent, as long as the broker lives) and
`Accounted` (until the broker hangs up, every request was answered, given up, or
is the one awaited): the head of `answers` is number `received + 1` and the
awaited one is `received + abandoned + 1`.  `Pinned` strengthens `PortPolicy`:
a custom port is pinned before it is connected to, and stays pinned.  `Started`
says at which steps of a start the broker may be in which state, which is what
`CleanFailure` needs at the end of them.  `NextIInv` has one step per action and under
it one per conjunct.

It then shows that the composition keeps what was proved:
`RunImplementsBroker` (`FSpec => Spec`) rests on `StepSimulates`, one case per
disjunct of `FNext`: a step of `fetch()` alone leaves `FetchBroker`'s variables as
they are (`FetchStepStutters`), every other one is a step of `FetchBroker`.
`RunAnswersPaired` and `RunPortsConfined` follow, for any flags, files and numbers
of URLs and retries.

`FilesWhole` proves `FileWhole` of run `broker`, from `FilesAssumption`
and `RunAssumption`, for any files, flags and numbers of URLs and passes.
`FileWhole` speaks of the end only.  `FileInv` says what holds on the way, as long
as nothing made the file dirty: all that was written is a part of the remote file
(`JobOK`); the next byte of the stream is the next byte of the file (`CopyOK`); a
first pass has nothing open, a later one goes on with a file of its own, a
temporary one only while the file at the path is shorter than the remote one
(`AskOK`); the closed file can be told from its time (`FileOK`).  `OverlayPart` is
the lemma about the bytes, `FoundPart` the one about what `-r` finds.  The attempt
showed that an earlier `FileWhole` was too strong: it excluded a missing time only
in the last pass, and two bytes were too few for TLC to see the difference.

`TelnetRingProofs` proves two safety properties of run `ring` for any ring size,
number of bytes and sub-option lengths, from `RingAssumption` alone (the size is
positive, the bounds are natural numbers):

* `RingInBounds`: nothing is read or written outside the buffer, overruns by
  unchecked additions and interrupting handlers included.  `IInv` says that
  `supply` and `consume` are slots and that only the network output ring is ever marked;
  `CountsInside` gets the blocks from it.
* `RingQueriesAgree`: while the ring is whole, what `process_rings()` asks before
  it selects agrees with what the transfers can do.  With a mark the count stops
  at the mark, so this needs `MarkInv`: a mark is on a byte that still waits, and
  the stray one (set with `supply` at the bottom) means that bytes wait up to the
  top.  `NextMarkInv` has one step per action.

* `RingImplementsQueue`: the refinement of `RingQueue`, `PROPERTY` of the run.
  `FillInv` says that, while the ring is whole, its slots from `consume` on hold
  the newest of the bytes supplied, in order, so `Contents` is known from two
  counts.  A mark is set where `supply` is not at the bottom, or lost (`MarkFilled`,
  `dosynchFed`), which gives `edge` its meaning.  `StepIsQueueStep` has one step per action; `AddedStep`, `TakenStep`,
  `UrgentStep` and `QuietStep` say what an addition, a removal, an urgent send and
  the rest are in the queue.

`TelnetOptionsProofs` proves `OptionsAgree`: `Agree` of run `options` for any set of
options and any number of requests, offers, flushes and connections, from
`OptionsAssumption`.  `Agree` speaks of the moments when nothing is on its way; any
number of words may be under way between them, and answers carry no number, so the
inductive invariant `Negotiation` counts.  For one option in one direction follow the
changes of mind round: from the last word the client has read, through what the
peer has said since, the peer's state and what the client has said, to the client's
wish.

* `Balanced`: the response count is at most the number of those changes, less two for
  each pair that nobody will respond to (the peer is silent when a request crosses
  its own).  This is where `Answered` takes two off the count.
* `Even`: the count is odd exactly if the client wishes for what it has not.
* With nothing under way at most two changes are left, before and after the peer's
  state; balance and parity then rule out that the sides disagree or that the peer
  still waits (`SideQuiet`).
* An option the client refuses breaks the balance, because its refusal is counted as a
  request (`telnet.c:366`, `511`).  While the user is not hasty, at most two
  words are under way each way, and `Refused` is a table of the states.

The words of an option are some of those in a queue shared with the others.  A
recursive filter would be out of reach, so `Track` relates them to the queue by a map of
positions, which grows at one end and shrinks at the other.  `Said` and `Told` carry
the counts as running totals for the same reason.  On top of this are the lemmas of
the handlers (`WillRead`, `WontRead`, `DoRead`, `DontRead`, `Asks`), the two sides'
steps over all options (`ReadSides`, `HearSides`, `OfferSides`, ...), and one lemma
per action.  `bye` keeps the invariant only if no response was due, which is why
`Agree` excludes `stale`.

`TimeoutProofs` proves all safety properties of run `timeout` for any command
lines, descendants and signals, from `TimeoutAssumption`: `TimeoutTypes`,
`NoSignalLost` (`FlagsClear`), `StartsGated`, `AllWaitedFor` (`WaitsForAll`),
`StatusIsTrue` (`StatusTells`), `NoSignalStray`.  `IInv` adds to the types that at most one
flag is set after a `sigsuspend` (`FlagInv`), what the control pipe says of the
command (`PipeInv`), that `child_done` and `child_si` are the command's end
(`ChildInv`), that in the foreground nothing is left to do once the command is
collected (`DoneInv`), a cause for each signal acted on (`CauseInv`), and what
`main` returned (`ExitInv`).  `StatusTells` needs four of them at once: a status
that is not the command's must come from the limit, an outside SIGALRM or the `-k`
interval after another signal, and an expiry is recorded in the timer, in a pending
signal, in a flag or in `timedout` by turns.

`XargsProofs` proves `AllChildrenTracked` (`ChildrenTracked`) and `XargsStatus`
(`StatusTells`) for any number of slots, limits and input, from `XargsAssumption`.
`IInv` says that slots and uncollected children are in bijection and `curprocs`
counts them (`Table`), when xargs may start a command and that whatever leads to
the end waits for all children (`Control`), and that each failure is still to be
collected or already known (`Blame`); it is stated for SIGCHLD at its default,
the condition of both properties.

`WordsDelivered` proves `Delivered` for any input, options, limits and buffer size.
`Words` reads the input with a recursive function of its own (`ReadTo`), state by
state and without a buffer; `Delivering` compares the two readings.  At every place
between two characters the words handed over, packed and half read are those
`ReadTo` has after the same characters, in the same quotation (`SameAs`); the buffer
has room for the byte to come (`Fits`); once the last command is packed, it holds
the rest of `Words`, and at the end at most an empty word is missing.  A refill of
the buffer or a limit that is reached moves words between the parts and leaves
their concatenation alone, which is the case `-n`, `-L` and `-s` have in common.

`BpfFilterProofs` says what programs answer.  A jump leads forward, so the
equation of the interpreter has a solution on every program whose jumps stay inside
it (`StepInside`, `ExecDefined`), and one step of a run is an equation to reason
with (`OneStep`).  Then, bottom up:

* for each kind of block its length and its jumps (`DenyEachFits`, `OpenflagsFits`,
  `LookupFits`, `EntryBodyFits`, `OwnFits`), and what it does to a run that reaches it
  at any place in any program (`DoDenyEach`, `DoOpenflags`, `DoLookup`, `DoEntry`,
  `DoOwn`): answers, or goes on behind itself with the register it leaves there;
* for each whole program its answer to every call: `NamespaceAnswer`, `ArgAnswer`,
  and for rights programs `ChunkDenies` (the first entry of a call decides),
  `ChunkPasses` (a call with no entry passes) and `SingleExact` (one descriptor).

The conditions are those that keep 8-bit jumps from wrapping: at most 252 lookup
descriptors, 85 entries, and an allowlist program within a budget below 256.

`FilterCheckProofs` gets all properties of run `filters` from these, from
`CheckAssumption` (descriptors are numbers, a lookup table has at most the eight
places of `lookup_fds[]`, registries are sequences of descriptors with classes):
`CheckTypes`, `NamespaceIsExact`, `ArgLimitsAreExact`,
`OneFdRightsAreExact`, `FirstFdIsEnforced`, `ProgramsAreLoadable`.  The sizes are
the code's, while descriptors, orders, denials, lists and flags are any.  `CheckInv`
remembers that the verdict is the program's answer.  `OneFdRightsAreExact` needs
that the mmap entry, the one that looks at another argument, is the last.

`CapsicumShimProofs` proves all properties of run `shim`, for any descriptors,
rights, command lists, table sizes and sequences of calls.  `ConstantsAssumption`
has the types, and the sizes the jump distances need: `LOOKUP_MAX + 3`,
`JUMP_BUDGET` and `3 * FLUSH_CHUNK - 2` below 256 (the code has 11, 200 and 178)
and `FLUSH_CHUNK` at least 16, the entries of one descriptor (60 in the code).  The
argument goes from the calls to the answers in three stages.

* Tables: `ShimTypes`, `SandboxAllOrNothing`, `RegistryIsFaithful`,
  `EnteringIsFinal` (`OnlyTightens`).  The conjunction of the first three is
  inductive.
* Layers: `LayersAreFaithful` and `DomainIsFaithful` say that the layers and the
  Landlock domain in force are exactly what the limit calls and the mode asked for,
  whether consolidated on entering or stacked later.
* Programs: `ArgPasses`, `DenyLets`, `DenyStops` and `NsPasses` say what the
  programs of one layer answer.  Every entry of a layer is in one of its chunks, and
  the first entry of a call number is the first in its chunk too (`ChunksShape`).
  The inductive invariant `Stacked` says that the layers in force can be assembled:
  none was refused, lookup tables fit, an allowlist names a descriptor once, only
  the first layer is a namespace program, a denial after entering has a layer of
  its own.  `StackAnswers` puts the programs together.

From the three stages: `ArgLimitsAreEnforced` (`ArgLimitsEnforced`),
`RightsAreEnforced` (`RightsEnforced`) and `FilesAreConfined` (`FsConfined`, whose exceptions are a number
dropped from a full `lookup_fds[]` and a directory opened on a registered number), about
system calls answered by running every program in force.  Running also shows why
the namespace program may be left out of `FdPrograms`: it passes every call the two
first properties make.

### Recursion and induction

The prover cannot instantiate the library's induction theorems, whose parameter is
an operator.  Two detours replace them.  A statement about all indices is turned
into one about the set of indices where it fails, which has no least element
(`LeastExists`, from the well-foundedness of `<` on the naturals).  A recursive
function is a CHOOSE among the functions that satisfy its equation; that there is
one is shown by extending a partial table by one index (`ExecDefined`,
`ArgFromDefined`, and likewise for `ReadTo`).  No module reaches a RECURSIVE
operator.

### Model-checked only

Liveness: `WaitEnds`, `BrokerLeaves`, `Ends`, `LimitEnforced`, `KillAfterEnforced`,
`Drained`, `Quiesces`, `FlushEnds`, `Terminates`.  Fairness and ENABLED are outside
the prover.  The violations are TLC's too.

## Not modelled

Imported sequential tools (interpreters, editors, compressors, file utilities),
protocol parsers and vendored storage code: their correctness is about strings,
formats and file systems rather than about control state.  sh's job control is a
project of its own.  Other architectures of the seccomp tables differ in call
numbers only.  `PROJECT.json` gives the reason for each component.

## Plan

Done: `BpfFilter` and `FilterCheck`; `CapsicumShim`, `FetchBroker`, `FetchRun`,
`Timeout`, `TelnetRing` refining `RingQueue`, `TelnetOptions` and `Xargs`, each with
proofs.

Every safety property the runs check is proved.  Left for TLC is the liveness under
fairness.  The next components worth a model would be chunked decoding in
`libfetch/http.c`, netcat's poll loop and the options of xargs that rewrite a command
(`-I`, `-J`, `-R`).
