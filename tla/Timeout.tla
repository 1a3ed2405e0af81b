------------------------------ MODULE Timeout ------------------------------
(***************************************************************************)
(* timeout(1): src.freebsd/coreutils/timeout/timeout.c.                    *)
(*                                                                         *)
(* timeout blocks every signal, forks the command, arms a timer, lets the  *)
(* command start and then sleeps in sigsuspend().  It interleaves with the *)
(* command, the command's descendants, the timer, job control and signals  *)
(* from outside.  All handlers run with every signal masked, so each       *)
(* sigsuspend() delivers exactly one of the pending signals; which one is  *)
(* left open here.                                                         *)
(***************************************************************************)
EXTENDS Integers, FiniteSets

CONSTANTS
    Options,      \* the command lines, and commands, that are tried
    Outside,      \* signals that others may send to timeout
    Descendants,  \* processes the command may start
    MaxSignals,   \* bound: signals from outside
    MaxStops      \* bound: times job control stops the command

\* "INT" stands for the caught signals that terminate by default, "WINCH" for
\* those merely propagated.  SIGTTIN and SIGTTOU are ignored and left out.
Terminating == {"TERM", "INT", "SEGV"}
Signals == Terminating \cup {"ALRM", "CHLD", "CONT", "KILL", "WINCH"}

None == "none"

\* Durations are told apart only by being zero (a negative one counts as that)
\* or not; -k may be absent, or without a suffix too large for a time_t.
\* -s CHLD turns every SIGCHLD into a signal to pass on; see the README.
AllOptions == [foreground : BOOLEAN, preserve : BOOLEAN, sig : Signals \ {"CHLD"},
               limit : {"zero", "some"}, after : {"absent", "zero", "some", "huge"},
               stubborn : BOOLEAN]   \* the command survives what it can

ASSUME TimeoutAssumption ==
    /\ Options \subseteq AllOptions
    /\ Outside \subseteq Signals \ {"KILL", "CONT"}
    /\ IsFiniteSet(Descendants)
    /\ MaxSignals \in Nat /\ MaxStops \in Nat

VARIABLES
    opt,            \* the command line, and the command's temper
    pc,             \* where timeout is
    pend,           \* signals pending for timeout
    sig_chld, sig_alrm, sig_term, sig_other,
    killsig, do_second_kill, timedout, child_done, child_si,
    timer,          \* ITIMER_REAL: "off", "first" or "second"
    exit,           \* how timeout ended
    pipe,           \* the control pipe: "open", "token" or "closed"
    child,          \* the command: none, wait, run, stop, zombie, reaped
    due,            \* signals pending for the command
    fate,           \* how the command ended
    desc,           \* the descendants: none, run, zombie, gone
    nsig, nstop,    \* signals from outside, stops so far
    outside,        \* the signals sent from outside
    expired,        \* the timers that have expired
    early,          \* SIGKILL was sent before the second interval passed
    stray           \* one was sent after the command was reaped

flags    == <<sig_chld, sig_alrm, sig_term, sig_other>>
plan     == <<killsig, do_second_kill, timedout, timer>>
outcome  == <<child_done, child_si, exit>>
others   == <<child, due, fate, desc, nstop>>
ghosts   == <<nsig, outside, expired, early, stray>>
vars == <<opt, pc, pend, flags, plan, outcome, pipe, others, ghosts>>

Exited(c) == [how |-> "exited", val |-> c]
Killed(s) == [how |-> "killed", val |-> s]
NoFate    == [how |-> None, val |-> 0]

EXIT_FAILURE == 1
EX_OSERR     == 71
EXIT_TIMEOUT == 124

Init ==
    /\ opt \in Options
    /\ pc = "start" /\ pend = {}
    /\ sig_chld = FALSE /\ sig_alrm = FALSE /\ sig_term = None /\ sig_other = None
    /\ killsig = opt.sig /\ do_second_kill = (opt.after # "absent")
    /\ timedout = FALSE /\ timer = "off"
    /\ child_done = FALSE /\ child_si = NoFate /\ exit = NoFate
    /\ pipe = "open"
    /\ child = "none" /\ due = {} /\ fate = NoFate
    /\ desc = [d \in Descendants |-> "none"]
    /\ nsig = 0 /\ nstop = 0
    /\ outside = {} /\ expired = {} /\ early = FALSE /\ stray = FALSE

-----------------------------------------------------------------------------
(* Starting the command.  Any failing call reports and exits.              *)

Fail(code) == /\ pc' = "failed" /\ exit' = Exited(code)
              /\ pipe' = "closed" /\ timer' = "off" /\ pend' = {}

\* prctl (not with -f), sigprocmask, pipe2 and fork.
Fork ==
    /\ pc = "start"
    /\ \/ /\ pc' = "forked" /\ child' = "wait"
          /\ UNCHANGED <<exit, pipe, timer, pend>>
       \/ ~opt.foreground /\ Fail(EX_OSERR) /\ UNCHANGED child
       \/ Fail(EXIT_FAILURE) /\ UNCHANGED child
    /\ UNCHANGED <<opt, flags, killsig, do_second_kill, timedout,
                   child_done, child_si, due, fate, desc, nstop, ghosts>>

\* The handlers are installed and set_interval(first_kill) arms the timer.
\* Faulty: the command is released before the timer is armed.
ArmAfterRelease ==
    /\ pc = "forked" /\ pc' = "armed" /\ pipe' = "token"
    /\ timer' = IF opt.limit = "some" THEN "first" ELSE "off"
    /\ UNCHANGED <<opt, pend, flags, killsig, do_second_kill, timedout, outcome,
                   others, ghosts>>
Arm ==
    /\ pc = "forked"
    /\ \/ /\ pc' = "armed"
          /\ timer' = IF opt.limit = "some" THEN "first" ELSE "off"
          /\ UNCHANGED <<exit, pipe, pend>>
       \/ Fail(EXIT_FAILURE)
    /\ UNCHANGED <<opt, flags, killsig, do_second_kill, timedout,
                   child_done, child_si, others, ghosts>>

\* The byte on the control pipe; with the command already dead nobody reads
\* it and the write fails (SIGPIPE is blocked).
Release ==
    /\ pc = "armed"
    /\ IF child = "wait"
         THEN /\ pc' = "suspend" /\ pipe' = "token"
              /\ UNCHANGED <<exit, timer, pend>>
         ELSE Fail(EXIT_FAILURE)
    /\ UNCHANGED <<opt, flags, killsig, do_second_kill, timedout,
                   child_done, child_si, others, ghosts>>

-----------------------------------------------------------------------------
(* The loop.                                                               *)

\* sig_handler; a signal equal to killsig is a terminating one, whatever
\* it is.
sig_handler(s) ==
    /\ sig_term'  = IF s = killsig \/ s \in Terminating
                      THEN s ELSE sig_term
    /\ sig_chld'  = (sig_chld \/ (s # killsig /\ s = "CHLD"))
    /\ sig_alrm'  = (sig_alrm \/ (s # killsig /\ s = "ALRM"))
    /\ sig_other' = IF s # killsig /\ s = "WINCH" THEN s ELSE sig_other

\* sigsuspend(): one pending signal is handled and the loop goes on.
\* Faulty: handlers run with the other signals unmasked.
DeliverUnmasked(s) ==
    /\ pc \in {"suspend", "awake"} /\ s \in pend
    /\ pend' = pend \ {s}
    /\ sig_handler(s)
    /\ pc' = "awake"
    /\ UNCHANGED <<opt, plan, outcome, pipe, others, ghosts>>
Deliver(s) ==
    /\ pc = "suspend" /\ s \in pend
    /\ pend' = pend \ {s}
    /\ sig_handler(s)
    /\ pc' = "awake"
    /\ UNCHANGED <<opt, plan, outcome, pipe, others, ghosts>>

\* send_sig: the signal, and SIGCONT after any but the three excepted.
\* A dead or reaped command makes kill() fail with ESRCH.
Signal(S) == due' = IF child \in {"wait", "run", "stop"} THEN due \cup S ELSE due
NoteSent(s) ==
    /\ early' = (early \/ (s = "KILL" /\ opt.sig # "KILL" /\ "second" \notin expired
                           /\ "ALRM" \notin outside))
    /\ stray' = (stray \/ child = "reaped")
\* Faulty: a stopped command is not continued.
SendWithoutCont(s) == Signal({s}) /\ NoteSent(s)
send_sig(s) ==
    /\ Signal({s} \cup (IF s \in {"KILL", "CONT"} THEN {} ELSE {"CONT"}))
    /\ NoteSent(s)

\* The -k part: arm the second interval, once.  setitimer() refuses the time
\* that a huge -k became: timeout exits and leaves the command behind.
\* Faulty: the second signal is the first one again.
SecondKillSame ==
    \/ /\ do_second_kill
       /\ timer' = IF opt.after = "some" THEN "second" ELSE "off"
       /\ do_second_kill' = FALSE /\ pc' = "suspend"
       /\ UNCHANGED <<killsig, exit, pend>>
    \/ /\ ~do_second_kill /\ pc' = "suspend"
       /\ UNCHANGED <<timer, do_second_kill, killsig, exit, pend>>
SecondKill ==
    \/ /\ do_second_kill /\ opt.after # "huge"
       /\ timer' = IF opt.after = "some" THEN "second" ELSE "off"
       /\ do_second_kill' = FALSE /\ killsig' = "KILL" /\ pc' = "suspend"
       /\ UNCHANGED <<exit, pend>>
    \/ /\ do_second_kill /\ opt.after = "huge"
       /\ pc' = "gaveup" /\ exit' = Exited(EXIT_FAILURE)
       /\ timer' = "off" /\ pend' = {}
       /\ UNCHANGED <<do_second_kill, killsig>>
    \/ /\ ~do_second_kill /\ pc' = "suspend"
       /\ UNCHANGED <<timer, do_second_kill, killsig, exit, pend>>

\* sig_alrm || sig_term, when no child has changed state.
Terminate ==
    /\ pc = "awake" /\ ~sig_chld /\ (sig_alrm \/ sig_term # None)
    /\ IF sig_alrm
         THEN /\ send_sig(killsig)
              /\ sig_alrm' = FALSE /\ timedout' = TRUE
              /\ UNCHANGED sig_term
         ELSE /\ send_sig(sig_term)
              /\ sig_term' = None
              /\ UNCHANGED <<sig_alrm, timedout>>
    /\ SecondKill
    /\ UNCHANGED <<opt, sig_chld, sig_other, child_done, child_si, pipe, child, fate,
                   desc, nstop, nsig, outside, expired>>

\* sig_other.
Propagate ==
    /\ pc = "awake" /\ ~sig_chld /\ ~sig_alrm /\ sig_term = None
    /\ sig_other # None
    /\ send_sig(sig_other)
    /\ sig_other' = None
    /\ pc' = "suspend"
    /\ UNCHANGED <<opt, pend, sig_chld, sig_alrm, sig_term, plan, outcome, pipe,
                   child, fate, desc, nstop, nsig, outside, expired>>

\* sig_chld: the waitid() loop follows.
Collect ==
    /\ pc = "awake" /\ sig_chld
    /\ sig_chld' = FALSE
    /\ pc' = "reap"
    /\ UNCHANGED <<opt, pend, sig_alrm, sig_term, sig_other, plan, outcome, pipe,
                   others, ghosts>>

\* Orphans come to timeout only if it is the subreaper.
Orphans == IF child \in {"zombie", "reaped"} /\ ~opt.foreground
             THEN {d \in Descendants : desc[d] \in {"run", "zombie"}} ELSE {}
OrphanZombies == {d \in Orphans : desc[d] = "zombie"}

\* One round of the loop that finds a zombie.
ReapChild == /\ child = "zombie" /\ child' = "reaped"
             /\ child_done' = TRUE /\ child_si' = fate
             /\ UNCHANGED desc
\* Faulty: a descendant's status replaces the command's.
ReapAnyStatus ==
    /\ \E d \in OrphanZombies : desc' = [desc EXCEPT ![d] = "gone"]
    /\ child_si' = Exited(0)
    /\ UNCHANGED <<child, child_done>>
ReapDescendant ==
    /\ \E d \in OrphanZombies : desc' = [desc EXCEPT ![d] = "gone"]
    /\ UNCHANGED <<child, child_done, child_si>>
\* Faulty: one waitid() per SIGCHLD.
ReapOnce ==
    /\ pc = "reap" /\ pc' = "reaped"
    /\ ReapChild \/ ReapDescendant
    /\ UNCHANGED <<opt, pend, flags, plan, exit, pipe, due, fate, nstop, ghosts>>
Reap ==
    /\ pc = "reap"
    /\ ReapChild \/ ReapDescendant
    /\ UNCHANGED <<opt, pc, pend, flags, plan, exit, pipe, due, fate, nstop, ghosts>>

\* The round that finds none.
ReapEnd ==
    /\ pc = "reap" /\ child # "zombie" /\ OrphanZombies = {}
    /\ pc' = "reaped"
    /\ UNCHANGED <<opt, pend, flags, plan, outcome, pipe, others, ghosts>>

\* What main returns, or the signal it dies of.
\* Faulty: a signal is turned into the exit code a shell would show.
StatusAsShell ==
    IF timedout /\ ~opt.preserve THEN Exited(EXIT_TIMEOUT)
    ELSE IF child_si.how = "killed" THEN Exited(143) ELSE child_si
Status ==
    IF timedout /\ ~opt.preserve THEN Exited(EXIT_TIMEOUT) ELSE child_si

Leave == pc' = "exited" /\ exit' = Status /\ timer' = "off" /\ pend' = {}

\* waitpid() finds no child, running or dead.
\* Faulty: running orphans do not count; or -f is taken the other way.
NoZombieLeft == opt.foreground \/ OrphanZombies = {}
NoChildLeftSwapped == ~opt.foreground /\ Orphans = {}
NoChildLeft == opt.foreground \/ Orphans = {}

\* After the loop: leave, or wait for the descendants.  The waitpid() that
\* asks whether any are left may itself collect one.
Decide ==
    /\ pc = "reaped"
    /\ IF child_done /\ NoChildLeft
         THEN Leave /\ UNCHANGED desc
         ELSE /\ pc' = "suspend"
              /\ IF child_done /\ OrphanZombies # {}
                   THEN \E d \in OrphanZombies : desc' = [desc EXCEPT ![d] = "gone"]
                   ELSE UNCHANGED desc
              /\ UNCHANGED <<exit, timer, pend>>
    /\ UNCHANGED <<opt, flags, killsig, do_second_kill, timedout,
                   child_done, child_si, pipe, child, due, fate, nstop, ghosts>>

-----------------------------------------------------------------------------
(* The timer, the command, its descendants and the outside (the kernel and *)
(* programs that are not part of timeout).  What they do after timeout has *)
(* ended is followed only as far as the command's read of the pipe.        *)

Alive == pc \notin {"exited", "failed", "gaveup", "killed"}

\* ITIMER_REAL goes off.
Expire ==
    /\ timer # "off"
    /\ pend' = pend \cup {"ALRM"}
    /\ expired' = expired \cup {timer}
    /\ timer' = "off"
    /\ UNCHANGED <<opt, pc, flags, killsig, do_second_kill, timedout, outcome, pipe,
                   others, nsig, outside, early, stray>>

\* A signal from outside.
SignalTimeout(s) ==
    /\ Alive /\ pc # "start" /\ nsig < MaxSignals
    /\ nsig' = nsig + 1
    /\ pend' = pend \cup {s}
    /\ outside' = outside \cup {s}
    /\ UNCHANGED <<opt, pc, flags, plan, outcome, pipe, others, expired, early, stray>>

\* SIGKILL to timeout, which spares the command.
KillTimeout ==
    /\ Alive /\ pc # "start"
    /\ pc' = "killed" /\ timer' = "off" /\ pend' = {}
    /\ pipe' = IF pipe = "open" THEN "closed" ELSE pipe
    /\ UNCHANGED <<opt, flags, killsig, do_second_kill, timedout, outcome,
                   others, ghosts>>

\* The command's read of the control pipe: it runs, or gives up at EOF.
Start ==
    /\ child = "wait" /\ pipe # "open"
    /\ IF pipe = "token"
         THEN child' = "run" /\ UNCHANGED <<fate, pend>>
         ELSE /\ child' = "zombie" /\ fate' = Exited(EXIT_FAILURE)
              /\ pend' = IF Alive THEN pend \cup {"CHLD"} ELSE pend
    /\ UNCHANGED <<opt, pc, flags, plan, outcome, pipe, due, desc, nstop, ghosts>>

\* The command ends with f; timeout, and as subreaper its orphans' zombies,
\* are notified by the same signal.
ChildEnds(f) ==
    /\ Alive
    /\ child' = "zombie" /\ fate' = f /\ due' = {}
    /\ pend' = pend \cup {"CHLD"}
    /\ UNCHANGED <<opt, pc, flags, plan, outcome, pipe, desc, nstop, ghosts>>

\* It exits, with timeout's own 124 or with any other status (0), or is killed
\* by someone else.
ChildExit ==
    \/ child = "run" /\ \E c \in {0, EXIT_TIMEOUT} : ChildEnds(Exited(c))
    \/ child \in {"wait", "run", "stop"} /\ ChildEnds(Killed("SEGV"))

\* It dies of a signal timeout sent; a stopped one only of SIGKILL.
ChildDies(s) ==
    /\ s \in due \ {"CONT", "CHLD", "WINCH"}
    /\ child \in {"wait", "run"} \/ (child = "stop" /\ s = "KILL")
    /\ ChildEnds(Killed(s))

\* It ignores or survives one.
ChildSurvives(s) ==
    /\ Alive /\ s \in due /\ child = "run" /\ "KILL" \notin due /\ s # "CONT"
    /\ opt.stubborn \/ s \in {"CHLD", "WINCH"}
    /\ due' = due \ {s}
    /\ UNCHANGED <<opt, pc, pend, flags, plan, outcome, pipe, child, fate, desc,
                   nstop, ghosts>>

\* SIGCONT takes effect at once, and timeout hears of it.
ChildContinues ==
    /\ Alive /\ "CONT" \in due /\ child \in {"wait", "run", "stop"}
    /\ due' = due \ {"CONT"}
    /\ child' = IF child = "stop" THEN "run" ELSE child
    /\ pend' = IF child = "stop" THEN pend \cup {"CHLD"} ELSE pend
    /\ UNCHANGED <<opt, pc, flags, plan, outcome, pipe, fate, desc, nstop, ghosts>>

\* Job control stops it: SIGCHLD without anything to collect.  A pending
\* terminating signal is acted on first (the kernel takes the lowest).
ChildStops ==
    /\ Alive /\ child = "run" /\ due = {} /\ nstop < MaxStops
    /\ nstop' = nstop + 1
    /\ child' = "stop"
    /\ pend' = pend \cup {"CHLD"}
    /\ UNCHANGED <<opt, pc, flags, plan, outcome, pipe, due, fate, desc, ghosts>>

\* A descendant starts, ends, or is collected by the command.
Spawn(d) ==
    /\ Alive /\ desc[d] = "none"
    /\ child = "run" \/ \E e \in Descendants : desc[e] = "run"
    /\ desc' = [desc EXCEPT ![d] = "run"]
    /\ UNCHANGED <<opt, pc, pend, flags, plan, outcome, pipe, child, due, fate,
                   nstop, ghosts>>

DescEnds(d) ==
    /\ Alive /\ desc[d] = "run"
    /\ desc' = [desc EXCEPT ![d] =
                 IF opt.foreground /\ child \in {"zombie", "reaped"} THEN "gone"
                 ELSE "zombie"]
    /\ pend' = IF d \in Orphans THEN pend \cup {"CHLD"} ELSE pend
    /\ UNCHANGED <<opt, pc, flags, plan, outcome, pipe, child, due, fate, nstop, ghosts>>

DescCollected(d) ==
    /\ Alive /\ desc[d] = "zombie" /\ child = "run"
    /\ desc' = [desc EXCEPT ![d] = "gone"]
    /\ UNCHANGED <<opt, pc, pend, flags, plan, outcome, pipe, child, due, fate,
                   nstop, ghosts>>

-----------------------------------------------------------------------------
TimeoutStep ==
    \/ Fork \/ Arm \/ Release
    \/ \E s \in Signals : Deliver(s)
    \/ Terminate \/ Propagate \/ Collect \/ Reap \/ ReapEnd \/ Decide

SignalTaken == \E s \in Signals : ChildDies(s) \/ ChildSurvives(s)

Next ==
    \/ TimeoutStep
    \/ Expire \/ KillTimeout \/ (\E s \in Outside : SignalTimeout(s))
    \/ Start \/ ChildExit \/ SignalTaken \/ ChildContinues \/ ChildStops
    \/ \E d \in Descendants : Spawn(d) \/ DescEnds(d) \/ DescCollected(d)

Spec == Init /\ [][Next]_vars

(* timeout keeps running, timers expire, and the kernel starts the command *)
(* and acts on the signals sent to it.  Nothing makes the command or its   *)
(* descendants end on their own, and nothing forces signals from outside.  *)
FairSpec ==
    /\ Spec
    /\ WF_vars(TimeoutStep) /\ WF_vars(Expire) /\ WF_vars(Start)
    /\ WF_vars(SignalTaken) /\ WF_vars(ChildContinues)

-----------------------------------------------------------------------------
(* The types of timeout's variables and of the processes around it.        *)
Fates == {NoFate} \cup [how : {"exited"}, val : {0, EXIT_FAILURE, EX_OSERR, EXIT_TIMEOUT}]
                  \cup [how : {"killed"}, val : Signals]

Booleans ==
    {sig_chld, sig_alrm, do_second_kill, timedout, child_done, early, stray} \subseteq BOOLEAN

TypeOK ==
    /\ Booleans
    /\ opt \in Options
    /\ pc \in {"start", "forked", "armed", "suspend", "awake", "reap", "reaped",
               "exited", "failed", "gaveup", "killed"}
    /\ pend \subseteq Signals
    /\ sig_term \in Signals \cup {None} /\ sig_other \in Signals \cup {None}
    /\ killsig \in Signals /\ timer \in {"off", "first", "second"}
    /\ child_si \in Fates /\ exit \in Fates
    /\ pipe \in {"open", "token", "closed"}
    /\ child \in {"none", "wait", "run", "stop", "zombie", "reaped"}
    /\ due \subseteq Signals /\ fate \in Fates
    /\ desc \in [Descendants -> {"none", "run", "zombie", "gone"}]
    /\ nsig \in Nat /\ nstop \in Nat
    /\ outside \subseteq Signals /\ expired \subseteq {"first", "second"}

(* No signal is lost in the handler's flags: timeout never goes back to    *)
(* sigsuspend() with one noted and not acted on.                           *)
FlagsClear ==
    pc = "suspend" =>
      ~sig_chld /\ ~sig_alrm /\ sig_term = None /\ sig_other = None

(* The command runs only once the timer is armed and timeout is listening, *)
(* and never if timeout failed to start.                                   *)
StartGated ==
    /\ child \in {"run", "stop"} => pc \notin {"start", "forked", "armed", "failed"}
    /\ pc = "failed" => fate.how # "exited" \/ fate.val = EXIT_FAILURE

(* timeout "will wait for all the descendants to terminate" unless in the  *)
(* foreground (timeout.1).                                                 *)
WaitsForAll ==
    pc = "exited" /\ ~opt.foreground =>
      child = "reaped" /\ \A d \in Descendants : desc[d] \in {"none", "gone"}

(* The exit status tells what happened.  It is the command's own end, and  *)
(* never a descendant's, except for a 124 after the limit or a SIGALRM, or *)
(* after the -k interval that followed a signal from outside; and a        *)
(* command that the limit's signal killed is reported as 124.              *)
StatusTells ==
    pc = "exited" =>
      /\ fate # NoFate
      /\ exit # fate =>
           /\ exit = Exited(EXIT_TIMEOUT) /\ ~opt.preserve
           /\ \/ "first" \in expired \/ "ALRM" \in outside
              \/ "second" \in expired /\ outside # {}
      /\ fate = Killed(opt.sig) /\ outside = {} /\ ~opt.preserve
           /\ opt.sig \notin {"ALRM", "SEGV"} => exit = Exited(EXIT_TIMEOUT)

(* "If the time limit was reached and the --preserve-status option is not  *)
(* specified, the exit status is 124.  Otherwise, timeout exits with the   *)
(* same exit status as the command" (timeout.1), and a SIGALRM counts as   *)
(* the limit: no other status replaces the command's.                      *)
OnlyLimitReplaces ==
    pc = "exited" /\ exit # fate => "first" \in expired \/ "ALRM" \in outside

(* The same sentence, the other way: a command killed by the signal that   *)
(* the limit sent is reported as 124, whichever signal it is.              *)
LimitGives124 ==
    pc = "exited" /\ fate = Killed(opt.sig) /\ opt.sig # "SEGV" /\ outside = {}
      /\ ~opt.preserve => exit = Exited(EXIT_TIMEOUT)

(* In the foreground timeout never signals a process number it has already *)
(* given back to the system.                                               *)
NoStraySignal == opt.foreground => ~stray

(* When the command and its descendants are gone, timeout ends.            *)
Ends ==
    (pc = "suspend" /\ child \in {"zombie", "reaped"} /\
       \A d \in Descendants : desc[d] # "run")
      ~> ~Alive

(* "If the command is still running after duration, it is killed": with a  *)
(* limit, a command that does not resist the signal comes to an end, even  *)
(* if it is stopped; or the signal is on its way to it when a huge -k ends *)
(* timeout.                                                                *)
LimitEnforced ==
    (pc = "suspend" /\ opt.limit = "some" /\ ~opt.stubborn)
      ~> \/ child \in {"zombie", "reaped"} \/ pc = "killed"
         \/ pc = "gaveup" /\ due # {}

(* -k: once the first signal is sent, even a command that resists signals  *)
(* comes to an end.                                                        *)
KillAfterEnforced ==
    (opt.after = "some" /\ ~do_second_kill)
      ~> (child \in {"zombie", "reaped"} \/ pc = "killed")

(* "Send a SIGKILL signal if command is still running after time since the *)
(* first signal was sent" (timeout.1, -k): with no SIGALRM from outside,   *)
(* SIGKILL is sent only when the second interval has passed.               *)
KillNotEarly == ~early

(* "Only time out the command itself, but do not propagate signals to its  *)
(* descendants" (timeout.1, -f), and without -f "timeout -s TERM 2 sh -c   *)
(* 'sleep 4 & sleep 5'" completes in 2 seconds: without -f, when the limit *)
(* is reached everything that does not resist is killed, and timeout ends. *)
LimitReachesDescendants ==
    (pc = "suspend" /\ timedout /\ ~opt.foreground /\ ~opt.stubborn) ~> ~Alive
=============================================================================
