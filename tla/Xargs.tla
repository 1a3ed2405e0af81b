-------------------------------- MODULE Xargs --------------------------------
(***************************************************************************)
(* xargs, src.freebsd/findutils/xargs/xargs.c: arguments are read from the *)
(* input and packed into command lines, up to maxprocs commands run at a   *)
(* time, and their ends decide when to stop and with which status.         *)
(*                                                                         *)
(* A child is vforked: the parent goes on once the child has execed or is  *)
(* in _exit(), so a failed exec has set childerr before the parent runs    *)
(* again, but the child may not be there to be waited for yet.             *)
(*                                                                         *)
(* Left out: -I, -J, -R and -S (strnsubst.c), which rewrite a command line *)
(* that has been packed, and failures of malloc and waitpid.               *)
(***************************************************************************)
EXTENDS Naturals, Sequences, FiniteSets, SequencesExt

CONSTANTS
    Chars,       \* characters
    Inputs,      \* the inputs: sequences of characters
    Settings,    \* the options given: records with z, L, x, E, p
    maxprocs,    \* -P
    nargs,       \* -n
    nline        \* -s, less what the utility and its arguments take

ASSUME XargsAssumption ==
    /\ {"\n", "NUL"} \subseteq Chars /\ Inputs \subseteq Seq(Chars)
    /\ maxprocs \in Nat \ {0} /\ nargs \in Nat \ {0} /\ nline \in Nat \ {0}
    /\ \A o \in Settings : o.z \in BOOLEAN /\ o.x \in BOOLEAN /\ o.p \in BOOLEAN
                           /\ o.L \in Nat

NOPID == 0
Pids == 1 .. maxprocs + 2
Ended == {"ok", "fail", "abort", "signal"}   \* abort: exit status 255

VARIABLES
    opt,       \* the options given
    input,     \* what is left of the input
    ps,        \* parse_input()'s variables
    cmd,       \* the arguments of the command about to run
    pc,        \* parse, run, wait (in waitchildren), exited,
               \* broken (internal error)
    after,     \* what waitchildren() returns to: parse, last, exit, exit1
    waitall, cause, rval, code,
    slots, curprocs, childerr,
    proc,      \* process table: free, running, dying, or how it ended
    stray,     \* a child xargs was started with, if any
    sigchld,   \* the disposition of SIGCHLD it was started with
    all, handed, outcomes, missed

vars == <<opt, input, ps, cmd, pc, after, waitall, cause, rval, code, slots,
          curprocs, childerr, proc, stray, sigchld, all, handed, outcomes, missed>>

wait_vars == <<waitall, cause, rval, code>>
proc_vars == <<slots, curprocs, childerr, proc, stray, sigchld>>
ghosts == <<all, handed, outcomes, missed>>

-----------------------------------------------------------------------------
(* The words of an input, whatever the limits: what is to reach commands.  *)

xflag == opt.x \/ opt.L > 0

\* The quotation a character is in: none, or the mark that opened it.
Unquoted == ""
Quoting(quote, ch) == IF quote = Unquoted THEN ch ELSE Unquoted

\* What parse_input() makes of the next character, in or out of a quotation.
Kind(o, ch, quote) ==
    IF o.z THEN IF ch = "NUL" THEN "line" ELSE "char"
    ELSE CASE ch = " "  -> IF quote = Unquoted THEN "blank" ELSE "char"
           [] ch = "\n" -> "line"
           [] ch \in {"'", "\""} -> IF quote \in {Unquoted, ch} THEN "quote" ELSE "char"
           [] ch = "\\" -> IF quote = Unquoted THEN "escape" ELSE "char"
           [] OTHER -> "char"

\* A character at a time: w.words are complete, w.cur is being read.
Unread == [words |-> <<>>, cur |-> <<>>, quote |-> Unquoted, quoted |-> FALSE,
           escaped |-> FALSE, stopped |-> FALSE]
Reads(o, w, ch) ==
    LET kind == IF w.escaped THEN "char" ELSE Kind(o, ch, w.quote)
        word == w.cur # <<>> \/ w.quoted
        stops == o.E # <<>> /\ w.cur = o.E
    IN IF w.stopped THEN w
       ELSE CASE kind = "escape" -> [w EXCEPT !.escaped = TRUE]
              [] kind = "char" ->
                   [w EXCEPT !.cur = Append(@, ch), !.escaped = FALSE]
              [] kind = "quote" ->
                   [w EXCEPT !.quote = Quoting(@, ch), !.quoted = TRUE]
              [] kind \in {"blank", "line"} ->
                   [w EXCEPT !.words = IF word /\ ~stops
                                       THEN Append(@, w.cur) ELSE @,
                             !.cur = <<>>, !.quoted = FALSE,
                             !.stopped = stops]

\* What the first n characters read as.
ReadTo(o, chars) ==
    LET w[n \in 0 .. Len(chars)] ==
          IF n = 0 THEN Unread ELSE Reads(o, w[n - 1], chars[n])
    IN w

\* The end of the input ends a word as a separator does.
Separator(o) == IF o.z THEN "NUL" ELSE "\n"
Words(o, chars) == Reads(o, ReadTo(o, chars)[Len(chars)], Separator(o)).words

-----------------------------------------------------------------------------
(* The slots of the children.                                              *)

pids_empty == curprocs = 0
pids_full == curprocs >= maxprocs

\* The first slot that holds pid, or none.
findslot(pid) ==
    LET at == {i \in DOMAIN slots : slots[i] = pid}
    IN IF at = {} THEN {} ELSE {CHOOSE i \in at : \A j \in at : i <= j}

\* Faulty: the count is left as it is.
pids_removeUncounted(pid) ==
    /\ slots' = [i \in DOMAIN slots |-> IF i \in findslot(pid) THEN NOPID ELSE slots[i]]
    /\ UNCHANGED curprocs

pids_remove(pid) ==
    /\ slots' = [i \in DOMAIN slots |-> IF i \in findslot(pid) THEN NOPID ELSE slots[i]]
    /\ curprocs' = IF findslot(pid) = {} THEN curprocs ELSE curprocs - 1

pids_add(pid) ==
    /\ slots' = [i \in DOMAIN slots |-> IF i \in findslot(NOPID) THEN pid ELSE slots[i]]
    /\ curprocs' = curprocs + 1

-----------------------------------------------------------------------------
(* Leaving for waitchildren(), or for good.                                *)

waitchildren(wall, then) ==
    /\ pc' = "wait" /\ waitall' = wall /\ cause' = 0 /\ after' = then
    /\ UNCHANGED <<rval, code>>

xexit == waitchildren(TRUE, "exit1") /\ UNCHANGED cmd

Exit(how, status) == pc' = how /\ code' = status /\ UNCHANGED <<waitall, cause, rval, after>>

\* Where run() returns to.
Resume ==
    IF after = "last" THEN waitchildren(TRUE, "exit")
    ELSE pc' = "parse" /\ UNCHANGED <<wait_vars, after>>

-----------------------------------------------------------------------------
(* parse_input().  ps.cur is what argp points at, up to p; ps.used is      *)
(* argp - bbp; ps.args are the arguments from bxp to xp.                   *)

Fresh == [cur |-> <<>>, used |-> 0, args |-> <<>>, count |-> 0, quote |-> Unquoted,
          wasquoted |-> FALSE]
ebp == nline - 1
p(s) == s.used + Len(s.cur)

prerun(args, then) ==
    /\ pc' = "run" /\ cmd' = args /\ after' = then
    /\ UNCHANGED wait_vars

\* arg1 and arg2: a blank, the end of a line or the end of the input.
EndArg(kind) ==
    LET s == [ps EXCEPT !.count = IF kind = "line" THEN @ + 1 ELSE @]
        foundeof == opt.E # <<>> /\ s.cur = opt.E
        isarg == (s.cur # <<>> \/ s.wasquoted) /\ ~foundeof
        args == IF isarg THEN Append(s.args, s.cur) ELSE s.args
        end == IF isarg THEN p(s) + 1 ELSE p(s)
        last == kind = "eof" \/ foundeof
    IN IF kind # "blank" /\ s.quote # Unquoted
       THEN xexit /\ UNCHANGED ps
       ELSE IF Len(args) = nargs \/ end > ebp \/ last \/ (opt.L <= s.count /\ xflag)
       THEN IF xflag /\ Len(args) # nargs /\ end > ebp
            THEN xexit /\ UNCHANGED ps
            ELSE /\ ps' = Fresh
                 /\ prerun(args, IF last THEN "last" ELSE "parse")
       ELSE /\ ps' = [s EXCEPT !.cur = <<>>, !.used = end, !.args = args,
                               !.wasquoted = FALSE]
            /\ UNCHANGED <<pc, cmd, after, wait_vars>>

\* Faulty: a byte of the argument stays behind.
addchShort(ch) ==
    IF p(ps) < ebp
    THEN /\ ps' = [ps EXCEPT !.cur = Append(@, ch)]
         /\ UNCHANGED <<pc, cmd, after, wait_vars>>
    ELSE IF ps.args = <<>> \/ xflag
    THEN xexit /\ UNCHANGED ps
    ELSE /\ prerun(ps.args, "parse")
         /\ ps' = [ps EXCEPT !.args = <<>>, !.used = 0,
                             !.cur = Append(SubSeq(@, 1, ebp - ps.used - 1), ch)]

\* When the buffer is full, the arguments before this one make a command and
\* what there is of this one moves to the start of the buffer.
addch(ch) ==
    IF p(ps) < ebp
    THEN /\ ps' = [ps EXCEPT !.cur = Append(@, ch)]
         /\ UNCHANGED <<pc, cmd, after, wait_vars>>
    ELSE IF ps.args = <<>> \/ xflag
    THEN xexit /\ UNCHANGED ps
    ELSE /\ prerun(ps.args, "parse")
         /\ ps' = [ps EXCEPT !.args = <<>>, !.used = 0,
                             !.cur = Append(SubSeq(@, 1, ebp - ps.used), ch)]

EndOfInput ==
    IF p(ps) = 0
    THEN waitchildren(TRUE, "exit") /\ UNCHANGED <<ps, cmd>>
    ELSE EndArg("eof")

Escape ==
    IF Len(input) = 1
    THEN xexit /\ input' = <<>> /\ UNCHANGED ps
    ELSE addch(input[2]) /\ input' = Tail(Tail(input))

parse_input ==
    /\ pc = "parse"
    /\ \/ input = <<>> /\ EndOfInput /\ UNCHANGED input
       \/ /\ input # <<>>
          /\ LET ch == Head(input)
                 kind == Kind(opt, ch, ps.quote)
             IN \/ kind = "escape" /\ Escape
                \/ kind \in {"blank", "line"} /\ EndArg(kind) /\ input' = Tail(input)
                \/ kind = "char" /\ addch(ch) /\ input' = Tail(input)
                \/ /\ kind = "quote"
                   /\ ps' = [ps EXCEPT !.quote = Quoting(@, ch), !.wasquoted = TRUE]
                   /\ input' = Tail(input)
                   /\ UNCHANGED <<pc, cmd, after, wait_vars>>
    /\ UNCHANGED <<opt, proc_vars, ghosts>>

-----------------------------------------------------------------------------
(* run().                                                                  *)

Hand == handed' = handed \o cmd

\* The user says no.
Decline ==
    /\ pc = "run" /\ opt.p
    /\ Hand /\ Resume
    /\ UNCHANGED <<opt, input, ps, cmd, proc_vars, all, outcomes, missed>>

vforkFails ==
    /\ pc = "run"
    /\ childerr' = "0"
    /\ missed' = (missed \/ childerr # "0")
    /\ xexit
    /\ UNCHANGED <<opt, input, ps, slots, curprocs, proc, stray, sigchld, all, handed, outcomes>>

\* Pids are only compared, so which the child gets does not matter.
NewPid == CHOOSE pid \in Pids : /\ proc[pid] = "free"
                               /\ \A q \in Pids : proc[q] = "free" => pid <= q

\* The utility is running, cannot be executed (err), or the child gives up
\* before the exec.  Without a free slot xargs gives up.
Launch(pid, state, err) ==
    /\ pc = "run"
    /\ proc' = [proc EXCEPT ![pid] = state]
    /\ childerr' = err
    /\ missed' = (missed \/ childerr # "0")
    /\ Hand
    /\ outcomes' = IF err # "0" THEN outcomes \cup {"noexec"} ELSE outcomes
    /\ IF findslot(NOPID) = {}
       THEN Exit("broken", 1) /\ UNCHANGED <<slots, curprocs>>
       ELSE pids_add(pid) /\ waitchildren(FALSE, after)
    /\ UNCHANGED <<opt, input, ps, cmd, stray, sigchld, all>>

run ==
    \/ Launch(NewPid, "running", "0")
    \/ Launch(NewPid, "dying", "0")
    \/ \E err \in {"ENOENT", "other"} : Launch(NewPid, "dying", err)

-----------------------------------------------------------------------------
(* xwait() and waitchildren().                                             *)

Zombies == {pid \in Pids : proc[pid] \in Ended}
Block == waitall \/ pids_full

\* Faulty: rval is what the last child said.
rvalAfterLast(how) == IF how = "fail" THEN 1 ELSE 0

rvalAfter(how) == IF how = "fail" THEN 1 ELSE rval

\* waitpid() returns a child: not one of ours, or the body of the loop.
Collect(pid) ==
    /\ pc = "wait" /\ ~pids_empty /\ pid \in Zombies
    /\ proc' = [proc EXCEPT ![pid] = "free"]
    /\ stray' = IF stray = pid THEN NOPID ELSE stray
    /\ pids_remove(pid)
    /\ IF findslot(pid) = {} THEN UNCHANGED wait_vars
       ELSE /\ \/ /\ childerr # "0" /\ cause = 0
                  /\ waitall' = TRUE
                  /\ cause' = IF childerr = "ENOENT" THEN 127 ELSE 126
                  /\ UNCHANGED rval
               \/ /\ ~(childerr # "0" /\ cause = 0)
                  /\ IF proc[pid] \in {"signal", "abort"}
                     THEN waitall' = TRUE /\ cause' = 1 /\ UNCHANGED rval
                     ELSE /\ rval' = rvalAfter(proc[pid])
                          /\ UNCHANGED <<waitall, cause>>
            /\ UNCHANGED code
    /\ UNCHANGED <<opt, input, ps, cmd, pc, after, childerr, sigchld, ghosts>>

\* Faulty: xwait() goes to wait with no child of ours left.
LoopEndsStrays ==
    /\ pc = "wait" /\ Zombies = {}
    /\ ~Block \/ \A pid \in Pids : proc[pid] = "free"

\* The loop ends: no child of ours, none at all, or none that has ended.
LoopEnds ==
    /\ pc = "wait"
    /\ \/ pids_empty
       \/ Zombies = {} /\ (~Block \/ \A pid \in Pids : proc[pid] = "free")

Return ==
    /\ LoopEnds
    /\ \/ cause # 0 /\ Exit("exited", cause)
       \/ cause = 0 /\ after \in {"parse", "last"} /\ Resume
       \/ cause = 0 /\ after = "exit" /\ Exit("exited", rval)
       \/ cause = 0 /\ after = "exit1" /\ Exit("exited", 1)
    /\ UNCHANGED <<opt, input, ps, cmd, proc_vars, ghosts>>

-----------------------------------------------------------------------------
(* The children.  With SIGCHLD ignored they leave no zombie.               *)

ChildEnds(pid) ==
    /\ \E how \in Ended :
         /\ \/ proc[pid] = "running"
            \/ proc[pid] = "dying" /\ how = "fail"
         /\ proc' = [proc EXCEPT ![pid] = IF sigchld = "ignore" THEN "free" ELSE how]
         /\ outcomes' = IF pid = stray \/ how = "ok" THEN outcomes
                        ELSE outcomes \cup {how}
    /\ stray' = IF sigchld = "ignore" /\ stray = pid THEN NOPID ELSE stray
    /\ UNCHANGED <<opt, input, ps, cmd, pc, after, wait_vars, slots, curprocs,
                   childerr, sigchld, all, handed, missed>>

-----------------------------------------------------------------------------
Init ==
    /\ opt \in Settings /\ all \in Inputs /\ input = all
    /\ ps = Fresh /\ cmd = <<>> /\ pc = "parse" /\ after = "parse"
    /\ waitall = FALSE /\ cause = 0 /\ rval = 0 /\ code = 0
    /\ slots = [i \in 1 .. maxprocs |-> NOPID] /\ curprocs = 0 /\ childerr = "0"
    /\ stray \in {NOPID, 1}
    /\ proc = [pid \in Pids |-> IF pid = stray THEN "running" ELSE "free"]
    /\ sigchld \in {"default", "ignore"}
    /\ handed = <<>> /\ outcomes = {} /\ missed = FALSE

Next ==
    \/ parse_input
    \/ Decline \/ vforkFails \/ run
    \/ \E pid \in Pids : Collect(pid)
    \/ Return
    \/ \E pid \in Pids : ChildEnds(pid)

Spec == Init /\ [][Next]_vars

\* xargs goes on when it can, and the utilities it runs end.  A child it was
\* started with need not.
FairSpec ==
    /\ Spec
    /\ WF_vars(parse_input) /\ WF_vars(run)
    /\ WF_vars(Return) /\ WF_vars(\E pid \in Pids : Collect(pid))
    /\ \A pid \in Pids : WF_vars(pid # stray /\ ChildEnds(pid))

-----------------------------------------------------------------------------
\* The words of the input reach commands each once and in order, whatever the
\* limits on arguments, bytes and lines cut it into (parse_input), and all of
\* them do when the input is read to its end.  A quoted empty word just before
\* the end of the input is lost if no other is waiting (xargs.c:317).
Delivered ==
    LET words == Words(opt, all)
        given == handed \o (IF pc = "run" THEN cmd ELSE <<>>)
    IN /\ IsPrefix(given \o ps.args, words)
       /\ (pc = "exited" /\ after = "exit" /\ cause = 0) =>
              words \in {handed, Append(handed, <<>>)}

\* Every child xargs started and has not collected has a slot and nothing else
\* has, so findfreeslot() never fails, no more than maxprocs run at a time,
\* and xargs leaves none behind (run, xwait, pids_add, pids_remove) - if
\* it was not started with SIGCHLD ignored.
ChildrenTracked ==
    sigchld = "default" =>
        /\ curprocs = Cardinality({i \in DOMAIN slots : slots[i] # NOPID})
        /\ \A pid \in Pids :
             Cardinality({i \in DOMAIN slots : slots[i] = pid}) =
                IF proc[pid] # "free" /\ pid # stray THEN 1 ELSE 0
        /\ pc # "broken"
        /\ pc = "exited" => curprocs = 0

\* The exit status tells (waitchildren): 0 only if no command failed, 126 or 127
\* only if one could not be run, and then always, unless the next was
\* started before that showed (xargs.c:602) or another was killed or said 255.
StatusTells ==
    (pc = "exited" /\ sigchld = "default") =>
        /\ code = 0 => outcomes = {}
        /\ code \in {126, 127} => "noexec" \in outcomes
        /\ ("noexec" \in outcomes /\ ~missed /\ outcomes \cap {"signal", "abort"} = {})
              => code \in {126, 127}

\* xargs ends once its input and its commands have, also if a child it did
\* not start never does (xwait).
Terminates == (sigchld = "default") => <>(pc = "exited")

=============================================================================
