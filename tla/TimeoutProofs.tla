---------------------------- MODULE TimeoutProofs ----------------------------
(***************************************************************************)
(* Proofs about Timeout, for any command lines, any signals from outside,  *)
(* any set of descendants and any bounds on signals and stops.             *)
(***************************************************************************)
EXTENDS Timeout, TLAPS

-----------------------------------------------------------------------------
(* What each conjunct of the inductive invariant adds.                     *)

\* At most one flag is set, and only between sigsuspend() and its handling.
FlagInv ==
    /\ pc \notin {"awake", "killed"} =>
         ~sig_chld /\ ~sig_alrm /\ sig_term = None /\ sig_other = None
    /\ pc = "awake" =>
         /\ sig_chld => ~sig_alrm /\ sig_term = None /\ sig_other = None
         /\ sig_alrm => sig_term = None /\ sig_other = None
         /\ sig_term # None => sig_other = None

\* The byte is in the pipe only when timeout has got to its loop, and nothing
\* but the byte lets the command run.
PipeInv ==
    /\ pipe = "token" => pc \notin {"start", "forked", "armed", "failed"}
    /\ pc = "failed" => pipe = "closed"
    /\ child \in {"run", "stop"} => pipe = "token"
    /\ fate.how = "exited" => fate.val = EXIT_FAILURE \/ pipe = "token"

\* The command has ended exactly if its fate is known, and what timeout notes
\* of it is that.
ChildInv ==
    /\ pc = "start" => child = "none"
    /\ child \in {"zombie", "reaped"} <=> fate # NoFate
    /\ fate \in {NoFate} \cup {Exited(c) : c \in {0, EXIT_FAILURE, EXIT_TIMEOUT}}
              \cup {Killed(s) : s \in Signals}
    /\ child_done <=> child = "reaped"
    /\ child_done => child_si = fate

\* In the foreground timeout has nothing to do once the command is collected.
DoneInv ==
    opt.foreground =>
      /\ child = "reaped" => pc \in {"reap", "reaped", "exited", "killed"}
      /\ ~stray

\* Every signal timeout acts on has a cause.
CauseInv ==
    /\ "ALRM" \in pend \/ sig_alrm \/ timedout => expired # {} \/ "ALRM" \in outside
    /\ pend \subseteq outside \cup {"ALRM", "CHLD"}
    /\ sig_term # None => outside # {} \/ expired # {}
    /\ timer = "second" \/ expired # {} => "first" \in expired \/ outside # {}
    /\ killsig \in {opt.sig, "KILL"}
    /\ outside = {} /\ opt.sig # "ALRM" =>
         /\ sig_term = None /\ sig_other = None
         /\ due # {} => timedout
         /\ fate.how = "killed" => timedout \/ fate.val = "SEGV"

\* What main() returned.
ExitInv ==
    pc = "exited" =>
      /\ child_done /\ exit = Status
      /\ ~opt.foreground => \A d \in Descendants : desc[d] \in {"none", "gone"}

IInv == /\ TypeOK
        /\ FlagInv /\ PipeInv /\ ChildInv /\ DoneInv /\ CauseInv /\ ExitInv

-----------------------------------------------------------------------------
(* Types.                                                                  *)

\* The ends that are recorded are of the right kind.
LEMMA FatesKnown ==
    /\ NoFate \in Fates
    /\ \A c \in {0, EXIT_FAILURE, EX_OSERR, EXIT_TIMEOUT} : Exited(c) \in Fates
    /\ \A s \in Signals : Killed(s) \in Fates
BY DEF Fates, NoFate, Exited, Killed

\* Every step leaves the Boolean variables Boolean.
LEMMA NextBooleans == Booleans /\ [Next]_vars => Booleans'
<1> SUFFICES ASSUME Booleans, [Next]_vars PROVE Booleans'
    OBVIOUS
<1> USE DEF flags, plan, outcome, others, ghosts, Booleans
<1>1. CASE Fork \/ Arm \/ Release
    BY <1>1 DEF Fork, Arm, Release
<1>2. ASSUME NEW s \in Signals, Deliver(s) PROVE Booleans'
    BY <1>2 DEF Deliver, sig_handler
<1>3. CASE Terminate
    BY <1>3 DEF Terminate, send_sig, NoteSent, SecondKill
<1>4. CASE Propagate
    BY <1>4 DEF Propagate, send_sig, NoteSent
<1>5. CASE Collect \/ Reap \/ ReapEnd \/ Decide
    BY <1>5 DEF Collect, Reap, ReapChild, ReapDescendant, ReapEnd, Decide
<1>6. CASE Expire \/ KillTimeout \/ Start \/ ChildContinues \/ ChildStops
    BY <1>6 DEF Expire, KillTimeout, Start, ChildContinues, ChildStops
<1>7. ASSUME NEW s \in Outside, SignalTimeout(s) PROVE Booleans'
    BY <1>7 DEF SignalTimeout
<1>8. CASE ChildExit
    BY <1>8 DEF ChildExit, ChildEnds
<1>9. ASSUME NEW s \in Signals, ChildDies(s) \/ ChildSurvives(s) PROVE Booleans'
    BY <1>9 DEF ChildDies, ChildEnds, ChildSurvives
<1>10. ASSUME NEW d \in Descendants, Spawn(d) \/ DescEnds(d) \/ DescCollected(d)
       PROVE  Booleans'
    BY <1>10 DEF Spawn, DescEnds, DescCollected
<1>11. CASE UNCHANGED vars
    BY <1>11 DEF vars
<1> QED
    BY <1>1, <1>2, <1>3, <1>4, <1>5, <1>6, <1>7, <1>8, <1>9, <1>10, <1>11
       DEF Next, TimeoutStep, SignalTaken

\* The signals there are.
LEMMA SignalNames ==
    /\ {"TERM", "INT", "SEGV", "ALRM", "CHLD", "CONT", "KILL", "WINCH"} = Signals
    /\ Terminating \subseteq Signals
    /\ None \notin Signals
BY DEF Signals, Terminating, None

\* The first state is well typed.
LEMMA InitType == Init => TypeOK
<1> SUFFICES ASSUME Init PROVE TypeOK
    OBVIOUS
<1>1. opt \in AllOptions /\ opt.sig \in Signals
    BY TimeoutAssumption DEF Init, AllOptions
<1>2. Booleans
    BY <1>1 DEF Init, Booleans
<1> QED
    BY <1>1, <1>2, FatesKnown DEF Init, TypeOK

\* Every step leaves the state well typed.
LEMMA NextType == TypeOK /\ [Next]_vars => TypeOK'
<1> SUFFICES ASSUME TypeOK, [Next]_vars PROVE TypeOK'
    OBVIOUS
<1>0. Booleans'
    BY NextBooleans DEF TypeOK
<1> USE DEF flags, plan, outcome, others, ghosts
<1>1. CASE Fork
    BY <1>0, <1>1, FatesKnown DEF Fork, Fail, TypeOK
<1>2. CASE Arm
    BY <1>0, <1>2, FatesKnown DEF Arm, Fail, TypeOK
<1>3. CASE Release
    BY <1>0, <1>3, FatesKnown DEF Release, Fail, TypeOK
<1>4. ASSUME NEW s \in Signals, Deliver(s) PROVE TypeOK'
    BY <1>0, <1>4 DEF Deliver, sig_handler, TypeOK
<1>5. CASE Terminate
  <2>1. /\ killsig' \in Signals /\ timer' \in {"off", "first", "second"}
        /\ pc' \in {"suspend", "gaveup"} /\ pend' \subseteq Signals /\ exit' \in Fates
    BY <1>5, SignalNames, FatesKnown DEF Terminate, SecondKill, TypeOK
  <2>2. due' \subseteq Signals
    <3>1. ASSUME NEW s \in Signals, send_sig(s) PROVE due' \subseteq Signals
      BY <3>1, SignalNames DEF send_sig, Signal, TypeOK
    <3> QED BY <1>5, <3>1 DEF Terminate, TypeOK
  <2>3. sig_term' \in Signals \cup {None}
    BY <1>5 DEF Terminate, TypeOK
  <2> QED BY <1>0, <1>5, <2>1, <2>2, <2>3 DEF Terminate, TypeOK
<1>6. CASE Propagate
    BY <1>0, <1>6 DEF Propagate, send_sig, Signal, NoteSent, TypeOK, Signals,
       Terminating, None
<1>7. CASE Collect
    BY <1>0, <1>7 DEF Collect, TypeOK
<1>8. CASE Reap
    BY <1>0, <1>8 DEF Reap, ReapChild, ReapDescendant, OrphanZombies, Orphans, TypeOK
<1>9. CASE ReapEnd
    BY <1>0, <1>9 DEF ReapEnd, TypeOK
<1>10. CASE Decide
    BY <1>0, <1>10, FatesKnown DEF Decide, Leave, Status, OrphanZombies, Orphans, TypeOK
<1>11. CASE Expire
    BY <1>0, <1>11 DEF Expire, TypeOK, Signals
<1>12. CASE KillTimeout
    BY <1>0, <1>12 DEF KillTimeout, TypeOK
<1>13. ASSUME NEW s \in Outside, SignalTimeout(s) PROVE TypeOK'
    BY <1>0, <1>13, TimeoutAssumption DEF SignalTimeout, TypeOK
<1>14. CASE Start
    BY <1>0, <1>14, FatesKnown DEF Start, TypeOK, Signals
<1>15. CASE ChildExit
  <2>1. PICK f \in Fates : ChildEnds(f)
    BY <1>15, FatesKnown, SignalNames DEF ChildExit
  <2> QED BY <1>0, <2>1, SignalNames DEF ChildEnds, TypeOK
<1>16. ASSUME NEW s \in Signals, ChildDies(s) PROVE TypeOK'
    BY <1>0, <1>16, FatesKnown DEF ChildDies, ChildEnds, TypeOK, Signals
<1>17. ASSUME NEW s \in Signals, ChildSurvives(s) PROVE TypeOK'
    BY <1>0, <1>17 DEF ChildSurvives, TypeOK
<1>18. CASE ChildContinues
    BY <1>0, <1>18 DEF ChildContinues, TypeOK, Signals
<1>19. CASE ChildStops
    BY <1>0, <1>19 DEF ChildStops, TypeOK, Signals
<1>20. ASSUME NEW d \in Descendants, Spawn(d) \/ DescEnds(d) \/ DescCollected(d)
       PROVE  TypeOK'
  <2>1. desc' \in [Descendants -> {"none", "run", "zombie", "gone"}]
    BY <1>20 DEF Spawn, DescEnds, DescCollected, TypeOK
  <2>2. pend' \subseteq Signals
    BY <1>20, SignalNames DEF Spawn, DescEnds, DescCollected, TypeOK
  <2>3. UNCHANGED <<opt, pc, flags, plan, outcome, pipe, child, due, fate, nstop, ghosts>>
    BY <1>20 DEF Spawn, DescEnds, DescCollected
  <2> QED BY <1>0, <2>1, <2>2, <2>3 DEF TypeOK
<1>21. CASE UNCHANGED vars
    BY <1>0, <1>21 DEF vars, TypeOK
<1> QED
    BY <1>0, <1>1,<1>2, <1>3, <1>4, <1>5, <1>6, <1>7, <1>8, <1>9, <1>10, <1>11, <1>12,
       <1>13, <1>14, <1>15, <1>16, <1>17, <1>18, <1>19, <1>20, <1>21
       DEF Next, TimeoutStep, SignalTaken

-----------------------------------------------------------------------------
(* What the others do.  None of them touches timeout's own variables,      *)
(* except that SIGKILL ends it.                                            *)

Others ==
    \/ Expire \/ KillTimeout \/ (\E s \in Outside : SignalTimeout(s))
    \/ Start \/ ChildExit \/ SignalTaken \/ ChildContinues \/ ChildStops
    \/ \E d \in Descendants : Spawn(d) \/ DescEnds(d) \/ DescCollected(d)
    \/ UNCHANGED vars

\* What a step of another process leaves alone.
LEMMA OthersLeave ==
    ASSUME Others
    PROVE  /\ UNCHANGED <<opt, flags, killsig, do_second_kill, timedout, outcome>>
           /\ UNCHANGED <<early, stray>>
           /\ pc' = pc \/ (Alive /\ pc' = "killed")
<1> USE DEF flags, plan, outcome, others, ghosts
<1>1. CASE Expire \/ KillTimeout \/ (\E s \in Outside : SignalTimeout(s))
  BY <1>1 DEF Expire, KillTimeout, SignalTimeout
<1>2. CASE Start \/ ChildContinues \/ ChildStops
  BY <1>2 DEF Start, ChildContinues, ChildStops
<1>3. CASE ChildExit \/ SignalTaken
  BY <1>3 DEF ChildExit, SignalTaken, ChildEnds, ChildDies, ChildSurvives
<1>4. CASE \E d \in Descendants : Spawn(d) \/ DescEnds(d) \/ DescCollected(d)
  BY <1>4 DEF Spawn, DescEnds, DescCollected
<1>5. CASE UNCHANGED vars
  BY <1>5 DEF vars
<1> QED BY <1>1, <1>2, <1>3, <1>4, <1>5 DEF Others

\* A step is one of timeout or one of the others.
LEMMA NextSplit == [Next]_vars <=> TimeoutStep \/ Others
BY DEF Next, Others

\* The command line stays what it was.
LEMMA OptFixed == [Next]_vars => opt' = opt
<1>1. TimeoutStep => opt' = opt
  BY DEF TimeoutStep, Fork, Arm, Release, Deliver, Terminate, Propagate, Collect,
         Reap, ReapEnd, Decide
<1> QED BY <1>1, OthersLeave, NextSplit

-----------------------------------------------------------------------------
(* The flags.                                                              *)

\* A handler notes one signal, and the loop acts on it before it sleeps again.
LEMMA NextFlags == TypeOK /\ FlagInv /\ [Next]_vars => FlagInv'
<1> SUFFICES ASSUME TypeOK, FlagInv, [Next]_vars PROVE FlagInv'
    OBVIOUS
<1> USE DEF flags, FlagInv
<1>1. CASE Fork \/ Arm \/ Release
  BY <1>1 DEF Fork, Arm, Release, Fail
<1>2. ASSUME NEW s \in Signals, Deliver(s) PROVE FlagInv'
  BY <1>2, SignalNames DEF Deliver, sig_handler, Terminating
<1>3. CASE Terminate
  BY <1>3 DEF Terminate, SecondKill
<1>4. CASE Propagate
  BY <1>4 DEF Propagate
<1>5. CASE Collect
  BY <1>5 DEF Collect
<1>6. CASE Reap \/ ReapEnd
  BY <1>6 DEF Reap, ReapEnd
<1>7. CASE Decide
  BY <1>7 DEF Decide, Leave
<1>8. CASE Others
  BY <1>8, OthersLeave DEF Alive
<1> QED
  BY <1>1, <1>2, <1>3, <1>4, <1>5, <1>6, <1>7, <1>8, NextSplit DEF TimeoutStep

-----------------------------------------------------------------------------
(* The control pipe.                                                       *)

\* Release alone writes the byte, and Fail and the end of timeout close the pipe.
LEMMA NextPipe == TypeOK /\ PipeInv /\ [Next]_vars => PipeInv'
<1> SUFFICES ASSUME TypeOK, PipeInv, [Next]_vars PROVE PipeInv'
    OBVIOUS
<1> USE DEF PipeInv, others, outcome, plan
<1>1. CASE Fork
  BY <1>1 DEF Fork, Fail
<1>2. CASE Arm
  BY <1>2 DEF Arm, Fail
<1>3. CASE Release
  BY <1>3 DEF Release, Fail
<1>4. ASSUME NEW s \in Signals, Deliver(s) PROVE PipeInv'
  BY <1>4 DEF Deliver
<1>5. CASE Terminate \/ Propagate \/ Collect
  BY <1>5 DEF Terminate, SecondKill, Propagate, Collect
<1>6. CASE Reap \/ ReapEnd
  BY <1>6 DEF Reap, ReapEnd, ReapChild, ReapDescendant
<1>7. CASE Decide
  BY <1>7 DEF Decide, Leave
<1>8. CASE Expire \/ (\E s \in Outside : SignalTimeout(s))
  BY <1>8 DEF Expire, SignalTimeout
<1>9. CASE KillTimeout
  BY <1>9 DEF KillTimeout, Alive
<1>10. CASE Start
  BY <1>10 DEF Start, Exited, TypeOK
<1>11. CASE ChildExit
  BY <1>11 DEF ChildExit, ChildEnds, Exited, Killed
<1>12. CASE SignalTaken
  BY <1>12 DEF SignalTaken, ChildDies, ChildSurvives, ChildEnds, Killed
<1>13. CASE ChildContinues \/ ChildStops
  BY <1>13 DEF ChildContinues, ChildStops
<1>14. CASE \E d \in Descendants : Spawn(d) \/ DescEnds(d) \/ DescCollected(d)
  BY <1>14 DEF Spawn, DescEnds, DescCollected
<1>15. CASE UNCHANGED vars
  BY <1>15 DEF vars
<1> QED
  BY <1>1, <1>2, <1>3, <1>4, <1>5, <1>6, <1>7, <1>8, <1>9, <1>10, <1>11, <1>12,
     <1>13, <1>14, <1>15 DEF Next, TimeoutStep

-----------------------------------------------------------------------------
(* The command's end.                                                      *)

\* An end is told from no end.
LEMMA FateKinds ==
    /\ \A c \in {0, EXIT_FAILURE, EX_OSERR, EXIT_TIMEOUT} : Exited(c) # NoFate
    /\ \A s \in Signals : Killed(s) # NoFate
BY DEF Exited, Killed, NoFate, None

\* The command ends once, and is collected as it ended.
LEMMA NextChild == TypeOK /\ ChildInv /\ [Next]_vars => ChildInv'
<1> SUFFICES ASSUME TypeOK, ChildInv, [Next]_vars PROVE ChildInv'
    OBVIOUS
<1> USE DEF ChildInv, others, outcome, plan
<1>0. ASSUME UNCHANGED <<fate, child_done, child_si>>,
             pc' = "start" => UNCHANGED <<pc, child>>,
             child' = child \/ {child, child'} \subseteq {"none", "wait", "run", "stop"}
      PROVE  ChildInv'
  BY <1>0
<1>1. CASE Fork
  <2>1. /\ pc' # "start" /\ UNCHANGED <<fate, child_done, child_si>>
        /\ child = "none" /\ child' \in {"none", "wait"}
    BY <1>1 DEF Fork, Fail
  <2> QED BY <1>0, <2>1
<1>2. CASE Arm \/ Release
  BY <1>0, <1>2 DEF Arm, Release, Fail
<1>3. ASSUME NEW s \in Signals, Deliver(s) PROVE ChildInv'
  BY <1>0, <1>3 DEF Deliver
<1>4. CASE Terminate \/ Propagate \/ Collect \/ ReapEnd
  BY <1>0, <1>4 DEF Terminate, SecondKill, Propagate, Collect, ReapEnd
<1>5. CASE Reap
  <2>1. CASE ReapChild
    BY <1>5, <2>1 DEF Reap, ReapChild
  <2>2. CASE ReapDescendant
    BY <1>0, <1>5, <2>2 DEF Reap, ReapDescendant
  <2> QED BY <1>5, <2>1, <2>2 DEF Reap
<1>6. CASE Decide
  BY <1>0, <1>6 DEF Decide, Leave
<1>7. CASE Expire \/ KillTimeout \/ (\E s \in Outside : SignalTimeout(s))
  BY <1>0, <1>7 DEF Expire, KillTimeout, SignalTimeout
<1>8. ASSUME NEW f, f \in {Exited(c) : c \in {0, EXIT_FAILURE, EXIT_TIMEOUT}}
                            \cup {Killed(s) : s \in Signals},
             child \in {"wait", "run", "stop"}, child' = "zombie", fate' = f,
             UNCHANGED <<pc, child_done, child_si>>
      PROVE  ChildInv'
  <2>1. f # NoFate
    BY <1>8, FateKinds
  <2> QED BY <1>8, <2>1
<1>9. CASE Start
  <2>1. CASE pipe = "token"
    BY <1>0, <1>9, <2>1 DEF Start
  <2>2. CASE pipe # "token"
    BY <1>8, <1>9, <2>2 DEF Start
  <2> QED BY <2>1, <2>2
<1>10. CASE ChildExit
  BY <1>8, <1>10, SignalNames DEF ChildExit, ChildEnds
<1>11. ASSUME NEW s \in Signals, ChildDies(s) PROVE ChildInv'
  BY <1>8, <1>11 DEF ChildDies, ChildEnds
<1>12. ASSUME NEW s \in Signals, ChildSurvives(s) PROVE ChildInv'
  BY <1>0, <1>12 DEF ChildSurvives
<1>13. CASE ChildContinues \/ ChildStops
  BY <1>0, <1>13 DEF ChildContinues, ChildStops
<1>14. CASE \E d \in Descendants : Spawn(d) \/ DescEnds(d) \/ DescCollected(d)
  BY <1>0, <1>14 DEF Spawn, DescEnds, DescCollected
<1>15. CASE UNCHANGED vars
  BY <1>0, <1>15 DEF vars
<1> QED
  BY <1>1, <1>2, <1>3, <1>4, <1>5, <1>6, <1>7, <1>9, <1>10, <1>11, <1>12,
     <1>13, <1>14, <1>15 DEF Next, TimeoutStep, SignalTaken

-----------------------------------------------------------------------------
(* Process numbers given back.                                             *)

\* In the foreground Decide leaves as soon as the command is collected, so
\* nothing is sent afterwards.
LEMMA NextDone == TypeOK /\ ChildInv /\ DoneInv /\ [Next]_vars => DoneInv'
<1> SUFFICES ASSUME TypeOK, ChildInv, DoneInv, [Next]_vars, opt.foreground
             PROVE  DoneInv'
  BY OptFixed DEF DoneInv
<1> USE DEF DoneInv, others, outcome, plan, ghosts
<1>1. CASE Fork
  BY <1>1 DEF Fork, ChildInv
<1>2. CASE Arm \/ Release
  BY <1>2 DEF Arm, Release, Fail
<1>3. ASSUME NEW s \in Signals, Deliver(s) PROVE DoneInv'
  BY <1>3 DEF Deliver
<1>4. CASE Terminate
  BY <1>4 DEF Terminate, send_sig, NoteSent
<1>5. CASE Propagate
  BY <1>5 DEF Propagate, send_sig, NoteSent
<1>6. CASE Collect \/ Reap \/ ReapEnd
  BY <1>6 DEF Collect, Reap, ReapEnd, ReapChild, ReapDescendant
<1>7. CASE Decide
  BY <1>7 DEF Decide, NoChildLeft, Leave, ChildInv
<1>8. CASE Others
  <2>1. child' = "reaped" => child = "reaped"
    BY <1>8 DEF Others, Expire, KillTimeout, SignalTimeout, Start, ChildExit, SignalTaken,
       ChildDies, ChildSurvives, ChildEnds, ChildContinues, ChildStops,
       Spawn, DescEnds, DescCollected, vars
  <2> QED BY <1>8, <2>1, OthersLeave
<1> QED
  BY <1>1, <1>2, <1>3, <1>4, <1>5, <1>6, <1>7, <1>8, NextSplit DEF TimeoutStep

-----------------------------------------------------------------------------
(* Causes.                                                                 *)

\* What is pending, noted, sent and died of goes back to a timer or to a
\* signal from outside.
LEMMA NextCause == TypeOK /\ CauseInv /\ [Next]_vars => CauseInv'
<1> SUFFICES ASSUME TypeOK, CauseInv, [Next]_vars PROVE CauseInv'
    OBVIOUS
<1>o. opt' = opt
  BY OptFixed
<1> USE DEF CauseInv, flags, others, outcome, plan, ghosts
<1>1. CASE Fork \/ Arm \/ Release
  BY <1>o, <1>1 DEF Fork, Arm, Release, Fail
<1>2. ASSUME NEW s \in Signals, Deliver(s) PROVE CauseInv'
  <2>1. outside = {} /\ opt.sig # "ALRM" => sig_term' = None /\ sig_other' = None
    <3> SUFFICES ASSUME outside = {}, opt.sig # "ALRM"
                 PROVE  sig_term' = None /\ sig_other' = None
      OBVIOUS
    <3>1. s \in {"ALRM", "CHLD"} /\ opt.sig # "CHLD"
      BY <1>2, TimeoutAssumption DEF Deliver, TypeOK, AllOptions
    <3>2. s # killsig /\ s \notin Terminating /\ s # "WINCH"
      BY <3>1 DEF Terminating
    <3> QED BY <1>2, <3>2 DEF Deliver, sig_handler
  <2>2. sig_alrm' => sig_alrm \/ "ALRM" \in pend
    BY <1>2 DEF Deliver, sig_handler
  <2>3. sig_term' # None => outside # {} \/ expired # {}
    <3> SUFFICES ASSUME outside = {}, sig_term' # None, sig_term = None
                 PROVE  expired # {}
      BY <1>2 DEF Deliver
    <3>1. s \in {"ALRM", "CHLD"} /\ opt.sig # "CHLD"
      BY <1>2, TimeoutAssumption DEF Deliver, TypeOK, AllOptions
    <3>2. s = killsig \/ s \in Terminating
      BY <1>2 DEF Deliver, sig_handler
    <3>3. s = "ALRM"
      BY <3>1, <3>2 DEF Terminating
    <3> QED BY <1>2, <3>3 DEF Deliver
  <2> QED BY <1>o, <1>2, <2>1, <2>2, <2>3 DEF Deliver
<1>3. CASE Terminate
  <2>1. killsig' \in {opt.sig, "KILL"}
    BY <1>3 DEF Terminate, SecondKill
  <2>2. timedout' => timedout \/ sig_alrm
    BY <1>3 DEF Terminate
  <2>3. outside = {} /\ opt.sig # "ALRM" => timedout'
    BY <1>3 DEF Terminate
  <2>4. sig_alrm' => sig_alrm
    BY <1>3 DEF Terminate
  <2>5. sig_term' \in {sig_term, None}
    BY <1>3 DEF Terminate
  <2>6. timedout => timedout'
    BY <1>3 DEF Terminate
  <2>7. UNCHANGED <<outside, expired, sig_other, fate>> /\ pend' \subseteq pend
    BY <1>3 DEF Terminate, SecondKill
  <2>8. "first" \in expired \/ outside # {}
    BY <1>3 DEF Terminate
  <2> QED BY <1>o, <2>1, <2>2, <2>3, <2>4, <2>5, <2>6, <2>7, <2>8
<1>4. CASE Propagate
  BY <1>o, <1>4 DEF Propagate
<1>5. CASE Collect \/ Reap \/ ReapEnd
  BY <1>o, <1>5 DEF Collect, Reap, ReapEnd
<1>6. CASE Decide
  BY <1>o, <1>6 DEF Decide, Leave
<1>7. CASE Expire
  <2>1. timer \in {"first", "second"} /\ timer' = "off" /\ expired' = expired \cup {timer}
        /\ pend' = pend \cup {"ALRM"}
    BY <1>7 DEF Expire, TypeOK
  <2>2. expired' # {} /\ ("first" \in expired' \/ outside # {})
    BY <2>1
  <2>3. UNCHANGED <<opt, flags, killsig, timedout, due, fate, outside>>
    BY <1>7 DEF Expire
  <2> HIDE DEF CauseInv
  <2>4. pend' \subseteq outside' \cup {"ALRM", "CHLD"}
    BY <2>1, <2>3 DEF CauseInv
  <2> QED BY <2>1, <2>2, <2>3, <2>4 DEF CauseInv
<1>8. CASE KillTimeout
  BY <1>o, <1>8 DEF KillTimeout
<1>9. ASSUME NEW s \in Outside, SignalTimeout(s) PROVE CauseInv'
  BY <1>o, <1>9 DEF SignalTimeout
<1>10. CASE Start
  BY <1>o, <1>10 DEF Start, Exited
<1>11. CASE ChildExit
  BY <1>o, <1>11 DEF ChildExit, ChildEnds, Exited, Killed
<1>12. ASSUME NEW s \in Signals, ChildDies(s) PROVE CauseInv'
  BY <1>o, <1>12 DEF ChildDies, ChildEnds, Killed
<1>13. ASSUME NEW s \in Signals, ChildSurvives(s) PROVE CauseInv'
  BY <1>o, <1>13 DEF ChildSurvives
<1>14. CASE ChildContinues \/ ChildStops
  BY <1>o, <1>14 DEF ChildContinues, ChildStops
<1>15. CASE \E d \in Descendants : Spawn(d) \/ DescEnds(d) \/ DescCollected(d)
  BY <1>o, <1>15 DEF Spawn, DescEnds, DescCollected
<1>16. CASE UNCHANGED vars
  BY <1>o, <1>16 DEF vars
<1> QED
  BY <1>1, <1>2, <1>3, <1>4, <1>5, <1>6, <1>7, <1>8, <1>9, <1>10, <1>11, <1>12,
     <1>13, <1>14, <1>15, <1>16 DEF Next, TimeoutStep, SignalTaken

-----------------------------------------------------------------------------
(* Leaving.                                                                *)

\* timeout leaves only from Decide, and nothing it depends on changes later.
LEMMA NextExit == TypeOK /\ ChildInv /\ ExitInv /\ [Next]_vars => ExitInv'
<1> SUFFICES ASSUME TypeOK, ChildInv, ExitInv, [Next]_vars, pc' = "exited"
             PROVE  ExitInv'
  BY DEF ExitInv
<1>1. CASE pc = "exited"
  <2>1. Others
    BY <1>1, NextSplit DEF TimeoutStep, Fork, Arm, Release, Deliver, Terminate, Propagate,
       Collect, Reap, ReapEnd, Decide
  <2>2. desc' = desc
    <3>1. ~Alive
      BY <1>1 DEF Alive
    <3> QED BY <2>1, <3>1 DEF Others, Expire, KillTimeout, SignalTimeout, Start, ChildExit,
         SignalTaken, ChildDies, ChildSurvives, ChildEnds, ChildContinues, ChildStops,
         Spawn, DescEnds, DescCollected, vars, others
  <2> QED BY <1>1, <2>1, <2>2, OthersLeave DEF ExitInv, Status, outcome
<1>2. CASE pc # "exited"
  <2>1. Decide
    BY <1>2, OthersLeave, NextSplit DEF TimeoutStep, Fork, Arm, Release, Fail, Deliver,
       Terminate, SecondKill, Propagate, Collect, Reap, ReapEnd
  <2>2. /\ child_done /\ NoChildLeft /\ exit' = Status
        /\ UNCHANGED <<desc, opt, timedout, child_si, child_done>>
    BY <2>1 DEF Decide, Leave
  <2>3. ~opt.foreground => \A d \in Descendants : desc[d] \in {"none", "gone"}
    BY <2>2 DEF NoChildLeft, Orphans, ChildInv, TypeOK
  <2> QED BY <2>2, <2>3 DEF ExitInv, Status
<1> QED BY <1>1, <1>2

-----------------------------------------------------------------------------
\* The first state satisfies the invariant.
LEMMA InitIInv == Init => IInv
<1> SUFFICES ASSUME Init PROVE IInv
    OBVIOUS
<1>1. TypeOK
  BY InitType
<1>2. FlagInv /\ PipeInv /\ DoneInv /\ ExitInv
  BY DEF Init, FlagInv, PipeInv, DoneInv, ExitInv, NoFate, None
<1>3. ChildInv
  BY DEF Init, ChildInv
<1>4. CauseInv
  BY DEF Init, CauseInv, NoFate, None
<1> QED BY <1>1, <1>2, <1>3, <1>4 DEF IInv

\* Every step preserves the invariant.
LEMMA NextIInv == IInv /\ [Next]_vars => IInv'
BY NextType, NextFlags, NextPipe, NextChild, NextDone, NextCause, NextExit DEF IInv

\* The inductive invariant holds in every reachable state of timeout, its
\* command, the command's descendants and the signals around them.
THEOREM TimeoutInvariance == Spec => []IInv
BY InitIInv, NextIInv, PTL DEF Spec

\* The state is well typed (timeout.c).
THEOREM TimeoutTypes == Spec => []TypeOK
BY TimeoutInvariance, PTL DEF IInv

\* timeout never goes back to sigsuspend() with a signal noted and not acted
\* on, however many arrive and in whichever order (timeout.c:419-483).
THEOREM NoSignalLost == Spec => []FlagsClear
<1>1. IInv => FlagsClear
  BY DEF IInv, FlagInv, FlagsClear
<1> QED BY <1>1, TimeoutInvariance, PTL

\* The command does not run before the timer is armed, and never if timeout
\* failed to start (timeout.c:365-416).
THEOREM StartsGated == Spec => []StartGated
<1>1. IInv => StartGated
  BY DEF IInv, PipeInv, StartGated
<1> QED BY <1>1, TimeoutInvariance, PTL

\* Not in the foreground, timeout leaves no descendant behind, however many
\* there are and whenever they start and end (timeout.c:424-462).
THEOREM AllWaitedFor == Spec => []WaitsForAll
<1>1. IInv => WaitsForAll
  BY DEF IInv, ChildInv, ExitInv, WaitsForAll
<1> QED BY <1>1, TimeoutInvariance, PTL

\* timeout's exit status is the command's own, whatever that is, unless the
\* limit, a SIGALRM or the -k interval after another signal replaced it by
\* 124; the limit's victims are reported as 124 (timeout.c:487-500).
THEOREM StatusIsTrue == Spec => []StatusTells
<1>1. IInv => StatusTells
  <2> SUFFICES ASSUME IInv, pc = "exited" PROVE StatusTells
    BY DEF StatusTells
  <2> USE DEF IInv
  <2>1. exit = Status /\ child_si = fate /\ fate # NoFate
    BY DEF ExitInv, ChildInv
  <2>2. exit # fate => exit = Exited(EXIT_TIMEOUT) /\ timedout /\ ~opt.preserve
    BY <2>1 DEF Status
  <2>3. timedout => \/ "first" \in expired \/ "ALRM" \in outside
                    \/ "second" \in expired /\ outside # {}
    BY DEF CauseInv, TypeOK
  <2>4. fate = Killed(opt.sig) /\ outside = {} /\ opt.sig \notin {"ALRM", "SEGV"} => timedout
    BY DEF CauseInv, Killed
  <2> QED BY <2>1, <2>2, <2>3, <2>4 DEF Status, StatusTells
<1> QED BY <1>1, TimeoutInvariance, PTL

\* In the foreground timeout signals no process number it has given back
\* (timeout.c:190-211, 424-462).
THEOREM NoSignalStray == Spec => []NoStraySignal
<1>1. IInv => NoStraySignal
  BY DEF IInv, DoneInv, NoStraySignal
<1> QED BY <1>1, TimeoutInvariance, PTL
=============================================================================
