----------------------------- MODULE XargsProofs -----------------------------
(***************************************************************************)
(* Proofs about Xargs, for any input, any options, any limit on arguments, *)
(* bytes and processes: first the children and the exit status, then that  *)
(* the words of the input reach the commands.                              *)
(***************************************************************************)
EXTENDS Xargs, FiniteSetTheorems, SequenceTheorems, WellFoundedInduction, TLAPS

SlotNos == 1 .. maxprocs
Used == {i \in SlotNos : slots[i] # NOPID}

\* The slots hold the children xargs has started and not collected, each once,
\* and curprocs counts them.
Table ==
    /\ slots \in [SlotNos -> Pids \cup {NOPID}]
    /\ proc \in [Pids -> {"free", "running", "dying"} \cup Ended]
    /\ stray \in Pids \cup {NOPID}
    /\ stray \in Pids => proc[stray] # "free"
    /\ curprocs = Cardinality(Used)
    /\ \A i, j \in SlotNos : slots[i] = slots[j] /\ slots[i] # NOPID => i = j
    /\ \A pid \in Pids :
         (\E i \in SlotNos : slots[i] = pid) <=> (proc[pid] # "free" /\ pid # stray)

\* A command is packed and run only with a slot to spare; whatever leads to
\* the end waits for all children first.
Control ==
    /\ waitall \in BOOLEAN
    /\ pc \in {"parse", "run"} =>
         curprocs < maxprocs /\ cause = 0 /\ after \in {"parse", "last"}
    /\ pc = "wait" =>
         /\ after \in {"parse", "last", "exit", "exit1"}
         /\ cause # 0 \/ after \in {"exit", "exit1"} => waitall
    /\ pc = "exited" => curprocs = 0
    /\ pc # "broken"

\* What went wrong is still to be collected, or xargs knows of it.
Blame ==
    /\ cause \in {0, 1, 126, 127} /\ rval \in {0, 1}
    /\ childerr # "0" => "noexec" \in outcomes /\ (cause # 0 \/ curprocs > 0)
    /\ "noexec" \in outcomes /\ ~missed => childerr # "0"
    /\ cause \in {126, 127} => "noexec" \in outcomes
    /\ cause = 1 => outcomes \cap {"signal", "abort"} # {}
    /\ outcomes # {} =>
         \/ rval = 1 \/ cause # 0
         \/ \E pid \in Pids : /\ pid # stray
                             /\ proc[pid] \in {"dying", "fail", "abort", "signal"}
    /\ \A pid \in Pids :
         pid # stray /\ proc[pid] \in {"signal", "abort"} => proc[pid] \in outcomes
    /\ pc = "exited" => IF cause # 0 THEN code = cause ELSE code \in {rval, 1}

IInv == sigchld = "default" => Table /\ Control /\ Blame

-----------------------------------------------------------------------------
(* The slots.                                                              *)

\* A set of numbers that is not empty has a least element.
LEMMA LeastExists ==
    ASSUME NEW S \in SUBSET Nat, S # {}
    PROVE  \E i \in S : \A j \in S : i <= j
<1> DEFINE R == OpToRel(<, Nat)
<1>1. PICK i \in S : \A j \in S : ~(<<j, i>> \in R)
  <2>1. IsWellFoundedOn(R, Nat)
    BY NatLessThanWellFounded
  <2> HIDE DEF R
  <2> QED BY <2>1, WFMin
<1>2. ASSUME NEW j \in S PROVE i <= j
  <2>1. ~(j < i)
    BY <1>1 DEF OpToRel
  <2> QED BY <2>1
<1> QED BY <1>1, <1>2

\* findslot() finds a slot with pid if there is one.
LEMMA FindSlot ==
    ASSUME slots \in [SlotNos -> Pids \cup {NOPID}], NEW pid
    PROVE  \/ findslot(pid) = {} /\ \A i \in SlotNos : slots[i] # pid
           \/ \E i \in SlotNos : slots[i] = pid /\ findslot(pid) = {i}
<1> DEFINE at == {i \in SlotNos : slots[i] = pid}
           least == CHOOSE i \in at : \A j \in at : i <= j
<1>1. findslot(pid) = IF at = {} THEN {} ELSE {least}
  BY DEF findslot
<1>2. CASE at = {}
  BY <1>1, <1>2
<1>3. CASE at # {}
  <2>1. \E i \in at : \A j \in at : i <= j
    <3>1. at \in SUBSET Nat
      BY XargsAssumption DEF SlotNos
    <3> HIDE DEF at
    <3> QED BY <1>3, <3>1, LeastExists
  <2>2. least \in at
    BY <2>1
  <2> QED BY <1>1, <1>3, <2>2
<1> QED BY <1>2, <1>3

\* The slots in use are finitely many, so that curprocs is a number.
LEMMA UsedFinite == IsFiniteSet(Used) /\ Cardinality(Used) \in 0 .. maxprocs
<1>1. IsFiniteSet(SlotNos) /\ Cardinality(SlotNos) = maxprocs
  BY FS_Interval, XargsAssumption DEF SlotNos
<1>2. Used \in SUBSET SlotNos
  BY DEF Used
<1> QED BY <1>1, <1>2, FS_Subset, FS_CardinalityType, XargsAssumption

\* With fewer children than slots one is free.
LEMMA RoomLeft ==
    ASSUME Table, curprocs < maxprocs
    PROVE  \E i \in SlotNos : slots[i] = NOPID
<1> SUFFICES ASSUME \A i \in SlotNos : slots[i] # NOPID PROVE FALSE
  OBVIOUS
<1>1. Used = SlotNos
  BY DEF Used
<1>2. Cardinality(SlotNos) = maxprocs
  BY FS_Interval, XargsAssumption DEF SlotNos
<1> QED BY <1>1, <1>2, XargsAssumption DEF Table

\* The process table has room for one child more than there are slots.
LEMMA PidLeft ==
    ASSUME Table
    PROVE  NewPid \in Pids /\ proc[NewPid] = "free"
<1>1. \E pid \in Pids : proc[pid] = "free"
  <2> SUFFICES ASSUME \A pid \in Pids : proc[pid] # "free" PROVE FALSE
    OBVIOUS
  <2> DEFINE S == Pids \ {stray}
             f == [pid \in S |-> CHOOSE i \in SlotNos : slots[i] = pid]
  <2>1. \A pid \in S : f[pid] \in SlotNos /\ slots[f[pid]] = pid
    BY DEF Table
  <2>2. IsFiniteSet(S) /\ Cardinality(S) > maxprocs
    <3>1. IsFiniteSet(Pids) /\ Cardinality(Pids) = maxprocs + 2
      BY FS_Interval, XargsAssumption DEF Pids
    <3>2. maxprocs \in Nat
      BY XargsAssumption
    <3>3. IsFiniteSet(S) /\ Cardinality(S) = IF stray \in Pids
                                               THEN Cardinality(Pids) - 1
                                               ELSE Cardinality(Pids)
      BY <3>1, FS_RemoveElement
    <3> HIDE DEF S
    <3> QED BY <3>1, <3>2, <3>3
  <2>3. IsFiniteSet(SlotNos) /\ Cardinality(SlotNos) = maxprocs
    BY FS_Interval, XargsAssumption DEF SlotNos
  <2>4. f \in [S -> SlotNos]
    BY <2>1
  <2>5. PICK x, y \in S : x # y /\ f[x] = f[y]
    <3> HIDE DEF S, f
    <3> QED BY <2>2, <2>3, <2>4, FS_PigeonHole
  <2> QED BY <2>1, <2>5
<1> DEFINE free == {pid \in Pids : proc[pid] = "free"}
<1>2. \E pid \in free : \A q \in free : pid <= q
  <2>1. free \in SUBSET Nat /\ free # {}
    BY <1>1, XargsAssumption DEF Pids
  <2> HIDE DEF free
  <2> QED BY <2>1, LeastExists
<1>3. \E pid \in Pids : proc[pid] = "free" /\ \A q \in Pids : proc[q] = "free" => pid <= q
  BY <1>2
<1> QED BY <1>3 DEF NewPid

\* pids_add() records a new child in a free slot.
LEMMA AddTable ==
    ASSUME Table, curprocs < maxprocs, NEW pid \in Pids, proc[pid] = "free",
           NEW state \in {"running", "dying"},
           pids_add(pid), proc' = [proc EXCEPT ![pid] = state], stray' = stray
    PROVE  Table' /\ curprocs' > 0
<1>1. PICK i \in SlotNos : slots[i] = NOPID /\ findslot(NOPID) = {i}
  BY FindSlot, RoomLeft DEF Table
<1>2. slots' = [slots EXCEPT ![i] = pid]
  BY <1>1 DEF pids_add, Table
<1>3. pid # NOPID
  BY DEF Pids, NOPID
<1>4. curprocs' = Cardinality(Used') /\ curprocs' > 0
  <2>1. Used' = Used \cup {i} /\ i \notin Used
    BY <1>1, <1>2, <1>3 DEF Used, Table
  <2>2. Cardinality(Used \cup {i}) = Cardinality(Used) + 1
    BY <2>1, UsedFinite, FS_AddElement
  <2> QED BY <2>1, <2>2, UsedFinite DEF pids_add, Table
<1>5. slots' \in [SlotNos -> Pids \cup {NOPID}]
  BY <1>2 DEF Table
<1>6. proc' \in [Pids -> {"free", "running", "dying"} \cup Ended]
  BY DEF Table
<1>7. \A j \in SlotNos : slots[j] # pid
  BY DEF Table
<1>8. \A j, k \in SlotNos : slots'[j] = slots'[k] /\ slots'[j] # NOPID => j = k
  BY <1>1, <1>2, <1>7 DEF Table
<1>9. ASSUME NEW q \in Pids
      PROVE  (\E j \in SlotNos : slots'[j] = q) <=> (proc'[q] # "free" /\ q # stray')
  <2>1. CASE q = pid
    BY <1>2, <2>1 DEF Table
  <2>2. CASE q # pid
    <3>1. q # NOPID
      BY DEF Pids, NOPID
    <3>2. (\E j \in SlotNos : slots'[j] = q) <=> (\E j \in SlotNos : slots[j] = q)
      BY <1>1, <1>2, <2>2, <3>1 DEF Table
    <3>3. proc'[q] = proc[q]
      BY <2>2 DEF Table
    <3> QED BY <3>2, <3>3 DEF Table
  <2> QED BY <2>1, <2>2
<1>10. stray' \in Pids \cup {NOPID} /\ (stray' \in Pids => proc'[stray'] # "free")
  BY DEF Table
<1> QED BY <1>4, <1>5, <1>6, <1>8, <1>9, <1>10 DEF Table

\* pids_remove() forgets the child that was collected, if it is one of ours.
LEMMA RemoveTable ==
    ASSUME Table, NEW pid \in Pids, proc[pid] # "free",
           pids_remove(pid), proc' = [proc EXCEPT ![pid] = "free"],
           stray' = IF stray = pid THEN NOPID ELSE stray
    PROVE  /\ Table'
           /\ findslot(pid) = {} <=> pid = stray
           /\ curprocs' = IF pid = stray THEN curprocs ELSE curprocs - 1
<1>0. pid # NOPID
  BY DEF Pids, NOPID
<1>1. proc' \in [Pids -> {"free", "running", "dying"} \cup Ended]
  BY DEF Table
<1>2. stray' \in Pids \cup {NOPID} /\ (stray' \in Pids => proc'[stray'] # "free")
  BY <1>0 DEF Table, Pids, NOPID
<1>3. CASE pid = stray
  <2>1. findslot(pid) = {}
    BY <1>3, FindSlot DEF Table
  <2>2. slots' = slots /\ curprocs' = curprocs
    BY <2>1 DEF pids_remove, Table
  <2>3. \A q \in Pids : (proc'[q] # "free" /\ q # stray') <=> (proc[q] # "free" /\ q # stray)
    BY <1>0, <1>3 DEF Table, Pids, NOPID
  <2>4. Used' = Used
    BY <2>2 DEF Used
  <2> QED BY <1>1, <1>2, <1>3, <2>1, <2>2, <2>3, <2>4 DEF Table
<1>4. CASE pid # stray
  <2>1. PICK i \in SlotNos : slots[i] = pid /\ findslot(pid) = {i}
    BY <1>4, FindSlot DEF Table
  <2>2. slots' = [slots EXCEPT ![i] = NOPID] /\ curprocs' = curprocs - 1
    BY <2>1 DEF pids_remove, Table
  <2>3. curprocs' = Cardinality(Used')
    <3>1. Used' = Used \ {i} /\ i \in Used
      BY <1>0, <2>1, <2>2 DEF Used, Table
    <3> QED BY <2>2, <3>1, UsedFinite, FS_RemoveElement DEF Table
  <2>4. slots' \in [SlotNos -> Pids \cup {NOPID}]
    BY <2>2 DEF Table
  <2>5. \A j, k \in SlotNos : slots'[j] = slots'[k] /\ slots'[j] # NOPID => j = k
    BY <2>2 DEF Table
  <2>6. ASSUME NEW q \in Pids
        PROVE  (\E j \in SlotNos : slots'[j] = q) <=> (proc'[q] # "free" /\ q # stray')
    <3>0. q # NOPID
      BY DEF Pids, NOPID
    <3>1. CASE q = pid
      <4>1. \A j \in SlotNos : slots'[j] # q
        BY <1>0, <2>1, <2>2, <3>1 DEF Table
      <4> QED BY <3>1, <4>1 DEF Table
    <3>2. CASE q # pid
      <4>1. (\E j \in SlotNos : slots'[j] = q) <=> (\E j \in SlotNos : slots[j] = q)
        BY <2>1, <2>2, <3>0, <3>2 DEF Table
      <4> QED BY <1>4, <3>2, <4>1 DEF Table
    <3> QED BY <3>1, <3>2
  <2> QED BY <1>1, <1>2, <1>4, <2>1, <2>2, <2>3, <2>4, <2>5, <2>6 DEF Table
<1> QED BY <1>3, <1>4

-----------------------------------------------------------------------------
(* Reading the input.                                                      *)

\* Where a step of parse_input() leads: it reads on, runs a command, or
\* waits for all children to leave.
Onward ==
    /\ UNCHANGED <<rval, code>>
    /\ \/ pc' = pc /\ UNCHANGED <<after, wait_vars>>
       \/ pc' = "run" /\ after' \in {"parse", "last"} /\ UNCHANGED wait_vars
       \/ pc' = "wait" /\ waitall' = TRUE /\ cause' = 0 /\ after' \in {"exit", "exit1"}

\* parse_input() leaves the children alone, and goes on to parse, to run or to wait.
LEMMA ParseOnward ==
    ASSUME parse_input
    PROVE  pc = "parse" /\ Onward /\ UNCHANGED <<proc_vars, ghosts>>
<1> USE DEF Onward, wait_vars
<1>1. xexit => Onward
  BY DEF xexit, waitchildren
<1>2. \A args : prerun(args, "parse") \/ prerun(args, "last") => Onward
  BY DEF prerun
<1>3. ASSUME NEW ch, addch(ch) PROVE Onward
  BY <1>1, <1>2, <1>3 DEF addch
<1>4. ASSUME NEW kind, EndArg(kind) PROVE Onward
  BY <1>1, <1>2, <1>4 DEF EndArg
<1>5. EndOfInput => Onward
  BY <1>4 DEF EndOfInput, waitchildren
<1>6. Escape => Onward
  BY <1>1, <1>3 DEF Escape
<1> QED BY <1>3, <1>4, <1>5, <1>6 DEF parse_input

-----------------------------------------------------------------------------
(* One lemma per action.  Held is what IInv claims of an xargs started     *)
(* with SIGCHLD at its default.                                            *)

Held == Table /\ Control /\ Blame

\* A step that leaves the children and what is known of them alone.
LEMMA TableKept ==
    ASSUME Table, UNCHANGED <<slots, curprocs, proc, stray>>
    PROVE  Table'
<1>1. Used' = Used
  BY DEF Used
<1> QED BY <1>1 DEF Table

\* parse_input() keeps the invariant: it starts and collects no child.
LEMMA ParseHeld == ASSUME Held, parse_input PROVE Held'
<1> USE DEF Held
<1>1. pc = "parse" /\ Onward /\ UNCHANGED <<proc_vars, ghosts>>
  BY ParseOnward
<1>2. Table'
  BY <1>1, TableKept DEF proc_vars
<1>3. Control'
  BY <1>1 DEF Control, Onward, proc_vars, wait_vars
<1>4. Blame'
  BY <1>1 DEF Blame, Control, Onward, proc_vars, wait_vars, ghosts
<1> QED BY <1>2, <1>3, <1>4

\* Where run() returns to.
LEMMA ResumeHeld ==
    ASSUME Held, Resume, after \in {"parse", "last"}, cause = 0, curprocs < maxprocs,
           pc # "exited", UNCHANGED <<proc_vars, all, outcomes, missed>>
    PROVE  Held'
<1> USE DEF Held, Resume, waitchildren, wait_vars, proc_vars
<1>1. Table'
  BY TableKept
<1>2. Control'
  BY DEF Control
<1>3. Blame'
  BY DEF Blame
<1> QED BY <1>1, <1>2, <1>3

\* Under -p, a command the user declines leaves the children alone.
LEMMA DeclineHeld == ASSUME Held, Decline PROVE Held'
BY ResumeHeld DEF Decline, Held, Control

\* A failed vfork() ends in xexit(), with every child still in its slot.
LEMMA VforkHeld == ASSUME Held, vforkFails PROVE Held'
<1> USE DEF Held, vforkFails, xexit, waitchildren
<1>1. Table'
  BY TableKept
<1>2. Control'
  BY DEF Control
<1>3. Blame'
  BY DEF Blame, Control
<1> QED BY <1>1, <1>2, <1>3

\* A child is started, in a slot that is free.
LEMMA LaunchHeld ==
    ASSUME Held, NEW state \in {"running", "dying"}, NEW err,
           err # "0" => state = "dying", Launch(NewPid, state, err)
    PROVE  Held'
<1> DEFINE pid == NewPid
<1>1. pid \in Pids /\ proc[pid] = "free"
  BY PidLeft DEF Held
<1> HIDE DEF pid
<1>2. pc = "run" /\ curprocs < maxprocs /\ cause = 0 /\ after \in {"parse", "last"}
  BY DEF Launch, Held, Control
<1>3. findslot(NOPID) # {}
  BY <1>2, FindSlot, RoomLeft DEF Held, Table
<1>4. /\ pids_add(pid) /\ pc' = "wait" /\ waitall' = FALSE /\ cause' = 0 /\ after' = after
      /\ UNCHANGED <<rval, stray>>
      /\ proc' = [proc EXCEPT ![pid] = state] /\ childerr' = err
      /\ missed' = (missed \/ childerr # "0")
      /\ outcomes' = IF err # "0" THEN outcomes \cup {"noexec"} ELSE outcomes
  BY <1>3 DEF Launch, waitchildren, pid
<1>5. Table' /\ curprocs' > 0
  BY <1>1, <1>2, <1>4, AddTable DEF Held
<1>6. Control'
  BY <1>2, <1>4 DEF Control
<1>7. Blame'
  <2>0. /\ proc \in [Pids -> {"free", "running", "dying"} \cup Ended]
        /\ stray \in Pids \cup {NOPID}
        /\ (stray \in Pids => proc[stray] # "free")
    BY DEF Held, Table
  <2>1. pid # stray
    BY <1>1, <2>0
  <2>2. \A q \in Pids : q # pid => proc'[q] = proc[q]
    BY <1>4, <2>0
  <2>3. proc'[pid] = state
    BY <1>1, <1>4, <2>0
  <2>4. outcomes' # {} =>
         \/ rval' = 1 \/ cause' # 0
         \/ \E q \in Pids : q # stray' /\ proc'[q] \in {"dying", "fail", "abort", "signal"}
    <3>1. CASE err # "0"
      BY <1>1, <1>4, <2>1, <2>3, <3>1
    <3>2. CASE err = "0"
      BY <1>1, <1>2, <1>4, <2>2, <3>2 DEF Held, Blame
    <3> QED BY <3>1, <3>2
  <2>5. \A q \in Pids :
        q # stray' /\ proc'[q] \in {"signal", "abort"} => proc'[q] \in outcomes'
    BY <1>1, <1>4, <2>2, <2>3 DEF Held, Blame
  <2>6. childerr' # "0" => "noexec" \in outcomes' /\ (cause' # 0 \/ curprocs' > 0)
    BY <1>4, <1>5
  <2>7. "noexec" \in outcomes' /\ ~missed' => childerr' # "0"
    BY <1>4 DEF Held, Blame
  <2> QED BY <1>4, <2>4, <2>5, <2>6, <2>7 DEF Held, Blame
<1> QED BY <1>5, <1>6, <1>7 DEF Held

\* A child is collected: one of ours, which xargs takes notice of, or the one
\* it was started with.
LEMMA CollectHeld == ASSUME Held, NEW pid \in Pids, Collect(pid) PROVE Held'
<1>0. /\ proc \in [Pids -> {"free", "running", "dying"} \cup Ended]
      /\ stray \in Pids \cup {NOPID}
  BY DEF Held, Table
<1>1. /\ pc = "wait" /\ proc[pid] \in Ended
      /\ proc' = [proc EXCEPT ![pid] = "free"]
      /\ stray' = IF stray = pid THEN NOPID ELSE stray
      /\ pids_remove(pid)
      /\ UNCHANGED <<pc, after, childerr, outcomes, missed, code>>
  BY DEF Collect, Zombies, ghosts, wait_vars
<1>2. /\ Table'
      /\ findslot(pid) = {} <=> pid = stray
      /\ curprocs' = IF pid = stray THEN curprocs ELSE curprocs - 1
  BY <1>1, RemoveTable DEF Held, Ended
<1>3. \A q \in Pids : q # pid => proc'[q] = proc[q]
  BY <1>0, <1>1
<1>4. proc'[pid] = "free"
  BY <1>0, <1>1
<1>5. \A q \in Pids : q # pid => (q # stray' <=> q # stray)
  BY <1>1 DEF Pids, NOPID
<1>6. \A q \in Pids :
        q # stray' /\ proc'[q] \in {"signal", "abort"} => proc'[q] \in outcomes'
  BY <1>1, <1>3, <1>4, <1>5 DEF Held, Blame
<1>7. CASE pid = stray
  <2>1. UNCHANGED <<wait_vars, curprocs>>
    BY <1>2, <1>7 DEF Collect
  <2>2. Control'
    BY <1>1, <2>1 DEF Held, Control, wait_vars
  <2>3. outcomes' # {} =>
         \/ rval' = 1 \/ cause' # 0
         \/ \E q \in Pids : q # stray' /\ proc'[q] \in {"dying", "fail", "abort", "signal"}
    BY <1>1, <1>3, <1>5, <1>7, <2>1 DEF Held, Blame, wait_vars
  <2>4. Blame'
    BY <1>1, <1>6, <2>1, <2>3 DEF Held, Blame, wait_vars
  <2> QED BY <1>2, <2>2, <2>4 DEF Held
<1>8. CASE pid # stray
  <2>1. \/ /\ childerr # "0" /\ cause = 0 /\ waitall' = TRUE /\ cause' \in {126, 127}
           /\ rval' = rval
        \/ /\ ~(childerr # "0" /\ cause = 0) /\ proc[pid] \in {"signal", "abort"}
           /\ waitall' = TRUE /\ cause' = 1 /\ rval' = rval
        \/ /\ ~(childerr # "0" /\ cause = 0) /\ proc[pid] \notin {"signal", "abort"}
           /\ rval' = (IF proc[pid] = "fail" THEN 1 ELSE rval)
           /\ UNCHANGED <<waitall, cause>>
    BY <1>2, <1>8 DEF Collect, rvalAfter
  <2>2. Control'
    <3>1. waitall' \in BOOLEAN /\ (cause' # 0 => waitall' \/ cause # 0)
      BY <2>1 DEF Held, Control
    <3>2. waitall => waitall'
      BY <2>1
    <3> QED BY <1>1, <3>1, <3>2 DEF Held, Control
  <2>3. outcomes' # {} =>
         \/ rval' = 1 \/ cause' # 0
         \/ \E q \in Pids : q # stray' /\ proc'[q] \in {"dying", "fail", "abort", "signal"}
    <3> SUFFICES ASSUME outcomes # {}, rval' # 1, cause' = 0
                 PROVE  \E q \in Pids : /\ q # stray'
                                        /\ proc'[q] \in {"dying", "fail", "abort", "signal"}
      BY <1>1
    <3>1. rval # 1 /\ cause = 0 /\ proc[pid] \notin {"signal", "abort", "fail"}
      BY <2>1 DEF Held, Blame
    <3>2. PICK q \in Pids : q # stray /\ proc[q] \in {"dying", "fail", "abort", "signal"}
      BY <3>1 DEF Held, Blame
    <3>3. q # pid
      BY <1>1, <3>1, <3>2 DEF Ended
    <3> QED BY <1>3, <1>5, <3>2, <3>3
  <2>4. cause' \in {0, 1, 126, 127} /\ rval' \in {0, 1}
    BY <2>1 DEF Held, Blame
  <2>5. childerr' # "0" => "noexec" \in outcomes' /\ cause' # 0
    BY <1>1, <2>1 DEF Held, Blame
  <2>6. cause' \in {126, 127} => "noexec" \in outcomes'
    BY <1>1, <2>1 DEF Held, Blame
  <2>7. cause' = 1 => outcomes' \cap {"signal", "abort"} # {}
    BY <1>1, <1>8, <2>1 DEF Held, Blame
  <2>8. Blame'
    BY <1>1, <1>6, <2>3, <2>4, <2>5, <2>6, <2>7 DEF Held, Blame
  <2> QED BY <1>2, <2>2, <2>8 DEF Held
<1> QED BY <1>7, <1>8

\* With no child in the table none is counted.
LEMMA NoneUsed ==
    ASSUME Table
    PROVE  curprocs = 0 <=> \A pid \in Pids : proc[pid] = "free" \/ pid = stray
<1>1. curprocs = 0 <=> Used = {}
  BY UsedFinite, FS_EmptySet DEF Table
<1>2. Used = {} <=> \A i \in SlotNos : slots[i] \notin Pids
  <2>1. NOPID \notin Pids
    BY DEF Pids, NOPID
  <2> QED BY <2>1 DEF Used, Table
<1> QED BY <1>1, <1>2 DEF Table

\* waitchildren() is left with a slot free, and without any child of ours if
\* it waited for all.
LEMMA LoopLeft ==
    ASSUME Held, LoopEnds
    PROVE  curprocs < maxprocs /\ (waitall => curprocs = 0)
<1>0. curprocs \in Nat
  BY UsedFinite DEF Held, Table
<1>1. CASE curprocs = 0
  BY <1>1, XargsAssumption
<1>2. CASE curprocs # 0
  <2>1. ~(\A pid \in Pids : proc[pid] = "free")
    BY <1>2, NoneUsed DEF Held
  <2>2. ~Block
    BY <1>2, <2>1 DEF LoopEnds, pids_empty
  <2> QED BY <1>0, <2>2, XargsAssumption DEF Block, pids_full
<1> QED BY <1>1, <1>2

\* waitchildren() returns to where it was called from; the way out has no child left.
LEMMA ReturnHeld == ASSUME Held, Return PROVE Held'
<1>1. pc = "wait" /\ curprocs < maxprocs /\ (waitall => curprocs = 0)
  BY LoopLeft DEF Return, LoopEnds
<1>2. UNCHANGED <<proc_vars, ghosts>>
  BY DEF Return
<1>3. CASE cause = 0 /\ after \in {"parse", "last"} /\ Resume
  BY <1>1, <1>2, <1>3, ResumeHeld DEF ghosts
<1>4. CASE \/ cause # 0 /\ Exit("exited", cause)
           \/ cause = 0 /\ after = "exit" /\ Exit("exited", rval)
           \/ cause = 0 /\ after = "exit1" /\ Exit("exited", 1)
  <2>1. curprocs = 0
    BY <1>1, <1>4 DEF Held, Control
  <2>2. pc' = "exited" /\ UNCHANGED <<waitall, cause, rval, after>>
    BY <1>4 DEF Exit
  <2>3. IF cause # 0 THEN code' = cause ELSE code' \in {rval, 1}
    BY <1>4 DEF Exit
  <2>4. Table'
    BY <1>2, TableKept DEF Held, proc_vars
  <2>5. Control'
    BY <1>2, <2>1, <2>2 DEF Held, Control, proc_vars
  <2>6. Blame'
    BY <1>2, <2>2, <2>3 DEF Held, Blame, proc_vars, ghosts
  <2> QED BY <2>4, <2>5, <2>6 DEF Held
<1> QED BY <1>3, <1>4 DEF Return

\* A child that ends keeps its slot until waitchildren() collects it.
LEMMA ChildEndsHeld ==
    ASSUME Held, sigchld = "default", NEW pid \in Pids, ChildEnds(pid)
    PROVE  Held'
<1>1. PICK how \in Ended :
        /\ proc[pid] = "running" \/ (proc[pid] = "dying" /\ how = "fail")
        /\ proc' = [proc EXCEPT ![pid] = how]
        /\ outcomes' = IF pid = stray \/ how = "ok" THEN outcomes ELSE outcomes \cup {how}
  BY DEF ChildEnds
<1>2. UNCHANGED <<pc, after, wait_vars, slots, curprocs, childerr, missed, stray>>
  BY DEF ChildEnds
<1>3. proc \in [Pids -> {"free", "running", "dying"} \cup Ended]
  BY DEF Held, Table
<1>4. proc'[pid] = how /\ \A q \in Pids : q # pid => proc'[q] = proc[q]
  BY <1>1, <1>3
<1>5. proc' \in [Pids -> {"free", "running", "dying"} \cup Ended]
  BY <1>1, <1>3
<1>6. \A q \in Pids : proc'[q] = "free" <=> proc[q] = "free"
  BY <1>1, <1>4 DEF Ended
<1>7. Table'
  <2>1. Used' = Used
    BY <1>2 DEF Used
  <2> QED BY <1>2, <1>5, <1>6, <2>1 DEF Held, Table
<1>8. Control'
  BY <1>2 DEF Held, Control, wait_vars
<1>9. Blame'
  <2>1. outcomes \subseteq outcomes' /\ ("noexec" \in outcomes' => "noexec" \in outcomes)
    BY <1>1 DEF Ended
  <2>2. outcomes' # {} =>
         \/ rval' = 1 \/ cause' # 0
         \/ \E q \in Pids : q # stray' /\ proc'[q] \in {"dying", "fail", "abort", "signal"}
    <3>1. CASE pid # stray /\ how # "ok"
      BY <1>2, <1>4, <3>1 DEF Ended
    <3>2. CASE pid = stray \/ how = "ok"
      <4>1. outcomes' = outcomes
        BY <1>1, <3>2
      <4>2. \A q \in Pids : /\ q # stray /\ proc[q] \in {"dying", "fail", "abort", "signal"}
                           => proc'[q] = proc[q]
        BY <1>1, <1>4, <3>2
      <4> QED BY <1>2, <4>1, <4>2 DEF Held, Blame, wait_vars
    <3> QED BY <3>1, <3>2
  <2>3. \A q \in Pids :
        q # stray' /\ proc'[q] \in {"signal", "abort"} => proc'[q] \in outcomes'
    BY <1>1, <1>2, <1>4, <2>1 DEF Held, Blame
  <2>4. outcomes \cap {"signal", "abort"} # {} => outcomes' \cap {"signal", "abort"} # {}
    BY <2>1
  <2> QED BY <1>2, <2>1, <2>2, <2>3, <2>4 DEF Held, Blame, wait_vars
<1> QED BY <1>7, <1>8, <1>9 DEF Held

-----------------------------------------------------------------------------
\* The invariant holds when main() is about to read its input.
LEMMA InitIInv == Init => IInv
<1> SUFFICES ASSUME Init PROVE Held
  BY DEF IInv, Held
<1>1. Used = {}
  BY DEF Init, Used, SlotNos
<1>2. Cardinality(Used) = 0
  BY <1>1, FS_EmptySet
<1>3. Table
  <2>1. slots \in [SlotNos -> Pids \cup {NOPID}] /\ \A i \in SlotNos : slots[i] = NOPID
    BY DEF Init, SlotNos
  <2>2. stray \in Pids \cup {NOPID} /\ NOPID \notin Pids
    BY XargsAssumption DEF Init, Pids, NOPID
  <2>3. proc \in [Pids -> {"free", "running", "dying"} \cup Ended]
        /\ \A pid \in Pids : proc[pid] = IF pid = stray THEN "running" ELSE "free"
    BY DEF Init
  <2>4. curprocs = 0
    BY DEF Init
  <2> QED BY <1>2, <2>1, <2>2, <2>3, <2>4 DEF Table
<1>4. Control
  <2>1. waitall \in BOOLEAN
    BY DEF Init
  <2>2. curprocs = 0 /\ pc = "parse" /\ cause = 0 /\ after \in {"parse", "last"}
    BY DEF Init
  <2> QED BY <2>1, <2>2, XargsAssumption DEF Control
<1>5. Blame
  BY DEF Init, Blame
<1> QED BY <1>3, <1>4, <1>5 DEF Held

\* Every step of xargs and of its children keeps the invariant.
LEMMA NextIInv == IInv /\ [Next]_vars => IInv'
<1>1. sigchld' = sigchld \/ ~[Next]_vars
  BY ParseOnward DEF Next, vars, Decline, vforkFails, run, Launch, Collect, Return,
     ChildEnds, proc_vars
<1> SUFFICES ASSUME sigchld = "default", Held, [Next]_vars PROVE Held'
  BY <1>1 DEF IInv, Held
<1>2. CASE parse_input
  BY <1>2, ParseHeld
<1>3. CASE Decline
  BY <1>3, DeclineHeld
<1>4. CASE vforkFails
  BY <1>4, VforkHeld
<1>5. CASE run
  <2>1. CASE Launch(NewPid, "running", "0")
    BY <2>1, LaunchHeld
  <2>2. CASE Launch(NewPid, "dying", "0")
    BY <2>2, LaunchHeld
  <2>3. ASSUME NEW err \in {"ENOENT", "other"}, Launch(NewPid, "dying", err)
        PROVE  Held'
    BY <2>3, LaunchHeld
  <2> QED BY <1>5, <2>1, <2>2, <2>3 DEF run
<1>6. ASSUME NEW pid \in Pids, Collect(pid) PROVE Held'
  BY <1>6, CollectHeld
<1>7. CASE Return
  BY <1>7, ReturnHeld
<1>8. ASSUME NEW pid \in Pids, ChildEnds(pid) PROVE Held'
  BY <1>8, ChildEndsHeld
<1>9. CASE UNCHANGED vars
  BY <1>9, TableKept DEF vars, Held, Control, Blame
<1> QED BY <1>2, <1>3, <1>4, <1>5, <1>6, <1>7, <1>8, <1>9 DEF Next

\* From the defaults of SIGCHLD, the slots hold the children of xargs and only them, the
\* way out waits for all, and what went wrong is known or still to be collected.
THEOREM XargsInvariance == Spec => []IInv
BY InitIInv, NextIInv, PTL DEF Spec

\* ChildrenTracked of the run xargs, for any -P: curprocs counts the slots in use, every
\* child not yet collected has one slot, run() never finds the table full, and xargs
\* exits only when no child is left.
THEOREM AllChildrenTracked == Spec => []ChildrenTracked
<1>1. IInv => ChildrenTracked
  <2> SUFFICES ASSUME Held PROVE
        /\ curprocs = Cardinality({i \in DOMAIN slots : slots[i] # NOPID})
        /\ \A pid \in Pids :
             Cardinality({i \in DOMAIN slots : slots[i] = pid}) =
                IF proc[pid] # "free" /\ pid # stray THEN 1 ELSE 0
        /\ pc # "broken"
        /\ pc = "exited" => curprocs = 0
    BY DEF IInv, Held, ChildrenTracked
  <2>1. DOMAIN slots = SlotNos
    BY DEF Held, Table
  <2>2. ASSUME NEW pid \in Pids
        PROVE  Cardinality({i \in SlotNos : slots[i] = pid}) =
                  IF proc[pid] # "free" /\ pid # stray THEN 1 ELSE 0
    <3>0. pid # NOPID
      BY DEF Pids, NOPID
    <3>1. CASE proc[pid] # "free" /\ pid # stray
      <4>1. PICK i \in SlotNos : slots[i] = pid
        BY <3>1 DEF Held, Table
      <4>2. {j \in SlotNos : slots[j] = pid} = {i}
        BY <3>0, <4>1 DEF Held, Table
      <4> QED BY <3>1, <4>2, FS_Singleton
    <3>2. CASE ~(proc[pid] # "free" /\ pid # stray)
      <4>1. {j \in SlotNos : slots[j] = pid} = {}
        BY <3>2 DEF Held, Table
      <4> QED BY <3>2, <4>1, FS_EmptySet
    <3> QED BY <3>1, <3>2
  <2> QED BY <2>1, <2>2 DEF Held, Table, Control, Used
<1> QED BY <1>1, XargsInvariance, PTL

\* StatusTells of the run xargs, for any -P: status 0 only when no command failed, and
\* 126 or 127 exactly when one could not be run, as far as waitchildren() looks.
THEOREM XargsStatus == Spec => []StatusTells
<1>1. IInv => StatusTells
  <2> SUFFICES ASSUME Held, pc = "exited"
               PROVE  /\ code = 0 => outcomes = {}
                      /\ code \in {126, 127} => "noexec" \in outcomes
                      /\ ("noexec" \in outcomes /\ ~missed
                            /\ outcomes \cap {"signal", "abort"} = {})
                           => code \in {126, 127}
    BY DEF IInv, Held, StatusTells
  <2>1. curprocs = 0 /\ \A pid \in Pids : proc[pid] = "free" \/ pid = stray
    BY NoneUsed DEF Held, Control
  <2> QED BY <2>1 DEF Held, Blame
<1> QED BY <1>1, XargsInvariance, PTL

-----------------------------------------------------------------------------
(* Induction and recursion.                                                *)

\* Induction over 0..n, as a fact about sets.
LEMMA UpTo ==
    ASSUME NEW n \in Nat, NEW T, 0 \in T, \A i \in 0 .. n - 1 : i \in T => i + 1 \in T
    PROVE  0 .. n \subseteq T
<1> DEFINE S == (0 .. n) \ T
<1> SUFFICES ASSUME S # {} PROVE FALSE
  OBVIOUS
<1>1. PICK m \in S : \A k \in S : m <= k
  <2>1. S \in SUBSET Nat OBVIOUS
  <2> HIDE DEF S
  <2> QED BY <2>1, LeastExists
<1>2. m \in 0 .. n /\ m \notin T OBVIOUS
<1>3. m # 0 BY <1>2
<1>4. m - 1 \in 0 .. n - 1 BY <1>2, <1>3
<1>5. m - 1 \in T BY <1>1, <1>4
<1>6. (m - 1) + 1 \in T BY <1>4, <1>5
<1> QED BY <1>2, <1>6

\* A function is determined by its value at 0 and by a step from each value to
\* the next.
LEMMA RecursionExists ==
    ASSUME NEW S, NEW c \in S, NEW n \in Nat, NEW h \in [1 .. n -> [S -> S]]
    PROVE  \E g \in [0 .. n -> S] : g[0] = c /\ \A i \in 1 .. n : g[i] = h[i][g[i - 1]]
<1> DEFINE Good(g, k) == g \in [0 .. k -> S] /\ g[0] = c
                         /\ \A i \in 1 .. k : g[i] = h[i][g[i - 1]]
           T == {k \in 0 .. n : \E g : Good(g, k)}
<1>1. 0 \in T
  <2> DEFINE g == [i \in 0 .. 0 |-> c]
  <2>1. Good(g, 0) OBVIOUS
  <2>2. 0 \in 0 .. n OBVIOUS
  <2> HIDE DEF Good, g
  <2> QED BY <2>1, <2>2
<1>2. ASSUME NEW k \in 0 .. n - 1, k \in T PROVE k + 1 \in T
  <2>1. PICK g : Good(g, k) BY <1>2
  <2> DEFINE f == [i \in 0 .. k + 1 |-> IF i = k + 1 THEN h[k + 1][g[k]] ELSE g[i]]
  <2>2. h[k + 1][g[k]] \in S
    <3>1. k + 1 \in 1 .. n /\ k \in 0 .. k OBVIOUS
    <3> QED BY <2>1, <3>1
  <2>3. f \in [0 .. k + 1 -> S] /\ f[0] = c
    BY <2>1, <2>2
  <2>4. ASSUME NEW i \in 1 .. k + 1 PROVE f[i] = h[i][f[i - 1]]
    BY <2>1
  <2>5. Good(f, k + 1) BY <2>3, <2>4
  <2>6. k + 1 \in 0 .. n OBVIOUS
  <2> QED BY <2>5, <2>6
<1>3. n \in T
  <2> HIDE DEF T
  <2>1. 0 .. n \subseteq T BY <1>1, <1>2, UpTo
  <2> QED BY <2>1
<1> QED BY <1>3

ReadState ==
    [words : Seq(Seq(Chars)), cur : Seq(Chars), quote : Chars \cup {Unquoted},
     quoted : BOOLEAN, escaped : BOOLEAN, stopped : BOOLEAN]

\* Reading one more character of the input.
LEMMA ReadsType ==
    ASSUME NEW o, NEW w \in ReadState, NEW ch \in Chars
    PROVE  Reads(o, w, ch) \in ReadState
<1> DEFINE kind == IF w.escaped THEN "char" ELSE Kind(o, ch, w.quote)
<1>1. kind \in {"escape", "char", "quote", "blank", "line"}
  BY DEF Kind
<1>2. Quoting(w.quote, ch) \in Chars \cup {Unquoted}
  BY DEF Quoting, ReadState
<1>3. Append(w.cur, ch) \in Seq(Chars) /\ Append(w.words, w.cur) \in Seq(Seq(Chars))
      /\ <<>> \in Seq(Chars)
  BY DEF ReadState
<1>4. Reads(o, w, ch) =
        LET word == w.cur # <<>> \/ w.quoted
            stops == o.E # <<>> /\ w.cur = o.E
        IN IF w.stopped THEN w
       ELSE CASE kind = "escape" -> [w EXCEPT !.escaped = TRUE]
              [] kind = "char" ->
                   [w EXCEPT !.cur = Append(@, ch), !.escaped = FALSE]
              [] kind = "quote" ->
                   [w EXCEPT !.quote = Quoting(@, ch), !.quoted = TRUE]
              [] kind \in {"blank", "line"} ->
                   [w EXCEPT !.words = IF word /\ ~stops
                                       THEN Append(@, w.cur) ELSE @,
                             !.cur = <<>>, !.quoted = FALSE,
                             !.stopped = stops]
  BY DEF Reads
<1> HIDE DEF kind
<1> QED BY <1>1, <1>2, <1>3, <1>4 DEF ReadState

\* Reading the first n characters, one after the other.
LEMMA ReadToDef ==
    ASSUME NEW o, NEW chars \in Seq(Chars)
    PROVE  /\ ReadTo(o, chars) \in [0 .. Len(chars) -> ReadState]
           /\ ReadTo(o, chars)[0] = Unread
           /\ \A n \in 1 .. Len(chars) :
                ReadTo(o, chars)[n] = Reads(o, ReadTo(o, chars)[n - 1], chars[n])
<1> DEFINE L == Len(chars)
           h == [n \in 1 .. L |-> [w \in ReadState |-> Reads(o, w, chars[n])]]
           Ok(g) == g = [n \in 0 .. L |-> IF n = 0 THEN Unread ELSE Reads(o, g[n - 1], chars[n])]
<1>0. L \in Nat /\ \A n \in 1 .. L : chars[n] \in Chars
  OBVIOUS
<1>1. h \in [1 .. L -> [ReadState -> ReadState]]
  BY <1>0, ReadsType
<1>2. Unread \in ReadState
  BY DEF Unread, ReadState
<1>3. PICK g \in [0 .. L -> ReadState] :
         g[0] = Unread /\ \A n \in 1 .. L : g[n] = h[n][g[n - 1]]
  <2>1. L \in Nat BY <1>0
  <2> HIDE DEF h, L
  <2>2. \E g \in [0 .. L -> ReadState] : g[0] = Unread /\ \A i \in 1 .. L : g[i] = h[i][g[i - 1]]
    BY <2>1, <1>1, <1>2, RecursionExists, SMTT(20)
  <2> QED BY <2>2
<1>4. Ok(g)
  <2>1. \A n \in 1 .. L : g[n - 1] \in ReadState
    BY <1>0
  <2>2. \A n \in 1 .. L : g[n] = Reads(o, g[n - 1], chars[n])
    BY <1>3, <2>1
  <2>3. \A n \in 0 .. L : n # 0 => n \in 1 .. L
    BY <1>0
  <2> HIDE DEF h, L
  <2> QED BY <1>3, <2>2, <2>3
<1>5. ReadTo(o, chars) = CHOOSE f : Ok(f)
  BY DEF ReadTo
<1>6. Ok(ReadTo(o, chars))
  <2> HIDE DEF Ok
  <2> QED BY <1>4, <1>5, Zenon
<1> DEFINE r == ReadTo(o, chars)
<1>7. /\ DOMAIN r = 0 .. L
      /\ \A n \in 0 .. L : r[n] = IF n = 0 THEN Unread ELSE Reads(o, r[n - 1], chars[n])
  <2> HIDE DEF r, L
  <2> QED BY <1>6 DEF r
<1>8. r[0] = Unread /\ \A n \in 1 .. L : r[n] = Reads(o, r[n - 1], chars[n])
  <2> HIDE DEF r, L
  <2> QED BY <1>0, <1>7
<1>9. \A n \in 0 .. L : r[n] \in ReadState
  <2> HIDE DEF r, L
  <2> DEFINE T == {n \in 0 .. L : r[n] \in ReadState}
  <2>1. 0 \in T BY <1>0, <1>2, <1>8
  <2>2. ASSUME NEW n \in 0 .. L - 1, n \in T PROVE n + 1 \in T
    <3>1. n + 1 \in 1 .. L /\ (n + 1) - 1 = n BY <1>0
    <3>2. r[n + 1] = Reads(o, r[n], chars[n + 1]) BY <1>8, <3>1
    <3>3. r[n + 1] \in ReadState BY <1>0, <2>2, <3>1, <3>2, ReadsType
    <3> QED BY <1>0, <3>1, <3>3
  <2>3. 0 .. L \subseteq T
    <3> HIDE DEF T
    <3> QED BY <1>0, <2>1, <2>2, UpTo
  <2> QED BY <2>3
<1>10. r = [n \in 0 .. L |-> r[n]]
  <2> HIDE DEF r, L
  <2> QED BY <1>6, <1>7 DEF r
<1> QED
  <2> HIDE DEF L, Ok
  <2>1. r \in [0 .. L -> ReadState] 
    <3> HIDE DEF r
    <3> QED BY <1>9, <1>10
  <2> QED BY <1>8, <2>1 DEF L

\* A prefix agrees wherever it is defined.
LEMMA PrefixIs ==
    ASSUME NEW S, NEW s \in Seq(S), NEW t \in Seq(S)
    PROVE  IsPrefix(s, t) <=> Len(s) <= Len(t) /\ \A i \in 1 .. Len(s) : s[i] = t[i]
BY DEF IsPrefix

\* One more character leaves the words there are, and after the end mark
\* everything.
LEMMA ReadsGrows ==
    ASSUME NEW o, NEW w \in ReadState, NEW ch \in Chars
    PROVE  /\ Len(w.words) <= Len(Reads(o, w, ch).words)
           /\ \A i \in 1 .. Len(w.words) : Reads(o, w, ch).words[i] = w.words[i]
           /\ w.stopped => Reads(o, w, ch) = w
<1>1. w.stopped => Reads(o, w, ch) = w
  BY DEF Reads
<1>2. Reads(o, w, ch).words \in {w.words, Append(w.words, w.cur)}
  <2>1. Kind(o, ch, w.quote) \in {"escape", "char", "quote", "blank", "line"}
    BY DEF Kind
  <2>2. CASE w.stopped
    BY <1>1, <2>2
  <2>3. CASE ~w.stopped
    BY <2>1, <2>3 DEF Reads, ReadState
  <2> QED BY <2>2, <2>3
<1>3. w.words \in Seq(Seq(Chars)) /\ w.cur \in Seq(Chars)
  BY DEF ReadState
<1>4. /\ Len(Append(w.words, w.cur)) = Len(w.words) + 1 /\ Len(w.words) \in Nat
      /\ \A i \in 1 .. Len(w.words) : Append(w.words, w.cur)[i] = w.words[i]
  BY <1>3
<1> DEFINE t == Reads(o, w, ch).words
<1>5. Len(w.words) <= Len(t) /\ \A i \in 1 .. Len(w.words) : t[i] = w.words[i]
  <2>1. t = w.words \/ t = Append(w.words, w.cur) BY <1>2
  <2> HIDE DEF t
  <2> QED BY <2>1, <1>4
<1> QED BY <1>1, <1>5

\* So what has been read so far is how the words of the input begin, and all
\* of them once the end mark has been read.
LEMMA ReadIsWords ==
    ASSUME NEW o, NEW chars \in Seq(Chars), NEW n \in 0 .. Len(chars)
    PROVE  /\ Words(o, chars) \in Seq(Seq(Chars))
           /\ IsPrefix(ReadTo(o, chars)[n].words, Words(o, chars))
           /\ ReadTo(o, chars)[n].stopped => Words(o, chars) = ReadTo(o, chars)[n].words
<1> DEFINE r == ReadTo(o, chars)
           L == Len(chars)
           Grown(w) == /\ Len(r[n].words) <= Len(w.words)
                       /\ \A i \in 1 .. Len(r[n].words) : w.words[i] = r[n].words[i]
                       /\ r[n].stopped => w = r[n]
           T == {k \in 0 .. L - n : Grown(r[n + k])}
<1>0. L \in Nat /\ n \in Nat /\ n <= L /\ L - n \in Nat
  OBVIOUS
<1>1. r \in [0 .. L -> ReadState] /\ \A i \in 1 .. L : r[i] = Reads(o, r[i - 1], chars[i])
  BY ReadToDef
<1>2. \A i \in 1 .. L : chars[i] \in Chars
  OBVIOUS
<1> HIDE DEF r, L
<1>3. ASSUME NEW w \in ReadState, Grown(w), NEW ch \in Chars
      PROVE  Grown(Reads(o, w, ch))
  <2>1. r[n].words \in Seq(Seq(Chars)) /\ w.words \in Seq(Seq(Chars))
    BY <1>0, <1>1, <1>3 DEF ReadState
  <2>2. Reads(o, w, ch).words \in Seq(Seq(Chars))
    BY ReadsType DEF ReadState
  <2>3. /\ Len(w.words) <= Len(Reads(o, w, ch).words)
        /\ \A i \in 1 .. Len(w.words) : Reads(o, w, ch).words[i] = w.words[i]
        /\ w.stopped => Reads(o, w, ch) = w
    BY ReadsGrows
  <2> QED BY <1>3, <2>1, <2>2, <2>3
<1>4. 0 \in T
  BY <1>0, <1>1 DEF ReadState
<1>5. ASSUME NEW k \in 0 .. (L - n) - 1, k \in T PROVE k + 1 \in T
  <2>1. /\ n + (k + 1) \in 1 .. L /\ (n + (k + 1)) - 1 = n + k /\ n + k \in 0 .. L
        /\ k + 1 \in 0 .. L - n
    BY <1>0
  <2>2. r[n + (k + 1)] = Reads(o, r[n + k], chars[n + (k + 1)])
    BY <1>1, <2>1
  <2>3. Grown(r[n + k])
    BY <1>5
  <2> HIDE DEF Grown
  <2>4. Grown(r[n + (k + 1)])
    BY <1>1, <1>2, <1>3, <2>1, <2>2, <2>3
  <2> QED BY <2>1, <2>4
<1>6. Grown(r[L])
  <2>1. 0 .. L - n \subseteq T
    <3> HIDE DEF T
    <3> QED BY <1>0, <1>4, <1>5, UpTo
  <2>2. L - n \in 0 .. L - n /\ n + (L - n) = L
    BY <1>0
  <2>3. Grown(r[n + (L - n)])
    BY <2>1, <2>2
  <2> QED BY <2>2, <2>3
<1>7. r[L] \in ReadState /\ Separator(o) \in Chars
  BY <1>0, <1>1, XargsAssumption DEF Separator
<1>8. Words(o, chars) = Reads(o, r[L], Separator(o)).words
  BY DEF Words, r, L
<1>9. Grown(Reads(o, r[L], Separator(o)))
  <2> HIDE DEF Grown
  <2> QED BY <1>3, <1>6, <1>7
<1>10. Reads(o, r[L], Separator(o)).words \in Seq(Seq(Chars)) /\ r[n].words \in Seq(Seq(Chars))
  <2>1. Reads(o, r[L], Separator(o)) \in ReadState
    BY <1>7, ReadsType
  <2>2. r[n] \in ReadState
    BY <1>0, <1>1
  <2> QED BY <2>1, <2>2 DEF ReadState
<1>11. IsPrefix(r[n].words, Words(o, chars))
  BY <1>8, <1>9, <1>10, PrefixIs
<1> QED BY <1>8, <1>9, <1>10, <1>11 DEF r

-----------------------------------------------------------------------------
(* parse_input() reads what Words reads.                                   *)

Packing ==
    [cur : Seq(Chars), used : Nat, args : Seq(Seq(Chars)), count : Nat,
     quote : Chars \cup {Unquoted}, wasquoted : BOOLEAN]

\* What is left of the input is its end.
Source ==
    /\ all \in Seq(Chars) /\ input \in Seq(Chars)
    /\ Len(input) <= Len(all)
    /\ \A i \in 1 .. Len(input) : input[i] = all[(Len(all) - Len(input)) + i]

\* The buffer never runs over, and a packed argument takes room in it.
Fits(s) == s \in Packing /\ p(s) <= ebp /\ (s.args # <<>> => s.used > 0)

Given == IF pc = "run" THEN handed \o cmd ELSE handed
Read == ReadTo(opt, all)[Len(all) - Len(input)]

\* The arguments handed over and packed are the words read so far, and the
\* one being read is where it should be.
SameAs(w, given, s) ==
    /\ w.words = given \o s.args /\ w.cur = s.cur
    /\ w.quote = s.quote /\ w.quoted = s.wasquoted
    /\ ~w.escaped /\ ~w.stopped

\* How far the input has been read.
LEMMA SourceRead ==
    ASSUME Source
    PROVE  /\ Len(all) - Len(input) \in 0 .. Len(all)
           /\ Read \in ReadState
<1>1. Len(all) - Len(input) \in 0 .. Len(all)
  BY DEF Source
<1> QED BY <1>1, ReadToDef DEF Source, Read

\* One character on, or two.
LEMMA ReadOne ==
    ASSUME Source, input # <<>>, input' = Tail(input), UNCHANGED <<opt, all>>
    PROVE  /\ Source' /\ Head(input) \in Chars
           /\ Read' = Reads(opt, Read, Head(input))
<1> DEFINE n == Len(all) - Len(input)
           m == Len(all) - Len(Tail(input))
<1>1. /\ input \in Seq(Chars) /\ all \in Seq(Chars) /\ Len(input) \in Nat /\ Len(all) \in Nat
      /\ Len(input) > 0 /\ Len(input) <= Len(all)
  BY DEF Source
<1>2. /\ Tail(input) \in Seq(Chars) /\ Len(Tail(input)) = Len(input) - 1
      /\ \A i \in 1 .. Len(input) - 1 : Tail(input)[i] = input[i + 1]
      /\ Head(input) = input[1]
  BY <1>1
<1>3. m = n + 1 /\ m \in 1 .. Len(all) /\ m - 1 = n /\ 1 \in 1 .. Len(input)
  BY <1>1, <1>2
<1>4. Head(input) = all[m] /\ Head(input) \in Chars
  <2>1. input[1] = all[n + 1] BY <1>1, <1>3 DEF Source
  <2> QED BY <1>1, <1>2, <1>3, <2>1
<1>5. Source'
  <2>1. \A i \in 1 .. Len(Tail(input)) : Tail(input)[i] = all[m + i]
    <3> TAKE i \in 1 .. Len(Tail(input))
    <3>1. i + 1 \in 1 .. Len(input) /\ i \in 1 .. Len(input) - 1 /\ n + (i + 1) = m + i
      BY <1>1, <1>2, <1>3
    <3>2. input[i + 1] = all[n + (i + 1)]
      BY <3>1 DEF Source
    <3> QED BY <1>2, <3>1, <3>2
  <2> QED BY <1>1, <1>2, <2>1 DEF Source
<1>6. ReadTo(opt, all)[m] = Reads(opt, ReadTo(opt, all)[m - 1], all[m])
  <2> HIDE DEF m, n
  <2> QED BY <1>1, <1>3, ReadToDef
<1>7. Read' = ReadTo(opt, all)[m] /\ Read = ReadTo(opt, all)[n]
  BY DEF Read
<1> HIDE DEF m, n
<1> QED BY <1>3, <1>4, <1>5, <1>6, <1>7

\* A sequence without its first element.
LEMMA TailIs ==
    ASSUME NEW S, NEW s \in Seq(S), Len(s) > 0
    PROVE  /\ Tail(s) \in Seq(S) /\ Len(Tail(s)) = Len(s) - 1
           /\ \A i \in 1 .. Len(s) - 1 : Tail(s)[i] = s[i + 1]
OBVIOUS

\* Taking two characters at once, as a backslash does.
LEMMA ReadTwo ==
    ASSUME Source, Len(input) > 1, input' = Tail(Tail(input)), UNCHANGED <<opt, all>>
    PROVE  /\ Source' /\ Head(input) \in Chars /\ input[2] \in Chars
           /\ Read' = Reads(opt, Reads(opt, Read, Head(input)), input[2])
<1> DEFINE n == Len(all) - Len(input)
           m == Len(all) - Len(Tail(Tail(input)))
<1>1. /\ input \in Seq(Chars) /\ all \in Seq(Chars) /\ Len(input) \in Nat /\ Len(all) \in Nat
      /\ Len(input) > 1 /\ Len(input) <= Len(all)
  BY DEF Source
<1>2. /\ Tail(input) \in Seq(Chars) /\ Len(Tail(input)) = Len(input) - 1
      /\ \A i \in 1 .. Len(input) - 1 : Tail(input)[i] = input[i + 1]
      /\ Head(input) = input[1]
  BY <1>1
<1>3. /\ Tail(Tail(input)) \in Seq(Chars) /\ Len(Tail(Tail(input))) = Len(input) - 2
      /\ \A i \in 1 .. Len(input) - 2 : Tail(Tail(input))[i] = input[i + 2]
  <2> DEFINE t == Tail(input)
  <2>1. t \in Seq(Chars) /\ Len(t) = Len(input) - 1 /\ Len(t) > 0
    BY <1>1, <1>2
  <2>2. \A i \in 1 .. Len(input) - 1 : t[i] = input[i + 1]
    BY <1>2
  <2> HIDE DEF t
  <2>3. /\ Tail(t) \in Seq(Chars) /\ Len(Tail(t)) = Len(t) - 1
        /\ \A i \in 1 .. Len(t) - 1 : Tail(t)[i] = t[i + 1]
    BY <2>1, TailIs
  <2>4. Len(Tail(t)) = Len(input) - 2
    BY <1>1, <2>1, <2>3
  <2>5. ASSUME NEW i \in 1 .. Len(input) - 2 PROVE Tail(t)[i] = input[i + 2]
    <3>1. i \in 1 .. Len(t) - 1 /\ i + 1 \in 1 .. Len(input) - 1 /\ (i + 1) + 1 = i + 2
      BY <1>1, <2>1
    <3> QED BY <2>2, <2>3, <3>1
  <2> QED BY <2>3, <2>4, <2>5 DEF t
<1> DEFINE u == Tail(Tail(input))
<1>u. /\ u \in Seq(Chars) /\ Len(u) = Len(input) - 2
      /\ \A i \in 1 .. Len(input) - 2 : u[i] = input[i + 2]
      /\ m = Len(all) - Len(u) /\ input' = u
  BY <1>3
<1> HIDE DEF u, m
<1>4. /\ m = n + 2 /\ m \in 1 .. Len(all) /\ m - 1 = n + 1 /\ n + 1 \in 1 .. Len(all)
      /\ (n + 1) - 1 = n /\ 1 \in 1 .. Len(input) /\ 2 \in 1 .. Len(input)
  BY <1>1, <1>u
<1>5. input[1] = all[n + 1] /\ input[2] = all[m] /\ input[1] \in Chars /\ input[2] \in Chars
  <2>1. input[1] = all[n + 1] /\ input[2] = all[n + 2] BY <1>1, <1>4 DEF Source
  <2>2. input[1] \in Chars /\ input[2] \in Chars BY <1>1, <1>4
  <2> HIDE DEF n
  <2> QED BY <1>4, <2>1, <2>2
<1>6. Source'
  <2>1. \A i \in 1 .. Len(u) : u[i] = all[m + i]
    <3> TAKE i \in 1 .. Len(u)
    <3>1. i + 2 \in 1 .. Len(input) /\ i \in 1 .. Len(input) - 2 /\ n + (i + 2) = m + i
      BY <1>1, <1>u, <1>4
    <3>2. input[i + 2] = all[n + (i + 2)]
      BY <3>1 DEF Source
    <3> QED BY <1>u, <3>1, <3>2
  <2>2. \A i \in 1 .. Len(u) : u[i] = all[(Len(all) - Len(u)) + i]
    BY <1>u, <2>1
  <2>3. Len(u) <= Len(all) /\ u \in Seq(Chars) /\ input' = u /\ all' = all
    BY <1>1, <1>u
  <2> QED BY <1>1, <2>2, <2>3 DEF Source
<1>7. /\ ReadTo(opt, all)[m] = Reads(opt, ReadTo(opt, all)[m - 1], all[m])
      /\ ReadTo(opt, all)[n + 1] = Reads(opt, ReadTo(opt, all)[(n + 1) - 1], all[n + 1])
  <2> HIDE DEF m, n
  <2> QED BY <1>1, <1>4, ReadToDef
<1>8. Read' = ReadTo(opt, all)[m] /\ Read = ReadTo(opt, all)[n]
  BY DEF Read, m
<1> HIDE DEF m, n
<1> QED BY <1>2, <1>4, <1>5, <1>6, <1>7, <1>8

\* What a character of each kind does to what has been read.
LEMMA ReadsChar ==
    ASSUME NEW o, NEW w \in ReadState, ~w.stopped, NEW ch \in Chars,
           w.escaped \/ Kind(o, ch, w.quote) = "char"
    PROVE  /\ Reads(o, w, ch).words = w.words /\ Reads(o, w, ch).cur = Append(w.cur, ch)
           /\ Reads(o, w, ch).quote = w.quote /\ Reads(o, w, ch).quoted = w.quoted
           /\ ~Reads(o, w, ch).escaped /\ ~Reads(o, w, ch).stopped
BY DEF Reads, ReadState

\* What a backslash does to the words read so far.
LEMMA ReadsEscape ==
    ASSUME NEW o, NEW w \in ReadState, ~w.stopped, ~w.escaped, NEW ch \in Chars,
           Kind(o, ch, w.quote) = "escape"
    PROVE  /\ Reads(o, w, ch).words = w.words /\ Reads(o, w, ch).cur = w.cur
           /\ Reads(o, w, ch).quote = w.quote /\ Reads(o, w, ch).quoted = w.quoted
           /\ Reads(o, w, ch).escaped /\ ~Reads(o, w, ch).stopped
BY DEF Reads, ReadState

\* What a quote does to them.
LEMMA ReadsQuote ==
    ASSUME NEW o, NEW w \in ReadState, ~w.stopped, ~w.escaped, NEW ch \in Chars,
           Kind(o, ch, w.quote) = "quote"
    PROVE  /\ Reads(o, w, ch).words = w.words /\ Reads(o, w, ch).cur = w.cur
           /\ Reads(o, w, ch).quote = Quoting(w.quote, ch) /\ Reads(o, w, ch).quoted
           /\ ~Reads(o, w, ch).escaped /\ ~Reads(o, w, ch).stopped
BY DEF Reads, ReadState

Stops(o, cur) == o.E # <<>> /\ cur = o.E
Argument(o, cur, quoted) == (cur # <<>> \/ quoted) /\ ~Stops(o, cur)

\* What a separator does to them.
LEMMA ReadsEnd ==
    ASSUME NEW o, NEW w \in ReadState, ~w.stopped, ~w.escaped, NEW ch \in Chars,
           Kind(o, ch, w.quote) \in {"blank", "line"}
    PROVE  /\ Reads(o, w, ch).words = IF Argument(o, w.cur, w.quoted)
                                      THEN Append(w.words, w.cur) ELSE w.words
           /\ Reads(o, w, ch).cur = <<>> /\ Reads(o, w, ch).quote = w.quote
           /\ Reads(o, w, ch).quoted = FALSE /\ ~Reads(o, w, ch).escaped
           /\ Reads(o, w, ch).stopped = Stops(o, w.cur)
BY DEF Reads, ReadState, Argument, Stops

\* The separator ends a line whatever the quoting.
LEMMA SeparatorEnds == ASSUME NEW o, NEW quote PROVE Kind(o, Separator(o), quote) = "line"
BY DEF Kind, Separator

\* A blank separates only outside quotes.
LEMMA BlankUnquoted ==
    ASSUME NEW o, NEW ch, NEW quote, Kind(o, ch, quote) = "blank" PROVE quote = Unquoted
BY DEF Kind

\* A word more or not, after the ones handed over.
LEMMA PackedOn ==
    ASSUME NEW given \in Seq(Seq(Chars)), NEW args \in Seq(Seq(Chars)),
           NEW cur \in Seq(Chars)
    PROVE  Append(given \o args, cur) = given \o Append(args, cur)
<1> DEFINE l == Append(given \o args, cur)
           r == given \o Append(args, cur)
<1>1. l \in Seq(Seq(Chars)) /\ r \in Seq(Seq(Chars)) /\ Len(l) = Len(r)
  OBVIOUS
<1>2. \A i \in 1 .. Len(l) : l[i] = r[i]
  OBVIOUS
<1> HIDE DEF l, r
<1>3. l = r BY <1>1, <1>2, SeqEqual
<1> QED BY <1>3 DEF l, r

\* The ways out of EndArg: giving up, a command, or on with the line.
GivesUp == pc' = "wait" /\ after' = "exit1" /\ ps' = ps /\ cmd' = cmd
Args(s) == IF Argument(opt, s.cur, s.wasquoted) THEN Append(s.args, s.cur) ELSE s.args
IsLast(kind) == kind = "eof" \/ Stops(opt, ps.cur)

\* Updating four fields of the packing state.
LEMMA RecordUpdate ==
    ASSUME NEW s \in Packing, NEW c, NEW u, NEW a, NEW w
    PROVE  [s EXCEPT !.cur = c, !.used = u, !.args = a, !.wasquoted = w] =
             [cur |-> c, used |-> u, args |-> a, count |-> s.count, quote |-> s.quote,
              wasquoted |-> w]
<1>1. s = [cur |-> s.cur, used |-> s.used, args |-> s.args, count |-> s.count,
           quote |-> s.quote, wasquoted |-> s.wasquoted]
  BY DEF Packing
<1> DEFINE r == [s EXCEPT !.cur = c, !.used = u, !.args = a, !.wasquoted = w]
<1>2. DOMAIN s = {"cur", "used", "args", "count", "quote", "wasquoted"}
  BY <1>1
<1>3. /\ DOMAIN r = {"cur", "used", "args", "count", "quote", "wasquoted"}
      /\ r.cur = c /\ r.used = u /\ r.args = a /\ r.count = s.count /\ r.quote = s.quote
      /\ r.wasquoted = w /\ r = [x \in DOMAIN s |-> r[x]]
  BY <1>2
<1> DEFINE q == [cur |-> c, used |-> u, args |-> a, count |-> s.count, quote |-> s.quote,
                 wasquoted |-> w]
<1>4. /\ DOMAIN q = DOMAIN s
      /\ q.cur = c /\ q.used = u /\ q.args = a /\ q.count = s.count /\ q.quote = s.quote
      /\ q.wasquoted = w /\ q = [x \in DOMAIN q |-> q[x]]
  BY <1>2
<1> HIDE DEF q, r
<1>5. \A x \in DOMAIN s : r[x] = q[x]
  BY <1>2, <1>3, <1>4
<1>6. r = q
  BY <1>3, <1>4, <1>5
<1> QED BY <1>6 DEF r, q

\* The ways out of arg2: giving up, running the command, or going on.
LEMMA EndArgWays ==
    ASSUME NEW kind \in {"blank", "line", "eof"}, Fits(ps), EndArg(kind),
           kind = "blank" => ps.quote = Unquoted
    PROVE  \/ GivesUp
           \/ /\ pc' = "run" /\ cmd' = Args(ps) /\ ps' = Fresh /\ ps.quote = Unquoted
              /\ after' = IF IsLast(kind) THEN "last" ELSE "parse"
           \/ /\ ~IsLast(kind) /\ pc' = pc /\ cmd' = cmd /\ after' = after /\ Fits(ps')
              /\ ps'.cur = <<>> /\ ps'.args = Args(ps) /\ ps'.quote = ps.quote
              /\ ps'.wasquoted = FALSE
<1> DEFINE s == [ps EXCEPT !.count = IF kind = "line" THEN @ + 1 ELSE @]
           foundeof == opt.E # <<>> /\ s.cur = opt.E
           isarg == (s.cur # <<>> \/ s.wasquoted) /\ ~foundeof
           args == IF isarg THEN Append(s.args, s.cur) ELSE s.args
           end == IF isarg THEN p(s) + 1 ELSE p(s)
           last == kind = "eof" \/ foundeof
           t == [s EXCEPT !.cur = <<>>, !.used = end, !.args = args, !.wasquoted = FALSE]
<1>1. /\ ps \in Packing /\ p(ps) <= ebp /\ (ps.args # <<>> => ps.used > 0)
      /\ ps.cur \in Seq(Chars) /\ Len(ps.cur) \in Nat /\ ps.used \in Nat /\ ps.count \in Nat
      /\ ps.args \in Seq(Seq(Chars)) /\ ps.wasquoted \in BOOLEAN /\ ps.quote \in Chars \cup {Unquoted}
  BY DEF Fits, Packing
<1>2. /\ s \in Packing /\ s.cur = ps.cur /\ s.args = ps.args /\ s.used = ps.used
      /\ s.quote = ps.quote /\ s.wasquoted = ps.wasquoted
  BY <1>1 DEF Packing
<1>3. foundeof = Stops(opt, ps.cur) /\ isarg = Argument(opt, ps.cur, ps.wasquoted)
      /\ args = Args(ps) /\ last = IsLast(kind)
  BY <1>2 DEF Stops, Argument, Args, IsLast
<1>4. p(s) = p(ps) /\ p(ps) = ps.used + Len(ps.cur) /\ p(ps) \in Nat
  BY <1>1, <1>2 DEF p
<1>5. \/ xexit /\ UNCHANGED ps
      \/ /\ ps.quote = Unquoted /\ ps' = Fresh
         /\ prerun(args, IF last THEN "last" ELSE "parse")
      \/ /\ ~last /\ ~(end > ebp) /\ ps' = t
         /\ UNCHANGED <<pc, cmd, after, wait_vars>>
  BY <1>2 DEF EndArg
<1>6. CASE xexit /\ UNCHANGED ps
  BY <1>6 DEF xexit, waitchildren, GivesUp
<1>7. CASE ps.quote = Unquoted /\ ps' = Fresh /\ prerun(args, IF last THEN "last" ELSE "parse")
  BY <1>3, <1>7 DEF prerun
<1>8. CASE /\ ~last /\ ~(end > ebp) /\ ps' = t
           /\ UNCHANGED <<pc, cmd, after, wait_vars>>
  <2>1. args \in Seq(Seq(Chars)) /\ end \in Nat /\ ebp \in Int
    <3>1. ebp \in Int BY XargsAssumption DEF ebp
    <3> QED BY <1>1, <1>2, <1>4, <3>1
  <2>2. /\ t \in Packing /\ t.cur = <<>> /\ t.used = end /\ t.args = args
        /\ t.quote = ps.quote /\ t.wasquoted = FALSE
    <3> DEFINE none == <<>>
    <3>1. s.count \in Nat /\ none \in Seq(Chars) BY <1>2 DEF Packing
    <3>2. t = [cur |-> none, used |-> end, args |-> args, count |-> s.count,
               quote |-> ps.quote, wasquoted |-> FALSE]
      <4> DEFINE no == FALSE
      <4>1. t = [s EXCEPT !.cur = none, !.used = end, !.args = args, !.wasquoted = no]
        OBVIOUS
      <4> HIDE DEF s, args, end, no, none, t
      <4>2. t = [cur |-> none, used |-> end, args |-> args, count |-> s.count,
                 quote |-> s.quote, wasquoted |-> no]
        BY ZenonT(60), <1>2, <4>1, RecordUpdate
      <4> QED BY <1>2, <4>2 DEF no
    <3> HIDE DEF s, args, end, t, none
    <3>3. t \in Packing
      BY <1>1, <3>1, <3>2, <2>1 DEF Packing
    <3> QED BY <3>2, <3>3 DEF none
  <2>3. p(t) = end
    <3> HIDE DEF t, end
    <3> QED BY <2>1, <2>2 DEF p
  <2>4. args # <<>> => end > 0
    BY <1>1, <1>2, <1>4
  <2>5. Fits(t)
    <3> HIDE DEF t, end, args
    <3> QED BY <1>8, <2>1, <2>2, <2>3, <2>4 DEF Fits
  <2> HIDE DEF t, end, args, last
  <2> QED BY <1>3, <1>8, <2>2, <2>5
<1> QED BY <1>5, <1>6, <1>7, <1>8

\* The ways out of addch: giving up, running the full command line, or going on.
LEMMA addchWays ==
    ASSUME NEW ch \in Chars, Fits(ps), addch(ch)
    PROVE  \/ GivesUp
           \/ /\ \/ pc' = pc /\ cmd' = cmd /\ after' = after /\ ps'.args = ps.args
                 \/ pc' = "run" /\ cmd' = ps.args /\ after' = "parse" /\ ps'.args = <<>>
              /\ Fits(ps') /\ ps'.cur = Append(ps.cur, ch)
              /\ ps'.quote = ps.quote /\ ps'.wasquoted = ps.wasquoted
<1>1. /\ ps \in Packing /\ p(ps) <= ebp /\ (ps.args # <<>> => ps.used > 0)
      /\ ps.cur \in Seq(Chars) /\ Len(ps.cur) \in Nat /\ ps.used \in Nat /\ ps.count \in Nat
      /\ ps.args \in Seq(Seq(Chars)) /\ ps.wasquoted \in BOOLEAN /\ ps.quote \in Chars \cup {Unquoted}
      /\ p(ps) = ps.used + Len(ps.cur) /\ p(ps) \in Nat /\ ebp \in Int
  BY XargsAssumption DEF Fits, Packing, p, ebp
<1>2. Append(ps.cur, ch) \in Seq(Chars) /\ Len(Append(ps.cur, ch)) = Len(ps.cur) + 1
  BY <1>1
<1>3. CASE p(ps) < ebp
  <2> DEFINE t == [ps EXCEPT !.cur = Append(@, ch)]
  <2>1. ps' = t /\ UNCHANGED <<pc, cmd, after, wait_vars>>
    BY <1>3 DEF addch
  <2>2. /\ t \in Packing /\ t.cur = Append(ps.cur, ch) /\ t.used = ps.used /\ t.args = ps.args
        /\ t.quote = ps.quote /\ t.wasquoted = ps.wasquoted
    BY <1>1, <1>2 DEF Packing
  <2> HIDE DEF t
  <2>3. Fits(t)
    BY <1>1, <1>2, <1>3, <2>2 DEF Fits, p
  <2> QED BY <2>1, <2>2, <2>3
<1>4. CASE ~(p(ps) < ebp) /\ (ps.args = <<>> \/ xflag)
  BY <1>4 DEF addch, xexit, waitchildren, GivesUp
<1>5. CASE ~(p(ps) < ebp) /\ ~(ps.args = <<>> \/ xflag)
  <2> DEFINE t == [ps EXCEPT !.args = <<>>, !.used = 0,
                             !.cur = Append(SubSeq(@, 1, ebp - ps.used), ch)]
  <2>1. ps' = t /\ prerun(ps.args, "parse")
    BY <1>5 DEF addch
  <2>2. ebp - ps.used = Len(ps.cur) /\ ps.used > 0
    BY <1>1, <1>5
  <2>3. SubSeq(ps.cur, 1, ebp - ps.used) = ps.cur
    BY <1>1, <2>2, SubSeqFull
  <2>4. /\ t \in Packing /\ t.cur = Append(ps.cur, ch) /\ t.used = 0 /\ t.args = <<>>
        /\ t.quote = ps.quote /\ t.wasquoted = ps.wasquoted
    <3> DEFINE none == <<>>
               cur == Append(ps.cur, ch)
    <3>1. none \in Seq(Seq(Chars)) OBVIOUS
    <3>2. t = [cur |-> cur, used |-> 0, args |-> none, count |-> ps.count,
               quote |-> ps.quote, wasquoted |-> ps.wasquoted]
      <4> DEFINE q == ps.wasquoted
      <4>1. t = [ps EXCEPT !.cur = cur, !.used = 0, !.args = none, !.wasquoted = q]
        BY <1>1, <2>3 DEF Packing
      <4> HIDE DEF cur, t, none, q
      <4>2. t = [cur |-> cur, used |-> 0, args |-> none, count |-> ps.count,
                 quote |-> ps.quote, wasquoted |-> q]
        BY <1>1, <4>1, RecordUpdate
      <4> QED BY <4>2 DEF q
    <3>3. cur \in Seq(Chars) BY <1>2
    <3> HIDE DEF cur, t, none
    <3>4. t \in Packing
      BY <1>1, <3>1, <3>2, <3>3 DEF Packing
    <3> QED BY <3>2, <3>4 DEF none, cur
  <2> HIDE DEF t
  <2>5. Fits(t)
    BY <1>1, <1>2, <2>2, <2>4 DEF Fits, p
  <2> QED BY <2>1, <2>4, <2>5 DEF prerun
<1> QED BY <1>3, <1>4, <1>5

Stage ==
    /\ pc = "parse" => after = "parse"
    /\ pc = "run" => after \in {"parse", "last"} /\ ps.args = <<>>
    /\ after = "exit" => pc \in {"wait", "exited"}
Following == pc = "parse" \/ (pc \in {"run", "wait"} /\ after = "parse")

\* While there is input to read, what was handed over and packed is what has
\* been read; once the last command is packed, it is everything.
Delivering ==
    /\ Source /\ Fits(ps) /\ Stage
    /\ handed \in Seq(Seq(Chars)) /\ cmd \in Seq(Seq(Chars))
    /\ Following => SameAs(Read, Given, ps)
    /\ pc \in {"run", "wait"} /\ after = "last" =>
          Given = Words(opt, all) /\ ps.args = <<>>
    /\ after = "exit" =>
          Words(opt, all) \in {handed, Append(handed, <<>>)} /\ ps.args = <<>>
    /\ IsPrefix(Given \o ps.args, Words(opt, all))

\* An empty command line fits.
LEMMA FreshFits == Fits(Fresh)
<1> DEFINE none == <<>>
           nothing == <<>>
           no == FALSE
<1>1. none \in Seq(Chars) /\ nothing \in Seq(Seq(Chars)) /\ no \in BOOLEAN
      /\ Len(none) = 0 /\ nothing = <<>>
  OBVIOUS
<1>2. Fresh = [cur |-> none, used |-> 0, args |-> nothing, count |-> 0, quote |-> Unquoted,
               wasquoted |-> no]
  BY DEF Fresh
<1> HIDE DEF none, nothing, no
<1>3. Fresh \in Packing /\ Fresh.cur = none /\ Fresh.used = 0 /\ Fresh.args = nothing
  BY <1>1, <1>2 DEF Packing
<1>4. ebp \in Nat
  BY XargsAssumption DEF ebp
<1> QED BY <1>1, <1>3, <1>4 DEF Fits, p

\* Giving up hands out no more.
LEMMA GivenUp ==
    ASSUME Delivering, pc = "parse", GivesUp, Source', UNCHANGED <<opt, all, handed>>
    PROVE  Delivering'
<1>1. Given = handed /\ Given' = handed
  BY DEF Given, GivesUp
<1>2. Fits(ps)' /\ Stage' /\ ~Following'
  BY DEF Delivering, GivesUp, Stage, Following
<1> QED BY <1>1, <1>2 DEF Delivering, GivesUp

\* In step with the input: so far so good.
LEMMA InStep ==
    ASSUME Source', handed' \in Seq(Seq(Chars)), cmd' \in Seq(Seq(Chars)), Fits(ps'),
           Following', Stage', SameAs(Read', Given', ps'), after' # "exit"
    PROVE  Delivering'
<1>1. IsPrefix(Given' \o ps'.args, Words(opt', all'))
  <2>1. all' \in Seq(Chars) /\ Len(all') - Len(input') \in 0 .. Len(all')
    BY DEF Source
  <2>2. IsPrefix(Read'.words, Words(opt', all'))
    BY <2>1, ReadIsWords DEF Read
  <2> QED BY <2>2 DEF SameAs
<1>2. ~(pc' \in {"run", "wait"} /\ after' = "last")
  BY DEF Following, Stage
<1> QED BY <1>1, <1>2 DEF Delivering

\* Running the last command hands out every word of the input.
LEMMA WholeHanded ==
    ASSUME Source', handed' \in Seq(Seq(Chars)), cmd' \in Seq(Seq(Chars)), ps' = Fresh,
           pc' = "run", after' = "last", handed' \o cmd' = Words(opt', all')
    PROVE  Delivering'
<1>1. Fits(ps') /\ ps'.args = <<>>
  BY FreshFits DEF Fresh
<1>2. Given' = Words(opt', all') /\ Given' \in Seq(Seq(Chars))
  <2>1. Given' = handed' \o cmd'
    BY DEF Given
  <2>2. handed' \o cmd' \in Seq(Seq(Chars))
    BY ConcatProperties
  <2>3. Given' = Words(opt', all')
    BY <2>1, Zenon
  <2> QED BY <2>1, <2>2, <2>3
<1>3. Given' \o <<>> = Given'
  BY <1>2, ConcatEmptySeq
<1>4. IsPrefix(Given' \o ps'.args, Words(opt', all'))
  BY <1>1, <1>2, <1>3, PrefixIs
<1>5. Stage' /\ ~Following'
  BY <1>1 DEF Stage, Following
<1> QED BY <1>1, <1>2, <1>4, <1>5 DEF Delivering

\* The cases of parse_input().  In each, given is what was handed over.
LEMMA ParsingFacts ==
    ASSUME Delivering, pc = "parse"
    PROVE  /\ Source /\ Fits(ps) /\ after = "parse" /\ Read \in ReadState
           /\ handed \in Seq(Seq(Chars)) /\ cmd \in Seq(Seq(Chars))
           /\ ps.args \in Seq(Seq(Chars)) /\ ps.cur \in Seq(Chars)
           /\ Read.words = handed \o ps.args /\ Read.cur = ps.cur
           /\ Read.quote = ps.quote /\ Read.quoted = ps.wasquoted
           /\ ~Read.escaped /\ ~Read.stopped
BY SourceRead DEF Delivering, Stage, Following, SameAs, Given, Fits, Packing

\* The end of a word, whatever ended it.
LEMMA EndArgPacks ==
    ASSUME Delivering, pc = "parse", NEW w \in ReadState,
           w.words = IF Argument(opt, ps.cur, ps.wasquoted)
                     THEN Append(Read.words, ps.cur) ELSE Read.words
    PROVE  Args(ps) \in Seq(Seq(Chars)) /\ w.words = handed \o Args(ps)
<1>1. /\ handed \in Seq(Seq(Chars)) /\ ps.args \in Seq(Seq(Chars)) /\ ps.cur \in Seq(Chars)
      /\ Read.words = handed \o ps.args
  BY ParsingFacts
<1>2. Append(handed \o ps.args, ps.cur) = handed \o Append(ps.args, ps.cur)
  BY <1>1, PackedOn
<1>3. Append(ps.args, ps.cur) \in Seq(Seq(Chars))
  BY <1>1
<1> QED BY <1>1, <1>2, <1>3 DEF Args

\* The end of the input keeps the words in step.
LEMMA EndOfInputDelivers ==
    ASSUME Delivering, pc = "parse", input = <<>>, EndOfInput,
           UNCHANGED <<opt, all, handed, input>>
    PROVE  Delivering'
<1>1. /\ Source /\ Fits(ps) /\ after = "parse" /\ Read \in ReadState
      /\ handed \in Seq(Seq(Chars)) /\ cmd \in Seq(Seq(Chars))
      /\ ps.args \in Seq(Seq(Chars)) /\ ps.cur \in Seq(Chars)
      /\ Read.words = handed \o ps.args /\ Read.cur = ps.cur
      /\ Read.quote = ps.quote /\ Read.quoted = ps.wasquoted
      /\ ~Read.escaped /\ ~Read.stopped
  BY ParsingFacts
<1>2. Source' /\ all \in Seq(Chars)
  BY <1>1 DEF Source
<1> DEFINE w == Reads(opt, Read, Separator(opt))
<1>3. Words(opt, all) = w.words
  <2>1. Len(all) - Len(input) = Len(all)
    BY <1>2
  <2> QED BY <2>1 DEF Words, Read
<1>4. /\ w \in ReadState
      /\ w.words = IF Argument(opt, ps.cur, ps.wasquoted)
                   THEN Append(Read.words, ps.cur) ELSE Read.words
  <2>1. Separator(opt) \in Chars
    BY XargsAssumption DEF Separator
  <2>2. Kind(opt, Separator(opt), Read.quote) \in {"blank", "line"}
    BY SeparatorEnds
  <2> QED BY <1>1, <2>1, <2>2, ReadsType, ReadsEnd
<1> HIDE DEF w
<1>5. Args(ps) \in Seq(Seq(Chars)) /\ w.words = handed \o Args(ps)
  BY <1>4, EndArgPacks
<1>6. CASE p(ps) = 0
  <2>1. pc' = "wait" /\ after' = "exit" /\ ps' = ps /\ cmd' = cmd
    BY <1>6 DEF EndOfInput, waitchildren
  <2>2. ps.used = 0 /\ Len(ps.cur) = 0
    <3>1. ps.used \in Nat /\ Len(ps.cur) \in Nat
      BY <1>1 DEF Fits, Packing
    <3> QED BY <1>6, <3>1 DEF p
  <2>3. ps.cur = <<>> /\ ps.args = <<>>
    BY <1>1, <2>2 DEF Fits
  <2>4. w.words \in {handed, Append(handed, <<>>)}
    <3>1. Read.words = handed
      BY <1>1, <2>3, ConcatEmptySeq
    <3> QED BY <1>4, <2>3, <3>1
  <2>5. IsPrefix(handed \o ps.args, Words(opt, all))
    BY DEF Delivering, Given
  <2>6. Given' = handed /\ ~Following' /\ Stage'
    BY <2>1 DEF Given, Following, Stage
  <2> QED BY <1>1, <1>2, <1>3, <2>1, <2>3, <2>4, <2>5, <2>6 DEF Delivering
<1>7. CASE p(ps) # 0
  <2>1. EndArg("eof")
    BY <1>7 DEF EndOfInput
  <2>2. GivesUp \/ (pc' = "run" /\ cmd' = Args(ps) /\ ps' = Fresh /\ after' = "last")
    BY <1>1, <2>1, EndArgWays DEF IsLast
  <2>3. CASE GivesUp
    BY <1>2, <2>3, GivenUp
  <2>4. CASE pc' = "run" /\ cmd' = Args(ps) /\ ps' = Fresh /\ after' = "last"
    <3>1. handed' \o cmd' = Words(opt', all')
      BY <1>3, <1>5, <2>4
    <3> QED BY <1>1, <1>2, <1>5, <2>4, <3>1, WholeHanded
  <2> QED BY <2>2, <2>3, <2>4
<1> QED BY <1>6, <1>7

\* A blank or the end of a line.
LEMMA EndArgDelivers ==
    ASSUME Delivering, pc = "parse", input # <<>>, NEW kind \in {"blank", "line"},
           Kind(opt, Head(input), ps.quote) = kind, EndArg(kind), input' = Tail(input),
           UNCHANGED <<opt, all, handed>>
    PROVE  Delivering'
<1>1. /\ Source /\ Fits(ps) /\ after = "parse" /\ Read \in ReadState
      /\ handed \in Seq(Seq(Chars)) /\ cmd \in Seq(Seq(Chars))
      /\ ps.args \in Seq(Seq(Chars)) /\ ps.cur \in Seq(Chars)
      /\ Read.words = handed \o ps.args /\ Read.cur = ps.cur
      /\ Read.quote = ps.quote /\ Read.quoted = ps.wasquoted
      /\ ~Read.escaped /\ ~Read.stopped
  BY ParsingFacts
<1>2. Source' /\ Head(input) \in Chars /\ Read' = Reads(opt, Read, Head(input))
  BY <1>1, ReadOne
<1>3. /\ Read' \in ReadState
      /\ Read'.words = IF Argument(opt, ps.cur, ps.wasquoted)
                       THEN Append(Read.words, ps.cur) ELSE Read.words
      /\ Read'.cur = <<>> /\ Read'.quote = ps.quote /\ Read'.quoted = FALSE
      /\ ~Read'.escaped /\ Read'.stopped = Stops(opt, ps.cur)
  <2>1. Reads(opt, Read, Head(input)) \in ReadState
    BY <1>1, <1>2, ReadsType
  <2>2. Kind(opt, Head(input), Read.quote) \in {"blank", "line"}
    BY <1>1
  <2>3. LET r == Reads(opt, Read, Head(input)) IN
        /\ r.words = IF Argument(opt, Read.cur, Read.quoted)
                     THEN Append(Read.words, Read.cur) ELSE Read.words
        /\ r.cur = <<>> /\ r.quote = Read.quote /\ r.quoted = FALSE /\ ~r.escaped
        /\ r.stopped = Stops(opt, Read.cur)
    BY <1>1, <1>2, <2>2, ReadsEnd
  <2> QED BY <1>1, <1>2, <2>1, <2>3
<1>4. Args(ps) \in Seq(Seq(Chars)) /\ Read'.words = handed \o Args(ps)
  BY <1>3, EndArgPacks
<1>5. kind = "blank" => ps.quote = Unquoted
  BY BlankUnquoted
<1>6. \/ GivesUp
      \/ /\ pc' = "run" /\ cmd' = Args(ps) /\ ps' = Fresh /\ ps.quote = Unquoted
         /\ after' = IF IsLast(kind) THEN "last" ELSE "parse"
      \/ /\ ~IsLast(kind) /\ pc' = pc /\ cmd' = cmd /\ after' = after /\ Fits(ps')
         /\ ps'.cur = <<>> /\ ps'.args = Args(ps) /\ ps'.quote = ps.quote
         /\ ps'.wasquoted = FALSE
  BY <1>1, <1>5, EndArgWays
<1>7. IsLast(kind) <=> Stops(opt, ps.cur)
  BY DEF IsLast
<1>8. CASE GivesUp
  BY <1>2, <1>8, GivenUp
<1>9. CASE /\ pc' = "run" /\ cmd' = Args(ps) /\ ps' = Fresh /\ ps.quote = Unquoted
           /\ after' = IF IsLast(kind) THEN "last" ELSE "parse"
  <2>1. CASE Stops(opt, ps.cur)
    <3>1. Words(opt', all') = Read'.words
      <4>1. all' \in Seq(Chars) /\ Len(all') - Len(input') \in 0 .. Len(all')
        BY <1>2 DEF Source
      <4> QED BY <1>3, <2>1, <4>1, ReadIsWords DEF Read
    <3>2. handed' \o cmd' = Words(opt', all')
      BY <1>4, <1>9, <3>1
    <3> QED BY <1>1, <1>2, <1>4, <1>7, <1>9, <2>1, <3>2, WholeHanded
  <2>2. CASE ~Stops(opt, ps.cur)
    <3>1. Following' /\ Stage' /\ after' # "exit" /\ Fits(ps')
      BY <1>7, <1>9, <2>2, FreshFits DEF Following, Stage, Fresh
    <3>2. SameAs(Read', Given', ps')
      <4>1. Given' = Read'.words
        BY <1>4, <1>9 DEF Given
      <4>2. Read'.words \o <<>> = Read'.words
        <5>1. Read'.words \in Seq(Seq(Chars)) BY <1>3 DEF ReadState
        <5> QED BY <5>1, ConcatEmptySeq
      <4> QED BY <1>3, <1>9, <2>2, <4>1, <4>2 DEF SameAs, Fresh
    <3> QED BY <1>1, <1>2, <1>4, <1>9, <3>1, <3>2, InStep
  <2> QED BY <2>1, <2>2
<1>10. CASE /\ ~IsLast(kind) /\ pc' = pc /\ cmd' = cmd /\ after' = after /\ Fits(ps')
            /\ ps'.cur = <<>> /\ ps'.args = Args(ps) /\ ps'.quote = ps.quote
            /\ ps'.wasquoted = FALSE
  <2>1. Following' /\ Stage' /\ after' # "exit"
    BY <1>1, <1>10 DEF Following, Stage
  <2>2. SameAs(Read', Given', ps')
    BY <1>3, <1>4, <1>7, <1>10 DEF SameAs, Given
  <2> QED BY <1>1, <1>2, <1>10, <2>1, <2>2, InStep
<1> QED BY <1>6, <1>8, <1>9, <1>10

\* A character of a word: w is what has been read with it.
LEMMA addchDelivers ==
    ASSUME Delivering, pc = "parse", NEW ch \in Chars, addch(ch), Source', 
           Read' \in ReadState, UNCHANGED <<opt, all, handed>>,
           Read'.words = Read.words, Read'.cur = Append(Read.cur, ch),
           Read'.quote = Read.quote, Read'.quoted = Read.quoted,
           ~Read'.escaped, ~Read'.stopped
    PROVE  Delivering'
<1>1. /\ Source /\ Fits(ps) /\ after = "parse"
      /\ handed \in Seq(Seq(Chars)) /\ cmd \in Seq(Seq(Chars))
      /\ ps.args \in Seq(Seq(Chars)) /\ ps.cur \in Seq(Chars)
      /\ Read.words = handed \o ps.args /\ Read.cur = ps.cur
      /\ Read.quote = ps.quote /\ Read.quoted = ps.wasquoted
  BY ParsingFacts
<1>2. \/ GivesUp
      \/ /\ \/ pc' = pc /\ cmd' = cmd /\ after' = after /\ ps'.args = ps.args
            \/ pc' = "run" /\ cmd' = ps.args /\ after' = "parse" /\ ps'.args = <<>>
         /\ Fits(ps') /\ ps'.cur = Append(ps.cur, ch)
         /\ ps'.quote = ps.quote /\ ps'.wasquoted = ps.wasquoted
  BY <1>1, addchWays
<1>3. CASE GivesUp
  BY <1>3, GivenUp
<1>4. CASE /\ pc' = pc /\ cmd' = cmd /\ after' = after /\ ps'.args = ps.args
           /\ Fits(ps') /\ ps'.cur = Append(ps.cur, ch)
           /\ ps'.quote = ps.quote /\ ps'.wasquoted = ps.wasquoted
  <2>1. Following' /\ Stage' /\ after' # "exit"
    BY <1>1, <1>4 DEF Following, Stage
  <2>2. SameAs(Read', Given', ps')
    BY <1>1, <1>4 DEF SameAs, Given
  <2> QED BY <1>1, <1>4, <2>1, <2>2, InStep
<1>5. CASE /\ pc' = "run" /\ cmd' = ps.args /\ after' = "parse" /\ ps'.args = <<>>
           /\ Fits(ps') /\ ps'.cur = Append(ps.cur, ch)
           /\ ps'.quote = ps.quote /\ ps'.wasquoted = ps.wasquoted
  <2>1. Following' /\ Stage' /\ after' # "exit"
    BY <1>1, <1>5 DEF Following, Stage
  <2>2. SameAs(Read', Given', ps')
    <3>1. Given' = Read'.words
      BY <1>1, <1>5 DEF Given
    <3>2. Read'.words \o <<>> = Read'.words
      <4>1. Read'.words \in Seq(Seq(Chars)) BY DEF ReadState
      <4> QED BY <4>1, ConcatEmptySeq
    <3> QED BY <1>1, <1>5, <3>1, <3>2 DEF SameAs
  <2> QED BY <1>1, <1>5, <2>1, <2>2, InStep
<1> QED BY <1>2, <1>3, <1>4, <1>5

\* So does a backslash.
LEMMA EscapeDelivers ==
    ASSUME Delivering, pc = "parse", input # <<>>, Kind(opt, Head(input), ps.quote) = "escape",
           Escape, UNCHANGED <<opt, all, handed>>
    PROVE  Delivering'
<1>1. /\ Source /\ Read \in ReadState /\ Read.quote = ps.quote
      /\ ~Read.escaped /\ ~Read.stopped
  BY ParsingFacts
<1>2. input \in Seq(Chars) /\ Len(input) \in Nat /\ Len(input) > 0
  BY <1>1 DEF Source
<1>3. CASE Len(input) = 1
  <2>1. input' = <<>> /\ input' = Tail(input) /\ GivesUp
    <3>1. Tail(input) = <<>>
      <4>1. Tail(input) \in Seq(Chars) /\ Len(Tail(input)) = 0 BY <1>2, <1>3, TailIs
      <4> QED BY <4>1, EmptySeq
    <3>2. xexit /\ input' = <<>> /\ UNCHANGED ps
      BY <1>3 DEF Escape
    <3> QED BY <3>1, <3>2 DEF xexit, waitchildren, GivesUp
  <2>2. Source'
    BY <1>1, <2>1, ReadOne
  <2> QED BY <2>1, <2>2, GivenUp
<1>4. CASE Len(input) # 1
  <2>1. Len(input) > 1 /\ addch(input[2]) /\ input' = Tail(Tail(input))
    <3>1. Len(input) > 1
      <4> DEFINE l == Len(input)
      <4>1. l \in Nat /\ l > 0 /\ l # 1 BY <1>2, <1>4
      <4> HIDE DEF l
      <4>2. l > 1 BY <4>1
      <4> QED BY <4>2 DEF l
    <3>2. addch(input[2]) /\ input' = Tail(Tail(input)) BY <1>4, Zenon DEF Escape
    <3> QED BY <3>1, <3>2
  <2>2. /\ Source' /\ Head(input) \in Chars /\ input[2] \in Chars
        /\ Read' = Reads(opt, Reads(opt, Read, Head(input)), input[2])
    BY <1>1, <2>1, ReadTwo
  <2> DEFINE w == Reads(opt, Read, Head(input))
             ch == input[2]
  <2>3. /\ w \in ReadState /\ w.words = Read.words /\ w.cur = Read.cur
        /\ w.quote = Read.quote /\ w.quoted = Read.quoted /\ w.escaped /\ ~w.stopped
    BY <1>1, <2>2, ReadsType, ReadsEscape
  <2>4. Read' = Reads(opt, w, ch) /\ ch \in Chars /\ addch(ch)
    BY <2>1, <2>2
  <2> HIDE DEF w, ch
  <2>5. Reads(opt, w, ch) \in ReadState
    BY <2>3, <2>4, ReadsType
  <2>6. /\ Reads(opt, w, ch).words = w.words /\ Reads(opt, w, ch).cur = Append(w.cur, ch)
        /\ Reads(opt, w, ch).quote = w.quote /\ Reads(opt, w, ch).quoted = w.quoted
        /\ ~Reads(opt, w, ch).escaped /\ ~Reads(opt, w, ch).stopped
    BY <2>3, <2>4, ReadsChar
  <2> QED BY <2>2, <2>3, <2>4, <2>5, <2>6, addchDelivers
<1> QED BY <1>3, <1>4

\* So does an ordinary character.
LEMMA CharDelivers ==
    ASSUME Delivering, pc = "parse", input # <<>>, Kind(opt, Head(input), ps.quote) = "char",
           addch(Head(input)), input' = Tail(input), UNCHANGED <<opt, all, handed>>
    PROVE  Delivering'
<1>1. /\ Source /\ Read \in ReadState /\ Read.quote = ps.quote
      /\ ~Read.escaped /\ ~Read.stopped
  BY ParsingFacts
<1>2. Source' /\ Head(input) \in Chars /\ Read' = Reads(opt, Read, Head(input))
  BY <1>1, ReadOne
<1>3. Reads(opt, Read, Head(input)) \in ReadState
  BY <1>1, <1>2, ReadsType
<1>4. LET r == Reads(opt, Read, Head(input)) IN
      /\ r.words = Read.words /\ r.cur = Append(Read.cur, Head(input))
      /\ r.quote = Read.quote /\ r.quoted = Read.quoted /\ ~r.escaped /\ ~r.stopped
  BY <1>1, <1>2, ReadsChar
<1> QED BY <1>2, <1>3, <1>4, addchDelivers

\* So does a quote.
LEMMA QuoteDelivers ==
    ASSUME Delivering, pc = "parse", input # <<>>, Kind(opt, Head(input), ps.quote) = "quote",
           ps' = [ps EXCEPT !.quote = Quoting(@, Head(input)), !.wasquoted = TRUE],
           input' = Tail(input), UNCHANGED <<opt, all, handed, pc, cmd, after>>
    PROVE  Delivering'
<1>1. /\ Source /\ Fits(ps) /\ after = "parse" /\ Read \in ReadState
      /\ handed \in Seq(Seq(Chars)) /\ cmd \in Seq(Seq(Chars))
      /\ Read.words = handed \o ps.args /\ Read.cur = ps.cur
      /\ Read.quote = ps.quote /\ Read.quoted = ps.wasquoted
      /\ ~Read.escaped /\ ~Read.stopped
  BY ParsingFacts
<1>2. Source' /\ Head(input) \in Chars /\ Read' = Reads(opt, Read, Head(input))
  BY <1>1, ReadOne
<1>3. LET r == Reads(opt, Read, Head(input)) IN
      /\ r.words = Read.words /\ r.cur = Read.cur
      /\ r.quote = Quoting(Read.quote, Head(input)) /\ r.quoted
      /\ ~r.escaped /\ ~r.stopped
  BY <1>1, <1>2, ReadsQuote
<1>4. Reads(opt, Read, Head(input)) \in ReadState
  BY <1>1, <1>2, ReadsType
<1>5. /\ ps' \in Packing /\ ps'.cur = ps.cur /\ ps'.used = ps.used /\ ps'.args = ps.args
      /\ ps'.quote = Quoting(ps.quote, Head(input)) /\ ps'.wasquoted = TRUE
  <2>1. Quoting(ps.quote, Head(input)) \in Chars \cup {Unquoted}
    BY <1>2 DEF Quoting
  <2> QED BY <1>1, <2>1 DEF Fits, Packing
<1>6. Fits(ps')
  BY <1>1, <1>5 DEF Fits, p
<1>7. Following' /\ Stage' /\ after' # "exit"
  BY <1>1 DEF Following, Stage
<1>8. SameAs(Read', Given', ps')
  <2>1. Read'.quoted = TRUE
    BY <1>2, <1>3, <1>4 DEF ReadState
  <2> QED BY <1>1, <1>2, <1>3, <1>5, <2>1 DEF SameAs, Given
<1> QED BY <1>1, <1>2, <1>6, <1>7, <1>8, InStep

\* So does parse_input as a whole.
LEMMA ParseDelivers == ASSUME Delivering, parse_input PROVE Delivering'
<1>1. pc = "parse" /\ UNCHANGED <<opt, all, handed>>
  BY DEF parse_input, ghosts
<1>2. CASE input = <<>>
  BY <1>1, <1>2, EndOfInputDelivers DEF parse_input
<1>3. CASE input # <<>>
  <2> DEFINE kind == Kind(opt, Head(input), ps.quote)
  <2>1. \/ kind = "escape" /\ Escape
        \/ kind \in {"blank", "line"} /\ EndArg(kind) /\ input' = Tail(input)
        \/ kind = "char" /\ addch(Head(input)) /\ input' = Tail(input)
        \/ /\ kind = "quote"
           /\ ps' = [ps EXCEPT !.quote = Quoting(@, Head(input)), !.wasquoted = TRUE]
           /\ input' = Tail(input) /\ UNCHANGED <<pc, cmd, after>>
    BY <1>3 DEF parse_input
  <2>2. CASE kind = "escape" /\ Escape
    BY <1>1, <1>3, <2>2, EscapeDelivers
  <2>3. CASE kind \in {"blank", "line"} /\ EndArg(kind) /\ input' = Tail(input)
    BY <1>1, <1>3, <2>3, EndArgDelivers
  <2>4. CASE kind = "char" /\ addch(Head(input)) /\ input' = Tail(input)
    BY <1>1, <1>3, <2>4, CharDelivers
  <2>5. CASE /\ kind = "quote"
             /\ ps' = [ps EXCEPT !.quote = Quoting(@, Head(input)), !.wasquoted = TRUE]
             /\ input' = Tail(input) /\ UNCHANGED <<pc, cmd, after>>
    BY <1>1, <1>3, <2>5, QuoteDelivers
  <2> QED BY <2>1, <2>2, <2>3, <2>4, <2>5
<1> QED BY <1>2, <1>3

-----------------------------------------------------------------------------
(* The other steps hand the command over, or touch none of this.           *)

\* A step that leaves all this alone.
LEMMA Untouched ==
    ASSUME Delivering, UNCHANGED <<opt, input, ps, cmd, pc, after, all, handed>>
    PROVE  Delivering'
BY DEF Delivering, Source, Stage, Following, Given, Read

\* The command is handed over, and run() or waitchildren() returns, or stays.
LEMMA HandedOver ==
    ASSUME Delivering, pc = "run", handed' = handed \o cmd,
           UNCHANGED <<opt, input, ps, cmd, all>>,
           \/ pc' \in {"wait", "broken"} /\ after' = after
           \/ after = "last" /\ pc' = "wait" /\ after' = "exit"
           \/ after # "last" /\ pc' = "parse" /\ after' = after
    PROVE  Delivering'
<1>1. /\ Source /\ Fits(ps) /\ after \in {"parse", "last"} /\ ps.args = <<>>
      /\ handed \in Seq(Seq(Chars)) /\ cmd \in Seq(Seq(Chars)) /\ Given = handed \o cmd
      /\ IsPrefix(Given \o ps.args, Words(opt, all))
      /\ after = "last" => Given = Words(opt, all)
      /\ after = "parse" => SameAs(Read, Given, ps)
  BY DEF Delivering, Stage, Given, Following
<1>2. Given' = Given /\ handed' = Given /\ handed' \in Seq(Seq(Chars))
  <2>1. handed \o cmd \in Seq(Seq(Chars))
    BY <1>1, ConcatProperties
  <2> QED BY <1>1, <2>1 DEF Given
<1>3. Source' /\ Read' = Read
  BY <1>1 DEF Source, Read
<1>4. Stage'
  BY <1>1 DEF Stage
<1>5. Following' => SameAs(Read', Given', ps')
  BY <1>1, <1>2, <1>3 DEF Following
<1> QED BY <1>1, <1>2, <1>3, <1>4, <1>5 DEF Delivering

\* So does an answer of no at the prompt.
LEMMA DeclineDelivers == ASSUME Delivering, Decline PROVE Delivering'
BY HandedOver DEF Decline, Hand, Resume, waitchildren

\* So does starting a child.
LEMMA LaunchDelivers ==
    ASSUME Delivering, NEW pid, NEW state, NEW err, Launch(pid, state, err)
    PROVE  Delivering'
BY HandedOver DEF Launch, Hand, Exit, waitchildren

\* So does a vfork that fails.
LEMMA VforkDelivers == ASSUME Delivering, vforkFails PROVE Delivering'
<1>1. /\ pc = "run" /\ pc' = "wait" /\ after' = "exit1"
      /\ UNCHANGED <<opt, input, ps, cmd, all, handed>>
  BY DEF vforkFails, xexit, waitchildren
<1>2. /\ handed \in Seq(Seq(Chars)) /\ cmd \in Seq(Seq(Chars)) /\ ps.args = <<>>
      /\ IsPrefix((handed \o cmd) \o ps.args, Words(opt, all))
      /\ Words(opt, all) \in Seq(Seq(Chars))
  <2>1. all \in Seq(Chars) /\ 0 \in 0 .. Len(all)
    BY DEF Delivering, Source
  <2>2. Words(opt, all) \in Seq(Seq(Chars))
    BY <2>1, ReadIsWords
  <2> QED BY <1>1, <2>2 DEF Delivering, Stage, Given
<1>3. IsPrefix(handed \o ps.args, Words(opt, all))
  <2>1. (handed \o cmd) \o ps.args = handed \o cmd /\ handed \o ps.args = handed
        /\ handed \o cmd \in Seq(Seq(Chars))
    BY <1>2
  <2>2. /\ Len(handed \o cmd) <= Len(Words(opt, all))
        /\ \A i \in 1 .. Len(handed \o cmd) : (handed \o cmd)[i] = Words(opt, all)[i]
    BY ZenonT(60), <1>2, <2>1, PrefixIs
  <2>3. /\ Len(handed) <= Len(handed \o cmd)
        /\ \A i \in 1 .. Len(handed) : (handed \o cmd)[i] = handed[i]
        /\ Len(handed) \in Nat /\ Len(handed \o cmd) \in Nat /\ Len(Words(opt, all)) \in Nat
    BY <1>2
  <2>4. /\ Len(handed) <= Len(Words(opt, all))
        /\ \A i \in 1 .. Len(handed) : handed[i] = Words(opt, all)[i]
    BY <2>2, <2>3
  <2> QED BY <1>2, <2>1, <2>4, PrefixIs
<1> QED BY <1>1, <1>3 DEF Delivering, Source, Stage, Following, Given, Read

\* So does returning to the input.
LEMMA ReturnDelivers == ASSUME Delivering, Return PROVE Delivering'
<1>1. pc = "wait" /\ UNCHANGED <<opt, input, ps, cmd, all, handed>>
  BY DEF Return, LoopEnds, ghosts
<1>2. \/ pc' = "exited" /\ after' = after
      \/ after = "last" /\ pc' = "wait" /\ after' = "exit"
      \/ after = "parse" /\ pc' = "parse" /\ after' = after
  BY DEF Return, Exit, Resume, waitchildren
<1>3. Given' = handed /\ Given = handed /\ Read' = Read /\ handed \in Seq(Seq(Chars))
  BY <1>1, <1>2 DEF Given, Read, Delivering
<1>4. Stage' /\ Source'
  BY <1>1, <1>2 DEF Delivering, Stage, Source
<1>5. Following' => after = "parse"
  BY <1>2 DEF Following
<1>6. Following' => SameAs(Read', Given', ps')
  BY <1>1, <1>3, <1>5 DEF Delivering, Following
<1> QED BY <1>1, <1>2, <1>3, <1>4, <1>6 DEF Delivering

\* Nothing has been read or handed out at first.
LEMMA InitDelivers == Init => Delivering
<1> SUFFICES ASSUME Init PROVE Delivering
  OBVIOUS
<1>1. /\ all \in Seq(Chars) /\ input = all /\ ps = Fresh /\ cmd = <<>> /\ handed = <<>>
      /\ pc = "parse" /\ after = "parse"
  BY XargsAssumption DEF Init
<1>2. Source /\ Stage /\ Fits(ps) /\ Given = <<>> /\ ps.args = <<>>
      /\ <<>> \in Seq(Seq(Chars)) /\ Len(all) - Len(input) = 0 /\ 0 \in 0 .. Len(all)
  BY <1>1, FreshFits DEF Source, Stage, Given, Fresh
<1>3. Read = Unread
  BY <1>1, <1>2, ReadToDef DEF Read
<1>4. <<>> \o <<>> = <<>>
  OBVIOUS
<1>5. SameAs(Read, Given, ps)
  BY <1>1, <1>2, <1>3, <1>4 DEF SameAs, Unread, Fresh
<1>6. IsPrefix(Given \o ps.args, Words(opt, all))
  <2>1. IsPrefix(Read.words, Words(opt, all))
    BY <1>1, <1>2, ReadIsWords DEF Read
  <2> QED BY <1>5, <2>1 DEF SameAs
<1> QED BY <1>1, <1>2, <1>5, <1>6 DEF Delivering

\* Every step keeps the words in step.
LEMMA NextDelivers == Delivering /\ [Next]_vars => Delivering'
<1> SUFFICES ASSUME Delivering, [Next]_vars PROVE Delivering'
  OBVIOUS
<1>1. CASE parse_input
  BY <1>1, ParseDelivers
<1>2. CASE Decline
  BY <1>2, DeclineDelivers
<1>3. CASE vforkFails
  BY <1>3, VforkDelivers
<1>4. CASE run
  BY <1>4, LaunchDelivers DEF run
<1>5. ASSUME NEW pid \in Pids, Collect(pid) PROVE Delivering'
  BY <1>5, Untouched DEF Collect, ghosts
<1>6. CASE Return
  BY <1>6, ReturnDelivers
<1>7. ASSUME NEW pid \in Pids, ChildEnds(pid) PROVE Delivering'
  BY <1>7, Untouched DEF ChildEnds
<1>8. CASE UNCHANGED vars
  BY <1>8, Untouched DEF vars, ghosts
<1> QED BY <1>1, <1>2, <1>3, <1>4, <1>5, <1>6, <1>7, <1>8 DEF Next

\* What has been handed to commands, what the command line being filled holds and
\* the word being read are, in this order, the words of the input read so far, quoting and
\* escapes resolved, whatever the options and the results of the children (parse_input,
\* addch, run, waitchildren).
THEOREM DeliveryInvariance == Spec => []Delivering
BY InitDelivers, NextDelivers, PTL DEF Spec

\* The words of any input, under any options and limits, reach commands each
\* once and in order, and all of them when it is read to its end (parse_input,
\* addch, run).
THEOREM WordsDelivered == Spec => []Delivered
<1>1. Delivering => Delivered
  <2> SUFFICES ASSUME Delivering PROVE Delivered
    OBVIOUS
  <2>1. handed \o (IF pc = "run" THEN cmd ELSE <<>>) = Given
    <3>1. handed \in Seq(Seq(Chars)) BY DEF Delivering
    <3> QED BY <3>1, ConcatEmptySeq DEF Given
  <2>2. (pc = "exited" /\ after = "exit" /\ cause = 0) =>
            Words(opt, all) \in {handed, Append(handed, <<>>)}
    BY DEF Delivering
  <2> QED BY <2>1, <2>2 DEF Delivering, Delivered
<1> QED BY <1>1, DeliveryInvariance, PTL
=============================================================================
