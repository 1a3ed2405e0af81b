----------------------------- MODULE MCTimeout -----------------------------
(* Instances of Timeout for TLC.                                           *)
EXTENDS Timeout

CONSTANT d1

OneDescendant  == {d1}

\* Command lines: with and without -f; -k absent, zero or not, once huge; no
\* limit only where signals from outside are all there is; -s ALRM and -p once
\* each way.
OptionsHere == {o \in AllOptions :
    \/ o.sig = "TERM" /\ ~o.preserve /\ (o.limit = "zero" => o.after = "some")
         /\ (o.after = "huge" => ~o.stubborn /\ ~o.foreground)
    \/ o.sig = "ALRM" /\ ~o.preserve /\ o.after = "some" /\ o.limit = "some"
    \/ o.sig = "TERM" /\ o.preserve /\ o.after = "absent" /\ o.limit = "some"
         /\ ~o.stubborn}
\* timeout -s TERM 2 sh -c 'sleep 4 & sleep 5'
BackgroundSleep == {o \in AllOptions :
    o.sig = "TERM" /\ ~o.foreground /\ o.limit = "some" /\ o.after = "absent"
    /\ ~o.preserve /\ ~o.stubborn}
KillAfter == {o \in AllOptions :
    o.sig = "TERM" /\ o.limit = "some" /\ o.after = "some" /\ ~o.preserve}

\* timeout -k 1 0 command, and timeout -s ALRM 1 command
KillAfterNoLimit == {o \in AllOptions :
    o.sig = "TERM" /\ o.limit = "zero" /\ o.after = "some" /\ ~o.preserve}
AlarmAtLimit == {o \in AllOptions :
    o.sig = "ALRM" /\ o.limit = "some" /\ o.after = "absent" /\ ~o.preserve}

\* A terminating signal, a timeout on demand and one to propagate.
OutsideHere    == {"INT", "ALRM", "WINCH"}
=============================================================================
