----------------------------- MODULE RingQueue -----------------------------
(***************************************************************************)
(* What one of telnet's ring buffers promises to the code around it: a     *)
(* queue of at most Capacity bytes, in which one byte can be marked as     *)
(* urgent.  Bytes are told apart by the order in which they were supplied. *)
(*                                                                         *)
(* The promise is given while callers add no more than there is room for   *)
(* and no signal handler runs in the middle of an update; after either,    *)
(* health says which it was and nothing is promised.                       *)
(***************************************************************************)
EXTENDS Naturals, Sequences

CONSTANT Capacity

VARIABLES
    last,     \* how many bytes have been supplied
    queue,    \* those waiting
    mark,     \* the one marked, or 0
    wire,     \* those that the last step handed on, in order
    oob,      \* they were handed on as urgent
    edge,     \* the newest byte went to the buffer's first place, so that the
              \* one before it is in the last; which is not the queue's to say
    health    \* "whole" while the promise stands, else "overrun", "disturbed"

vars == <<last, queue, mark, wire, oob, edge, health>>

Init ==
    /\ last = 0 /\ queue = <<>> /\ mark = 0
    /\ wire = <<>> /\ oob = FALSE /\ health = "whole"

New(n) == [i \in 1..n |-> last + i]

Quiet == wire' = <<>> /\ oob' = FALSE

Accept(n) ==
    /\ last' = last + n
    /\ Len(queue) + n <= Capacity
    /\ queue' = queue \o New(n)
    /\ Quiet
    /\ UNCHANGED health

Put ==
    /\ last' > last
    /\ Accept(last' - last)
    /\ UNCHANGED mark

\* The last byte but one becomes the marked one, in place of any before it.
\* At the edge of the buffer, and nowhere else, the mark gets lost.
PutUrgent ==
    /\ last' > last + 1
    /\ Accept(last' - last)
    /\ mark' = IF edge' THEN 0 ELSE last' - 1

\* More is added than fits.
Overrun ==
    /\ health = "whole" /\ health' = "overrun"
    /\ Len(queue) + (last' - last) > Capacity

\* A handler runs in the middle of an update.
Disturb == health = "whole" /\ health' = "disturbed"

\* The first n bytes leave; the marked one is not among them.
Take(n) ==
    /\ mark \notin {queue[i] : i \in 1..n}
    /\ queue' = SubSeq(queue, n + 1, Len(queue))
    /\ oob' = FALSE
    /\ UNCHANGED <<last, mark, health>>

Send == \E n \in 1..Len(queue) : Take(n) /\ wire' = SubSeq(queue, 1, n)

SendUrgent ==
    /\ queue # <<>> /\ mark = Head(queue)
    /\ queue' = Tail(queue)
    /\ wire' = <<mark>> /\ oob'
    /\ mark' = 0
    /\ UNCHANGED <<last, health>>

\* Output to the terminal is thrown away.
Drop == \E n \in 1..Len(queue) : Take(n) /\ wire' = <<>>

\* The connection is gone, and with it the mark.
Forget == mark' \in {0, mark} /\ Quiet /\ UNCHANGED <<last, queue, health>>

NoPromise == health # "whole" /\ health' # "whole"

Next ==
    \/ Put \/ PutUrgent \/ Overrun \/ Disturb
    \/ Send \/ SendUrgent \/ Drop \/ Forget \/ NoPromise

Spec == Init /\ [][Next]_vars
=============================================================================
