----------------------------- MODULE TelnetRing -----------------------------
(***************************************************************************)
(* telnet's ring buffers: src.freebsd/telnet/telnet/ring.c, driven by the  *)
(* code that fills and drains them.  One ring is followed; "use" says      *)
(* which of telnet's four it is:                                           *)
(*   netoring   filled by telsnd(), by commands and by option replies,     *)
(*              drained by netflush(), one byte of it possibly urgent;     *)
(*   ttyoring   filled by telrcv(), drained by ttyflush();                 *)
(*   input      netiring or ttyiring: filled by process_rings(), drained   *)
(*              by telrcv() or telsnd().                                   *)
(*                                                                         *)
(* Pointers are offsets from "bottom", so "top" is Size.  Only the order   *)
(* of supplytime and consumetime is ever looked at, and each tick of       *)
(* ring_clock is later than all before it; "newer" is                      *)
(* supplytime > consumetime.  The bytes are numbered as they are supplied. *)
(* This is the build without libcrypto: no clearto, no ring_encrypt().     *)
(***************************************************************************)
EXTENDS Integers, Sequences

CONSTANTS
    Size,      \* bytes in the ring
    SubLens,   \* lengths of the replies that are added only if they fit
    MaxBytes   \* bound: bytes supplied

ASSUME RingAssumption ==
    /\ Size \in Nat \ {0}
    /\ MaxBytes \in Nat
    /\ SubLens \subseteq Nat \ {0}

VARIABLES
    use,      \* which ring this is
    ring,     \* the Ring
    pc,       \* "main", "netflush" inside its recursion, "spin" or "exit"
    last,     \* bytes supplied so far
    wire,     \* the bytes this step handed on, in order
    oob,      \* they were sent as urgent data
    health    \* "whole", "overrun" or "disturbed"

vars == <<use, ring, pc, last, wire, oob, health>>

Uses == {"netoring", "ttyoring", "input"}
Slots == 0..(Size - 1)
top == Size

\* The null pointer, which is no offset; and what ring_decrement() makes of
\* bottom, which is no place in the buffer either.
NULL == Size
Stray == 0 - 1 - Size

Rings == [supply : Slots, consume : Slots, mark : Slots \cup {NULL, Stray},
          newer : BOOLEAN, buf : [Slots -> Nat]]

-----------------------------------------------------------------------------
(* ring.c                                                                  *)

Least(a, b) == IF a < b THEN a ELSE b

ring_subtract(a, b) == IF a - b >= 0 THEN a - b ELSE (a - b) + Size
\* Faulty: wraps one byte too late.
ring_incrementLate(a, c) == IF a + c <= top THEN a + c ELSE (a + c) - Size
ring_increment(a, c) == IF a + c < top THEN a + c ELSE (a + c) - Size
ring_decrement(a, c) == IF a - c >= 0 THEN a - c ELSE (a - c) - Size

ring_empty(r) == r.consume = r.supply /\ ~r.newer
ring_full(r)  == r.supply = r.consume /\ r.newer

Blank == [s \in Slots |-> 0]
ring_init == [supply |-> 0, consume |-> 0, mark |-> NULL, newer |-> FALSE,
              buf |-> Blank]

ring_mark(r)       == [r EXCEPT !.mark = ring_decrement(r.supply, 1)]
ring_at_mark(r)    == r.mark = r.consume
ring_clear_mark(r) == [r EXCEPT !.mark = NULL]

\* Faulty: does not note the time, so that a full ring looks empty.
ring_suppliedUntimed(r, count) ==
    [r EXCEPT !.supply = ring_increment(r.supply, count)]
ring_supplied(r, count) ==
    [r EXCEPT !.supply = ring_increment(r.supply, count), !.newer = TRUE]

\* ring_consumed() up to its last statement.
Advance(r, count) ==
    [r EXCEPT
       !.mark = IF @ # NULL /\ ring_subtract(@, r.consume) < count
                THEN NULL ELSE @,
       !.consume = ring_increment(@, count),
       !.newer = FALSE]

Rewind(r) == [r EXCEPT !.consume = 0, !.supply = 0]

ring_consumed(r, count) ==
    IF count = 0 THEN r
    ELSE LET a == Advance(r, count) IN IF ring_empty(a) THEN Rewind(a) ELSE a

ring_empty_count(r) ==
    IF ring_empty(r) THEN Size ELSE ring_subtract(r.consume, r.supply)

\* Faulty: coinciding pointers are taken for an empty ring.
ring_empty_consecutiveFull(r) ==
    IF r.consume <= r.supply THEN ring_subtract(top, r.supply)
    ELSE ring_subtract(r.consume, r.supply)
ring_empty_consecutive(r) ==
    IF r.consume < r.supply \/ ring_empty(r)
    THEN ring_subtract(top, r.supply)
    ELSE ring_subtract(r.consume, r.supply)

ring_full_count(r) ==
    IF r.mark = NULL \/ r.mark = r.consume
    THEN IF ring_full(r) THEN Size ELSE ring_subtract(r.supply, r.consume)
    ELSE ring_subtract(r.mark, r.consume)

ring_full_consecutive(r) ==
    IF r.mark = NULL \/ r.mark = r.consume
    THEN IF r.supply < r.consume \/ ring_full(r)
         THEN ring_subtract(top, r.consume)
         ELSE ring_subtract(r.supply, r.consume)
    ELSE IF r.mark < r.consume
         THEN ring_subtract(top, r.consume)
         ELSE ring_subtract(r.mark, r.consume)

\* Bytes b, b + 1, ... are put at supply; n of them reach at most to top.
Write(r, b, n) ==
    [r EXCEPT !.buf = [s \in Slots |-> IF s \in r.supply..(r.supply + n - 1)
                                       THEN b + (s - r.supply) ELSE @[s]]]

\* One turn of ring_supply_data()'s loop, and how many bytes it takes.
ChunkLen(r, count) == Least(count, ring_empty_consecutive(r))
Chunk(r, b, count) ==
    ring_supplied(Write(r, b, ChunkLen(r, count)), ChunkLen(r, count))

\* The first turn ends at top or with the last byte, so a second one is all
\* that a count which fits can need.  A third would copy nothing, for ever.
ring_supply_data(r, b, count) ==
    LET i == ChunkLen(r, count)
    IN IF i = count THEN Chunk(r, b, count)
       ELSE Chunk(Chunk(r, b, count), b + i, count - i)
SupplyEnds(r, count) ==
    LET i == ChunkLen(r, count)
    IN i = count \/ ChunkLen(Chunk(r, 1, count), count - i) = count - i

-----------------------------------------------------------------------------
(* What telnet adds.  b is the number of the first byte.                   *)

NETADD(r, b)  == ring_supplied([r EXCEPT !.buf[r.supply] = b], 1)
NET2ADD(r, b) == NETADD(NETADD(r, b), b + 1)

doflush(r, b) == NETADD(NET2ADD(r, b), b + 2)
dosynch(r, b) == NETADD(ring_mark(NETADD(r, b)), b + 1)

\* intp(), sendbrk(), sendabort() and sendsusp(); without synch also
\* xmitAO(), and with neither xmitEL(), xmitEC(), sendeof() and sendayt().
intp(r, b, autoflush, autosynch) ==
    LET ip == NET2ADD(r, b)
        fl == IF autoflush THEN doflush(ip, b + 2) ELSE ip
    IN IF autosynch THEN dosynch(fl, IF autoflush THEN b + 5 ELSE b + 2) ELSE fl
IntpLen(autoflush, autosynch) ==
    2 + (IF autoflush THEN 3 ELSE 0) + (IF autosynch THEN 2 ELSE 0)

\* What a signal handler that interrupts telnet may leave: SIGINT, SIGQUIT
\* and SIGTSTP with local characters on, or SIGWINCH.
Handled(r, b) ==
    {[ring |-> intp(r, b, f, s), len |-> IntpLen(f, s)] : f, s \in BOOLEAN}
    \cup {[ring |-> ring_supply_data(r, b, n), len |-> n] :
             n \in {m \in SubLens : ring_empty_count(r) >= m}}

-----------------------------------------------------------------------------
(* The actions.                                                            *)

Init ==
    /\ use \in Uses
    /\ ring = ring_init
    /\ pc = "main"
    /\ last = 0 /\ wire = <<>> /\ oob = FALSE /\ health = "whole"

\* The ring becomes r and the bytes out are handed on, urgently or not.  Once
\* it is not whole any more its pointers are followed and its bytes are not.
Becomes(r, out, urgent) ==
    /\ ring' = IF health' = "whole" THEN r ELSE [r EXCEPT !.buf = Blank]
    /\ wire' = IF health' = "whole" THEN out ELSE <<>>
    /\ oob' = (urgent /\ health' = "whole")

\* n bytes have been added, making the ring r.
Added(r, n) ==
    /\ last + n <= MaxBytes
    /\ last' = last + n
    /\ health' = IF health = "whole" /\ n > ring_empty_count(ring)
                 THEN "overrun" ELSE health
    /\ Becomes(r, <<>>, FALSE)
    /\ UNCHANGED use

\* telsnd(), one character of the user's: plain, or one that takes two.
telsnd ==
    /\ use = "netoring" /\ pc = "main"
    /\ ring_empty_count(ring) > 2
    /\ \/ Added(NETADD(ring, last + 1), 1)
       \/ Added(NET2ADD(ring, last + 1), 2)
    /\ UNCHANGED pc

\* telsnd(), a character that TerminalSpecialChars() turns into commands.
TerminalSpecialChars ==
    /\ use = "netoring" /\ pc = "main"
    /\ ring_empty_count(ring) > 2
    /\ \E f, s \in BOOLEAN : Added(intp(ring, last + 1, f, s), IntpLen(f, s))
    /\ UNCHANGED pc

\* The user's "send" commands: the escape character, two bytes, SYNCH, or
\* three bytes with an option.
sendcmd ==
    /\ use = "netoring" /\ pc = "main"
    /\ \/ ring_empty_count(ring) >= 1 /\ Added(NETADD(ring, last + 1), 1)
       \/ ring_empty_count(ring) >= 2 /\ Added(NET2ADD(ring, last + 1), 2)
       \/ ring_empty_count(ring) >= 2 /\ Added(dosynch(ring, last + 1), 2)
       \/ ring_empty_count(ring) >= 3 /\ Added(doflush(ring, last + 1), 3)
    /\ UNCHANGED pc

\* telrcv() answers an option: send_do() and the like do not look for room.
OptionReply ==
    /\ use = "netoring" /\ pc = "main"
    /\ Added(doflush(ring, last + 1), 3)
    /\ UNCHANGED pc

\* Faulty: an answer is added without a look at the room.
SubnegotiateUnchecked ==
    /\ use = "netoring" /\ pc = "main"
    /\ \E n \in SubLens :
          /\ Added(ring_supply_data(ring, last + 1, n), n)
          /\ pc' = IF SupplyEnds(ring, n) THEN pc ELSE "spin"

\* A sub-option's answer, which wants one byte more than it needs, or a
\* window size or status request, which does not.
Subnegotiate ==
    /\ use = "netoring" /\ pc = "main"
    /\ \E n \in SubLens :
          /\ ring_empty_count(ring) >= n
          /\ Added(ring_supply_data(ring, last + 1, n), n)
          /\ pc' = IF SupplyEnds(ring, n) THEN pc ELSE "spin"

\* A handler that runs between two of telnet's updates.
Signal ==
    /\ use = "netoring" /\ pc \in {"main", "netflush"}
    /\ \E h \in Handled(ring, last + 1) : Added(h.ring, h.len)
    /\ UNCHANGED pc

\* A handler that runs inside NETADD(), after the byte is stored: before
\* ring_supplied() reads supply, or before it stores it.
SignalInNETADD ==
    /\ use = "netoring" /\ pc = "main"
    /\ ring_empty_count(ring) > 2
    /\ health' = IF health = "whole" THEN "disturbed" ELSE health
    /\ LET w == [ring EXCEPT !.buf[ring.supply] = last + 1]
       IN \E h \in Handled(w, last + 2) :
             /\ last' = last + 1 + h.len /\ last' <= MaxBytes
             /\ \/ Becomes(ring_supplied(h.ring, 1), <<>>, FALSE)
                \/ Becomes(ring_supplied([h.ring EXCEPT !.supply = w.supply], 1),
                           <<>>, FALSE)
    /\ UNCHANGED <<use, pc>>

\* The bytes at s, s + 1, ..., s + n - 1.
Bytes(s, n) == [i \in 1..n |-> ring.buf[s + i - 1]]

\* One level of netflush(); process_rings() calls it when the Scheduler saw
\* something to send.  send() takes k bytes, only one at the mark.
Flushable ==
    /\ use = "netoring"
    /\ \/ pc = "main" /\ ring_full_count(ring) # 0
       \/ pc = "netflush"
Sendable == IF ring_at_mark(ring) THEN Least(1, ring_full_consecutive(ring))
            ELSE ring_full_consecutive(ring)
netflush ==
    /\ Flushable
    /\ UNCHANGED <<use, last, health>>
    /\ \E k \in 1..Sendable :
          /\ Becomes(ring_consumed(ring, k), Bytes(ring.consume, k), ring_at_mark(ring))
          /\ pc' = IF k = ring_full_consecutive(ring) /\ ring_full_consecutive(ring') # 0
                   THEN "netflush" ELSE "main"

\* The socket takes nothing for now (only the recursion is left), or fails.
netflushBlocked ==
    /\ Flushable
    /\ pc = "netflush" /\ pc' = "main"
    /\ UNCHANGED <<use, last, health>>
    /\ Becomes(ring, <<>>, FALSE)
netflushError ==
    /\ Flushable
    /\ ring_full_consecutive(ring) > 0
    /\ UNCHANGED <<use, last, health>>
    /\ Becomes(ring_clear_mark(ring), <<>>, FALSE)
    /\ pc' = "exit"

\* A handler that runs inside ring_consumed(), once it has found the ring
\* empty and before it rewinds it.
SignalInConsumed ==
    /\ Flushable
    /\ health' = IF health = "whole" THEN "disturbed" ELSE health
    /\ \E k \in 1..Sendable :
          LET a == Advance(ring, k)
          IN /\ ring_empty(a)
             /\ \E h \in Handled(a, last + 1) :
                   /\ last' = last + h.len /\ last' <= MaxBytes
                   /\ Becomes(Rewind(h.ring), <<>>, FALSE)
    /\ pc' = "main"
    /\ UNCHANGED use

\* telrcv(), one character from the net for the terminal, or CR LF.
telrcv ==
    /\ use = "ttyoring" /\ pc = "main"
    /\ ring_empty_count(ring) > 2
    /\ \/ Added(NETADD(ring, last + 1), 1)
       \/ Added(NET2ADD(ring, last + 1), 2)
    /\ UNCHANGED pc

\* ttyflush(): k bytes up to the top and, when all of those went, up to k2
\* of the rest from the bottom; dropped or written.
ttyflush ==
    /\ use = "ttyoring" /\ pc = "main"
    /\ UNCHANGED <<use, pc, last, health>>
    /\ LET n0 == ring_full_count(ring)
           n1 == ring_full_consecutive(ring)
       IN \E k \in 1..n1, k2 \in 0..(n0 - n1), drop \in BOOLEAN :
             /\ k < n1 => k2 = 0
             /\ drop => k = n1 /\ k2 = n0 - n1
             /\ Becomes(ring_consumed(ring, k + k2),
                        IF drop THEN <<>> ELSE Bytes(ring.consume, k) \o Bytes(0, k2),
                        FALSE)

\* The terminal is gone: telnet empties the ring and exits.
ttyflushError ==
    /\ use = "ttyoring" /\ pc = "main"
    /\ ring_full_consecutive(ring) > 0
    /\ UNCHANGED <<use, last, health>>
    /\ Becomes(ring_consumed(ring, ring_full_count(ring)), <<>>, FALSE)
    /\ pc' = "exit"

\* process_rings() reads into the ring; a read of nothing ends the session.
process_rings ==
    /\ use = "input" /\ pc = "main"
    /\ ring_empty_count(ring) # 0
    /\ LET canread == ring_empty_consecutive(ring)
       IN \E c \in Least(1, canread)..canread :
             /\ Added(IF c = 0 THEN ring ELSE ring_supplied(Write(ring, last + 1, c), c), c)
             /\ pc' = IF c = 0 THEN "exit" ELSE pc

\* telrcv() or telsnd() works through the input, for as long as there is
\* room where it goes.
Process ==
    /\ use = "input" /\ pc = "main"
    /\ ring_full_count(ring) # 0
    /\ UNCHANGED <<use, pc, last, health>>
    /\ \E k \in 1..ring_full_consecutive(ring) :
          Becomes(ring_consumed(ring, k), Bytes(ring.consume, k), FALSE)

Next ==
    \/ telsnd \/ TerminalSpecialChars \/ sendcmd \/ OptionReply
    \/ Subnegotiate \/ Signal \/ SignalInNETADD
    \/ netflush \/ netflushBlocked \/ netflushError \/ SignalInConsumed
    \/ telrcv \/ ttyflush \/ ttyflushError
    \/ process_rings \/ Process

Spec == Init /\ [][Next]_vars

\* The peer, or the terminal, takes what it is sent sooner or later, and the
\* Scheduler flushes whatever there is (flushline is never cleared).
FairSpec == Spec /\ WF_vars(netflush) /\ WF_vars(ttyflush) /\ WF_vars(Process)

-----------------------------------------------------------------------------
(* Properties.                                                             *)

\* supply and consume stay inside the buffer, the mark is at a place of it,
\* NULL or Stray, and every block that is read or written stays inside: what netflush() sends, ttyflush() writes,
\* process_rings() reads into and ring_supply_data() copies to, whatever was
\* added unchecked before and whenever a handler ran (ring.c:155-266).
InBounds ==
    /\ ring \in Rings
    /\ ring_full_consecutive(ring) \in 0..(top - ring.consume)
    /\ ring_empty_consecutive(ring) \in 0..(top - ring.supply)
    /\ use # "netoring" =>
          ring_full_count(ring) - ring_full_consecutive(ring) \in 0..ring.consume

\* What is in the ring, and the marked byte.
Pending == IF ring_full(ring) THEN Size ELSE ring_subtract(ring.supply, ring.consume)
Contents == [i \in 1..Pending |-> ring.buf[ring_increment(ring.consume, i - 1)]]
Marked == IF ring.mark \in Slots THEN ring.buf[ring.mark] ELSE 0

\* The Scheduler decides with the counts, the transfer acts on the
\* consecutive counts; if they disagreed telnet would spin on a socket it
\* sends nothing to, or take a read of no bytes for the end of the session
\* (telnet.c:2077-2103, sys_bsd.c:929-1040).
QueriesAgree == health = "whole" =>
    /\ (ring_full_count(ring) # 0) = (Pending > 0)
    /\ (ring_full_consecutive(ring) > 0) = (Pending > 0)
    /\ (ring_empty_consecutive(ring) > 0) = (Pending < Size)
    /\ ring_empty_count(ring) = Size - Pending

\* The ring is the queue that RingQueue describes: every byte leaves once, in
\* the order in which it came, a marked byte never among ordinary ones and
\* alone when it is urgent; dosynch() marks its first byte unless that went
\* to the last place of the buffer (ring.c, network.c:125-176).
Queue == INSTANCE RingQueue WITH
            Capacity <- Size, queue <- Contents, mark <- Marked,
            edge <- (ring.supply = 1)
QueueSpec == Queue!Spec

\* The same without the exception: ring_mark() marks "the most recently
\* supplied byte", wherever in the buffer that is (ring.c:119).
Unbroken == INSTANCE RingQueue WITH
            Capacity <- Size, queue <- Contents, mark <- Marked, edge <- FALSE
MarkSpec == Unbroken!Spec

\* Whatever was added, checked or not, the ring is empty in the end if the
\* other side takes what it is sent (network.c:125-176, terminal.c:118-169).
Drained == <>[](pc = "exit" \/ ring_empty(ring))
=============================================================================
