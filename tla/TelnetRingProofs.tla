-------------------------- MODULE TelnetRingProofs --------------------------
(***************************************************************************)
(* telnet's rings stay inside their buffers, for every size, every number  *)
(* of bytes, every overrun and every signal handler; what is asked of them *)
(* agrees with what can be done; and they are the queues of RingQueue.     *)
(***************************************************************************)
EXTENDS TelnetRing, SequenceTheorems, TLAPS

USE DEF top

\* Only netoring, the ring netflush() sends from, is ever marked.
Unmarked == use # "netoring" => ring.mark = NULL

\* InBounds alone is not inductive: ttyflush() and process_rings() rely on
\* rings without a mark, and the bytes supplied must be numbers.
IInv ==
    /\ use \in Uses
    /\ last \in Nat
    /\ ring \in Rings
    /\ Unmarked

-----------------------------------------------------------------------------
(* What the operations of ring.c return.                                   *)

\* Moving a pointer by no more than the size keeps it in the buffer.
LEMMA IncrementInside ==
    ASSUME NEW a \in Slots, NEW c \in 0..Size
    PROVE  ring_increment(a, c) \in Slots
BY RingAssumption DEF ring_increment, Slots

\* The fields of a ring, and a ring from its fields.
LEMMA RingFields ==
    ASSUME NEW r \in Rings
    PROVE  /\ r.supply \in Slots /\ r.supply \in Int
           /\ r.consume \in Slots /\ r.consume \in Int
           /\ r.mark \in Slots \cup {NULL, Stray} /\ r.mark \in Int
           /\ r.newer \in BOOLEAN
           /\ r.buf \in [Slots -> Nat]
BY RingAssumption DEF Rings, Slots, NULL, Stray

\* No count exceeds the size; no consecutive count reaches past the top.
LEMMA CountsInside ==
    ASSUME NEW r \in Rings
    PROVE  /\ ring_full_consecutive(r) \in 0..(Size - r.consume)
           /\ ring_empty_consecutive(r) \in 0..(Size - r.supply)
           /\ r.mark = NULL => /\ ring_full_count(r) \in 0..Size
                               /\ ring_full_count(r) - ring_full_consecutive(r)
                                    \in 0..r.consume
<1>1. /\ r.supply \in 0..(Size - 1) /\ r.consume \in 0..(Size - 1)
      /\ r.mark \in 0..(Size - 1) \/ r.mark = Size \/ r.mark = 0 - 1 - Size
  BY RingFields DEF Slots, NULL, Stray
<1>2. ring_full_consecutive(r) \in 0..(Size - r.consume)
  BY <1>1, RingAssumption DEF ring_full_consecutive, ring_subtract, NULL
<1>3. ring_empty_consecutive(r) \in 0..(Size - r.supply)
  BY <1>1, RingAssumption DEF ring_empty_consecutive, ring_subtract
<1>4. ASSUME r.mark = NULL
      PROVE  /\ ring_full_count(r) \in 0..Size
             /\ ring_full_count(r) - ring_full_consecutive(r) \in 0..r.consume
  BY <1>1, <1>4, RingAssumption
     DEF ring_full_consecutive, ring_full_count, ring_full, ring_subtract, NULL
<1> QED BY <1>2, <1>3, <1>4

\* ring_supplied() makes a ring of a ring and leaves the mark where it is.
LEMMA SuppliedRing ==
    ASSUME NEW r \in Rings, NEW c \in 0..Size
    PROVE  ring_supplied(r, c) \in Rings /\ ring_supplied(r, c).mark = r.mark
BY IncrementInside DEF ring_supplied, Rings

\* Bytes stored at supply are bytes; the mark stays.
LEMMA WriteRing ==
    ASSUME NEW r \in Rings, NEW b \in Nat, NEW n \in Nat
    PROVE  Write(r, b, n) \in Rings /\ Write(r, b, n).mark = r.mark
<1> DEFINE f == [s \in Slots |-> IF s \in r.supply..(r.supply + n - 1)
                                 THEN b + (s - r.supply) ELSE r.buf[s]]
<1>1. ASSUME NEW s \in Slots
      PROVE  (IF s \in r.supply..(r.supply + n - 1)
              THEN b + (s - r.supply) ELSE r.buf[s]) \in Nat
  <2>1. s \in Int /\ r.supply \in Int /\ r.buf[s] \in Nat
    BY RingFields, RingAssumption DEF Slots
  <2>2. CASE s \in r.supply..(r.supply + n - 1)
    <3>1. s - r.supply \in Nat
      BY <2>1, <2>2
    <3> QED BY <2>2, <3>1
  <2> QED BY <2>1, <2>2
<1>0. f \in [Slots -> Nat]
  BY <1>1
<1>2. Write(r, b, n) = [r EXCEPT !.buf = f]
  BY DEF Write
<1> HIDE DEF f
<1> QED BY <1>0, <1>2 DEF Rings

\* A turn of ring_supply_data()'s loop takes no more than there is left to
\* copy, and no more than the size.
LEMMA ChunkRing ==
    ASSUME NEW r \in Rings, NEW b \in Nat, NEW n \in Nat
    PROVE  /\ ChunkLen(r, n) \in 0..Size /\ n - ChunkLen(r, n) \in Nat
           /\ Chunk(r, b, n) \in Rings /\ Chunk(r, b, n).mark = r.mark
<1>1. ChunkLen(r, n) \in 0..Size /\ n - ChunkLen(r, n) \in Nat
  BY CountsInside, RingFields, RingAssumption DEF ChunkLen, Least, Slots
<1>2. ChunkLen(r, n) \in Nat
  BY <1>1, RingAssumption
<1>3. Write(r, b, ChunkLen(r, n)) \in Rings /\ Write(r, b, ChunkLen(r, n)).mark = r.mark
  BY <1>2, WriteRing
<1>4. Chunk(r, b, n) \in Rings /\ Chunk(r, b, n).mark = r.mark
  BY <1>1, <1>3, SuppliedRing DEF Chunk
<1> QED BY <1>1, <1>4

\* ring_supply_data() keeps the pointers inside even if the data does not fit.
LEMMA SupplyDataRing ==
    ASSUME NEW r \in Rings, NEW b \in Nat, NEW n \in Nat
    PROVE  ring_supply_data(r, b, n) \in Rings
<1> DEFINE i == ChunkLen(r, n)
<1>0. /\ i \in 0..Size /\ n - i \in Nat /\ Chunk(r, b, n) \in Rings
  BY ChunkRing
<1>1. /\ n - i \in Nat /\ b + i \in Nat /\ Chunk(r, b, n) \in Rings
  BY <1>0, RingAssumption
<1> HIDE DEF i
<1>2. Chunk(Chunk(r, b, n), b + i, n - i) \in Rings
  BY <1>1, ChunkRing
<1> QED BY <1>1, <1>2 DEF ring_supply_data, i

\* NETADD() looks at no count and yet keeps supply in the buffer.
LEMMA NETADDRing ==
    ASSUME NEW r \in Rings, NEW b \in Nat
    PROVE  NETADD(r, b) \in Rings /\ NETADD(r, b).mark = r.mark
<1> DEFINE w == [r EXCEPT !.buf[r.supply] = b]
<1>1. w \in Rings /\ w.mark = r.mark
  BY DEF Rings
<1>2. 1 \in 0..Size
  BY RingAssumption
<1> QED BY <1>1, <1>2, SuppliedRing DEF NETADD

\* So do two of them.
LEMMA NET2ADDRing ==
    ASSUME NEW r \in Rings, NEW b \in Nat
    PROVE  NET2ADD(r, b) \in Rings /\ NET2ADD(r, b).mark = r.mark
BY NETADDRing DEF NET2ADD

\* The mark is a place in the buffer or, from the bottom, the one stray value.
LEMMA MarkRing ==
    ASSUME NEW r \in Rings
    PROVE  ring_mark(r) \in Rings
<1>1. ring_decrement(r.supply, 1) \in Slots \cup {NULL, Stray}
  BY RingFields, RingAssumption DEF ring_decrement, Slots, Stray
<1> QED BY <1>1 DEF ring_mark, Rings

\* doflush() adds three bytes to a ring.
LEMMA doflushRing ==
    ASSUME NEW r \in Rings, NEW b \in Nat
    PROVE  doflush(r, b) \in Rings
BY NETADDRing, NET2ADDRing DEF doflush

\* dosynch() adds two and marks the first.
LEMMA dosynchRing ==
    ASSUME NEW r \in Rings, NEW b \in Nat
    PROVE  dosynch(r, b) \in Rings
BY NETADDRing, MarkRing DEF dosynch

\* intp() and its like, with or without a flush and a synch.
LEMMA intpRing ==
    ASSUME NEW r \in Rings, NEW b \in Nat, NEW f \in BOOLEAN, NEW s \in BOOLEAN
    PROVE  intp(r, b, f, s) \in Rings /\ IntpLen(f, s) \in Nat
<1> DEFINE ip == NET2ADD(r, b)
           fl == IF f THEN doflush(ip, b + 2) ELSE ip
<1>1. ip \in Rings
  BY NET2ADDRing
<1>2. fl \in Rings
  BY <1>1, doflushRing
<1> HIDE DEF ip, fl
<1>3. dosynch(fl, IF f THEN b + 5 ELSE b + 2) \in Rings
  BY <1>2, dosynchRing
<1> USE DEF ip, fl
<1> QED BY <1>2, <1>3 DEF intp, IntpLen

\* What a handler leaves is a ring, whatever room there was.
LEMMA HandledRing ==
    ASSUME NEW r \in Rings, NEW b \in Nat, NEW h \in Handled(r, b)
    PROVE  h.ring \in Rings /\ h.len \in Nat
<1>1. CASE \E f, s \in BOOLEAN : h = [ring |-> intp(r, b, f, s), len |-> IntpLen(f, s)]
  BY <1>1, intpRing
<1>2. CASE \E n \in SubLens : h = [ring |-> ring_supply_data(r, b, n), len |-> n]
  BY <1>2, SupplyDataRing, RingAssumption
<1> QED BY <1>1, <1>2 DEF Handled

\* ring_consumed() moves consume inside the buffer, and sets no mark.
LEMMA AdvanceRing ==
    ASSUME NEW r \in Rings, NEW c \in 0..Size
    PROVE  /\ Advance(r, c) \in Rings
           /\ r.mark = NULL => Advance(r, c).mark = NULL
<1>1. NULL \in Slots \cup {NULL, Stray}
  OBVIOUS
<1> QED BY <1>1, IncrementInside DEF Advance, Rings

\* Rewinding an empty ring to the bottom.
LEMMA RewindRing ==
    ASSUME NEW r \in Rings
    PROVE  Rewind(r) \in Rings /\ Rewind(r).mark = r.mark
<1>1. 0 \in Slots
  BY RingAssumption DEF Slots
<1> QED BY <1>1 DEF Rewind, Rings

\* All of ring_consumed().
LEMMA ConsumedRing ==
    ASSUME NEW r \in Rings, NEW c \in 0..Size
    PROVE  /\ ring_consumed(r, c) \in Rings
           /\ r.mark = NULL => ring_consumed(r, c).mark = NULL
BY AdvanceRing, RewindRing DEF ring_consumed

-----------------------------------------------------------------------------
(* The invariant.                                                          *)

\* The buffer of a ring that is not whole.
LEMMA BlankBuf == Blank \in [Slots -> Nat]
BY DEF Blank

\* A step that makes a ring of the ring makes it of the variable.
LEMMA BecomesRing ==
    ASSUME NEW r \in Rings, NEW out, NEW urgent, Becomes(r, out, urgent)
    PROVE  ring' \in Rings /\ ring'.mark = r.mark
BY BlankBuf DEF Becomes, Rings

\* Adding to the ring keeps the invariant.
LEMMA AddedRing ==
    ASSUME IInv, NEW r \in Rings, NEW n \in Nat, Added(r, n),
           use = "netoring" \/ r.mark = ring.mark
    PROVE  IInv'
<1>1. ring' \in Rings /\ ring'.mark = r.mark
  BY BecomesRing DEF Added
<1> QED BY <1>1 DEF Added, IInv, Unmarked

\* ring_init() establishes it.
LEMMA InitIInv == Init => IInv
<1> SUFFICES ASSUME Init PROVE IInv
  OBVIOUS
<1>1. 0 \in Slots
  BY RingAssumption DEF Slots
<1>2. ring \in Rings /\ ring.mark = NULL
  BY <1>1, BlankBuf DEF Init, ring_init, Rings
<1> QED BY <1>2 DEF Init, IInv, Unmarked

\* One step per action; each makes a ring by the operations above.
LEMMA NextIInv == IInv /\ [Next]_vars => IInv'
<1> SUFFICES ASSUME IInv, [Next]_vars PROVE IInv'
  OBVIOUS
<1>0. /\ ring \in Rings /\ last \in Nat /\ last + 1 \in Nat /\ last + 2 \in Nat
      /\ use # "netoring" => ring.mark = NULL
  BY DEF IInv, Unmarked
<1>c. /\ ring_full_consecutive(ring) \in 0..Size
      /\ ring_empty_consecutive(ring) \in 0..Size
  BY <1>0, CountsInside, RingFields, RingAssumption DEF Slots
<1>a. NETADD(ring, last + 1) \in Rings /\ NETADD(ring, last + 1).mark = ring.mark
  BY <1>0, NETADDRing
<1>b. NET2ADD(ring, last + 1) \in Rings /\ NET2ADD(ring, last + 1).mark = ring.mark
  BY <1>0, NET2ADDRing
<1>1. CASE telsnd
  BY <1>1, <1>a, <1>b, AddedRing DEF telsnd
<1>2. CASE TerminalSpecialChars
  <2>1. PICK f, s \in BOOLEAN : Added(intp(ring, last + 1, f, s), IntpLen(f, s))
    BY <1>2 DEF TerminalSpecialChars
  <2>2. intp(ring, last + 1, f, s) \in Rings /\ IntpLen(f, s) \in Nat
    BY <1>0, intpRing
  <2>3. use = "netoring"
    BY <1>2 DEF TerminalSpecialChars
  <2> QED BY <2>1, <2>2, <2>3, AddedRing
<1>3. CASE sendcmd
  <2>1. dosynch(ring, last + 1) \in Rings /\ doflush(ring, last + 1) \in Rings
    BY <1>0, dosynchRing, doflushRing
  <2> QED BY <1>3, <1>a, <1>b, <2>1, AddedRing DEF sendcmd
<1>4. CASE OptionReply
  <2>1. doflush(ring, last + 1) \in Rings
    BY <1>0, doflushRing
  <2> QED BY <1>4, <2>1, AddedRing DEF OptionReply
<1>5. CASE Subnegotiate
  <2>1. PICK n \in SubLens : Added(ring_supply_data(ring, last + 1, n), n)
    BY <1>5 DEF Subnegotiate
  <2>2. n \in Nat /\ ring_supply_data(ring, last + 1, n) \in Rings
    BY <1>0, SupplyDataRing, RingAssumption
  <2>3. use = "netoring"
    BY <1>5 DEF Subnegotiate
  <2> QED BY <2>1, <2>2, <2>3, AddedRing
<1>6. CASE Signal
  <2>1. PICK h \in Handled(ring, last + 1) : Added(h.ring, h.len)
    BY <1>6 DEF Signal
  <2>2. h.ring \in Rings /\ h.len \in Nat
    BY <1>0, HandledRing
  <2>3. use = "netoring"
    BY <1>6 DEF Signal
  <2> QED BY <2>1, <2>2, <2>3, AddedRing
<1>7. CASE SignalInNETADD
  <2> DEFINE w == [ring EXCEPT !.buf[ring.supply] = last + 1]
  <2>1. w \in Rings
    BY <1>0 DEF Rings
  <2>2. w.supply \in Slots
    BY <2>1, RingFields
  <2> HIDE DEF w
  <2>3. PICK h \in Handled(w, last + 2) :
           /\ last' = last + 1 + h.len
           /\ \/ Becomes(ring_supplied(h.ring, 1), <<>>, FALSE)
              \/ Becomes(ring_supplied([h.ring EXCEPT !.supply = w.supply], 1), <<>>, FALSE)
    BY <1>7 DEF SignalInNETADD, w
  <2>4. h.ring \in Rings /\ h.len \in Nat
    BY <1>0, <2>1, HandledRing
  <2>5. [h.ring EXCEPT !.supply = w.supply] \in Rings
    BY <2>2, <2>4 DEF Rings
  <2>6. /\ ring_supplied(h.ring, 1) \in Rings
        /\ ring_supplied([h.ring EXCEPT !.supply = w.supply], 1) \in Rings
    <3>1. 1 \in 0..Size
      BY RingAssumption
    <3> QED BY <2>4, <2>5, <3>1, SuppliedRing
  <2>7. ring' \in Rings
    BY <2>3, <2>6, BecomesRing
  <2>8. last' \in Nat
    BY <1>0, <2>3, <2>4
  <2>9. use = "netoring" /\ use' = use
    BY <1>7 DEF SignalInNETADD
  <2> QED BY <2>7, <2>8, <2>9 DEF IInv, Unmarked, Uses
<1>8. CASE netflush
  <2>1. PICK k \in 1..Sendable :
           Becomes(ring_consumed(ring, k), Bytes(ring.consume, k), ring_at_mark(ring))
    BY <1>8 DEF netflush
  <2>2. k \in 0..Size
    BY <1>c, RingAssumption DEF Sendable, Least
  <2>3. ring' \in Rings
    BY <1>0, <2>1, <2>2, ConsumedRing, BecomesRing
  <2> QED BY <1>8, <2>3 DEF netflush, Flushable, IInv, Unmarked
<1>9. CASE netflushBlocked
  <2>1. ring' \in Rings
    BY <1>0, <1>9, BecomesRing DEF netflushBlocked
  <2> QED BY <1>9, <2>1 DEF netflushBlocked, Flushable, IInv, Unmarked
<1>10. CASE netflushError
  <2>1. ring_clear_mark(ring) \in Rings
    BY <1>0 DEF ring_clear_mark, Rings
  <2>2. ring' \in Rings
    BY <2>1, <1>10, BecomesRing DEF netflushError
  <2> QED BY <1>10, <2>2 DEF netflushError, Flushable, IInv, Unmarked
<1>11. CASE SignalInConsumed
  <2>1. PICK k \in 1..Sendable : \E h \in Handled(Advance(ring, k), last + 1) :
           last' = last + h.len /\ Becomes(Rewind(h.ring), <<>>, FALSE)
    BY <1>11 DEF SignalInConsumed
  <2>2. k \in 0..Size
    BY <1>c, RingAssumption DEF Sendable, Least
  <2>3. Advance(ring, k) \in Rings
    BY <1>0, <2>2, AdvanceRing
  <2>4. PICK h \in Handled(Advance(ring, k), last + 1) :
           last' = last + h.len /\ Becomes(Rewind(h.ring), <<>>, FALSE)
    BY <2>1
  <2>5. h.ring \in Rings /\ h.len \in Nat
    BY <1>0, <2>3, HandledRing
  <2>6. ring' \in Rings
    BY <2>4, <2>5, RewindRing, BecomesRing
  <2>7. last' \in Nat
    BY <1>0, <2>4, <2>5
  <2> QED BY <1>11, <2>6, <2>7 DEF SignalInConsumed, Flushable, IInv, Unmarked
<1>12. CASE telrcv
  BY <1>12, <1>a, <1>b, AddedRing DEF telrcv
<1>13. CASE ttyflush
  <2>1. ring.mark = NULL /\ use' = use /\ last' = last
    BY <1>0, <1>13 DEF ttyflush
  <2>2. PICK k \in 1..ring_full_consecutive(ring),
             k2 \in 0..(ring_full_count(ring) - ring_full_consecutive(ring)) :
           \E out : Becomes(ring_consumed(ring, k + k2), out, FALSE)
    BY <1>13 DEF ttyflush
  <2>3. k + k2 \in 0..Size
    <3>1. ring_full_count(ring) \in 0..Size
      BY <1>0, <2>1, CountsInside
    <3> QED BY <1>c, <3>1, RingAssumption
  <2>4. ring' \in Rings /\ ring'.mark = NULL
    BY <1>0, <2>1, <2>2, <2>3, ConsumedRing, BecomesRing
  <2> QED BY <2>1, <2>4 DEF IInv, Unmarked
<1>14. CASE ttyflushError
  <2>1. /\ ring.mark = NULL /\ use' = use /\ last' = last
        /\ Becomes(ring_consumed(ring, ring_full_count(ring)), <<>>, FALSE)
    BY <1>0, <1>14 DEF ttyflushError
  <2>2. ring_full_count(ring) \in 0..Size
    BY <1>0, <2>1, CountsInside
  <2>3. ring' \in Rings /\ ring'.mark = NULL
    BY <1>0, <2>1, <2>2, ConsumedRing, BecomesRing
  <2> QED BY <2>1, <2>3 DEF IInv, Unmarked
<1>15. CASE process_rings
  <2>1. PICK c \in Least(1, ring_empty_consecutive(ring))..ring_empty_consecutive(ring) :
           Added(IF c = 0 THEN ring ELSE ring_supplied(Write(ring, last + 1, c), c), c)
    BY <1>15 DEF process_rings
  <2>2. c \in 0..Size /\ c \in Nat
    BY <1>c, RingAssumption DEF Least
  <2>3. /\ ring_supplied(Write(ring, last + 1, c), c) \in Rings
        /\ ring_supplied(Write(ring, last + 1, c), c).mark = ring.mark
    BY SMTT(30), <1>0, <2>2, WriteRing, SuppliedRing
  <2> QED BY <1>0, <2>1, <2>2, <2>3, AddedRing
<1>16. CASE Process
  <2>1. ring.mark = NULL /\ use' = use /\ last' = last
    BY <1>0, <1>16 DEF Process
  <2>2. PICK k \in 1..ring_full_consecutive(ring) :
           Becomes(ring_consumed(ring, k), Bytes(ring.consume, k), FALSE)
    BY <1>16 DEF Process
  <2>3. k \in 0..Size
    BY <1>c, RingAssumption
  <2>4. ring' \in Rings /\ ring'.mark = NULL
    BY <1>0, <2>1, <2>2, <2>3, ConsumedRing, BecomesRing
  <2> QED BY <2>1, <2>4 DEF IInv, Unmarked
<1>17. CASE UNCHANGED vars
  BY <1>17 DEF vars, IInv, Unmarked
<1> QED
  BY <1>1, <1>2, <1>3, <1>4, <1>5, <1>6, <1>7, <1>8, <1>9, <1>10, <1>11, <1>12,
     <1>13, <1>14, <1>15, <1>16, <1>17 DEF Next

\* The inductive invariant holds throughout (ring.c and all its callers).
THEOREM RingInvariance == Spec => []IInv
BY InitIInv, NextIInv, PTL DEF Spec

\* The pointers of every ring, and every block that netflush(), ttyflush(),
\* process_rings() and ring_supply_data() read or write at them, are inside
\* the buffer, whatever its size, also after an unchecked addition has
\* overrun it and after a handler ran in the middle of an update.
THEOREM RingInBounds == Spec => []InBounds
<1>1. IInv => InBounds
  BY CountsInside DEF IInv, Unmarked, InBounds
<1> QED BY <1>1, RingInvariance, PTL

-----------------------------------------------------------------------------
(* What the counts say.  The scheduler's and the transfers' counts agree   *)
(* as long as the mark, if there is one, is on a byte that waits.          *)

\* The bytes waiting in r; Pending is Pend(ring).
Pend(r) == IF ring_full(r) THEN Size ELSE ring_subtract(r.supply, r.consume)

\* A mark is on a waiting byte; a stray one was set with supply at the bottom,
\* so the bytes wait at least up to the top.
MarkIn(r) == r.mark # NULL =>
    /\ Pend(r) > 0
    /\ r.mark \in Slots => ring_subtract(r.mark, r.consume) < Pend(r)
    /\ r.mark = Stray => Pend(r) >= Size - r.consume

MarkInv == health = "whole" => MarkIn(ring)

\* The ranges of a ring's fields, as arithmetic needs them.
LEMMA RingRanges ==
    ASSUME NEW r \in Rings
    PROVE  /\ r.supply \in 0..(Size - 1) /\ r.consume \in 0..(Size - 1)
           /\ r.mark \in 0..(Size - 1) \/ r.mark = Size \/ r.mark = 0 - 1 - Size
BY RingFields DEF Slots, NULL, Stray

\* A ring holds between none and Size bytes.
LEMMA PendRange ==
    ASSUME NEW r \in Rings
    PROVE  Pend(r) \in 0..Size
BY RingRanges, RingAssumption DEF Pend, ring_full, ring_subtract

\* The room left and the bytes waiting make up the ring, and there is room in
\* one piece exactly if there is room.
LEMMA EmptyCounts ==
    ASSUME NEW r \in Rings
    PROVE  /\ ring_empty_count(r) = Size - Pend(r)
           /\ ring_empty_consecutive(r) > 0 <=> Pend(r) < Size
           /\ ring_empty_consecutive(r) <= Size - Pend(r)
<1>1. r.newer \in BOOLEAN
  BY RingFields
<1>2. r.supply \in 0..(Size - 1) /\ r.consume \in 0..(Size - 1) /\ Size \in Nat \ {0}
  BY RingRanges, RingAssumption
<1>3. CASE r.supply = r.consume /\ r.newer
  BY <1>2, <1>3 DEF Pend, ring_full, ring_empty, ring_subtract, ring_empty_count,
     ring_empty_consecutive
<1>4. CASE r.supply = r.consume /\ ~r.newer
  BY <1>2, <1>4 DEF Pend, ring_full, ring_empty, ring_subtract, ring_empty_count,
     ring_empty_consecutive
<1>5. CASE r.supply # r.consume
  BY <1>2, <1>5 DEF Pend, ring_full, ring_empty, ring_subtract, ring_empty_count,
     ring_empty_consecutive
<1> QED BY <1>1, <1>3, <1>4, <1>5

\* Something can be sent exactly if something waits, and no more than waits.
LEMMA FullCounts ==
    ASSUME NEW r \in Rings, MarkIn(r)
    PROVE  /\ ring_full_count(r) # 0 <=> Pend(r) > 0
           /\ ring_full_consecutive(r) > 0 <=> Pend(r) > 0
           /\ ring_full_consecutive(r) <= Pend(r)
<1>1. /\ r.supply \in 0..(Size - 1) /\ r.consume \in 0..(Size - 1) /\ Size \in Nat \ {0}
      /\ Pend(r) \in 0..Size
  BY RingRanges, PendRange, RingAssumption
<1>2. CASE r.mark = NULL \/ r.mark = r.consume
  BY <1>1, <1>2 DEF Pend, ring_full, ring_subtract, ring_full_count, ring_full_consecutive
<1>3. CASE r.mark = Stray
  BY <1>1, <1>3 DEF MarkIn, NULL, Stray, ring_subtract, ring_full_count,
     ring_full_consecutive
<1>4. CASE r.mark \in Slots /\ r.mark # r.consume
  BY <1>1, <1>4 DEF MarkIn, NULL, Slots, ring_subtract, ring_full_count,
     ring_full_consecutive
<1> QED BY <1>2, <1>3, <1>4, RingFields

\* The distance from d to a pointer that moves c places on, up to d.
LEMMA DistanceGrows ==
    ASSUME NEW a \in 0..(Size - 1), NEW d \in 0..(Size - 1),
           NEW c \in Nat, c > 0, ring_subtract(a, d) + c <= Size
    PROVE  (IF ring_increment(a, c) = d THEN Size
            ELSE ring_subtract(ring_increment(a, c), d)) = ring_subtract(a, d) + c
<1>1. Size \in Nat \ {0}
  BY RingAssumption
<1>2. CASE a + c < Size
  <2>1. ring_increment(a, c) = a + c
    BY <1>2 DEF ring_increment
  <2> QED BY <1>1, <1>2, <2>1 DEF ring_subtract
<1>3. CASE a + c >= Size
  <2>1. ring_increment(a, c) = a + c - Size
    BY <1>1, <1>3 DEF ring_increment
  <2> QED BY <1>1, <1>3, <2>1 DEF ring_subtract
<1> QED BY <1>1, <1>2, <1>3

\* Supplying c bytes that fit adds c to those waiting and keeps the mark on one.
LEMMA SuppliedPend ==
    ASSUME NEW r \in Rings, MarkIn(r), NEW c \in 1..(Size - Pend(r))
    PROVE  /\ Pend(ring_supplied(r, c)) = Pend(r) + c
           /\ MarkIn(ring_supplied(r, c))
<1> DEFINE q == ring_supplied(r, c)
<1>1. /\ r.supply \in 0..(Size - 1) /\ r.consume \in 0..(Size - 1) /\ Size \in Nat \ {0}
      /\ Pend(r) \in 0..Size
  BY RingRanges, PendRange, RingAssumption
<1>2. /\ q.consume = r.consume /\ q.mark = r.mark /\ q.newer = TRUE
      /\ q.supply = ring_increment(r.supply, c)
  BY DEF ring_supplied, Rings
<1> HIDE DEF q
<1>3. r.supply = r.consume => ~r.newer
  BY <1>1 DEF Pend, ring_full
<1>4. Pend(q) = Pend(r) + c
  <2>1. ring_full(q) <=> q.supply = r.consume
    BY <1>2 DEF ring_full
  <2>2. Pend(r) = ring_subtract(r.supply, r.consume)
    BY <1>3 DEF Pend, ring_full
  <2>3. Pend(q) = IF ring_increment(r.supply, c) = r.consume THEN Size
                  ELSE ring_subtract(ring_increment(r.supply, c), r.consume)
    BY <1>2, <2>1 DEF Pend
  <2>4. c \in Nat /\ c > 0 /\ ring_subtract(r.supply, r.consume) + c <= Size
    BY <1>1, <2>2
  <2> QED BY <1>1, <2>2, <2>3, <2>4, DistanceGrows
<1>5. MarkIn(q)
  <2>1. \A m \in Slots : ring_subtract(m, r.consume) \in Int
    BY <1>1 DEF ring_subtract, Slots
  <2> QED BY <1>1, <1>2, <1>4, <2>1 DEF MarkIn
<1> QED BY <1>4, <1>5 DEF q

\* Storing bytes moves no pointer.
LEMMA WritePend ==
    ASSUME NEW r \in Rings, NEW b, NEW n, MarkIn(r)
    PROVE  Pend(Write(r, b, n)) = Pend(r) /\ MarkIn(Write(r, b, n))
BY DEF Write, Pend, MarkIn, ring_full, Rings

\* NETADD() with room for the byte.
LEMMA NETADDPend ==
    ASSUME NEW r \in Rings, MarkIn(r), NEW b \in Nat, Pend(r) < Size
    PROVE  Pend(NETADD(r, b)) = Pend(r) + 1 /\ MarkIn(NETADD(r, b))
<1> DEFINE w == [r EXCEPT !.buf[r.supply] = b]
<1>1. w \in Rings
  BY DEF Rings
<1>2. Pend(w) = Pend(r) /\ MarkIn(w)
  BY DEF Pend, MarkIn, ring_full, Rings
<1>3. 1 \in 1..(Size - Pend(w))
  BY <1>2, PendRange, RingAssumption
<1> HIDE DEF w
<1>4. Pend(ring_supplied(w, 1)) = Pend(w) + 1 /\ MarkIn(ring_supplied(w, 1))
  BY <1>1, <1>2, <1>3, SuppliedPend
<1> QED BY <1>2, <1>4 DEF NETADD, w

\* The byte supplied last can be marked.
LEMMA MarkPend ==
    ASSUME NEW r \in Rings, Pend(r) > 0
    PROVE  Pend(ring_mark(r)) = Pend(r) /\ MarkIn(ring_mark(r))
<1> DEFINE q == ring_mark(r)
<1>1. /\ r.supply \in 0..(Size - 1) /\ r.consume \in 0..(Size - 1) /\ Size \in Nat \ {0}
      /\ Pend(r) \in 0..Size
  BY RingRanges, PendRange, RingAssumption
<1>2. /\ q.consume = r.consume /\ q.supply = r.supply /\ q.newer = r.newer
      /\ q.mark = ring_decrement(r.supply, 1)
  BY DEF ring_mark, Rings
<1> HIDE DEF q
<1>3. Pend(q) = Pend(r)
  BY <1>2 DEF Pend, ring_full
<1>4. CASE r.supply = 0
  <2>1. q.mark = Stray /\ q.mark \notin Slots
    BY <1>1, <1>2, <1>4 DEF ring_decrement, Stray, Slots
  <2>2. Pend(r) >= Size - r.consume
    BY <1>1, <1>4 DEF Pend, ring_full, ring_subtract
  <2> QED BY <1>2, <1>3, <2>1, <2>2 DEF MarkIn, q
<1>5. CASE r.supply # 0
  <2>1. q.mark = r.supply - 1 /\ q.mark # Stray
    BY <1>1, <1>2, <1>5 DEF ring_decrement, Stray
  <2>2. ring_subtract(r.supply - 1, r.consume) < Pend(r)
    BY <1>1, <1>5 DEF Pend, ring_full, ring_subtract
  <2> QED BY <1>2, <1>3, <2>1, <2>2 DEF MarkIn, q
<1> QED BY <1>4, <1>5

\* q is r with n bytes more, and its mark is in order.
Grown(r, q, n) == q \in Rings /\ MarkIn(q) /\ Pend(q) = Pend(r) + n

\* One byte that fits.
LEMMA NETADDGrows ==
    ASSUME NEW r \in Rings, MarkIn(r), NEW b \in Nat, Pend(r) < Size
    PROVE  Grown(r, NETADD(r, b), 1)
<1>1. NETADD(r, b) \in Rings
  BY NETADDRing
<1>2. Pend(NETADD(r, b)) = Pend(r) + 1 /\ MarkIn(NETADD(r, b))
  BY NETADDPend
<1> QED BY <1>1, <1>2 DEF Grown

\* Two bytes that fit.
LEMMA NET2ADDGrows ==
    ASSUME NEW r \in Rings, MarkIn(r), NEW b \in Nat, Pend(r) + 2 <= Size
    PROVE  Grown(r, NET2ADD(r, b), 2)
<1> DEFINE q == NETADD(r, b)
<1>1. Pend(r) \in Nat /\ Size \in Nat
  BY PendRange, RingAssumption
<1>a. Pend(r) < Size
  BY <1>1
<1>2. q \in Rings /\ MarkIn(q) /\ Pend(q) = Pend(r) + 1
  BY <1>a, NETADDGrows DEF Grown
<1> HIDE DEF q
<1>b. Pend(q) < Size /\ b + 1 \in Nat
  BY <1>1, <1>2
<1>3. /\ NETADD(q, b + 1) \in Rings /\ MarkIn(NETADD(q, b + 1))
      /\ Pend(NETADD(q, b + 1)) = Pend(q) + 1
  BY <1>2, <1>b, NETADDGrows DEF Grown
<1>4. NET2ADD(r, b) = NETADD(q, b + 1)
  BY DEF NET2ADD, q
<1> QED BY <1>1, <1>2, <1>3, <1>4 DEF Grown

\* The three of doflush().
LEMMA doflushGrows ==
    ASSUME NEW r \in Rings, MarkIn(r), NEW b \in Nat, Pend(r) + 3 <= Size
    PROVE  Grown(r, doflush(r, b), 3)
<1> DEFINE q == NET2ADD(r, b)
<1>1. Pend(r) \in Nat /\ Size \in Nat
  BY PendRange, RingAssumption
<1>2. q \in Rings /\ MarkIn(q) /\ Pend(q) = Pend(r) + 2
  BY <1>1, NET2ADDGrows DEF Grown
<1> HIDE DEF q
<1>b. Pend(q) < Size /\ b + 2 \in Nat
  BY <1>1, <1>2
<1>3. /\ NETADD(q, b + 2) \in Rings /\ MarkIn(NETADD(q, b + 2))
      /\ Pend(NETADD(q, b + 2)) = Pend(q) + 1
  BY <1>2, <1>b, NETADDGrows DEF Grown
<1>4. doflush(r, b) = NETADD(q, b + 2)
  BY DEF doflush, q
<1> QED BY <1>1, <1>2, <1>3, <1>4 DEF Grown

\* The two of dosynch(), the first of them marked.
LEMMA dosynchGrows ==
    ASSUME NEW r \in Rings, MarkIn(r), NEW b \in Nat, Pend(r) + 2 <= Size
    PROVE  Grown(r, dosynch(r, b), 2)
<1> DEFINE q == NETADD(r, b)
           m == ring_mark(q)
<1>1. Pend(r) \in Nat /\ Size \in Nat
  BY PendRange, RingAssumption
<1>a. Pend(r) < Size
  BY <1>1
<1>2. q \in Rings /\ Pend(q) = Pend(r) + 1
  BY <1>a, NETADDGrows DEF Grown
<1> HIDE DEF q
<1>3. m \in Rings /\ MarkIn(m) /\ Pend(m) = Pend(r) + 1
  BY <1>1, <1>2, MarkRing, MarkPend
<1> HIDE DEF m
<1>b. Pend(m) < Size /\ b + 1 \in Nat
  BY <1>1, <1>3
<1>4. /\ NETADD(m, b + 1) \in Rings /\ MarkIn(NETADD(m, b + 1))
      /\ Pend(NETADD(m, b + 1)) = Pend(m) + 1
  BY <1>3, <1>b, NETADDGrows DEF Grown
<1>5. dosynch(r, b) = NETADD(m, b + 1)
  BY DEF dosynch, q, m
<1> QED BY <1>1, <1>3, <1>4, <1>5 DEF Grown

\* intp() and its like, when all of it fits.
LEMMA intpGrows ==
    ASSUME NEW r \in Rings, MarkIn(r), NEW b \in Nat, NEW f \in BOOLEAN, NEW s \in BOOLEAN,
           Pend(r) + IntpLen(f, s) <= Size
    PROVE  Grown(r, intp(r, b, f, s), IntpLen(f, s))
<1> DEFINE ip == NET2ADD(r, b)
           fl == IF f THEN doflush(ip, b + 2) ELSE ip
           nf == IF f THEN 3 ELSE 0
           ns == IF s THEN 2 ELSE 0
<1>1. Pend(r) \in Nat /\ Size \in Nat
  BY PendRange, RingAssumption
<1>2. IntpLen(f, s) = 2 + nf + ns /\ nf \in Nat /\ ns \in Nat
  BY DEF IntpLen
<1>3. Pend(r) + 2 + nf + ns <= Size
  BY <1>1, <1>2
<1>4. ip \in Rings /\ MarkIn(ip) /\ Pend(ip) = Pend(r) + 2
  BY <1>1, <1>2, <1>3, NET2ADDGrows DEF Grown
<1> HIDE DEF ip
<1>5. fl \in Rings /\ MarkIn(fl) /\ Pend(fl) = Pend(r) + 2 + nf
  <2>1. CASE f
    BY <1>1, <1>2, <1>3, <1>4, <2>1, doflushGrows DEF Grown
  <2>2. CASE ~f
    BY <1>1, <1>4, <2>2
  <2> QED BY <2>1, <2>2
<1> DEFINE b2 == IF f THEN b + 5 ELSE b + 2
<1>6. b2 \in Nat
  OBVIOUS
<1>7. intp(r, b, f, s) = IF s THEN dosynch(fl, b2) ELSE fl
  BY DEF intp, ip
<1> HIDE DEF fl, b2
<1>8. CASE s
  <2>1. ns = 2
    BY <1>8
  <2>2. Pend(fl) + 2 <= Size
    BY <1>1, <1>2, <1>3, <1>5, <2>1
  <2>3. Grown(fl, dosynch(fl, b2), 2)
    BY <1>5, <1>6, <2>2, dosynchGrows
  <2> HIDE DEF nf, ns
  <2> QED BY <1>1, <1>2, <1>5, <1>7, <1>8, <2>1, <2>3 DEF Grown
<1>9. CASE ~s
  <2>1. ns = 0
    BY <1>9
  <2> HIDE DEF nf, ns
  <2> QED BY <1>1, <1>2, <1>5, <1>7, <1>9, <2>1 DEF Grown
<1> QED BY <1>8, <1>9

\* A turn of ring_supply_data()'s loop with something to copy and room.
LEMMA ChunkGrows ==
    ASSUME NEW r \in Rings, MarkIn(r), NEW b \in Nat, NEW n \in Nat, n > 0, Pend(r) < Size
    PROVE  ChunkLen(r, n) > 0 /\ Grown(r, Chunk(r, b, n), ChunkLen(r, n))
<1> DEFINE i == ChunkLen(r, n)
           w == Write(r, b, i)
<1>1. Pend(r) \in Nat /\ Size \in Nat
  BY PendRange, RingAssumption
<1>2. i \in 0..Size /\ Chunk(r, b, n) \in Rings
  BY ChunkRing
<1>3. i \in 1..(Size - Pend(r))
  <2>1. ring_empty_consecutive(r) > 0 /\ ring_empty_consecutive(r) <= Size - Pend(r)
    BY EmptyCounts
  <2>2. ring_empty_consecutive(r) \in Int
    BY CountsInside
  <2> QED BY <1>1, <2>1, <2>2 DEF ChunkLen, Least
<1>4. w \in Rings /\ MarkIn(w) /\ Pend(w) = Pend(r)
  BY <1>1, <1>2, WriteRing, WritePend
<1> HIDE DEF i, w
<1>5. Pend(ring_supplied(w, i)) = Pend(r) + i /\ MarkIn(ring_supplied(w, i))
  BY <1>3, <1>4, SuppliedPend
<1>6. Chunk(r, b, n) = ring_supplied(w, i)
  BY DEF Chunk, i, w
<1> QED BY <1>1, <1>2, <1>3, <1>5, <1>6 DEF Grown, i

\* ring_supply_data() with room for all of it.
LEMMA SupplyDataMark ==
    ASSUME NEW r \in Rings, MarkIn(r), NEW b \in Nat, NEW n \in Nat, n > 0,
           Pend(r) + n <= Size
    PROVE  MarkIn(ring_supply_data(r, b, n))
<1> DEFINE i == ChunkLen(r, n)
           q == Chunk(r, b, n)
<1>1. Pend(r) \in Nat /\ Size \in Nat
  BY PendRange, RingAssumption
<1>2. i > 0 /\ q \in Rings /\ MarkIn(q) /\ Pend(q) = Pend(r) + i
  BY <1>1, ChunkGrows DEF Grown
<1>3. i \in Nat /\ n - i \in Nat
  BY <1>1, ChunkRing
<1> HIDE DEF i, q
<1>4. ASSUME i # n
      PROVE  MarkIn(Chunk(q, b + i, n - i))
  <2>1. n - i > 0 /\ b + i \in Nat /\ Pend(q) < Size
    BY <1>1, <1>2, <1>3, <1>4
  <2> QED BY <1>2, <1>3, <2>1, ChunkGrows DEF Grown
<1> QED BY <1>2, <1>4 DEF ring_supply_data, i, q

\* What a handler leaves, when what it adds fits.
LEMMA HandledMark ==
    ASSUME NEW r \in Rings, MarkIn(r), NEW b \in Nat, NEW h \in Handled(r, b),
           Pend(r) + h.len <= Size
    PROVE  MarkIn(h.ring)
<1>1. CASE \E f, s \in BOOLEAN : h = [ring |-> intp(r, b, f, s), len |-> IntpLen(f, s)]
  BY <1>1, intpGrows DEF Grown
<1>2. CASE \E n \in SubLens : h = [ring |-> ring_supply_data(r, b, n), len |-> n]
  BY <1>2, SupplyDataMark, RingAssumption
<1> QED BY <1>1, <1>2 DEF Handled

\* The distance from a pointer that moves k places on towards e.
LEMMA DistanceShrinks ==
    ASSUME NEW e \in 0..(Size - 1), NEW a \in 0..(Size - 1),
           NEW k \in Nat, k <= ring_subtract(e, a)
    PROVE  ring_subtract(e, ring_increment(a, k)) = ring_subtract(e, a) - k
<1>1. Size \in Nat \ {0}
  BY RingAssumption
<1>2. CASE a + k < Size
  <2>1. ring_increment(a, k) = a + k
    BY <1>2 DEF ring_increment
  <2> QED BY <1>1, <1>2, <2>1 DEF ring_subtract
<1>3. CASE a + k >= Size
  <2>1. ring_increment(a, k) = a + k - Size
    BY <1>1, <1>3 DEF ring_increment
  <2> QED BY <1>1, <1>3, <2>1 DEF ring_subtract
<1> QED BY <1>1, <1>2, <1>3

\* After ring_consumed() the mark is gone or still on a waiting byte.
LEMMA ConsumedMark ==
    ASSUME NEW r \in Rings, MarkIn(r), NEW k \in 1..Pend(r)
    PROVE  MarkIn(ring_consumed(r, k))
<1> DEFINE a == Advance(r, k)
           d == ring_subtract(r.mark, r.consume)
<1>1. /\ r.supply \in 0..(Size - 1) /\ r.consume \in 0..(Size - 1) /\ Size \in Nat \ {0}
      /\ Pend(r) \in 0..Size /\ k \in Nat /\ k > 0 /\ k <= Pend(r)
  BY RingRanges, PendRange, RingAssumption
<1>2. /\ a.consume = ring_increment(r.consume, k) /\ a.supply = r.supply
      /\ a.newer = FALSE
      /\ a.mark = IF r.mark # NULL /\ d < k THEN NULL ELSE r.mark
  BY DEF Advance, Rings
<1>3. a \in Rings
  <2>1. k \in 0..Size
    BY <1>1
  <2> QED BY <2>1, AdvanceRing
<1>4. ring_consumed(r, k) = IF ring_empty(a) THEN Rewind(a) ELSE a
  BY <1>1 DEF ring_consumed
<1> HIDE DEF a, d
<1>5. CASE a.mark = NULL
  <2>1. Rewind(a).mark = NULL
    BY <1>3, <1>5, RewindRing
  <2> QED BY <1>4, <1>5, <2>1 DEF MarkIn
<1>6. CASE a.mark # NULL
  <2>1. a.mark = r.mark /\ r.mark # NULL /\ ~(d < k)
    BY <1>2, <1>6
  <2>2. r.mark \in Slots
    <3>1. r.mark # Stray
      BY <1>1, <2>1 DEF d, Stray, ring_subtract
    <3> QED BY <2>1, <3>1, RingFields
  <2>3. r.mark \in 0..(Size - 1) /\ d \in Nat /\ d < Pend(r) /\ k <= d
    <3>1. r.mark \in 0..(Size - 1)
      BY <2>2 DEF Slots
    <3>2. d \in Int
      BY <1>1, <3>1 DEF d, ring_subtract
    <3>3. d < Pend(r)
      BY <2>1, <2>2 DEF MarkIn, d
    <3> QED BY <1>1, <2>1, <3>1, <3>2, <3>3
  <2>4. ring_subtract(a.mark, a.consume) = d - k
    BY <1>1, <1>2, <2>1, <2>3, DistanceShrinks DEF d
  <2>5. Pend(a) = Pend(r) - k
    <3>1. Pend(a) = ring_subtract(r.supply, ring_increment(r.consume, k))
      BY <1>2 DEF Pend, ring_full
    <3>2. CASE ring_full(r)
      <4>1. Pend(r) = Size /\ r.supply = r.consume /\ k < Size
        BY <1>1, <2>3, <3>2 DEF Pend, ring_full
      <4> QED BY <1>1, <3>1, <4>1 DEF ring_subtract, ring_increment
    <3>3. CASE ~ring_full(r)
      <4>1. Pend(r) = ring_subtract(r.supply, r.consume)
        BY <3>3 DEF Pend
      <4> QED BY <1>1, <3>1, <4>1, DistanceShrinks
    <3> QED BY <3>2, <3>3
  <2>6. Pend(a) > 0 /\ ring_subtract(a.mark, a.consume) < Pend(a)
    BY <1>1, <2>3, <2>4, <2>5
  <2>7. ~ring_empty(a)
    <3>1. ring_subtract(a.supply, a.supply) = 0
      BY <1>1, <1>2 DEF ring_subtract
    <3> QED BY <1>2, <2>6, <3>1 DEF ring_empty, Pend, ring_full
  <2>8. a.mark # Stray
    BY <1>1, <2>1, <2>3 DEF Stray
  <2> QED BY <1>4, <2>6, <2>7, <2>8 DEF MarkIn
<1> QED BY <1>5, <1>6

\* An addition that leaves the ring whole was of bytes that fit.
LEMMA AddedMark ==
    ASSUME IInv, MarkInv, NEW r \in Rings, NEW n \in Nat, Added(r, n),
           (MarkIn(ring) /\ Pend(ring) + n <= Size) => MarkIn(r)
    PROVE  MarkInv'
<1> SUFFICES ASSUME health' = "whole" PROVE MarkIn(ring)'
  BY DEF MarkInv
<1>1. health = "whole" /\ ~(n > ring_empty_count(ring))
  BY DEF Added
<1>2. ring_empty_count(ring) = Size - Pend(ring) /\ Pend(ring) \in 0..Size
  BY EmptyCounts, PendRange DEF IInv
<1>3. Pend(ring) + n <= Size
  BY <1>1, <1>2, RingAssumption
<1>4. MarkIn(r)
  BY <1>1, <1>3 DEF MarkInv
<1>5. ring' = r
  BY DEF Added, Becomes
<1> QED BY <1>4, <1>5 DEF MarkIn, Pend, ring_full

\* One step per action on the ring that can be marked; the others have no mark.
LEMMA NextMarkInv == IInv /\ IInv' /\ MarkInv /\ [Next]_vars => MarkInv'
<1> SUFFICES ASSUME IInv, IInv', MarkInv, [Next]_vars PROVE MarkInv'
  OBVIOUS
<1>0. /\ ring \in Rings /\ last \in Nat /\ last + 1 \in Nat
      /\ Pend(ring) \in 0..Size /\ Size \in Nat
  BY PendRange, RingAssumption DEF IInv
<1>n. CASE ring'.mark = NULL
  BY <1>n DEF MarkInv, MarkIn
<1>u. CASE use' # "netoring"
  BY <1>n, <1>u DEF IInv, Unmarked
<1>a. /\ NETADD(ring, last + 1) \in Rings
      /\ MarkIn(ring) /\ Pend(ring) + 1 <= Size => MarkIn(NETADD(ring, last + 1))
  <2>1. Pend(ring) + 1 <= Size => Pend(ring) < Size
    BY <1>0
  <2> QED BY <1>0, <2>1, NETADDRing, NETADDGrows DEF Grown
<1>b. /\ NET2ADD(ring, last + 1) \in Rings
      /\ MarkIn(ring) /\ Pend(ring) + 2 <= Size => MarkIn(NET2ADD(ring, last + 1))
  BY <1>0, NET2ADDRing, NET2ADDGrows DEF Grown
<1>d. /\ doflush(ring, last + 1) \in Rings
      /\ MarkIn(ring) /\ Pend(ring) + 3 <= Size => MarkIn(doflush(ring, last + 1))
  BY <1>0, doflushRing, doflushGrows DEF Grown
<1>s. /\ dosynch(ring, last + 1) \in Rings
      /\ MarkIn(ring) /\ Pend(ring) + 2 <= Size => MarkIn(dosynch(ring, last + 1))
  BY <1>0, dosynchRing, dosynchGrows DEF Grown
<1>1. CASE telsnd
  BY <1>1, <1>a, <1>b, AddedMark DEF telsnd
<1>2. CASE TerminalSpecialChars
  <2>1. PICK f, s \in BOOLEAN : Added(intp(ring, last + 1, f, s), IntpLen(f, s))
    BY <1>2 DEF TerminalSpecialChars
  <2>2. intp(ring, last + 1, f, s) \in Rings /\ IntpLen(f, s) \in Nat
    BY <1>0, intpRing
  <2>3. MarkIn(ring) /\ Pend(ring) + IntpLen(f, s) <= Size
           => MarkIn(intp(ring, last + 1, f, s))
    BY <1>0, intpGrows DEF Grown
  <2> QED BY <2>1, <2>2, <2>3, AddedMark
<1>3. CASE sendcmd
  BY <1>3, <1>a, <1>b, <1>d, <1>s, AddedMark DEF sendcmd
<1>4. CASE OptionReply
  BY <1>4, <1>d, AddedMark DEF OptionReply
<1>5. CASE Subnegotiate
  <2>1. PICK n \in SubLens : Added(ring_supply_data(ring, last + 1, n), n)
    BY <1>5 DEF Subnegotiate
  <2>2. n \in Nat /\ n > 0 /\ ring_supply_data(ring, last + 1, n) \in Rings
    BY <1>0, SupplyDataRing, RingAssumption
  <2>3. MarkIn(ring) /\ Pend(ring) + n <= Size => MarkIn(ring_supply_data(ring, last + 1, n))
    BY <1>0, <2>2, SupplyDataMark
  <2> QED BY <2>1, <2>2, <2>3, AddedMark
<1>6. CASE Signal
  <2>1. PICK h \in Handled(ring, last + 1) : Added(h.ring, h.len)
    BY <1>6 DEF Signal
  <2>2. h.ring \in Rings /\ h.len \in Nat
    BY <1>0, HandledRing
  <2>3. MarkIn(ring) /\ Pend(ring) + h.len <= Size => MarkIn(h.ring)
    BY <1>0, HandledMark
  <2> QED BY <2>1, <2>2, <2>3, AddedMark
<1>7. CASE SignalInNETADD \/ SignalInConsumed
  BY <1>7 DEF SignalInNETADD, SignalInConsumed, MarkInv
<1>8. CASE netflush
  <2> SUFFICES ASSUME health' = "whole" PROVE MarkIn(ring')
    BY DEF MarkInv, MarkIn, Pend, ring_full
  <2>0. MarkIn(ring)
    BY <1>8 DEF netflush, MarkInv
  <2>1. PICK k \in 1..Sendable :
           Becomes(ring_consumed(ring, k), Bytes(ring.consume, k), ring_at_mark(ring))
    BY <1>8 DEF netflush
  <2>2. ring_full_consecutive(ring) \in Int /\ ring_full_consecutive(ring) <= Pend(ring)
    BY <1>0, <2>0, CountsInside, FullCounts
  <2>3. k \in 1..Pend(ring)
    BY <1>0, <2>2 DEF Sendable, Least
  <2>4. ring' = ring_consumed(ring, k)
    BY <2>1 DEF Becomes
  <2> QED BY <1>0, <2>0, <2>3, <2>4, ConsumedMark
<1>9. CASE netflushBlocked
  BY <1>9 DEF netflushBlocked, Becomes, MarkInv, MarkIn, Pend, ring_full
<1>10. CASE netflushError
  <2>1. ring'.mark = NULL
    BY <1>0, <1>10 DEF netflushError, Becomes, ring_clear_mark, Rings
  <2> QED BY <1>n, <2>1
<1>11. CASE telrcv \/ ttyflush \/ ttyflushError \/ process_rings \/ Process
  <2>1. use' # "netoring"
    BY <1>11 DEF telrcv, ttyflush, ttyflushError, process_rings, Process, Added
  <2> QED BY <1>u, <2>1
<1>12. CASE UNCHANGED vars
  BY <1>12 DEF vars, MarkInv, MarkIn, Pend, ring_full
<1> QED
  BY <1>1, <1>2, <1>3, <1>4, <1>5, <1>6, <1>7, <1>8, <1>9, <1>10, <1>11, <1>12 DEF Next

\* While no caller has overrun the ring and no handler has disturbed an
\* update, the counts the Scheduler decides by and the consecutive counts the
\* transfers use agree, for every size: telnet never spins on a socket it has
\* nothing to send to, and never reads into no room at all.
THEOREM RingQueriesAgree == Spec => []QueriesAgree
<1>1. Init => MarkInv
  BY DEF Init, ring_init, MarkInv, MarkIn
<1>2. IInv /\ MarkInv => QueriesAgree
  <2> SUFFICES ASSUME IInv, MarkInv, health = "whole" PROVE QueriesAgree
    BY DEF QueriesAgree
  <2>1. ring \in Rings /\ MarkIn(ring) /\ Pending = Pend(ring)
    BY DEF IInv, MarkInv, Pending, Pend
  <2> QED BY <2>1, EmptyCounts, FullCounts DEF QueriesAgree
<1>3. IInv /\ MarkInv /\ [Next]_vars => MarkInv'
  BY NextIInv, NextMarkInv
<1> QED BY <1>1, <1>2, <1>3, RingInvariance, PTL DEF Spec

-----------------------------------------------------------------------------
(* The ring is the queue of RingQueue.                                     *)

\* The bytes l - n + 1, ..., l.
Newest(n, l) == [i \in 1..n |-> l - n + i]

\* r holds the newest of the l bytes supplied so far, in order.
Filled(r, l) ==
    /\ r \in Rings /\ MarkIn(r) /\ l \in Nat /\ Pend(r) <= l
    /\ \A i \in 1..Pend(r) : r.buf[ring_increment(r.consume, i - 1)] = l - Pend(r) + i

FillInv == health = "whole" => Filled(ring, last)

\* The number of the marked byte, or 0.
MarkNo(r, l) ==
    IF r.mark \in Slots THEN l - Pend(r) + 1 + ring_subtract(r.mark, r.consume) ELSE 0

\* q is r with n bytes more and the same byte marked.
Fed(r, l, q, n) ==
    Filled(q, l + n) /\ Pend(q) = Pend(r) + n /\ MarkNo(q, l + n) = MarkNo(r, l)

\* The same, but the mark is on the last byte but one; it is lost when the
\* last byte went to the first place, and with it supply to the second.
FedUrgent(r, l, q, n) ==
    /\ Filled(q, l + n) /\ Pend(q) = Pend(r) + n
    /\ n > 1 /\ MarkNo(q, l + n) = IF q.supply = 1 THEN 0 ELSE (l + n) - 1

\* The bytes of a ring and its marked one.
ContentsOf(r) == [i \in 1..Pend(r) |-> r.buf[ring_increment(r.consume, i - 1)]]
MarkedOf(r) == IF r.mark \in Slots THEN r.buf[r.mark] ELSE 0

\* A waiting byte is found by its distance from consume.
LEMMA FilledByte ==
    ASSUME NEW r, NEW l, Filled(r, l), NEW m \in Slots,
           ring_subtract(m, r.consume) < Pend(r)
    PROVE  r.buf[m] = l - Pend(r) + 1 + ring_subtract(m, r.consume)
<1> DEFINE d == ring_subtract(m, r.consume)
<1>1. /\ r.consume \in 0..(Size - 1) /\ m \in 0..(Size - 1) /\ Size \in Nat \ {0}
      /\ Pend(r) \in 0..Size /\ l \in Nat
  BY RingRanges, PendRange, RingAssumption DEF Filled, Slots
<1>2. d \in Nat /\ ring_increment(r.consume, d) = m
  BY <1>1 DEF ring_subtract, ring_increment
<1> HIDE DEF d
<1>3. d + 1 \in 1..Pend(r) /\ (d + 1) - 1 = d
  BY <1>1, <1>2 DEF d
<1>4. r.buf[ring_increment(r.consume, (d + 1) - 1)] = l - Pend(r) + (d + 1)
  BY <1>3 DEF Filled
<1>5. l - Pend(r) + (d + 1) = l - Pend(r) + 1 + d
  BY <1>1, <1>2
<1> QED BY <1>2, <1>3, <1>4, <1>5 DEF d

\* What a ring in order holds.
LEMMA FilledContents ==
    ASSUME NEW r, NEW l, Filled(r, l)
    PROVE  ContentsOf(r) = Newest(Pend(r), l) /\ MarkedOf(r) = MarkNo(r, l)
<1>1. ContentsOf(r) = Newest(Pend(r), l)
  BY DEF Filled, ContentsOf, Newest
<1>2. CASE r.mark \in Slots
  <2>1. r.mark # NULL
    BY <1>2, RingAssumption DEF Slots, NULL
  <2>2. ring_subtract(r.mark, r.consume) < Pend(r)
    BY <1>2, <2>1 DEF Filled, MarkIn
  <2> QED BY <1>1, <1>2, <2>2, FilledByte DEF MarkedOf, MarkNo
<1>3. CASE r.mark \notin Slots
  BY <1>1, <1>3 DEF MarkedOf, MarkNo
<1> QED BY <1>2, <1>3

\* The place k after the first byte, and the place of the first free byte.
LEMMA PlaceOf ==
    ASSUME NEW r \in Rings, NEW k \in Nat, k < Size
    PROVE  /\ ring_increment(r.consume, k) \in 0..(Size - 1)
           /\ Pend(r) < Size /\ k < Pend(r) =>
                 \A c \in 1..(Size - Pend(r)) :
                    r.supply + c <= Size =>
                       ring_increment(r.consume, k) \notin r.supply..(r.supply + c - 1)
           /\ Pend(r) < Size /\ k >= Pend(r) /\ r.supply + (k - Pend(r)) < Size =>
                 ring_increment(r.consume, k) = r.supply + (k - Pend(r))
<1>1. /\ r.supply \in 0..(Size - 1) /\ r.consume \in 0..(Size - 1) /\ Size \in Nat \ {0}
      /\ Pend(r) \in 0..Size
  BY RingRanges, PendRange, RingAssumption
<1>2. ring_increment(r.consume, k) = IF r.consume + k < Size THEN r.consume + k
                                     ELSE r.consume + k - Size
  BY <1>1 DEF ring_increment
<1>3. Pend(r) < Size => Pend(r) = IF r.supply >= r.consume THEN r.supply - r.consume
                                  ELSE r.supply - r.consume + Size
  BY <1>1 DEF Pend, ring_full, ring_subtract
<1>4. ring_increment(r.consume, k) \in 0..(Size - 1)
  BY <1>1, <1>2
<1>5. ASSUME Pend(r) < Size, k < Pend(r), NEW c \in 1..(Size - Pend(r)),
             r.supply + c <= Size
      PROVE  ring_increment(r.consume, k) \notin r.supply..(r.supply + c - 1)
  BY <1>1, <1>2, <1>3, <1>5
<1>6. ASSUME Pend(r) < Size, k >= Pend(r), r.supply + (k - Pend(r)) < Size
      PROVE  ring_increment(r.consume, k) = r.supply + (k - Pend(r))
  BY <1>1, <1>2, <1>3, <1>6
<1> QED BY <1>4, <1>5, <1>6

\* The next c bytes, stored at supply and not past the top, are the newest.
LEMMA SupplyFilled ==
    ASSUME NEW r, NEW l, Filled(r, l), NEW c \in 1..(Size - Pend(r)), r.supply + c <= Size
    PROVE  Fed(r, l, ring_supplied(Write(r, l + 1, c), c), c)
<1> DEFINE w == Write(r, l + 1, c)
           q == ring_supplied(w, c)
<1>1. /\ r \in Rings /\ r.supply \in 0..(Size - 1) /\ r.consume \in 0..(Size - 1)
      /\ Size \in Nat \ {0} /\ Pend(r) \in 0..Size /\ l \in Nat /\ Pend(r) <= l
      /\ c \in Nat /\ c > 0 /\ Pend(r) + c <= Size /\ MarkIn(r)
  BY RingRanges, PendRange, RingAssumption DEF Filled
<1>2. w \in Rings /\ Pend(w) = Pend(r) /\ MarkIn(w)
  <2>1. l + 1 \in Nat
    BY <1>1
  <2> QED BY <1>1, <2>1, WriteRing, WritePend
<1>3. Pend(q) = Pend(r) + c /\ MarkIn(q)
  <2> HIDE DEF w
  <2> QED BY <1>1, <1>2, SuppliedPend
<1>4. q \in Rings
  <2>1. c \in 0..Size
    BY <1>1
  <2> HIDE DEF w
  <2> QED BY <1>2, <2>1, SuppliedRing
<1>5. q.consume = r.consume /\ q.mark = r.mark /\ q.buf = w.buf
  BY <1>1 DEF ring_supplied, Write, Rings
<1>6. \A s \in Slots : w.buf[s] = IF s \in r.supply..(r.supply + c - 1)
                                  THEN l + 1 + (s - r.supply) ELSE r.buf[s]
  BY <1>1 DEF Write, Rings
<1> HIDE DEF w, q
<1>7. ASSUME NEW i \in 1..(Pend(r) + c)
      PROVE  q.buf[ring_increment(q.consume, i - 1)] = (l + c) - (Pend(r) + c) + i
  <2> DEFINE s == ring_increment(r.consume, i - 1)
  <2>1. /\ i \in Nat /\ i - 1 \in Nat /\ i - 1 < Size /\ i >= 1 /\ i <= Pend(r) + c
        /\ Pend(r) < Size
    BY <1>1
  <2>2. s \in Slots
    BY <1>1, <2>1, PlaceOf DEF Slots
  <2>3. q.buf[ring_increment(q.consume, i - 1)] = w.buf[s]
    BY <1>5
  <2>4. CASE i - 1 < Pend(r)
    <3>1. s \notin r.supply..(r.supply + c - 1)
      BY <1>1, <2>1, <2>4, PlaceOf
    <3>2. i \in 1..Pend(r)
      BY <1>1, <2>1, <2>4
    <3>3. r.buf[s] = l - Pend(r) + i
      BY <3>2 DEF Filled
    <3>4. w.buf[s] = r.buf[s]
      BY <1>6, <2>2, <3>1
    <3>5. (l + c) - (Pend(r) + c) + i = l - Pend(r) + i
      BY <1>1, <2>1
    <3> QED BY <2>3, <3>3, <3>4, <3>5
  <2>5. CASE i - 1 >= Pend(r)
    <3>1. s = r.supply + (i - 1 - Pend(r))
      <4>1. r.supply + ((i - 1) - Pend(r)) < Size
        BY <1>1, <2>1, <2>5
      <4> QED BY <1>1, <2>1, <2>5, <4>1, PlaceOf
    <3> HIDE DEF s
    <3>2. s \in r.supply..(r.supply + c - 1)
      BY <1>1, <2>1, <2>5, <3>1
    <3>3. w.buf[s] = l + 1 + (s - r.supply)
      BY <1>6, <2>2, <3>2
    <3>4. l + 1 + (s - r.supply) = (l + c) - (Pend(r) + c) + i
      BY <1>1, <2>1, <3>1
    <3> QED BY <2>3, <3>3, <3>4
  <2> QED BY <1>1, <2>1, <2>4, <2>5
<1>8. Filled(q, l + c)
  BY <1>1, <1>3, <1>4, <1>7 DEF Filled
<1>9. MarkNo(q, l + c) = MarkNo(r, l)
  <2>1. CASE r.mark \in Slots
    <3>1. ring_subtract(r.mark, r.consume) \in Int
      BY <1>1, <2>1 DEF ring_subtract, Slots
    <3> QED BY <1>1, <1>3, <1>5, <2>1, <3>1 DEF MarkNo
  <2>2. CASE r.mark \notin Slots
    BY <1>5, <2>2 DEF MarkNo
  <2> QED BY <2>1, <2>2
<1> QED BY <1>3, <1>8, <1>9 DEF Fed, q, w

\* One byte that fits.
LEMMA NETADDFed ==
    ASSUME NEW r, NEW l, Filled(r, l), Pend(r) < Size
    PROVE  Fed(r, l, NETADD(r, l + 1), 1)
<1>1. /\ r \in Rings /\ r.supply \in 0..(Size - 1) /\ r.supply \in Slots
      /\ Size \in Nat \ {0} /\ Pend(r) \in 0..Size /\ l \in Nat /\ r.buf \in [Slots -> Nat]
  BY RingRanges, RingFields, PendRange, RingAssumption DEF Filled
<1>2. 1 \in 1..(Size - Pend(r)) /\ r.supply + 1 <= Size
  BY <1>1
<1>3. [r.buf EXCEPT ![r.supply] = l + 1]
        = [s \in Slots |-> IF s \in r.supply..(r.supply + 1 - 1)
                           THEN l + 1 + (s - r.supply) ELSE r.buf[s]]
  <2>1. \A s \in Slots : s \in Int
    BY <1>1 DEF Slots
  <2>2. \A s \in Slots : s \in r.supply..(r.supply + 1 - 1) <=> s = r.supply
    BY <1>1, <2>1
  <2>3. l + 1 + (r.supply - r.supply) = l + 1
    BY <1>1
  <2>4. ASSUME NEW s \in Slots
        PROVE  (IF s = r.supply THEN l + 1 ELSE r.buf[s])
                 = (IF s \in r.supply..(r.supply + 1 - 1)
                    THEN l + 1 + (s - r.supply) ELSE r.buf[s])
    BY <2>2, <2>3
  <2>5. [r.buf EXCEPT ![r.supply] = l + 1]
          = [s \in Slots |-> IF s = r.supply THEN l + 1 ELSE r.buf[s]]
    BY <1>1
  <2> QED BY <2>4, <2>5
<1>4. [r EXCEPT !.buf[r.supply] = l + 1] = Write(r, l + 1, 1)
  BY <1>1, <1>3 DEF Write, Rings
<1>5. NETADD(r, l + 1) = ring_supplied(Write(r, l + 1, 1), 1)
  BY <1>4 DEF NETADD
<1> QED BY <1>2, <1>5, SupplyFilled

\* Two additions in a row are one.
LEMMA FedTwice ==
    ASSUME NEW r, NEW l \in Nat, NEW q, NEW m \in Nat, NEW p, NEW n \in Nat,
           Pend(r) \in Nat, Fed(r, l, q, m), Fed(q, l + m, p, n)
    PROVE  Fed(r, l, p, m + n)
<1>1. (l + m) + n = l + (m + n) /\ (Pend(r) + m) + n = Pend(r) + (m + n)
  OBVIOUS
<1> QED BY <1>1 DEF Fed

\* Two bytes.
LEMMA NET2ADDFed ==
    ASSUME NEW r, NEW l, Filled(r, l), Pend(r) + 2 <= Size
    PROVE  Fed(r, l, NET2ADD(r, l + 1), 2)
<1> DEFINE q == NETADD(r, l + 1)
<1>1. Pend(r) \in Nat /\ Size \in Nat /\ l \in Nat /\ l + 1 \in Nat
  BY PendRange, RingAssumption DEF Filled
<1>2. Fed(r, l, q, 1)
  BY <1>1, NETADDFed
<1> HIDE DEF q
<1>3. Filled(q, l + 1) /\ Pend(q) < Size
  BY <1>1, <1>2 DEF Fed
<1>4. Fed(q, l + 1, NETADD(q, (l + 1) + 1), 1)
  BY <1>3, NETADDFed
<1>5. Fed(r, l, NETADD(q, (l + 1) + 1), 1 + 1)
  BY <1>1, <1>2, <1>4, FedTwice
<1>6. NET2ADD(r, l + 1) = NETADD(q, (l + 1) + 1) /\ 1 + 1 = 2
  BY DEF NET2ADD, q
<1> QED BY <1>5, <1>6

\* The three of doflush().
LEMMA doflushFed ==
    ASSUME NEW r, NEW l, Filled(r, l), Pend(r) + 3 <= Size
    PROVE  Fed(r, l, doflush(r, l + 1), 3)
<1> DEFINE q == NET2ADD(r, l + 1)
<1>1. Pend(r) \in Nat /\ Size \in Nat /\ l \in Nat /\ l + 2 \in Nat
  BY PendRange, RingAssumption DEF Filled
<1>2. Fed(r, l, q, 2)
  BY <1>1, NET2ADDFed
<1> HIDE DEF q
<1>3. Filled(q, l + 2) /\ Pend(q) < Size
  BY <1>1, <1>2 DEF Fed
<1>4. Fed(q, l + 2, NETADD(q, (l + 2) + 1), 1)
  BY <1>3, NETADDFed
<1>5. Fed(r, l, NETADD(q, (l + 2) + 1), 2 + 1)
  BY <1>1, <1>2, <1>4, FedTwice
<1>6. doflush(r, l + 1) = NETADD(q, (l + 1) + 2) /\ 2 + 1 = 3 /\ (l + 1) + 2 = (l + 2) + 1
  BY <1>1 DEF doflush, q
<1> QED BY <1>5, <1>6

\* Marking the newest byte; at the bottom the mark gets lost.
LEMMA MarkFilled ==
    ASSUME NEW r, NEW l, Filled(r, l), Pend(r) > 0
    PROVE  /\ Filled(ring_mark(r), l) /\ Pend(ring_mark(r)) = Pend(r)
           /\ MarkNo(ring_mark(r), l) = IF r.supply = 0 THEN 0 ELSE l
           /\ ring_mark(r).supply = r.supply
<1> DEFINE q == ring_mark(r)
<1>1. /\ r \in Rings /\ r.supply \in 0..(Size - 1) /\ r.consume \in 0..(Size - 1)
      /\ Size \in Nat \ {0} /\ Pend(r) \in 0..Size /\ l \in Nat
  BY RingRanges, PendRange, RingAssumption DEF Filled
<1>2. q \in Rings
  BY <1>1, MarkRing
<1>3. Pend(q) = Pend(r) /\ MarkIn(q)
  BY <1>1, MarkPend
<1>4. /\ q.consume = r.consume /\ q.buf = r.buf /\ q.supply = r.supply
      /\ q.mark = ring_decrement(r.supply, 1)
  BY <1>1 DEF ring_mark, Rings
<1> HIDE DEF q
<1>5. Filled(q, l)
  BY <1>2, <1>3, <1>4 DEF Filled
<1>6. CASE r.supply = 0
  <2>1. q.mark \notin Slots
    BY <1>1, <1>4, <1>6 DEF ring_decrement, Slots
  <2> QED BY <1>3, <1>4, <1>5, <1>6, <2>1 DEF MarkNo, q
<1>7. CASE r.supply # 0
  <2>1. q.mark = r.supply - 1 /\ q.mark \in Slots
    BY <1>1, <1>4, <1>7 DEF ring_decrement, Slots
  <2>2. ring_subtract(r.supply - 1, r.consume) = Pend(r) - 1
    BY <1>1, <1>7 DEF Pend, ring_full, ring_subtract
  <2>3. l - Pend(r) + 1 + (Pend(r) - 1) = l
    BY <1>1
  <2>4. MarkNo(q, l) = l
    BY <1>3, <1>4, <2>1, <2>2, <2>3 DEF MarkNo
  <2> QED BY <1>3, <1>4, <1>5, <1>7, <2>4 DEF q
<1> QED BY <1>6, <1>7

\* The two of dosynch().
LEMMA dosynchFed ==
    ASSUME NEW r, NEW l, Filled(r, l), Pend(r) + 2 <= Size
    PROVE  FedUrgent(r, l, dosynch(r, l + 1), 2)
<1> DEFINE q == NETADD(r, l + 1)
           m == ring_mark(q)
           p == NETADD(m, (l + 1) + 1)
<1>1. Pend(r) \in Nat /\ Size \in Nat /\ l \in Nat /\ l + 1 \in Nat
  BY PendRange, RingAssumption DEF Filled
<1>2. Filled(q, l + 1) /\ Pend(q) = Pend(r) + 1
  BY <1>1, NETADDFed DEF Fed
<1> HIDE DEF q
<1>3. /\ Filled(m, l + 1) /\ Pend(m) = Pend(r) + 1 /\ m.supply = q.supply
      /\ MarkNo(m, l + 1) = IF q.supply = 0 THEN 0 ELSE l + 1
  BY <1>1, <1>2, MarkFilled
<1> HIDE DEF m
<1>4. Fed(m, l + 1, p, 1)
  BY <1>1, <1>3, NETADDFed
<1>8. p.supply = 1 <=> q.supply = 0
  <2>1. m \in Rings /\ m.supply \in 0..(Size - 1) /\ Size >= 2
    BY <1>1, <1>3, RingRanges DEF Filled
  <2>2. p.supply = ring_increment(m.supply, 1)
    BY <2>1 DEF NETADD, ring_supplied, Rings
  <2> QED BY <1>1, <1>3, <2>1, <2>2 DEF ring_increment, top
<1> HIDE DEF p
<1>5. /\ Filled(p, (l + 1) + 1) /\ Pend(p) = (Pend(r) + 1) + 1
      /\ MarkNo(p, (l + 1) + 1) = IF p.supply = 1 THEN 0 ELSE l + 1
  BY <1>3, <1>4, <1>8 DEF Fed
<1>6. (l + 1) + 1 = l + 2 /\ (Pend(r) + 1) + 1 = Pend(r) + 2 /\ (l + 2) - 1 = l + 1
  BY <1>1
<1>7. dosynch(r, l + 1) = p
  BY DEF dosynch, q, m, p
<1> QED BY <1>5, <1>6, <1>7 DEF FedUrgent

\* intp() and its like.
LEMMA intpFed ==
    ASSUME NEW r, NEW l, Filled(r, l), NEW f \in BOOLEAN, NEW s \in BOOLEAN,
           Pend(r) + IntpLen(f, s) <= Size
    PROVE  \/ Fed(r, l, intp(r, l + 1, f, s), IntpLen(f, s))
           \/ FedUrgent(r, l, intp(r, l + 1, f, s), IntpLen(f, s))
<1> DEFINE ip == NET2ADD(r, l + 1)
           fl == IF f THEN doflush(ip, (l + 2) + 1) ELSE ip
           nf == IF f THEN 3 ELSE 0
           ns == IF s THEN 2 ELSE 0
<1>1. Pend(r) \in Nat /\ Size \in Nat /\ l \in Nat
  BY PendRange, RingAssumption DEF Filled
<1>2. IntpLen(f, s) = (2 + nf) + ns /\ nf \in Nat /\ ns \in Nat
  BY DEF IntpLen
<1>3. Pend(r) + 2 + nf + ns <= Size
  BY <1>1, <1>2
<1>4. Fed(r, l, ip, 2)
  BY <1>1, <1>2, <1>3, NET2ADDFed
<1> HIDE DEF ip
<1>5. Fed(r, l, fl, 2 + nf)
  <2>1. CASE f
    <3>1. Filled(ip, l + 2) /\ Pend(ip) + 3 <= Size
      BY <1>1, <1>2, <1>3, <1>4, <2>1 DEF Fed
    <3>2. Fed(ip, l + 2, fl, 3)
      BY <2>1, <3>1, doflushFed
    <3> HIDE DEF fl
    <3>3. Fed(r, l, fl, 2 + 3)
      BY <1>1, <1>4, <3>2, FedTwice
    <3> QED BY <2>1, <3>3
  <2>2. CASE ~f
    BY <1>4, <2>2
  <2> QED BY <2>1, <2>2
<1>6. intp(r, l + 1, f, s) = IF s THEN dosynch(fl, (l + (2 + nf)) + 1) ELSE fl
  <2>1. (l + 1) + 2 = (l + 2) + 1 /\ (l + 1) + 5 = (l + (2 + 3)) + 1
        /\ (l + 1) + 2 = (l + (2 + 0)) + 1
    BY <1>1
  <2> QED BY <2>1 DEF intp, ip
<1> HIDE DEF fl
<1>7. CASE s
  <2>1. ns = 2
    BY <1>7
  <2> HIDE DEF nf, ns
  <2>2. Filled(fl, l + (2 + nf)) /\ Pend(fl) = Pend(r) + (2 + nf)
    BY <1>5 DEF Fed
  <2>3. Pend(fl) + 2 <= Size
    BY <1>1, <1>2, <1>3, <2>1, <2>2
  <2> DEFINE p == dosynch(fl, (l + (2 + nf)) + 1)
  <2>4. FedUrgent(fl, l + (2 + nf), p, 2)
    BY <2>2, <2>3, dosynchFed
  <2> HIDE DEF p
  <2>5. (l + (2 + nf)) + 2 = l + ((2 + nf) + 2) /\ (2 + nf) + 2 > 1
        /\ Pend(r) + (2 + nf) + 2 = Pend(r) + ((2 + nf) + 2)
    BY <1>1, <1>2
  <2>6. FedUrgent(r, l, p, (2 + nf) + 2)
    <3>1. /\ Filled(p, (l + (2 + nf)) + 2) /\ Pend(p) = Pend(fl) + 2
          /\ MarkNo(p, (l + (2 + nf)) + 2)
               = IF p.supply = 1 THEN 0 ELSE ((l + (2 + nf)) + 2) - 1
      BY <2>4 DEF FedUrgent
    <3>2. Filled(p, l + ((2 + nf) + 2)) /\ Pend(p) = Pend(r) + ((2 + nf) + 2)
      BY <2>2, <2>5, <3>1
    <3>3. MarkNo(p, l + ((2 + nf) + 2))
            = IF p.supply = 1 THEN 0 ELSE (l + ((2 + nf) + 2)) - 1
      BY <2>5, <3>1
    <3> QED BY <2>5, <3>2, <3>3 DEF FedUrgent
  <2> QED BY <1>2, <1>6, <1>7, <2>1, <2>6 DEF p
<1>8. CASE ~s
  <2>1. ns = 0 /\ (2 + nf) + 0 = 2 + nf
    BY <1>8
  <2> HIDE DEF nf, ns
  <2> QED BY <1>2, <1>5, <1>6, <1>8, <2>1
<1> QED BY <1>7, <1>8

\* A turn of ring_supply_data()'s loop.
LEMMA ChunkFed ==
    ASSUME NEW r, NEW l, Filled(r, l), NEW n \in Nat, n > 0, Pend(r) < Size
    PROVE  /\ ChunkLen(r, n) \in 1..n
           /\ Fed(r, l, Chunk(r, l + 1, n), ChunkLen(r, n))
<1> DEFINE i == ChunkLen(r, n)
<1>1. /\ r \in Rings /\ r.supply \in 0..(Size - 1)
      /\ Size \in Nat \ {0} /\ Pend(r) \in 0..Size /\ l \in Nat
  BY RingRanges, PendRange, RingAssumption DEF Filled
<1>2. /\ ring_empty_consecutive(r) \in Int /\ ring_empty_consecutive(r) > 0
      /\ ring_empty_consecutive(r) <= Size - Pend(r)
      /\ r.supply + ring_empty_consecutive(r) <= Size
  BY <1>1, CountsInside, EmptyCounts
<1>3. i \in 1..n /\ i \in 1..(Size - Pend(r)) /\ r.supply + i <= Size
  BY <1>1, <1>2 DEF ChunkLen, Least
<1> HIDE DEF i
<1>4. Fed(r, l, ring_supplied(Write(r, l + 1, i), i), i)
  BY <1>3, SupplyFilled
<1> QED BY <1>3, <1>4 DEF Chunk, i

\* When the first turn has not copied all there is room for, the second does.
LEMMA SecondTurn ==
    ASSUME NEW r \in Rings, NEW b \in Nat, NEW n \in Nat, n > 0, Pend(r) + n <= Size,
           ChunkLen(r, n) # n
    PROVE  LET i == ChunkLen(r, n) IN ChunkLen(Chunk(r, b, n), n - i) = n - i
<1> DEFINE i == ChunkLen(r, n)
           q == Chunk(r, b, n)
<1>1. /\ r.supply \in 0..(Size - 1) /\ r.consume \in 0..(Size - 1) /\ r.newer \in BOOLEAN
      /\ Size \in Nat \ {0} /\ Pend(r) \in 0..Size
  BY RingRanges, RingFields, PendRange, RingAssumption
<1>2. /\ ring_empty_consecutive(r) \in Int /\ ring_empty_consecutive(r) > 0
      /\ ring_empty_consecutive(r) <= Size - Pend(r)
      /\ r.supply + ring_empty_consecutive(r) <= Size
  BY <1>1, CountsInside, EmptyCounts
<1>3. i = ring_empty_consecutive(r) /\ i < n /\ i \in Nat
  BY <1>1, <1>2 DEF ChunkLen, Least
<1>4. q.consume = r.consume /\ q.newer /\ q.supply = ring_increment(r.supply, i)
  BY DEF Chunk, ring_supplied, Write, Rings
<1> HIDE DEF i, q
<1>5. i = Size - r.supply /\ (r.consume < r.supply \/ ring_empty(r))
  <2>1. ~(r.consume < r.supply \/ ring_empty(r)) => i = Size - Pend(r)
    BY <1>1, <1>2, <1>3
       DEF ring_empty_consecutive, ring_subtract, ring_empty, Pend, ring_full
  <2>2. r.consume < r.supply \/ ring_empty(r)
    BY <1>1, <1>3, <2>1
  <2>3. ring_empty_consecutive(r) = Size - r.supply
    BY <1>1, <2>2 DEF ring_empty_consecutive, ring_subtract
  <2> QED BY <1>3, <2>2, <2>3
<1>6. q.supply = 0
  BY <1>1, <1>4, <1>5 DEF ring_increment
<1>7. n - i <= r.consume
  BY <1>1, <1>3, <1>5 DEF Pend, ring_full, ring_empty, ring_subtract
<1>8. ring_empty_consecutive(q) = r.consume
  BY <1>1, <1>3, <1>4, <1>6, <1>7 DEF ring_empty_consecutive, ring_subtract, ring_empty
<1>9. ChunkLen(q, n - i) = n - i
  BY <1>1, <1>3, <1>7, <1>8 DEF ChunkLen, Least
<1> QED BY <1>9 DEF i, q

\* ring_supply_data().
LEMMA SupplyDataFed ==
    ASSUME NEW r, NEW l, Filled(r, l), NEW n \in Nat, n > 0, Pend(r) + n <= Size
    PROVE  Fed(r, l, ring_supply_data(r, l + 1, n), n)
<1> DEFINE i == ChunkLen(r, n)
           q == Chunk(r, l + 1, n)
           p == Chunk(q, (l + i) + 1, n - i)
<1>1. /\ r \in Rings /\ Pend(r) \in Nat /\ Size \in Nat /\ l \in Nat /\ l + 1 \in Nat
      /\ Pend(r) < Size
  BY PendRange, RingAssumption DEF Filled
<1>2. i \in 1..n /\ Fed(r, l, q, i)
  BY <1>1, ChunkFed
<1>3. i # n => ChunkLen(q, n - i) = n - i
  BY <1>1, SecondTurn
<1>4. ring_supply_data(r, l + 1, n) = IF i = n THEN q ELSE Chunk(q, (l + 1) + i, n - i)
  BY DEF ring_supply_data
<1> HIDE DEF i, q
<1>5. i \in Nat /\ (l + 1) + i = (l + i) + 1 /\ i <= n
  BY <1>1, <1>2
<1>6. CASE i = n
  BY <1>2, <1>4, <1>6
<1>7. CASE i # n
  <2>1. n - i \in Nat /\ n - i > 0 /\ Filled(q, l + i) /\ Pend(q) < Size
    BY <1>1, <1>2, <1>5, <1>7 DEF Fed
  <2>2. Fed(q, l + i, p, n - i)
    BY <1>3, <1>7, <2>1, ChunkFed
  <2> HIDE DEF p
  <2>3. Fed(r, l, p, i + (n - i))
    BY <1>1, <1>2, <1>5, <2>1, <2>2, FedTwice
  <2>4. i + (n - i) = n
    BY <1>5
  <2> QED BY <1>4, <1>5, <1>7, <2>3, <2>4 DEF p
<1> QED BY <1>6, <1>7

\* What a handler leaves, when what it adds fits.
LEMMA HandledFed ==
    ASSUME NEW r, NEW l, Filled(r, l), NEW h \in Handled(r, l + 1),
           Pend(r) + h.len <= Size
    PROVE  Fed(r, l, h.ring, h.len) \/ FedUrgent(r, l, h.ring, h.len)
<1>1. CASE \E f, s \in BOOLEAN :
              h = [ring |-> intp(r, l + 1, f, s), len |-> IntpLen(f, s)]
  BY <1>1, intpFed
<1>2. CASE \E n \in SubLens : h = [ring |-> ring_supply_data(r, l + 1, n), len |-> n]
  <2>1. PICK n \in SubLens : h = [ring |-> ring_supply_data(r, l + 1, n), len |-> n]
    BY <1>2
  <2>2. n \in Nat /\ n > 0 /\ Pend(r) + n <= Size
    BY <2>1, RingAssumption
  <2> QED BY <2>1, <2>2, SupplyDataFed
<1> QED BY <1>1, <1>2 DEF Handled

\* After ring_consumed() the rest is in order, and the mark is gone if it was
\* on one of the bytes that left.
LEMMA ConsumedFilled ==
    ASSUME NEW r, NEW l, Filled(r, l), NEW k \in 1..Pend(r)
    PROVE  /\ Filled(ring_consumed(r, k), l) /\ Pend(ring_consumed(r, k)) = Pend(r) - k
           /\ MarkNo(ring_consumed(r, k), l) =
                IF r.mark \in Slots /\ ring_subtract(r.mark, r.consume) < k
                THEN 0 ELSE MarkNo(r, l)
<1> DEFINE a == Advance(r, k)
           q == ring_consumed(r, k)
           d == ring_subtract(r.mark, r.consume)
<1>1. /\ r \in Rings /\ r.supply \in 0..(Size - 1) /\ r.consume \in 0..(Size - 1)
      /\ Size \in Nat \ {0} /\ Pend(r) \in 0..Size /\ l \in Nat /\ Pend(r) <= l
      /\ k \in Nat /\ k > 0 /\ k <= Pend(r) /\ MarkIn(r)
      /\ r.mark \in Slots \cup {NULL, Stray}
  BY RingRanges, RingFields, PendRange, RingAssumption DEF Filled
<1>2. /\ a.consume = ring_increment(r.consume, k) /\ a.supply = r.supply
      /\ a.newer = FALSE /\ a.buf = r.buf
      /\ a.mark = IF r.mark # NULL /\ d < k THEN NULL ELSE r.mark
  BY <1>1 DEF Advance, Rings
<1>3. a \in Rings /\ q \in Rings
  <2>1. k \in 0..Size
    BY <1>1
  <2> QED BY <1>1, <2>1, AdvanceRing, ConsumedRing
<1>4. q = IF ring_empty(a) THEN Rewind(a) ELSE a
  BY <1>1 DEF ring_consumed
<1>5. MarkIn(q)
  BY <1>1, ConsumedMark
<1> HIDE DEF a, q, d
<1>6. Pend(a) = Pend(r) - k
  <2>1. Pend(a) = ring_subtract(r.supply, ring_increment(r.consume, k))
    BY <1>2 DEF Pend, ring_full
  <2>2. CASE ring_full(r)
    <3>1. Pend(r) = Size /\ r.supply = r.consume
      BY <2>2 DEF Pend, ring_full
    <3> QED BY <1>1, <2>1, <3>1 DEF ring_subtract, ring_increment
  <2>3. CASE ~ring_full(r)
    <3>1. Pend(r) = ring_subtract(r.supply, r.consume)
      BY <2>3 DEF Pend
    <3> QED BY <1>1, <2>1, <3>1, DistanceShrinks
  <2> QED BY <2>2, <2>3
<1>7. ring_empty(a) <=> Pend(a) = 0
  <2>1. a.supply \in 0..(Size - 1) /\ a.consume \in 0..(Size - 1)
    BY <1>3, RingRanges
  <2> QED BY <1>1, <1>2, <2>1 DEF ring_empty, Pend, ring_full, ring_subtract
<1>8. q.mark = a.mark /\ Pend(q) = Pend(r) - k
  <2>1. CASE ring_empty(a)
    <3>1. q = Rewind(a)
      BY <1>4, <2>1
    <3>2. q.mark = a.mark /\ q.newer = FALSE /\ q.supply = 0 /\ q.consume = 0
      BY <1>2, <1>3, <3>1 DEF Rewind, Rings
    <3>3. Pend(q) = 0
      BY <1>1, <3>2 DEF Pend, ring_full, ring_subtract
    <3> QED BY <1>6, <1>7, <2>1, <3>2, <3>3
  <2>2. CASE ~ring_empty(a)
    BY <1>4, <1>6, <2>2
  <2> QED BY <2>1, <2>2
<1>9. ASSUME NEW i \in 1..(Pend(r) - k)
      PROVE  q.buf[ring_increment(q.consume, i - 1)] = l - (Pend(r) - k) + i
  <2>1. /\ i \in Nat /\ i - 1 \in Nat /\ Pend(a) # 0 /\ k + i \in 1..Pend(r)
        /\ i - 1 + k < Size
    BY <1>1, <1>6
  <2>2. q = a
    BY <1>4, <1>7, <2>1
  <2>3. ring_increment(q.consume, i - 1) = ring_increment(r.consume, (k + i) - 1)
    BY <1>1, <1>2, <2>1, <2>2 DEF ring_increment
  <2>4. r.buf[ring_increment(r.consume, (k + i) - 1)] = l - Pend(r) + (k + i)
    BY <2>1 DEF Filled
  <2>5. l - Pend(r) + (k + i) = l - (Pend(r) - k) + i
    BY <1>1, <2>1
  <2> QED BY <1>2, <2>2, <2>3, <2>4, <2>5
<1>10. Filled(q, l)
  <2>1. Pend(q) <= l
    BY <1>1, <1>8
  <2> QED BY <1>1, <1>3, <1>5, <1>8, <1>9, <2>1 DEF Filled
<1>11. MarkNo(q, l) = IF r.mark \in Slots /\ d < k THEN 0 ELSE MarkNo(r, l)
  <2>0. NULL \notin Slots /\ Stray \notin Slots
    BY RingAssumption DEF NULL, Stray, Slots
  <2>1. CASE r.mark \notin Slots
    <3>1. q.mark \notin Slots
      BY <1>2, <1>8, <2>0, <2>1
    <3> QED BY <2>1, <3>1 DEF MarkNo
  <2>2. CASE r.mark \in Slots /\ d < k
    <3>1. q.mark = NULL
      BY <1>2, <1>8, <2>0, <2>2
    <3> QED BY <2>0, <2>2, <3>1 DEF MarkNo
  <2>3. CASE r.mark \in Slots /\ ~(d < k)
    <3>1. q.mark = r.mark /\ r.mark # NULL /\ r.mark \in 0..(Size - 1)
      BY <1>2, <1>8, <2>0, <2>3 DEF Slots
    <3>2. d \in Nat /\ d < Pend(r)
      BY <1>1, <2>3, <3>1 DEF d, ring_subtract, MarkIn
    <3>3. Pend(a) # 0 /\ k <= d
      BY <1>1, <1>6, <2>3, <3>2
    <3>4. q = a
      BY <1>4, <1>7, <3>3
    <3>5. ring_subtract(q.mark, q.consume) = d - k
      BY <1>1, <1>2, <3>1, <3>2, <3>3, <3>4, DistanceShrinks DEF d
    <3>6. l - (Pend(r) - k) + 1 + (d - k) = l - Pend(r) + 1 + d
      BY <1>1, <3>2
    <3>7. MarkNo(q, l) = l - (Pend(r) - k) + 1 + (d - k)
      BY <1>8, <2>3, <3>1, <3>5 DEF MarkNo
    <3>8. MarkNo(r, l) = l - Pend(r) + 1 + d
      BY <2>3 DEF MarkNo, d
    <3> QED BY <2>3, <3>6, <3>7, <3>8
  <2> QED BY <2>1, <2>2, <2>3
<1> QED BY <1>8, <1>10, <1>11 DEF q, d

\* The newest n bytes as a sequence.
LEMMA NewestSeq ==
    ASSUME NEW n \in Nat, NEW l \in Nat, n <= l
    PROVE  /\ Newest(n, l) \in Seq(Nat) /\ Len(Newest(n, l)) = n
           /\ \A i \in 1..n : Newest(n, l)[i] = l - n + i
<1>1. \A i \in 1..n : l - n + i \in Nat
  OBVIOUS
<1> QED BY <1>1 DEF Newest

\* Bytes that follow are the newest with those before them.
LEMMA NewestJoined ==
    ASSUME NEW n \in Nat, NEW l \in Nat, n <= l, NEW k \in Nat
    PROVE  Newest(n, l) \o [i \in 1..k |-> l + i] = Newest(n + k, l + k)
<1> DEFINE s == Newest(n, l)
           t == [i \in 1..k |-> l + i]
           u == Newest(n + k, l + k)
<1>1. s \in Seq(Nat) /\ Len(s) = n /\ \A i \in 1..n : s[i] = l - n + i
  BY NewestSeq
<1>2. t \in Seq(Nat) /\ Len(t) = k /\ \A i \in 1..k : t[i] = l + i
  <2>1. \A i \in 1..k : l + i \in Nat
    OBVIOUS
  <2> QED BY <2>1
<1>3. /\ u \in Seq(Nat) /\ Len(u) = n + k
      /\ \A i \in 1..(n + k) : u[i] = (l + k) - (n + k) + i
  <2>1. n + k \in Nat /\ l + k \in Nat /\ n + k <= l + k
    OBVIOUS
  <2> QED BY <2>1, NewestSeq
<1> HIDE DEF s, t, u
<1>4. /\ s \o t \in Seq(Nat) /\ Len(s \o t) = n + k
      /\ \A i \in 1..(n + k) : (s \o t)[i] = IF i <= n THEN s[i] ELSE t[i - n]
  BY <1>1, <1>2, ConcatProperties
<1>5. ASSUME NEW i \in 1..(n + k) PROVE (s \o t)[i] = u[i]
  <2>1. CASE i <= n
    BY <1>1, <1>3, <1>4, <2>1
  <2>2. CASE i > n
    <3>1. i - n \in 1..k /\ l + (i - n) = (l + k) - (n + k) + i
      BY <2>2
    <3>2. (s \o t)[i] = t[i - n]
      BY <1>4, <2>2
    <3> QED BY <1>2, <1>3, <3>1, <3>2
  <2>3. i <= n \/ i > n
    OBVIOUS
  <2> QED BY <2>1, <2>2, <2>3
<1>6. s \o t = u
  BY <1>3, <1>4, <1>5, SeqEqual
<1> QED BY <1>6 DEF s, t, u

\* The first k of the newest n and the rest.
LEMMA NewestSplit ==
    ASSUME NEW n \in Nat, NEW l \in Nat, n <= l, NEW k \in 1..n
    PROVE  /\ SubSeq(Newest(n, l), 1, k) = [i \in 1..k |-> l - n + i]
           /\ SubSeq(Newest(n, l), k + 1, n) = Newest(n - k, l)
<1> DEFINE s == Newest(n, l)
           t == [i \in 1..k |-> l - n + i]
           u == Newest(n - k, l)
<1>1. s \in Seq(Nat) /\ Len(s) = n /\ \A i \in 1..n : s[i] = l - n + i
  BY NewestSeq
<1>2. t \in Seq(Nat) /\ Len(t) = k /\ \A i \in 1..k : t[i] = l - n + i
  <2>1. \A i \in 1..k : l - n + i \in Nat
    OBVIOUS
  <2> QED BY <2>1
<1>3. /\ u \in Seq(Nat) /\ Len(u) = n - k
      /\ \A i \in 1..(n - k) : u[i] = l - (n - k) + i
  <2>1. n - k \in Nat /\ n - k <= l
    OBVIOUS
  <2> QED BY <2>1, NewestSeq
<1> HIDE DEF s, t, u
<1>4. /\ SubSeq(s, 1, k) \in Seq(Nat) /\ Len(SubSeq(s, 1, k)) = k
      /\ \A i \in 1..k : SubSeq(s, 1, k)[i] = s[i]
  <2>1. \A i \in 1..k : s[i] \in Nat
    BY <1>1
  <2> QED BY <2>1, SubSeqProperties
<1>5. SubSeq(s, 1, k) = t
  <2>1. \A i \in 1..k : SubSeq(s, 1, k)[i] = t[i]
    BY <1>1, <1>2, <1>4
  <2> QED BY <1>2, <1>4, <2>1, SeqEqual
<1>6. /\ SubSeq(s, k + 1, n) \in Seq(Nat) /\ Len(SubSeq(s, k + 1, n)) = n - k
      /\ \A i \in 1..(n - k) : SubSeq(s, k + 1, n)[i] = s[k + i]
  <2>1. \A i \in (k + 1)..n : s[i] \in Nat
    BY <1>1
  <2>2. k + 1 \in Int /\ n \in Int /\ n - (k + 1) + 1 = n - k
    OBVIOUS
  <2>3. \A i \in 1..(n - k) : (k + 1) + i - 1 = k + i
    OBVIOUS
  <2> QED BY <2>1, <2>2, <2>3, SubSeqProperties
<1>7. SubSeq(s, k + 1, n) = u
  <2>1. \A i \in 1..(n - k) : SubSeq(s, k + 1, n)[i] = u[i]
    BY <1>1, <1>3, <1>6
  <2> QED BY <1>3, <1>6, <2>1, SeqEqual
<1> QED BY <1>5, <1>7 DEF s, t, u

\* The first of the newest n.
LEMMA NewestFirst ==
    ASSUME NEW n \in Nat, NEW l \in Nat, n <= l, n > 0
    PROVE  /\ Newest(n, l) # <<>> /\ Head(Newest(n, l)) = l - n + 1
           /\ Tail(Newest(n, l)) = Newest(n - 1, l)
<1> DEFINE s == Newest(n, l)
<1>1. s \in Seq(Nat) /\ Len(s) = n /\ \A i \in 1..n : s[i] = l - n + i
  BY NewestSeq
<1>2. SubSeq(s, 1 + 1, n) = Newest(n - 1, l)
  <2>1. 1 \in 1..n
    OBVIOUS
  <2> QED BY <2>1, NewestSplit
<1> HIDE DEF s
<1>3. s # <<>>
  BY <1>1
<1>4. Tail(s) = SubSeq(s, 2, Len(s))
  BY <1>1, <1>3, TailIsSubSeq
<1>5. Head(s) = s[1]
  BY <1>1, <1>3
<1> QED BY SMTT(30), <1>1, <1>2, <1>3, <1>4, <1>5 DEF s

\* What RingQueue sees of the ring, now and after a step.
LEMMA Seen ==
    /\ Contents = ContentsOf(ring) /\ Marked = MarkedOf(ring)
    /\ Contents' = ContentsOf(ring') /\ Marked' = MarkedOf(ring')
BY DEF Contents, Marked, ContentsOf, MarkedOf, Pending, Pend

\* The same of a ring in order.
LEMMA SeenFilled ==
    /\ Filled(ring, last) =>
          Contents = Newest(Pend(ring), last) /\ Marked = MarkNo(ring, last)
    /\ Filled(ring', last') =>
          Contents' = Newest(Pend(ring'), last') /\ Marked' = MarkNo(ring', last')
BY Seen, FilledContents

\* What an addition does to the queue.
LEMMA AddedStep ==
    ASSUME IInv, FillInv, NEW r, NEW n \in Nat, n > 0, Added(r, n),
           Filled(ring, last) /\ Pend(ring) + n <= Size =>
              Fed(ring, last, r, n) \/ FedUrgent(ring, last, r, n)
    PROVE  FillInv' /\ Queue!Next
<1>1. /\ ring \in Rings /\ last \in Nat /\ last' = last + n /\ last' \in Nat
      /\ Pend(ring) \in 0..Size /\ Size \in Nat /\ last' - last = n /\ last' > last
  BY PendRange, RingAssumption DEF IInv, Added
<1>2. ring_empty_count(ring) = Size - Pend(ring)
  BY <1>1, EmptyCounts
<1>3. CASE health # "whole"
  <2>1. health' # "whole"
    BY <1>3 DEF Added
  <2> QED BY <1>3, <2>1 DEF FillInv, Queue!Next, Queue!NoPromise
<1>4. CASE health = "whole" /\ n > ring_empty_count(ring)
  <2>1. health' = "overrun"
    BY <1>4 DEF Added
  <2>2. Filled(ring, last)
    BY <1>4 DEF FillInv
  <2>3. Len(Contents) = Pend(ring)
    BY <1>1, <2>2, SeenFilled, NewestSeq DEF Filled
  <2>4. Queue!Overrun
    BY <1>1, <1>2, <1>4, <2>1, <2>3 DEF Queue!Overrun
  <2> QED BY <2>1, <2>4 DEF FillInv, Queue!Next
<1>5. CASE health = "whole" /\ ~(n > ring_empty_count(ring))
  <2>1. health' = "whole" /\ health' = health
    BY <1>5 DEF Added
  <2>2. ring' = r /\ wire' = <<>> /\ oob' = FALSE
    BY <2>1 DEF Added, Becomes
  <2>3. Filled(ring, last) /\ Pend(ring) + n <= Size /\ Pend(ring) <= last
    BY <1>1, <1>2, <1>5 DEF FillInv, Filled
  <2>4. Filled(ring', last') /\ Pend(ring') = Pend(ring) + n
    BY <1>1, <2>2, <2>3 DEF Fed, FedUrgent
  <2>5. FillInv'
    BY <2>4 DEF FillInv, Filled, MarkIn, Pend, ring_full
  <2>6. Contents = Newest(Pend(ring), last) /\ Contents' = Newest(Pend(ring) + n, last + n)
    BY <1>1, <2>3, <2>4, SeenFilled
  <2>7. Contents' = Contents \o [i \in 1..n |-> last + i] /\ Len(Contents) = Pend(ring)
    <3>1. Pend(ring) \in Nat
      BY <1>1
    <3>2. Newest(Pend(ring), last) \o [i \in 1..n |-> last + i]
            = Newest(Pend(ring) + n, last + n)
      BY <1>1, <2>3, <3>1, NewestJoined
    <3>3. Len(Newest(Pend(ring), last)) = Pend(ring)
      BY <1>1, <2>3, <3>1, NewestSeq
    <3> QED BY <2>6, <3>2, <3>3
  <2>8. Queue!Accept(n)
    BY <1>1, <2>1, <2>2, <2>3, <2>7 DEF Queue!Accept, Queue!New, Queue!Quiet
  <2>9. CASE Fed(ring, last, r, n)
    <3>1. Marked' = Marked
      BY <1>1, <2>2, <2>3, <2>4, <2>9, SeenFilled DEF Fed
    <3> QED BY <1>1, <2>5, <2>8, <3>1 DEF Queue!Put, Queue!Next
  <2>10. CASE FedUrgent(ring, last, r, n)
    <3>1. Marked' = (IF ring'.supply = 1 THEN 0 ELSE last' - 1) /\ last' > last + 1
      BY <1>1, <2>2, <2>4, <2>10, SeenFilled DEF FedUrgent
    <3> QED BY <1>1, <2>5, <2>8, <3>1 DEF Queue!PutUrgent, Queue!Next
  <2> QED BY <2>3, <2>9, <2>10
<1> QED BY <1>3, <1>4, <1>5

\* Bytes leave that the mark is not on: handed on, or thrown away.
LEMMA TakenStep ==
    ASSUME IInv, FillInv, health = "whole", health' = health, last' = last,
           NEW k \in 1..Pend(ring), ring' = ring_consumed(ring, k),
           ring.mark \in Slots => k <= ring_subtract(ring.mark, ring.consume),
           oob' = FALSE, wire' \in {<<>>, [i \in 1..k |-> last - Pend(ring) + i]}
    PROVE  FillInv' /\ Queue!Next
<1> DEFINE n == Pend(ring)
<1>1. /\ Filled(ring, last) /\ ring \in Rings /\ last \in Nat /\ n \in Nat /\ n <= last
      /\ k \in Nat /\ k <= n
  BY PendRange, RingAssumption DEF FillInv, Filled, IInv
<1>2. Filled(ring', last) /\ Pend(ring') = n - k
  BY <1>1, ConsumedFilled
<1>3. MarkNo(ring', last) = MarkNo(ring, last)
  <2>1. ~(ring.mark \in Slots /\ ring_subtract(ring.mark, ring.consume) < k)
    <3>1. ring.mark \in Slots => ring_subtract(ring.mark, ring.consume) \in Int
      BY <1>1, RingRanges, RingAssumption DEF ring_subtract, Slots
    <3> QED BY <1>1, <3>1
  <2> QED BY <1>1, <2>1, ConsumedFilled
<1>4. FillInv'
  BY <1>2 DEF FillInv, Filled, MarkIn, Pend, ring_full
<1>5. Contents = Newest(n, last) /\ Contents' = Newest(n - k, last) /\ Marked' = Marked
      /\ Marked = MarkNo(ring, last)
  BY <1>1, <1>2, <1>3, SeenFilled
<1> HIDE DEF n
<1>6. Len(Contents) = n /\ \A i \in 1..n : Contents[i] = last - n + i
  BY <1>1, <1>5, NewestSeq
<1>7. /\ Contents' = SubSeq(Contents, k + 1, Len(Contents))
      /\ SubSeq(Contents, 1, k) = [i \in 1..k |-> last - n + i]
  <2>1. k \in 1..n
    BY <1>1
  <2>2. /\ SubSeq(Newest(n, last), 1, k) = [i \in 1..k |-> last - n + i]
        /\ SubSeq(Newest(n, last), k + 1, n) = Newest(n - k, last)
    BY <1>1, <2>1, NewestSplit
  <2> QED BY <1>5, <1>6, <2>2
<1>8. Marked \notin {Contents[i] : i \in 1..k}
  <2> SUFFICES ASSUME NEW i \in 1..k PROVE Marked # Contents[i]
    OBVIOUS
  <2>1. Contents[i] = last - n + i /\ i \in Nat /\ i > 0 /\ i <= k
    BY <1>1, <1>6
  <2>2. CASE ring.mark \in Slots
    <3>1. ring_subtract(ring.mark, ring.consume) \in Int
      BY <1>1, <2>2, RingRanges, RingAssumption DEF ring_subtract, Slots
    <3>2. Marked = last - n + 1 + ring_subtract(ring.mark, ring.consume)
      BY <1>5, <2>2 DEF MarkNo, n
    <3> QED BY <1>1, <2>1, <2>2, <3>1, <3>2
  <2>3. CASE ring.mark \notin Slots
    <3>1. Marked = 0
      BY <1>5, <2>3 DEF MarkNo
    <3> QED BY <1>1, <2>1, <3>1
  <2> QED BY <2>2, <2>3
<1>9. Queue!Take(k)
  BY <1>5, <1>7, <1>8 DEF Queue!Take
<1>10. k \in 1..Len(Contents)
  BY <1>1, <1>6
<1>11. Queue!Send \/ Queue!Drop
  BY <1>7, <1>9, <1>10 DEF Queue!Send, Queue!Drop, n
<1> QED BY <1>4, <1>11 DEF Queue!Next

\* The marked byte leaves, alone.
LEMMA UrgentStep ==
    ASSUME IInv, FillInv, health = "whole", health' = health, last' = last,
           Pend(ring) > 0, ring.mark = ring.consume, ring' = ring_consumed(ring, 1),
           oob' = TRUE, wire' = [i \in 1..1 |-> last - Pend(ring) + i]
    PROVE  FillInv' /\ Queue!Next
<1> DEFINE n == Pend(ring)
<1>1. /\ Filled(ring, last) /\ ring \in Rings /\ last \in Nat /\ n \in Nat /\ n <= last
      /\ 1 \in 1..n /\ ring.consume \in Slots
  BY PendRange, RingFields, RingAssumption DEF FillInv, Filled, IInv
<1>2. ring_subtract(ring.mark, ring.consume) = 0
  BY <1>1, RingRanges DEF ring_subtract
<1>3. Filled(ring', last) /\ Pend(ring') = n - 1 /\ MarkNo(ring', last) = 0
  BY <1>1, <1>2, ConsumedFilled
<1>4. FillInv'
  BY <1>3 DEF FillInv, Filled, MarkIn, Pend, ring_full
<1>5. MarkNo(ring, last) = last - n + 1
  BY <1>1, <1>2 DEF MarkNo
<1>6. /\ Contents = Newest(n, last) /\ Contents' = Newest(n - 1, last)
      /\ Marked = last - n + 1 /\ Marked' = 0
  BY <1>1, <1>3, <1>5, SeenFilled
<1>7. wire' = <<last - n + 1>>
  BY <1>1
<1> HIDE DEF n
<1>8. Contents # <<>> /\ Head(Contents) = last - n + 1 /\ Contents' = Tail(Contents)
  <2>1. n > 0
    BY <1>1
  <2>2. /\ Newest(n, last) # <<>> /\ Head(Newest(n, last)) = last - n + 1
        /\ Tail(Newest(n, last)) = Newest(n - 1, last)
    BY <1>1, <2>1, NewestFirst
  <2> QED BY <1>6, <2>2
<1>9. Queue!SendUrgent
  BY <1>6, <1>7, <1>8 DEF Queue!SendUrgent
<1> QED BY <1>4, <1>9 DEF Queue!Next

\* Nothing moves, but the mark may be forgotten.
LEMMA QuietStep ==
    ASSUME IInv, FillInv, health' = health, last' = last,
           health = "whole" => /\ ring' \in {ring, ring_clear_mark(ring)}
                               /\ oob' = FALSE /\ wire' = <<>>
    PROVE  FillInv' /\ Queue!Next
<1>1. CASE health # "whole"
  BY <1>1 DEF FillInv, Queue!Next, Queue!NoPromise
<1>2. CASE health = "whole"
  <2>1. Filled(ring, last) /\ ring \in Rings
    BY <1>2 DEF FillInv, Filled
  <2>2. CASE ring' = ring
    <3>1. Contents' = Contents /\ Marked' = Marked /\ FillInv'
      BY <2>1, <2>2, Seen DEF FillInv, Filled, MarkIn, Pend, ring_full
    <3> QED BY <1>2, <2>2, <3>1 DEF Queue!Next, Queue!Forget, Queue!Quiet
  <2>3. CASE ring' = ring_clear_mark(ring)
    <3>1. /\ ring' \in Rings /\ ring'.mark = NULL /\ ring'.buf = ring.buf
          /\ ring'.consume = ring.consume /\ ring'.supply = ring.supply
          /\ ring'.newer = ring.newer
      BY <2>1, <2>3 DEF ring_clear_mark, Rings
    <3>2. Pend(ring') = Pend(ring) /\ ring'.mark \notin Slots /\ MarkIn(ring')
      BY <3>1, RingAssumption DEF Pend, ring_full, NULL, Slots, MarkIn
    <3>3. Filled(ring', last')
      BY <2>1, <3>1, <3>2 DEF Filled
    <3>4. Contents' = Contents /\ Marked' = 0 /\ FillInv'
      <4>1. ContentsOf(ring') = ContentsOf(ring) /\ MarkedOf(ring') = 0
        BY <3>1, <3>2 DEF ContentsOf, MarkedOf
      <4>2. FillInv'
        BY <3>3 DEF FillInv, Filled, MarkIn, Pend, ring_full
      <4> QED BY <4>1, <4>2, Seen
    <3> QED BY <1>2, <3>4 DEF Queue!Next, Queue!Forget, Queue!Quiet
  <2> QED BY <1>2, <2>2, <2>3
<1> QED BY <1>1, <1>2

\* What is read at consume and not past the top are the first bytes waiting.
LEMMA FirstBytes ==
    ASSUME Filled(ring, last), NEW k \in 0..Pend(ring), ring.consume + k <= Size
    PROVE  Bytes(ring.consume, k) = [i \in 1..k |-> last - Pend(ring) + i]
<1>1. /\ ring.consume \in 0..(Size - 1) /\ Size \in Nat /\ Pend(ring) \in 0..Size
      /\ k \in Nat /\ k <= Pend(ring)
  BY RingRanges, PendRange, RingAssumption DEF Filled
<1>2. ASSUME NEW i \in 1..k
      PROVE  ring.buf[ring.consume + i - 1] = last - Pend(ring) + i
  <2>1. i \in 1..Pend(ring) /\ ring_increment(ring.consume, i - 1) = ring.consume + i - 1
    BY <1>1 DEF ring_increment
  <2> QED BY <2>1 DEF Filled
<1> QED BY <1>2 DEF Bytes

\* Those at the bottom follow those up to the top.
LEMMA WrappedBytes ==
    ASSUME Filled(ring, last), NEW k \in Nat, NEW j \in Nat, k + j <= Pend(ring),
           ring.consume + k = Size
    PROVE  Bytes(ring.consume, k) \o Bytes(0, j)
             = [i \in 1..(k + j) |-> last - Pend(ring) + i]
<1> DEFINE b == last - Pend(ring)
           s == [i \in 1..k |-> b + i]
           t == [i \in 1..j |-> (b + k) + i]
<1>1. /\ ring.consume \in 0..(Size - 1) /\ Size \in Nat /\ Pend(ring) \in 0..Size
      /\ k \in 0..Pend(ring) /\ b \in Nat /\ last \in Nat /\ j <= Size
  BY RingRanges, PendRange, RingAssumption DEF Filled
<1>2. Bytes(ring.consume, k) = s
  BY SMTT(30), <1>1, FirstBytes
<1>3. Bytes(0, j) = t
  <2>1. ASSUME NEW i \in 1..j
        PROVE  ring.buf[0 + i - 1] = (b + k) + i
    <3>1. /\ k + i \in 1..Pend(ring)
          /\ ring_increment(ring.consume, (k + i) - 1) = 0 + i - 1
          /\ last - Pend(ring) + (k + i) = (b + k) + i
      BY <1>1 DEF ring_increment
    <3> QED BY <3>1 DEF Filled
  <2> QED BY <2>1 DEF Bytes
<1>4. s = Newest(k, b + k)
  <2>1. \A i \in 1..k : b + i = (b + k) - k + i
    BY <1>1
  <2> QED BY <2>1 DEF Newest
<1>5. Newest(k + j, (b + k) + j) = [i \in 1..(k + j) |-> b + i]
  <2>1. \A i \in 1..(k + j) : b + i = ((b + k) + j) - (k + j) + i
    BY <1>1
  <2> QED BY <2>1 DEF Newest
<1>6. Newest(k, b + k) \o t = Newest(k + j, (b + k) + j)
  <2>1. k \in Nat /\ b + k \in Nat /\ k <= b + k
    BY <1>1
  <2> HIDE DEF b
  <2> QED BY <2>1, NewestJoined
<1> QED BY <1>2, <1>3, <1>4, <1>5, <1>6

\* What can be sent at once stops before the mark.
LEMMA StopsAtMark ==
    ASSUME NEW r \in Rings, r.mark \in Slots, r.mark # r.consume
    PROVE  ring_full_consecutive(r) <= ring_subtract(r.mark, r.consume)
<1>1. /\ r.mark \in 0..(Size - 1) /\ r.consume \in 0..(Size - 1) /\ Size \in Nat \ {0}
      /\ r.mark # NULL
  BY RingRanges, RingAssumption DEF Slots, NULL
<1> QED BY <1>1 DEF ring_full_consecutive, ring_subtract

\* What each step of telnet is to the queue: one step per action.
LEMMA StepIsQueueStep ==
    ASSUME IInv, FillInv, Next
    PROVE  FillInv' /\ Queue!Next
<1>0. /\ ring \in Rings /\ last \in Nat /\ last + 1 \in Nat
      /\ Pend(ring) \in 0..Size /\ Pend(ring) \in Nat /\ Size \in Nat
  BY PendRange, RingAssumption DEF IInv
<1>a. Filled(ring, last) /\ Pend(ring) + 1 <= Size
        => Fed(ring, last, NETADD(ring, last + 1), 1)
  BY <1>0, NETADDFed
<1>b. Filled(ring, last) /\ Pend(ring) + 2 <= Size
        => Fed(ring, last, NET2ADD(ring, last + 1), 2)
  BY NET2ADDFed
<1>d. Filled(ring, last) /\ Pend(ring) + 3 <= Size
        => Fed(ring, last, doflush(ring, last + 1), 3)
  BY doflushFed
<1>s. Filled(ring, last) /\ Pend(ring) + 2 <= Size
        => FedUrgent(ring, last, dosynch(ring, last + 1), 2)
  BY dosynchFed
<1>f. ASSUME health = "whole"
      PROVE  /\ Filled(ring, last) /\ MarkIn(ring)
             /\ ring_full_consecutive(ring) \in Nat
             /\ ring_full_consecutive(ring) <= Pend(ring)
             /\ ring.consume + ring_full_consecutive(ring) <= Size
             /\ ring.consume \in Slots /\ ring.consume \in 0..(Size - 1)
  <2>1. Filled(ring, last) /\ MarkIn(ring)
    BY <1>f DEF FillInv, Filled
  <2>2. /\ ring_full_consecutive(ring) \in 0..(Size - ring.consume)
        /\ ring_full_consecutive(ring) <= Pend(ring)
    BY <1>0, <2>1, CountsInside, FullCounts
  <2>3. ring.consume \in Slots /\ ring.consume \in 0..(Size - 1)
    BY <1>0, RingFields, RingRanges
  <2> QED BY <1>0, <2>1, <2>2, <2>3
<1>n. ASSUME health # "whole", health' = health
      PROVE  FillInv' /\ Queue!Next
  BY <1>n DEF FillInv, Queue!Next, Queue!NoPromise
<1>1. CASE telsnd \/ telrcv
  BY <1>1, <1>a, <1>b, AddedStep DEF telsnd, telrcv
<1>2. CASE TerminalSpecialChars
  <2>1. PICK f, s \in BOOLEAN : Added(intp(ring, last + 1, f, s), IntpLen(f, s))
    BY <1>2 DEF TerminalSpecialChars
  <2>2. IntpLen(f, s) \in Nat /\ IntpLen(f, s) > 0
    BY DEF IntpLen
  <2> QED BY <2>1, <2>2, intpFed, AddedStep
<1>3. CASE sendcmd
  BY <1>3, <1>a, <1>b, <1>d, <1>s, AddedStep DEF sendcmd
<1>4. CASE OptionReply
  BY <1>4, <1>d, AddedStep DEF OptionReply
<1>5. CASE Subnegotiate
  <2>1. PICK n \in SubLens : Added(ring_supply_data(ring, last + 1, n), n)
    BY <1>5 DEF Subnegotiate
  <2>2. n \in Nat /\ n > 0
    BY RingAssumption
  <2> QED BY <2>1, <2>2, SupplyDataFed, AddedStep
<1>6. CASE Signal
  <2>1. PICK h \in Handled(ring, last + 1) : Added(h.ring, h.len)
    BY <1>6 DEF Signal
  <2>2. h.len \in Nat /\ h.len > 0
    <3>1. CASE \E f, s \in BOOLEAN :
                  h = [ring |-> intp(ring, last + 1, f, s), len |-> IntpLen(f, s)]
      BY <3>1 DEF IntpLen
    <3>2. CASE \E n \in SubLens : h = [ring |-> ring_supply_data(ring, last + 1, n), len |-> n]
      BY <3>2, RingAssumption
    <3> QED BY <3>1, <3>2 DEF Handled
  <2> QED BY <2>1, <2>2, HandledFed, AddedStep
<1>7. CASE SignalInNETADD \/ SignalInConsumed
  <2>1. health' = IF health = "whole" THEN "disturbed" ELSE health
    BY <1>7 DEF SignalInNETADD, SignalInConsumed
  <2> QED BY <2>1 DEF FillInv, Queue!Next, Queue!NoPromise, Queue!Disturb
<1>8. CASE netflush
  <2>1. last' = last /\ health' = health
    BY <1>8 DEF netflush
  <2>2. CASE health = "whole"
    <3>1. PICK k \in 1..Sendable :
             Becomes(ring_consumed(ring, k), Bytes(ring.consume, k), ring_at_mark(ring))
      BY <1>8 DEF netflush
    <3>2. /\ ring' = ring_consumed(ring, k) /\ wire' = Bytes(ring.consume, k)
          /\ oob' = (ring_at_mark(ring) /\ health' = "whole")
      BY <2>1, <2>2, <3>1 DEF Becomes
    <3>3. k \in Nat /\ k > 0 /\ k <= ring_full_consecutive(ring)
      BY <1>f, <2>2 DEF Sendable, Least
    <3>4. /\ k \in 1..Pend(ring) /\ k \in 0..Pend(ring) /\ ring.consume + k <= Size
          /\ Pend(ring) > 0
      BY <1>0, <1>f, <2>2, <3>3
    <3>5. wire' = [i \in 1..k |-> last - Pend(ring) + i]
      BY <1>f, <2>2, <3>2, <3>4, FirstBytes
    <3>6. CASE ring.mark = ring.consume
      <4>1. k = 1
        BY <1>f, <2>2, <3>3, <3>6 DEF Sendable, Least, ring_at_mark
      <4>2. oob' = TRUE
        BY <2>1, <2>2, <3>2, <3>6 DEF ring_at_mark
      <4> QED BY <2>1, <2>2, <3>2, <3>4, <3>5, <3>6, <4>1, <4>2, UrgentStep
    <3>7. CASE ring.mark # ring.consume
      <4>1. oob' = FALSE
        BY <3>2, <3>7 DEF ring_at_mark
      <4>2. ring.mark \in Slots => k <= ring_subtract(ring.mark, ring.consume)
        <5>1. ring.mark \in Slots => ring_subtract(ring.mark, ring.consume) \in Int
          BY <1>0, <1>f, <2>2 DEF ring_subtract, Slots
        <5> QED BY <1>0, <1>f, <2>2, <3>3, <3>7, <5>1, StopsAtMark
      <4> QED BY <2>1, <2>2, <3>2, <3>4, <3>5, <4>1, <4>2, TakenStep
    <3> QED BY <3>6, <3>7
  <2> QED BY <1>n, <2>1, <2>2
<1>9. CASE netflushBlocked \/ netflushError
  <2>1. /\ last' = last /\ health' = health
        /\ Becomes(ring, <<>>, FALSE) \/ Becomes(ring_clear_mark(ring), <<>>, FALSE)
    BY <1>9 DEF netflushBlocked, netflushError
  <2>2. health = "whole" => /\ ring' \in {ring, ring_clear_mark(ring)}
                            /\ oob' = FALSE /\ wire' = <<>>
    BY <2>1 DEF Becomes
  <2> QED BY <2>1, <2>2, QuietStep
<1>10. ASSUME use # "netoring"
       PROVE  /\ ring.mark = NULL /\ ring.mark \notin Slots
              /\ ring_full_count(ring) = Pend(ring)
              /\ health = "whole" /\ ring_full_consecutive(ring) < Pend(ring)
                   => ring.consume + ring_full_consecutive(ring) = Size
  <2>1. ring.mark = NULL
    BY <1>10 DEF IInv, Unmarked
  <2>2. ring.mark \notin Slots
    BY <2>1, RingAssumption DEF NULL, Slots
  <2>3. ring_full_count(ring) = Pend(ring)
    BY <2>1 DEF ring_full_count, Pend
  <2>4. /\ ring.supply \in 0..(Size - 1) /\ ring.consume \in 0..(Size - 1)
    BY <1>0, RingRanges
  <2>5. ring_full_consecutive(ring) < Pend(ring)
           => ring.consume + ring_full_consecutive(ring) = Size
    BY <1>0, <2>1, <2>4 DEF ring_full_consecutive, Pend, ring_full, ring_subtract
  <2> QED BY <2>1, <2>2, <2>3, <2>5
<1>11. CASE ttyflush
  <2>1. last' = last /\ health' = health /\ use # "netoring"
    BY <1>11 DEF ttyflush
  <2>2. CASE health = "whole"
    <3> DEFINE n0 == ring_full_count(ring)
               n1 == ring_full_consecutive(ring)
    <3>1. PICK k \in 1..n1, k2 \in 0..(n0 - n1), drop \in BOOLEAN :
             /\ k < n1 => k2 = 0
             /\ Becomes(ring_consumed(ring, k + k2),
                        IF drop THEN <<>> ELSE Bytes(ring.consume, k) \o Bytes(0, k2), FALSE)
      BY <1>11 DEF ttyflush
    <3>2. /\ ring' = ring_consumed(ring, k + k2) /\ oob' = FALSE
          /\ wire' = IF drop THEN <<>> ELSE Bytes(ring.consume, k) \o Bytes(0, k2)
      BY <2>1, <2>2, <3>1 DEF Becomes
    <3>3. n0 = Pend(ring) /\ n1 \in Nat /\ n1 <= n0 /\ ring.consume + n1 <= Size
          /\ (n1 < n0 => ring.consume + n1 = Size)
      BY <1>f, <1>10, <2>1, <2>2
    <3> HIDE DEF n0, n1
    <3>4. /\ k \in Nat /\ k2 \in Nat /\ k + k2 \in 1..Pend(ring) /\ k \in 0..Pend(ring)
          /\ ring.consume + k <= Size
          /\ k2 # 0 => ring.consume + k = Size
      BY SMTT(30), <1>0, <1>f, <2>2, <3>1, <3>3
    <3>5. Bytes(ring.consume, k) \o Bytes(0, k2)
             = [i \in 1..(k + k2) |-> last - Pend(ring) + i]
      <4>1. CASE k2 # 0
        <5>1. k + k2 <= Pend(ring) /\ ring.consume + k = Size
          BY <1>0, <3>4, <4>1
        <5> QED BY <1>f, <2>2, <3>4, <5>1, WrappedBytes
      <4>2. CASE k2 = 0
        <5>1. Bytes(ring.consume, k) = [i \in 1..k |-> last - Pend(ring) + i]
          BY <1>f, <2>2, <3>4, FirstBytes
        <5>2. Bytes(0, k2) = <<>>
          BY <4>2 DEF Bytes
        <5>3. [i \in 1..k |-> last - Pend(ring) + i] \in Seq(Nat)
          <6>1. \A i \in 1..k : last - Pend(ring) + i \in Nat
            BY <1>0, <1>f, <2>2, <3>4 DEF Filled
          <6> QED BY <3>4, <6>1
        <5>4. k + k2 = k
          BY <3>4, <4>2
        <5> QED BY <5>1, <5>2, <5>3, <5>4, ConcatEmptySeq
      <4> QED BY <4>1, <4>2
    <3>6. wire' \in {<<>>, [i \in 1..(k + k2) |-> last - Pend(ring) + i]}
      BY <3>2, <3>5
    <3> QED BY <1>10, <2>1, <2>2, <3>2, <3>4, <3>6, TakenStep
  <2> QED BY <1>n, <2>1, <2>2
<1>12. CASE ttyflushError
  <2>1. last' = last /\ health' = health /\ use # "netoring"
    BY <1>12 DEF ttyflushError
  <2>2. CASE health = "whole"
    <3>1. /\ ring' = ring_consumed(ring, Pend(ring)) /\ oob' = FALSE /\ wire' = <<>>
          /\ ring_full_consecutive(ring) > 0
      BY <1>10, <1>12, <2>1, <2>2 DEF ttyflushError, Becomes
    <3>2. Pend(ring) \in 1..Pend(ring)
      BY <1>0, <1>f, <2>2, <3>1
    <3>3. wire' \in {<<>>, [i \in 1..Pend(ring) |-> last - Pend(ring) + i]}
      BY <3>1
    <3> QED BY <1>10, <2>1, <2>2, <3>1, <3>2, <3>3, TakenStep
  <2> QED BY <1>n, <2>1, <2>2
<1>13. CASE process_rings
  <2> DEFINE canread == ring_empty_consecutive(ring)
  <2>1. PICK c \in Least(1, canread)..canread :
           Added(IF c = 0 THEN ring ELSE ring_supplied(Write(ring, last + 1, c), c), c)
    BY <1>13 DEF process_rings
  <2>2. /\ canread \in Nat /\ canread <= Size - Pend(ring) /\ ring.supply + canread <= Size
        /\ ring.supply \in 0..(Size - 1)
    <3>1. canread \in 0..(Size - ring.supply) /\ ring.supply \in 0..(Size - 1)
      BY <1>0, CountsInside, RingRanges
    <3>2. canread <= Size - Pend(ring)
      BY <1>0, EmptyCounts
    <3> QED BY <1>0, <3>1, <3>2
  <2> HIDE DEF canread
  <2>3. c \in Nat /\ c <= canread
    BY <2>1, <2>2 DEF Least
  <2>4. CASE c = 0
    <3>1. Added(ring, 0)
      BY <2>1, <2>4
    <3>2. /\ last' = last /\ (health = "whole" => health' = "whole")
          /\ (health # "whole" => health' = health)
      <4>1. ~(0 > ring_empty_count(ring))
        BY <1>0, EmptyCounts
      <4> QED BY <1>0, <3>1, <4>1 DEF Added
    <3>3. health = "whole" => ring' = ring /\ oob' = FALSE /\ wire' = <<>>
      BY <3>1, <3>2 DEF Added, Becomes
    <3> QED BY <3>2, <3>3, QuietStep
  <2>5. CASE c # 0
    <3>1. Added(ring_supplied(Write(ring, last + 1, c), c), c) /\ c > 0
      BY <2>1, <2>3, <2>5
    <3>2. c \in 1..(Size - Pend(ring)) /\ ring.supply + c <= Size
      BY <1>0, <2>2, <2>3, <3>1
    <3>3. Filled(ring, last) => Fed(ring, last, ring_supplied(Write(ring, last + 1, c), c), c)
      BY <3>2, SupplyFilled
    <3> QED BY <2>3, <3>1, <3>3, AddedStep
  <2> QED BY <2>4, <2>5
<1>14. CASE Process
  <2>1. last' = last /\ health' = health /\ use # "netoring"
    BY <1>14 DEF Process
  <2>2. CASE health = "whole"
    <3>1. PICK k \in 1..ring_full_consecutive(ring) :
             Becomes(ring_consumed(ring, k), Bytes(ring.consume, k), FALSE)
      BY <1>14 DEF Process
    <3>2. ring' = ring_consumed(ring, k) /\ wire' = Bytes(ring.consume, k) /\ oob' = FALSE
      BY <2>1, <2>2, <3>1 DEF Becomes
    <3>3. k \in 1..Pend(ring) /\ k \in 0..Pend(ring) /\ ring.consume + k <= Size
      BY <1>0, <1>f, <2>2
    <3>4. wire' = [i \in 1..k |-> last - Pend(ring) + i]
      BY <1>f, <2>2, <3>2, <3>3, FirstBytes
    <3> QED BY <1>10, <2>1, <2>2, <3>2, <3>3, <3>4, TakenStep
  <2> QED BY <1>n, <2>1, <2>2
<1> QED
  BY <1>1, <1>2, <1>3, <1>4, <1>5, <1>6, <1>7, <1>8, <1>9, <1>11, <1>12, <1>13, <1>14 DEF Next

\* The ring is the queue that RingQueue describes, for every size and however
\* it is filled, drained and interrupted: while the promise stands, every byte
\* leaves once and in order, and the marked one alone (ring.c, network.c:125-176,
\* terminal.c:118-169, sys_bsd.c:929-1040).
THEOREM RingImplementsQueue == Spec => QueueSpec
<1>1. Init => FillInv /\ Queue!Init
  <2> SUFFICES ASSUME Init PROVE FillInv /\ Queue!Init
    OBVIOUS
  <2>1. /\ ring.supply = 0 /\ ring.consume = 0 /\ ring.mark = NULL /\ ring.newer = FALSE
        /\ ring \in Rings
    BY InitIInv DEF Init, ring_init, IInv
  <2>2. Pend(ring) = 0 /\ MarkIn(ring) /\ ring.mark \notin Slots
    BY <2>1, RingAssumption DEF Pend, ring_full, ring_subtract, MarkIn, NULL, Slots
  <2>3. Filled(ring, last)
    BY <2>1, <2>2 DEF Filled, Init
  <2>4. Contents = <<>> /\ Marked = 0
    BY <2>2, Seen DEF ContentsOf, MarkedOf
  <2> QED BY <2>3, <2>4 DEF FillInv, Init, Queue!Init
<1>2. IInv /\ FillInv /\ [Next]_vars => FillInv' /\ [Queue!Next]_(Queue!vars)
  <2> SUFFICES ASSUME IInv, FillInv, [Next]_vars
               PROVE  FillInv' /\ [Queue!Next]_(Queue!vars)
    OBVIOUS
  <2>1. CASE Next
    BY <2>1, StepIsQueueStep
  <2>2. CASE UNCHANGED vars
    <3>1. ring' = ring /\ last' = last /\ wire' = wire /\ oob' = oob /\ health' = health
      BY <2>2 DEF vars
    <3>2. Contents' = Contents /\ Marked' = Marked
      BY <3>1, Seen
    <3>3. FillInv'
      BY <3>1 DEF FillInv, Filled, MarkIn, Pend, ring_full
    <3> QED BY <3>1, <3>2, <3>3 DEF Queue!vars
  <2> QED BY <2>1, <2>2
<1> QED BY <1>1, <1>2, RingInvariance, PTL DEF Spec, QueueSpec, Queue!Spec
=============================================================================
