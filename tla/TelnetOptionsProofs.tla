------------------------ MODULE TelnetOptionsProofs ------------------------
(***************************************************************************)
(* Proof that the client and its peer agree once nothing is on its way.    *)
(*                                                                         *)
(* The response counts are numbers, and any number of words may be under   *)
(* way, so the invariant counts.  Of one option in one direction, follow   *)
(* the changes of mind round: from the last word the client has read,      *)
(* through what the peer has said since, the peer's state and what the     *)
(* client has said, to the client's wish.  The response count never        *)
(* exceeds them, less two for each that nobody will respond to, and it is  *)
(* odd exactly if the client wishes for what it has not (Balanced, Even).  *)
(* With nothing under way at most two are left, before and after the       *)
(* peer's state, and the two facts rule out that the sides disagree.       *)
(*                                                                         *)
(* An option the client refuses does not obey that: its refusal counts as  *)
(* a request (telnet.c:366, 511).  While the user does not ask again, at   *)
(* most two words are under way each way, and the states are a table.      *)
(*                                                                         *)
(* First one option by itself, as numbers; then its words among those in   *)
(* the two queues; then both directions of every option, handler by        *)
(* handler; last the actions.                                              *)
(***************************************************************************)
EXTENDS TelnetOptions, Integers, SequenceTheorems, TLAPS

-----------------------------------------------------------------------------
(* One option in one direction.  Words are 1 (DO, WILL) and 0 (DONT, WONT). *)

\* Whether two words differ, the states of the peer, and the word each state
\* stands by.
Differ(x, y) == IF x = y THEN 0 ELSE 1
PeerStates == {"no", "yes", "wantno", "wantyes"}
Wish(p) == IF p \in {"yes", "wantyes"} THEN 1 ELSE 0

\* What the peer said: s[lo] is the last word the client has read, s[lo + 1],
\* ..., s[hi] are under way.  s[i] + 2 * z[i] grows by 1 for a word that differs
\* from the one before and by 2 for one that repeats it.
Said(s, z, lo, hi) ==
    /\ s \in [Int -> {0, 1}] /\ z \in [Int -> Int] /\ lo \in Int /\ hi \in Int /\ lo <= hi
    /\ \A i \in Int : lo <= i /\ i < hi =>
          z[i + 1] = z[i] + (IF s[i] = 0 /\ s[i + 1] = 1 THEN 0 ELSE 1)
    /\ \A i, j \in Int : lo <= i /\ i < j /\ j <= hi =>
          (s[j] + 2 * z[j]) - (s[i] + 2 * z[i]) >= j - i

\* What the client said: t[tl + 1], ..., t[th] are under way.  t[i] + 2 * y[i]
\* grows by 1 for a word that differs.  No refusal follows a refusal.
Told(t, y, tl, th) ==
    /\ t \in [Int -> {0, 1}] /\ y \in [Int -> Int] /\ tl \in Int /\ th \in Int /\ tl <= th
    /\ \A i \in Int : tl < i /\ i < th =>
          /\ y[i + 1] = y[i] + (IF t[i] = 1 /\ t[i + 1] = 0 THEN 1 ELSE 0)
          /\ t[i] = 0 => t[i + 1] = 1
    /\ \A i, j \in Int : tl < i /\ i <= j /\ j <= th =>
          (t[j] + 2 * y[j]) - (t[i] + 2 * y[i]) >= 0

\* The peer's last word repeats the one before.
Again(s, lo, hi) == lo < hi /\ s[hi - 1] = s[hi]

\* The changes of mind from the client's last word read to its wish, once round
\* through what the peer said, its state and what the client said.
SaidTurns(p, s, z, lo, hi) ==
    (s[hi] + 2 * z[hi]) - (s[lo] + 2 * z[lo]) + Differ(s[hi], Wish(p))
ToldTurns(w, p, t, y, tl, th) ==
    IF tl = th THEN Differ(Wish(p), w)
    ELSE Differ(Wish(p), t[tl + 1]) + Differ(t[th], w)
         + ((t[th] + 2 * y[th]) - (t[tl + 1] + 2 * y[tl + 1]))

\* How many of them no response will account for.
SaidSpare(p, s, lo, hi) ==
    (IF Again(s, lo, hi) /\ s[hi] = 1 THEN 2 ELSE 0)
    + (IF p = "no" /\ s[hi] = 1 THEN 2 ELSE 0)
ToldSpare(w, p, t, tl, th) ==
    IF tl = th THEN IF p \in {"wantyes", "wantno"} \/ Wish(p) # w THEN 2 ELSE 0
    ELSE (IF p \in {"wantyes", "wantno"} /\ t[tl + 1] # Wish(p) THEN 2 ELSE 0)
         + (IF t[th] # w THEN 2 ELSE 0)

\* What each side's state says of its last words.
Habits(w, p, s, lo, hi, t, tl, th) ==
    /\ p # "no" => s[hi] = Wish(p)
    /\ Again(s, lo, hi) => p # "wantno" /\ (s[hi] = 1 => p # "no")
    /\ hi > lo + 1 => ~(s[hi] = 1 /\ s[hi - 1] = 1 /\ s[hi - 2] = 1)
    /\ tl < th /\ t[th] = 0 => w = 0
    /\ (p = "no" /\ s[hi] = 1) \/ (p = "wantyes" /\ Again(s, lo, hi)) =>
          IF tl = th THEN w = 0 ELSE t[tl + 1] = 1

\* The balance of an option the client accepts: w is its wish, n its credit.
Balanced(w, n, p, s, z, lo, hi, t, y, tl, th) ==
    /\ w \in {0, 1} /\ n \in Int /\ p \in PeerStates
    /\ Said(s, z, lo, hi) /\ Told(t, y, tl, th)
    /\ n + SaidSpare(p, s, lo, hi) + ToldSpare(w, p, t, tl, th)
         <= SaidTurns(p, s, z, lo, hi) + ToldTurns(w, p, t, y, tl, th)
    /\ Habits(w, p, s, lo, hi, t, tl, th)

\* The response count is odd exactly if the client wishes for what it has not.
Even(n, d, w) == \E e \in Nat : n = Differ(d, w) + 2 * e

\* An option the client accepts.
Accepted(w, n, p, s, z, lo, hi, t, y, tl, th) ==
    /\ Balanced(w, n, p, s, z, lo, hi, t, y, tl, th)
    /\ n \in Nat /\ Even(n, s[lo], w)

\* Another word of the peer's, and of the client's.
SayS(s, hi, v) == [s EXCEPT ![hi + 1] = v]
SayZ(s, z, hi, v) == [z EXCEPT ![hi + 1] = z[hi] + (IF s[hi] = 0 /\ v = 1 THEN 0 ELSE 1)]
TellY(t, y, th, v) == [y EXCEPT ![th + 1] = y[th] + (IF t[th] = 1 /\ v = 0 THEN 1 ELSE 0)]

\* Another word v of the peer's keeps what Said says of its words.
LEMMA SaySaid ==
    ASSUME NEW s, NEW z, NEW lo, NEW hi, Said(s, z, lo, hi), NEW v \in {0, 1}
    PROVE  LET s1 == SayS(s, hi, v)
               z1 == SayZ(s, z, hi, v)
           IN /\ Said(s1, z1, lo, hi + 1)
              /\ \A i \in Int : i <= hi => s1[i] = s[i] /\ z1[i] = z[i]
              /\ s1[hi + 1] = v
              /\ z1[hi + 1] = z[hi] + (IF s[hi] = 0 /\ v = 1 THEN 0 ELSE 1)
<1> DEFINE s1 == SayS(s, hi, v)
           z1 == SayZ(s, z, hi, v)
<1>1. /\ s \in [Int -> {0, 1}] /\ z \in [Int -> Int] /\ lo \in Int /\ hi \in Int /\ lo <= hi
  BY DEF Said
<1>2. /\ s1 \in [Int -> {0, 1}] /\ z1 \in [Int -> Int]
      /\ \A i \in Int : i <= hi => s1[i] = s[i] /\ z1[i] = z[i]
      /\ s1[hi + 1] = v
      /\ z1[hi + 1] = z[hi] + (IF s[hi] = 0 /\ v = 1 THEN 0 ELSE 1)
  BY <1>1 DEF SayS, SayZ
<1> HIDE DEF s1, z1
<1>3. ASSUME NEW i \in Int, lo <= i, i < hi + 1
      PROVE  z1[i + 1] = z1[i] + (IF s1[i] = 0 /\ s1[i + 1] = 1 THEN 0 ELSE 1)
  <2>1. CASE i < hi
    BY <1>1, <1>2, <1>3, <2>1 DEF Said
  <2>2. CASE i = hi
    BY <1>1, <1>2, <2>2
  <2> QED BY <1>1, <1>3, <2>1, <2>2
<1>4. ASSUME NEW i \in Int, NEW j \in Int, lo <= i, i < j, j <= hi + 1
      PROVE  (s1[j] + 2 * z1[j]) - (s1[i] + 2 * z1[i]) >= j - i
  <2>1. CASE j <= hi
    <3>1. (s[j] + 2 * z[j]) - (s[i] + 2 * z[i]) >= j - i
      BY <1>4, <2>1 DEF Said
    <3>2. s1[i] = s[i] /\ z1[i] = z[i] /\ s1[j] = s[j] /\ z1[j] = z[j]
      BY <1>1, <1>2, <1>4, <2>1
    <3> QED BY <3>1, <3>2
  <2>2. CASE j = hi + 1
    <3>1. (s1[j] + 2 * z1[j]) - (s[hi] + 2 * z[hi]) >= 1
      BY <1>1, <1>2, <2>2
    <3>2. i = hi \/ (s[hi] + 2 * z[hi]) - (s[i] + 2 * z[i]) >= hi - i
      BY <1>1, <1>4, <2>2 DEF Said
    <3>3. /\ s1[i] = s[i] /\ z1[i] = z[i] /\ s[i] \in Int /\ z[i] \in Int
          /\ s1[j] \in Int /\ z1[j] \in Int /\ s[hi] \in Int /\ z[hi] \in Int
      BY <1>1, <1>2, <1>4, <2>2
    <3> QED BY <1>1, <1>4, <2>2, <3>1, <3>2, <3>3
  <2> QED BY <1>1, <1>4, <2>1, <2>2
<1>5. Said(s1, z1, lo, hi + 1)
  <2>1. \A i \in Int : lo <= i /\ i < hi + 1 =>
          z1[i + 1] = z1[i] + (IF s1[i] = 0 /\ s1[i + 1] = 1 THEN 0 ELSE 1)
    BY <1>3
  <2>2. \A i, j \in Int : lo <= i /\ i < j /\ j <= hi + 1 =>
          (s1[j] + 2 * z1[j]) - (s1[i] + 2 * z1[i]) >= j - i
    BY <1>4
  <2>3. hi + 1 \in Int /\ lo <= hi + 1
    BY <1>1
  <2> QED BY <1>1, <1>2, <2>1, <2>2, <2>3, Zenon DEF Said
<1> QED BY <1>2, <1>5 DEF s1, z1

\* Another word v of the client's keeps what Told says of its words, unless it
\* refuses twice.
LEMMA TellTold ==
    ASSUME NEW t, NEW y, NEW tl, NEW th, Told(t, y, tl, th), NEW v \in {0, 1},
           tl < th /\ t[th] = 0 => v = 1
    PROVE  LET t1 == SayS(t, th, v)
               y1 == TellY(t, y, th, v)
           IN /\ Told(t1, y1, tl, th + 1)
              /\ \A i \in Int : i <= th => t1[i] = t[i] /\ y1[i] = y[i]
              /\ t1[th + 1] = v
              /\ y1[th + 1] = y[th] + (IF t[th] = 1 /\ v = 0 THEN 1 ELSE 0)
<1> DEFINE t1 == SayS(t, th, v)
           y1 == TellY(t, y, th, v)
<1>1. /\ t \in [Int -> {0, 1}] /\ y \in [Int -> Int] /\ tl \in Int /\ th \in Int /\ tl <= th
  BY DEF Told
<1>2. /\ t1 \in [Int -> {0, 1}] /\ y1 \in [Int -> Int]
      /\ \A i \in Int : i <= th => t1[i] = t[i] /\ y1[i] = y[i]
      /\ t1[th + 1] = v
      /\ y1[th + 1] = y[th] + (IF t[th] = 1 /\ v = 0 THEN 1 ELSE 0)
  BY <1>1 DEF SayS, TellY
<1> HIDE DEF t1, y1
<1>3. ASSUME NEW i \in Int, tl < i, i < th + 1
      PROVE  /\ y1[i + 1] = y1[i] + (IF t1[i] = 1 /\ t1[i + 1] = 0 THEN 1 ELSE 0)
             /\ t1[i] = 0 => t1[i + 1] = 1
  <2>1. CASE i < th
    <3>1. /\ y[i + 1] = y[i] + (IF t[i] = 1 /\ t[i + 1] = 0 THEN 1 ELSE 0)
          /\ t[i] = 0 => t[i + 1] = 1
      BY <1>3, <2>1 DEF Told
    <3>2. t1[i] = t[i] /\ y1[i] = y[i] /\ t1[i + 1] = t[i + 1] /\ y1[i + 1] = y[i + 1]
      BY <1>1, <1>2, <1>3, <2>1
    <3> QED BY <3>1, <3>2
  <2>2. CASE i = th
    BY <1>1, <1>2, <1>3, <2>2
  <2> QED BY <1>1, <1>3, <2>1, <2>2
<1>4. ASSUME NEW i \in Int, NEW j \in Int, tl < i, i <= j, j <= th + 1
      PROVE  (t1[j] + 2 * y1[j]) - (t1[i] + 2 * y1[i]) >= 0
  <2>0. t1[i] \in Int /\ y1[i] \in Int /\ t1[j] \in Int /\ y1[j] \in Int
    BY <1>2
  <2>1. CASE j <= th
    <3>1. (t[j] + 2 * y[j]) - (t[i] + 2 * y[i]) >= 0
      BY <1>4, <2>1 DEF Told
    <3>2. t1[i] = t[i] /\ y1[i] = y[i] /\ t1[j] = t[j] /\ y1[j] = y[j]
      BY <1>1, <1>2, <1>4, <2>1
    <3> QED BY <3>1, <3>2
  <2>2. CASE j = th + 1 /\ i # j
    <3>1. (t1[j] + 2 * y1[j]) - (t[th] + 2 * y[th]) >= 0
      BY <1>1, <1>2, <2>2
    <3>2. (t[th] + 2 * y[th]) - (t[i] + 2 * y[i]) >= 0
      BY <1>1, <1>4, <2>2 DEF Told
    <3>3. /\ t1[i] = t[i] /\ y1[i] = y[i] /\ t[i] \in Int /\ y[i] \in Int
          /\ t[th] \in Int /\ y[th] \in Int
      BY <1>1, <1>2, <1>4, <2>2
    <3> QED BY <2>0, <3>1, <3>2, <3>3
  <2> QED BY <1>1, <1>4, <2>0, <2>1, <2>2
<1>5. Told(t1, y1, tl, th + 1)
  <2>1. \A i \in Int : tl < i /\ i < th + 1 =>
          /\ y1[i + 1] = y1[i] + (IF t1[i] = 1 /\ t1[i + 1] = 0 THEN 1 ELSE 0)
          /\ t1[i] = 0 => t1[i + 1] = 1
    BY <1>3
  <2>2. \A i, j \in Int : tl < i /\ i <= j /\ j <= th + 1 =>
          (t1[j] + 2 * y1[j]) - (t1[i] + 2 * y1[i]) >= 0
    BY <1>4
  <2>3. th + 1 \in Int /\ tl <= th + 1
    BY <1>1
  <2> QED BY <1>1, <1>2, <2>1, <2>2, <2>3, Zenon DEF Told
<1> QED BY <1>2, <1>5 DEF t1, y1

\* The counts are numbers.
LEMMA CountTypes ==
    ASSUME NEW w \in {0, 1}, NEW p, NEW s, NEW z, NEW lo, NEW hi, NEW t, NEW y, NEW tl, NEW th,
           Said(s, z, lo, hi), Told(t, y, tl, th)
    PROVE  /\ SaidTurns(p, s, z, lo, hi) \in Int /\ SaidSpare(p, s, lo, hi) \in Int
           /\ ToldTurns(w, p, t, y, tl, th) \in Int /\ ToldSpare(w, p, t, tl, th) \in Int
<1>1. /\ s[lo] \in {0, 1} /\ s[hi] \in {0, 1} /\ z[lo] \in Int /\ z[hi] \in Int
      /\ t[th] \in {0, 1} /\ t[tl + 1] \in {0, 1} /\ y[th] \in Int /\ y[tl + 1] \in Int
  BY SMTT(30) DEF Said, Told
<1> QED BY <1>1 DEF SaidTurns, SaidSpare, ToldTurns, ToldSpare, Differ

\* What a word v of the client's does, if it is also its wish.
LEMMA TellEffect ==
    ASSUME NEW w \in {0, 1}, NEW p, NEW t, NEW y, NEW tl, NEW th, Told(t, y, tl, th),
           NEW v \in {0, 1}, tl < th /\ t[th] = 0 => v = 1
    PROVE  LET t1 == SayS(t, th, v)
               y1 == TellY(t, y, th, v)
           IN /\ Told(t1, y1, tl, th + 1)
              /\ t1[th + 1] = v /\ t1[tl + 1] = (IF tl = th THEN v ELSE t[tl + 1])
              /\ ToldTurns(v, p, t1, y1, tl, th + 1) - ToldSpare(v, p, t1, tl, th + 1)
                   >= ToldTurns(w, p, t, y, tl, th) - ToldSpare(w, p, t, tl, th)
                      + Differ(v, w)
<1> DEFINE t1 == SayS(t, th, v)
           y1 == TellY(t, y, th, v)
<1>1. /\ Told(t1, y1, tl, th + 1)
      /\ \A i \in Int : i <= th => t1[i] = t[i] /\ y1[i] = y[i]
      /\ t1[th + 1] = v
      /\ y1[th + 1] = y[th] + (IF t[th] = 1 /\ v = 0 THEN 1 ELSE 0)
  BY TellTold
<1> HIDE DEF t1, y1
<1>2. /\ tl \in Int /\ th \in Int /\ tl <= th
      /\ t[th] \in {0, 1} /\ t[tl + 1] \in {0, 1} /\ y[th] \in Int /\ y[tl + 1] \in Int
  BY DEF Told
<1>3. /\ tl < th => tl + 1 <= th /\ t1[tl + 1] = t[tl + 1] /\ y1[tl + 1] = y[tl + 1]
      /\ tl = th => t1[tl + 1] = v /\ y1[tl + 1] = y1[th + 1]
      /\ tl # th + 1
  BY <1>1, <1>2
<1>4. /\ y1[th + 1] \in Int /\ t1[th + 1] = v /\ Wish(p) \in {0, 1}
      /\ v + 2 * y1[th + 1] = t[th] + 2 * y[th] + Differ(t[th], v)
  BY <1>1, <1>2 DEF Differ, Wish
<1>5. ToldTurns(v, p, t1, y1, tl, th + 1) - ToldSpare(v, p, t1, tl, th + 1)
         >= ToldTurns(w, p, t, y, tl, th) - ToldSpare(w, p, t, tl, th) + Differ(v, w)
  <2>1. CASE tl = th
    <3>1. /\ ToldTurns(v, p, t1, y1, tl, th + 1) = Differ(Wish(p), v)
          /\ ToldTurns(w, p, t, y, tl, th) = Differ(Wish(p), w)
      BY <1>2, <1>3, <1>4, <2>1 DEF ToldTurns, Differ
    <3>2. /\ ToldSpare(v, p, t1, tl, th + 1)
               = (IF p \in {"wantyes", "wantno"} /\ v # Wish(p) THEN 2 ELSE 0)
          /\ ToldSpare(w, p, t, tl, th)
               = (IF p \in {"wantyes", "wantno"} \/ Wish(p) # w THEN 2 ELSE 0)
      BY <1>2, <1>3, <1>4, <2>1 DEF ToldSpare
    <3> QED BY <1>4, <3>1, <3>2 DEF Differ
  <2>2. CASE tl < th
    <3>1. /\ ToldTurns(v, p, t1, y1, tl, th + 1) = Differ(Wish(p), t[tl + 1])
              + ((v + 2 * y1[th + 1]) - (t[tl + 1] + 2 * y[tl + 1]))
          /\ ToldTurns(w, p, t, y, tl, th) = Differ(Wish(p), t[tl + 1]) + Differ(t[th], w)
              + ((t[th] + 2 * y[th]) - (t[tl + 1] + 2 * y[tl + 1]))
      BY <1>2, <1>3, <1>4, <2>2 DEF ToldTurns, Differ
    <3>2. ToldSpare(w, p, t, tl, th) - ToldSpare(v, p, t1, tl, th + 1)
             = (IF t[th] # w THEN 2 ELSE 0)
      BY <1>2, <1>3, <1>4, <2>2 DEF ToldSpare
    <3>3. ToldSpare(w, p, t, tl, th) \in Int /\ ToldSpare(v, p, t1, tl, th + 1) \in Int
      BY DEF ToldSpare
    <3>4. Differ(t[th], v) - Differ(t[th], w) + (IF t[th] # w THEN 2 ELSE 0) >= Differ(v, w)
      BY <1>2 DEF Differ
    <3>5. /\ Differ(t[th], v) \in Int /\ Differ(t[th], w) \in Int /\ Differ(v, w) \in Int
          /\ Differ(Wish(p), t[tl + 1]) \in Int
          /\ (IF t[th] # w THEN 2 ELSE 0) \in Int
      BY DEF Differ
    <3> QED BY <1>2, <1>4, <3>1, <3>2, <3>3, <3>4, <3>5
  <2> QED BY <1>2, <2>1, <2>2
<1> QED BY <1>1, <1>2, <1>3, <1>5 DEF t1, y1

\* The parity of the response count tells whether the client wishes for what
\* it has.
LEMMA CountParity ==
    ASSUME NEW n \in Nat, NEW d \in {0, 1}, NEW w \in {0, 1}
    PROVE  /\ Even(n, d, w) =>
                 /\ n = 0 => d = w
                 /\ n = 1 => d # w
                 /\ \A v \in {0, 1} : v # w => Even(n + 1, d, v)
                 /\ \A v \in {0, 1} : v # d /\ n > 0 => Even(n - 1, v, w)
                 /\ n > 1 => Even(n - 2, d, w)
           /\ n = 0 /\ d = w => Even(n, d, w)
<1>1. ASSUME NEW e \in Nat, n = Differ(d, w) + 2 * e
      PROVE  /\ n = 0 => d = w
             /\ n = 1 => d # w
             /\ \A v \in {0, 1} : v # w => \E f \in Nat : n + 1 = Differ(d, v) + 2 * f
             /\ \A v \in {0, 1} : v # d /\ n > 0
                  => \E f \in Nat : n - 1 = Differ(v, w) + 2 * f
             /\ n > 1 => \E f \in Nat : n - 2 = Differ(d, w) + 2 * f
  <2>1. (n = 0 => d = w) /\ (n = 1 => d # w)
    BY <1>1 DEF Differ
  <2>2. ASSUME NEW v \in {0, 1}, v # w
        PROVE  \E f \in Nat : n + 1 = Differ(d, v) + 2 * f
    <3>1. CASE d = w
      BY <1>1, <2>2, <3>1 DEF Differ
    <3>2. CASE d # w
      <4>1. n + 1 = Differ(d, v) + 2 * (e + 1) /\ e + 1 \in Nat
        BY <1>1, <2>2, <3>2 DEF Differ
      <4> QED BY <4>1
    <3> QED BY <3>1, <3>2
  <2>3. ASSUME NEW v \in {0, 1}, v # d, n > 0
        PROVE  \E f \in Nat : n - 1 = Differ(v, w) + 2 * f
    <3>1. CASE d = w
      <4>1. n - 1 = Differ(v, w) + 2 * (e - 1) /\ e - 1 \in Nat
        BY <1>1, <2>3, <3>1 DEF Differ
      <4> QED BY <4>1
    <3>2. CASE d # w
      BY <1>1, <2>3, <3>2 DEF Differ
    <3> QED BY <3>1, <3>2
  <2>4. ASSUME n > 1 PROVE \E f \in Nat : n - 2 = Differ(d, w) + 2 * f
    <3>1. n - 2 = Differ(d, w) + 2 * (e - 1) /\ e - 1 \in Nat
      BY <1>1, <2>4 DEF Differ
    <3> QED BY <3>1
  <2> QED BY <2>1, <2>2, <2>3, <2>4
<1>2. n = 0 /\ d = w => n = Differ(d, w) + 2 * 0
  BY DEF Differ
<1> QED BY <1>1, <1>2 DEF Even

\* The client speaks and wishes for what it says.
LEMMA TellBalanced ==
    ASSUME NEW w, NEW n, NEW p, NEW s, NEW z, NEW lo, NEW hi, NEW t, NEW y, NEW tl, NEW th,
           Balanced(w, n, p, s, z, lo, hi, t, y, tl, th),
           NEW v \in {0, 1}, v = 1 \/ v # w
    PROVE  Balanced(v, n + Differ(v, w), p, s, z, lo, hi,
                    SayS(t, th, v), TellY(t, y, th, v), tl, th + 1)
<1> DEFINE t1 == SayS(t, th, v)
           y1 == TellY(t, y, th, v)
<1>1. /\ w \in {0, 1} /\ n \in Int /\ p \in PeerStates /\ Said(s, z, lo, hi) /\ Told(t, y, tl, th)
      /\ n + SaidSpare(p, s, lo, hi) + ToldSpare(w, p, t, tl, th)
           <= SaidTurns(p, s, z, lo, hi) + ToldTurns(w, p, t, y, tl, th)
      /\ Habits(w, p, s, lo, hi, t, tl, th)
  BY DEF Balanced
<1>2. tl < th /\ t[th] = 0 => v = 1
  BY <1>1 DEF Habits
<1>3. /\ Told(t1, y1, tl, th + 1)
      /\ t1[th + 1] = v /\ t1[tl + 1] = (IF tl = th THEN v ELSE t[tl + 1])
      /\ ToldTurns(v, p, t1, y1, tl, th + 1) - ToldSpare(v, p, t1, tl, th + 1)
           >= ToldTurns(w, p, t, y, tl, th) - ToldSpare(w, p, t, tl, th) + Differ(v, w)
  BY <1>1, <1>2, TellEffect
<1> HIDE DEF t1, y1
<1>4. /\ SaidTurns(p, s, z, lo, hi) \in Int /\ SaidSpare(p, s, lo, hi) \in Int
      /\ ToldTurns(w, p, t, y, tl, th) \in Int /\ ToldSpare(w, p, t, tl, th) \in Int
      /\ ToldTurns(v, p, t1, y1, tl, th + 1) \in Int /\ ToldSpare(v, p, t1, tl, th + 1) \in Int
  BY <1>1, <1>3, CountTypes
<1>5. Differ(v, w) \in Int
  BY DEF Differ
<1>6. n + Differ(v, w) + SaidSpare(p, s, lo, hi) + ToldSpare(v, p, t1, tl, th + 1)
           <= SaidTurns(p, s, z, lo, hi) + ToldTurns(v, p, t1, y1, tl, th + 1)
  BY <1>1, <1>3, <1>4, <1>5
<1>7. Habits(v, p, s, lo, hi, t1, tl, th + 1)
  <2>1. tl \in Int /\ th \in Int /\ tl <= th /\ tl # th + 1
    BY <1>1 DEF Told
  <2> QED BY <1>1, <1>3, <2>1 DEF Habits
<1> QED BY <1>1, <1>3, <1>5, <1>6, <1>7 DEF Balanced, t1, y1

\* The client reads a word.
LEMMA ReadBalanced ==
    ASSUME NEW w, NEW n, NEW p, NEW s, NEW z, NEW lo, NEW hi, NEW t, NEW y, NEW tl, NEW th,
           Balanced(w, n, p, s, z, lo, hi, t, y, tl, th), lo < hi
    PROVE  Balanced(w, n - (IF s[lo + 1] = s[lo] THEN 2 ELSE 1), p, s, z, lo + 1, hi,
                    t, y, tl, th)
<1>1. /\ w \in {0, 1} /\ n \in Int /\ p \in PeerStates /\ Said(s, z, lo, hi) /\ Told(t, y, tl, th)
      /\ n + SaidSpare(p, s, lo, hi) + ToldSpare(w, p, t, tl, th)
           <= SaidTurns(p, s, z, lo, hi) + ToldTurns(w, p, t, y, tl, th)
      /\ Habits(w, p, s, lo, hi, t, tl, th)
  BY DEF Balanced
<1>2. /\ lo \in Int /\ hi \in Int /\ lo + 1 <= hi
      /\ s[lo] \in {0, 1} /\ s[lo + 1] \in {0, 1} /\ s[hi] \in {0, 1}
      /\ z[lo] \in Int /\ z[lo + 1] \in Int /\ z[hi] \in Int
      /\ z[lo + 1] = z[lo] + (IF s[lo] = 0 /\ s[lo + 1] = 1 THEN 0 ELSE 1)
  BY <1>1 DEF Said
<1>3. Said(s, z, lo + 1, hi)
  <2>1. ASSUME NEW i \in Int, lo + 1 <= i, i < hi
        PROVE  z[i + 1] = z[i] + (IF s[i] = 0 /\ s[i + 1] = 1 THEN 0 ELSE 1)
    BY <1>1, <1>2, <2>1 DEF Said
  <2>2. ASSUME NEW i \in Int, NEW j \in Int, lo + 1 <= i, i < j, j <= hi
        PROVE  (s[j] + 2 * z[j]) - (s[i] + 2 * z[i]) >= j - i
    <3>1. lo <= i
      BY <1>2, <2>2
    <3> QED BY <1>1, <2>2, <3>1 DEF Said
  <2>3. lo + 1 \in Int
    BY <1>2
  <2> QED BY <1>1, <1>2, <2>1, <2>2, <2>3 DEF Said
<1>4. Again(s, lo + 1, hi) => Again(s, lo, hi)
  BY <1>2 DEF Again
<1>5. Habits(w, p, s, lo + 1, hi, t, tl, th)
  BY <1>1, <1>2, <1>4 DEF Habits
<1>6. /\ SaidTurns(p, s, z, lo, hi) \in Int /\ SaidSpare(p, s, lo, hi) \in Int
      /\ ToldTurns(w, p, t, y, tl, th) \in Int /\ ToldSpare(w, p, t, tl, th) \in Int
      /\ SaidTurns(p, s, z, lo + 1, hi) \in Int /\ SaidSpare(p, s, lo + 1, hi) \in Int
  BY <1>1, <1>3, CountTypes
<1>7. SaidTurns(p, s, z, lo + 1, hi)
        = SaidTurns(p, s, z, lo, hi) - (IF s[lo + 1] = s[lo] THEN 2 ELSE 1)
  BY <1>2 DEF SaidTurns, Differ
<1>8. SaidSpare(p, s, lo + 1, hi) <= SaidSpare(p, s, lo, hi)
  BY <1>4 DEF SaidSpare
<1>9. n - (IF s[lo + 1] = s[lo] THEN 2 ELSE 1) \in Int
  BY <1>1
<1>10. n - (IF s[lo + 1] = s[lo] THEN 2 ELSE 1) + SaidSpare(p, s, lo + 1, hi)
         + ToldSpare(w, p, t, tl, th)
         <= SaidTurns(p, s, z, lo + 1, hi) + ToldTurns(w, p, t, y, tl, th)
  BY <1>1, <1>6, <1>7, <1>8
<1> QED BY <1>1, <1>3, <1>5, <1>9, <1>10 DEF Balanced

\* With no responses due, a client content with what it read is in balance,
\* unless the peer waits for an answer that it has not got and will not.
LEMMA ZeroBalanced ==
    ASSUME NEW w \in {0, 1}, NEW p \in PeerStates, NEW s, NEW z, NEW lo, NEW hi,
           NEW t, NEW y, NEW tl, NEW th, Said(s, z, lo, hi), Told(t, y, tl, th),
           Habits(w, p, s, lo, hi, t, tl, th), s[lo] = w,
           lo = hi => p # "wantno" /\ (p = "wantyes" /\ w = 1 => tl < th)
    PROVE  Balanced(w, 0, p, s, z, lo, hi, t, y, tl, th)
<1> DEFINE C == (s[hi] + 2 * z[hi]) - (s[lo] + 2 * z[lo])
           K == (t[th] + 2 * y[th]) - (t[tl + 1] + 2 * y[tl + 1])
<1>1. /\ lo \in Int /\ hi \in Int /\ lo <= hi
      /\ s[lo] \in {0, 1} /\ s[hi] \in {0, 1} /\ z[lo] \in Int /\ z[hi] \in Int
      /\ lo < hi => C >= hi - lo
      /\ C \in Int
      /\ s[lo] # s[hi] => lo # hi
  BY DEF Said
<1>2. C >= 0 /\ (lo < hi => C >= 1)
  BY <1>1
<1>3. /\ s[lo] = s[hi] => C # 1
      /\ s[lo] # s[hi] => C # 0 /\ C # 2
  <2>1. s[lo] = s[hi] => C = 2 * (z[hi] - z[lo])
    BY <1>1
  <2>2. s[lo] # s[hi] => C = 2 * (z[hi] - z[lo]) + 1 \/ C = 2 * (z[hi] - z[lo]) - 1
    BY <1>1
  <2> HIDE DEF C
  <2>3. z[hi] - z[lo] \in Int
    BY <1>1
  <2> QED BY <2>1, <2>2, <2>3
<1>4. Again(s, lo, hi) /\ s[lo] # s[hi] => C > 2
  <2>1. Again(s, lo, hi) /\ s[lo] # s[hi] => hi # lo + 1
    BY <1>1 DEF Again
  <2> QED BY <1>1, <1>3, <2>1 DEF Again
<1>5. Again(s, lo, hi) => C >= 2 /\ lo < hi
  BY <1>1, <1>2, <1>3, <1>4 DEF Again
<1>6. /\ tl \in Int /\ th \in Int /\ tl <= th /\ K \in Int
      /\ t[th] \in {0, 1} /\ t[tl + 1] \in {0, 1} /\ y[th] \in Int /\ y[tl + 1] \in Int
      /\ tl < th => K >= 0
      /\ t[th] # t[tl + 1] => K # 0
  BY DEF Told
<1>7. SaidTurns(p, s, z, lo, hi) = C + Differ(s[hi], Wish(p))
  BY DEF SaidTurns
<1>8. ToldTurns(w, p, t, y, tl, th) = IF tl = th THEN Differ(Wish(p), w)
         ELSE Differ(Wish(p), t[tl + 1]) + Differ(t[th], w) + K
  BY DEF ToldTurns
<1> HIDE DEF C, K
<1>9. 0 + SaidSpare(p, s, lo, hi) + ToldSpare(w, p, t, tl, th)
         <= SaidTurns(p, s, z, lo, hi) + ToldTurns(w, p, t, y, tl, th)
  <2>1. CASE p = "no"
    BY <1>1, <1>2, <1>3, <1>4, <1>5, <1>6, <1>7, <1>8, <2>1
       DEF SaidSpare, ToldSpare, Habits, Wish, Differ
  <2>2. CASE p = "yes"
    BY <1>1, <1>2, <1>3, <1>4, <1>5, <1>6, <1>7, <1>8, <2>2
       DEF SaidSpare, ToldSpare, Habits, Wish, Differ
  <2>3. CASE p = "wantno"
    BY <1>1, <1>2, <1>3, <1>4, <1>5, <1>6, <1>7, <1>8, <2>3
       DEF SaidSpare, ToldSpare, Habits, Wish, Differ
  <2>4. CASE p = "wantyes"
    BY <1>1, <1>2, <1>3, <1>4, <1>5, <1>6, <1>7, <1>8, <2>4
       DEF SaidSpare, ToldSpare, Habits, Wish, Differ
  <2> QED BY <2>1, <2>2, <2>3, <2>4 DEF PeerStates
<1> QED BY <1>9 DEF Balanced

\* The user asks for what the client does not wish for yet.
LEMMA AskAccepted ==
    ASSUME NEW w, NEW n, NEW p, NEW s, NEW z, NEW lo, NEW hi, NEW t, NEW y, NEW tl, NEW th,
           Accepted(w, n, p, s, z, lo, hi, t, y, tl, th), NEW v \in {0, 1}, v # w
    PROVE  Accepted(v, n + 1, p, s, z, lo, hi, SayS(t, th, v), TellY(t, y, th, v), tl, th + 1)
<1>1. /\ Balanced(w, n, p, s, z, lo, hi, t, y, tl, th) /\ n \in Nat /\ Even(n, s[lo], w)
      /\ w \in {0, 1} /\ s[lo] \in {0, 1}
  BY DEF Accepted, Balanced, Said
<1>2. Balanced(v, n + Differ(v, w), p, s, z, lo, hi, SayS(t, th, v), TellY(t, y, th, v), tl, th + 1)
  BY <1>1, TellBalanced
<1>3. n + Differ(v, w) = n + 1 /\ n + 1 \in Nat
  BY <1>1 DEF Differ
<1>4. Even(n + 1, s[lo], v)
  BY <1>1, CountParity
<1> QED BY <1>2, <1>3, <1>4 DEF Accepted

\* The client says DO again, of what it wishes for.
LEMMA RepeatAccepted ==
    ASSUME NEW n, NEW p, NEW s, NEW z, NEW lo, NEW hi, NEW t, NEW y, NEW tl, NEW th,
           Accepted(1, n, p, s, z, lo, hi, t, y, tl, th)
    PROVE  Accepted(1, n, p, s, z, lo, hi, SayS(t, th, 1), TellY(t, y, th, 1), tl, th + 1)
<1>1. /\ Balanced(1, n, p, s, z, lo, hi, t, y, tl, th) /\ n \in Nat /\ Even(n, s[lo], 1)
  BY DEF Accepted
<1>2. Balanced(1, n + Differ(1, 1), p, s, z, lo, hi, SayS(t, th, 1), TellY(t, y, th, 1), tl, th + 1)
  BY <1>1, TellBalanced
<1>3. n + Differ(1, 1) = n
  BY <1>1 DEF Differ
<1> QED BY <1>1, <1>2, <1>3 DEF Accepted

\* The client reads a word v and answers it if it is no response: its wish
\* becomes v.
LEMMA ReadAccepted ==
    ASSUME NEW w, NEW n, NEW p, NEW s, NEW z, NEW lo, NEW hi, NEW t, NEW y, NEW tl, NEW th,
           Accepted(w, n, p, s, z, lo, hi, t, y, tl, th), lo < hi,
           NEW v, v = s[lo + 1], NEW m, m = Answered(n, s[lo] = v)
    PROVE  /\ ~(m = 0 /\ w # v) => Accepted(w, m, p, s, z, lo + 1, hi, t, y, tl, th)
           /\ m = 0 /\ w # v /\ ~(v = 0 /\ s[lo] = 0) =>
                Accepted(v, m, p, s, z, lo + 1, hi, SayS(t, th, v), TellY(t, y, th, v), tl, th + 1)
           /\ m = 0 /\ w # v /\ v = 0 /\ s[lo] = 0 =>
                Accepted(v, m, p, s, z, lo + 1, hi, t, y, tl, th)
<1> DEFINE cost == IF s[lo + 1] = s[lo] THEN 2 ELSE 1
<1>1. /\ Balanced(w, n, p, s, z, lo, hi, t, y, tl, th) /\ n \in Nat /\ Even(n, s[lo], w)
      /\ w \in {0, 1} /\ s[lo] \in {0, 1} /\ v \in {0, 1} /\ p \in PeerStates
      /\ Habits(w, p, s, lo, hi, t, tl, th) /\ lo \in Int /\ hi \in Int
  BY DEF Accepted, Balanced, Said
<1>2. Balanced(w, n - cost, p, s, z, lo + 1, hi, t, y, tl, th)
  BY <1>1, ReadBalanced
<1>3. /\ Said(s, z, lo + 1, hi) /\ Told(t, y, tl, th) /\ tl \in Int /\ th \in Int /\ tl <= th
      /\ Habits(w, p, s, lo + 1, hi, t, tl, th)
  BY <1>2 DEF Balanced, Told
<1>4. \* the response is due
      /\ n = 0 => s[lo] = w
      /\ n = 1 => s[lo] # w
      /\ v # s[lo] /\ n > 0 => Even(n - 1, v, w)
      /\ n > 1 => Even(n - 2, s[lo], w)
  BY <1>1, CountParity
<1>5. /\ m = IF n = 0 THEN 0 ELSE IF n > 1 /\ s[lo] = v THEN n - 2 ELSE n - 1
      /\ cost = IF v = s[lo] THEN 2 ELSE 1
  BY DEF Answered
<1> HIDE DEF cost
<1>6. lo + 1 = hi /\ v = s[lo] => Again(s, lo, hi)
  <2>1. lo + 1 = hi => hi - 1 = lo
    BY <1>1
  <2> QED BY <2>1 DEF Again
<1>7. CASE n > 0 /\ v # s[lo]
  <2>1. m = n - 1 /\ m \in Nat /\ cost = 1 /\ Even(m, v, w)
    BY <1>1, <1>4, <1>5, <1>7
  <2>2. Accepted(w, m, p, s, z, lo + 1, hi, t, y, tl, th)
    BY <1>2, <2>1 DEF Accepted
  <2>3. m = 0 => v = w
    BY <1>1, <2>1, CountParity
  <2> QED BY <2>2, <2>3
<1>8. CASE n > 1 /\ v = s[lo]
  <2>1. m = n - 2 /\ m \in Nat /\ cost = 2 /\ Even(m, v, w)
    BY <1>1, <1>4, <1>5, <1>8
  <2>2. Accepted(w, m, p, s, z, lo + 1, hi, t, y, tl, th)
    BY <1>2, <2>1 DEF Accepted
  <2>3. m = 0 => v = w
    BY <1>1, <2>1, CountParity
  <2> QED BY <2>2, <2>3
<1>9. CASE n = 0 /\ v # s[lo]
  <2>1. m = 0 /\ cost = 1 /\ v # w /\ ~(v = 0 /\ s[lo] = 0)
    BY <1>1, <1>4, <1>5, <1>9
  <2>2. Balanced(v, n - cost + Differ(v, w), p, s, z, lo + 1, hi,
                 SayS(t, th, v), TellY(t, y, th, v), tl, th + 1)
    BY <1>1, <1>2, <2>1, TellBalanced
  <2>3. n - cost + Differ(v, w) = 0
    BY <1>9, <2>1 DEF Differ
  <2>4. Even(0, v, v)
    BY <1>1, CountParity
  <2> QED BY <2>1, <2>2, <2>3, <2>4 DEF Accepted
<1>10. CASE n = 1 /\ v = s[lo] /\ v = 1
  <2>1. m = 0 /\ cost = 2 /\ v # w
    BY <1>1, <1>4, <1>5, <1>10
  <2>2. Balanced(v, n - cost + Differ(v, w), p, s, z, lo + 1, hi,
                 SayS(t, th, v), TellY(t, y, th, v), tl, th + 1)
    BY <1>1, <1>2, <2>1, TellBalanced
  <2>3. n - cost + Differ(v, w) = 0
    BY <1>10, <2>1 DEF Differ
  <2>4. Even(0, v, v)
    BY <1>1, CountParity
  <2> QED BY <1>10, <2>1, <2>2, <2>3, <2>4 DEF Accepted
<1>11. CASE n = 1 /\ v = s[lo] /\ v = 0
  <2>1. m = 0 /\ v # w
    BY <1>1, <1>4, <1>5, <1>11
  <2>2. Habits(v, p, s, lo + 1, hi, t, tl, th)
    BY <1>3, <1>11 DEF Habits
  <2>3. lo + 1 = hi => p # "wantno" /\ (p = "wantyes" /\ v = 1 => tl < th)
    BY <1>1, <1>6, <1>11 DEF Habits
  <2>4. Balanced(v, 0, p, s, z, lo + 1, hi, t, y, tl, th)
    BY <1>1, <1>3, <1>11, <2>2, <2>3, ZeroBalanced
  <2>5. Even(0, v, v)
    BY <1>1, CountParity
  <2> QED BY <1>11, <2>1, <2>4, <2>5 DEF Accepted
<1>12. CASE n = 0 /\ v = s[lo]
  <2>1. m = 0 /\ v = w
    BY <1>1, <1>4, <1>5, <1>12
  <2>2. lo + 1 = hi => p # "wantno" /\ (p = "wantyes" /\ w = 1 => tl < th)
    BY <1>1, <1>3, <1>6, <1>12, <2>1 DEF Habits
  <2>3. Balanced(w, 0, p, s, z, lo + 1, hi, t, y, tl, th)
    BY <1>1, <1>3, <2>1, <2>2, ZeroBalanced
  <2>4. Even(0, v, w)
    BY <1>1, <2>1, CountParity
  <2> QED BY <2>1, <2>3, <2>4 DEF Accepted
<1>13. n = 0 \/ n = 1 \/ n > 1
  BY <1>1
<1> QED BY <1>1, <1>7, <1>8, <1>9, <1>10, <1>11, <1>12, <1>13

\* What a word v of the peer's does, saying which it goes from state p to p1.
SayFacts(p, p1, s, z, lo, hi, v, s1, z1) ==
    /\ Said(s1, z1, lo, hi + 1)
    /\ s1[lo] = s[lo] /\ s1[hi + 1] = v
    /\ Again(s1, lo, hi + 1) <=> s[hi] = v
    /\ hi + 1 > lo + 1 => (s1[hi + 1] = 1 /\ s1[(hi + 1) - 1] = 1 /\ s1[(hi + 1) - 2] = 1
                           => v = 1 /\ s[hi] = 1 /\ Again(s, lo, hi))
    /\ SaidTurns(p1, s1, z1, lo, hi + 1)
         = SaidTurns(p, s, z, lo, hi) - Differ(s[hi], Wish(p))
           + (IF s[hi] = v THEN 2 ELSE 1) + Differ(v, Wish(p1))
    /\ SaidSpare(p1, s1, lo, hi + 1)
         = (IF s[hi] = v /\ v = 1 THEN 2 ELSE 0) + (IF p1 = "no" /\ v = 1 THEN 2 ELSE 0)

\* What another word of the peer's does to the counts.
LEMMA SayEffect ==
    ASSUME NEW p, NEW p1, NEW s, NEW z, NEW lo, NEW hi, Said(s, z, lo, hi), NEW v \in {0, 1}
    PROVE  SayFacts(p, p1, s, z, lo, hi, v, SayS(s, hi, v), SayZ(s, z, hi, v))
<1> DEFINE s1 == SayS(s, hi, v)
           z1 == SayZ(s, z, hi, v)
<1>1. /\ Said(s1, z1, lo, hi + 1)
      /\ \A i \in Int : i <= hi => s1[i] = s[i] /\ z1[i] = z[i]
      /\ s1[hi + 1] = v
      /\ z1[hi + 1] = z[hi] + (IF s[hi] = 0 /\ v = 1 THEN 0 ELSE 1)
  BY SaySaid
<1> HIDE DEF s1, z1
<1>2. /\ lo \in Int /\ hi \in Int /\ lo <= hi /\ (hi + 1) - 1 = hi /\ (hi + 1) - 2 = hi - 1
      /\ lo < hi + 1 /\ hi - 1 \in Int /\ hi - 1 <= hi
      /\ s[lo] \in {0, 1} /\ s[hi] \in {0, 1} /\ z[lo] \in Int /\ z[hi] \in Int
  BY DEF Said
<1>3. s1[lo] = s[lo] /\ z1[lo] = z[lo] /\ s1[hi] = s[hi] /\ s1[hi - 1] = s[hi - 1]
  BY <1>1, <1>2
<1>4. Again(s1, lo, hi + 1) <=> s[hi] = v
  BY <1>1, <1>2, <1>3 DEF Again
<1>5. hi + 1 > lo + 1 => (s1[hi + 1] = 1 /\ s1[(hi + 1) - 1] = 1 /\ s1[(hi + 1) - 2] = 1
                          => v = 1 /\ s[hi] = 1 /\ Again(s, lo, hi))
  BY <1>1, <1>2, <1>3 DEF Again
<1>6. SaidTurns(p1, s1, z1, lo, hi + 1)
        = SaidTurns(p, s, z, lo, hi) - Differ(s[hi], Wish(p))
          + (IF s[hi] = v THEN 2 ELSE 1) + Differ(v, Wish(p1))
  <2> DEFINE A == v + 2 * z1[hi + 1]
             B == s[hi] + 2 * z[hi]
             E == s[lo] + 2 * z[lo]
             G == IF s[hi] = v THEN 2 ELSE 1
             D == Differ(s[hi], Wish(p))
             D1 == Differ(v, Wish(p1))
  <2>1. z1[hi + 1] \in Int
    BY <1>1, <1>2
  <2>2. A - B = G
    BY <1>1, <1>2
  <2>3. A \in Int /\ B \in Int /\ E \in Int /\ G \in Int /\ D \in Int /\ D1 \in Int
    BY <1>2, <2>1 DEF Differ
  <2>4. /\ SaidTurns(p1, s1, z1, lo, hi + 1) = A - E + D1
        /\ SaidTurns(p, s, z, lo, hi) = B - E + D
    BY <1>1, <1>3 DEF SaidTurns
  <2> HIDE DEF A, B, E, G, D, D1
  <2>5. SaidTurns(p1, s1, z1, lo, hi + 1) = SaidTurns(p, s, z, lo, hi) - D + G + D1
    BY <2>2, <2>3, <2>4
  <2> QED BY <2>5 DEF G, D, D1
<1>7. SaidSpare(p1, s1, lo, hi + 1)
        = (IF s[hi] = v /\ v = 1 THEN 2 ELSE 0) + (IF p1 = "no" /\ v = 1 THEN 2 ELSE 0)
  BY <1>1, <1>4 DEF SaidSpare
<1>8. SayFacts(p, p1, s, z, lo, hi, v, s1, z1)
  BY <1>1, <1>3, <1>4, <1>5, <1>6, <1>7 DEF SayFacts
<1> QED BY <1>8 DEF s1, z1

\* What the client says next, once its first word is read.
After(w, t, tl, th) == IF tl + 1 = th THEN w ELSE t[tl + 2]

\* What reading a word of the client's does that goes from state p to p1.
LEMMA HearEffect ==
    ASSUME NEW w \in {0, 1}, NEW p, NEW p1 \in {"no", "yes"}, NEW t, NEW y, NEW tl, NEW th,
           Told(t, y, tl, th), tl < th, NEW x, x = After(w, t, tl, th)
    PROVE  /\ Told(t, y, tl + 1, th) /\ t[tl + 1] \in {0, 1} /\ x \in {0, 1}
           /\ tl + 1 # th /\ t[tl + 1] = 0 => x = 1
           /\ ToldTurns(w, p1, t, y, tl + 1, th) - ToldSpare(w, p1, t, tl + 1, th)
                = ToldTurns(w, p, t, y, tl, th) - ToldSpare(w, p, t, tl, th)
                  + Differ(Wish(p1), x) - Differ(Wish(p), t[tl + 1]) - Differ(t[tl + 1], x)
                  + (IF p \in {"wantyes", "wantno"} /\ t[tl + 1] # Wish(p) THEN 2 ELSE 0)
                  + (IF tl + 1 = th /\ t[tl + 1] # w THEN 2 ELSE 0)
                  - (IF tl + 1 = th /\ Wish(p1) # w THEN 2 ELSE 0)
<1>1. /\ tl \in Int /\ th \in Int /\ tl + 1 <= th /\ (tl + 1) + 1 = tl + 2
      /\ t[th] \in {0, 1} /\ t[tl + 1] \in {0, 1} /\ y[th] \in Int /\ y[tl + 1] \in Int
      /\ t[tl + 2] \in {0, 1} /\ y[tl + 2] \in Int
  BY DEF Told
<1>2. Told(t, y, tl + 1, th)
  <2>1. ASSUME NEW i \in Int, tl + 1 < i, i < th
        PROVE  /\ y[i + 1] = y[i] + (IF t[i] = 1 /\ t[i + 1] = 0 THEN 1 ELSE 0)
               /\ t[i] = 0 => t[i + 1] = 1
    <3>1. tl < i
      BY <1>1, <2>1
    <3> QED BY <2>1, <3>1 DEF Told
  <2>2. ASSUME NEW i \in Int, NEW j \in Int, tl + 1 < i, i <= j, j <= th
        PROVE  (t[j] + 2 * y[j]) - (t[i] + 2 * y[i]) >= 0
    <3>1. tl < i
      BY <1>1, <2>2
    <3> QED BY <2>2, <3>1 DEF Told
  <2>3. tl + 1 \in Int
    BY <1>1
  <2> QED BY <1>1, <2>1, <2>2, <2>3 DEF Told
<1>3. x \in {0, 1}
  BY <1>1 DEF After
<1>4. tl + 1 # th =>
        /\ y[tl + 2] = y[tl + 1] + (IF t[tl + 1] = 1 /\ t[tl + 2] = 0 THEN 1 ELSE 0)
        /\ t[tl + 1] = 0 => t[tl + 2] = 1
  <2>1. tl + 1 \in Int /\ tl < tl + 1 /\ (tl + 1 # th => tl + 1 < th)
    BY <1>1
  <2> QED BY <1>1, <2>1 DEF Told
<1>5. /\ Wish(p) \in {0, 1} /\ Wish(p1) \in {0, 1} /\ p1 \notin {"wantyes", "wantno"}
  BY DEF Wish
<1> DEFINE U == IF p \in {"wantyes", "wantno"} /\ t[tl + 1] # Wish(p) THEN 2 ELSE 0
<1>6. CASE tl + 1 = th
  <2>1. /\ ToldTurns(w, p1, t, y, tl + 1, th) = Differ(Wish(p1), w)
        /\ ToldTurns(w, p, t, y, tl, th) = Differ(Wish(p), t[tl + 1]) + Differ(t[tl + 1], w)
    BY <1>1, <1>5, <1>6 DEF ToldTurns, Differ
  <2>2. /\ ToldSpare(w, p1, t, tl + 1, th) = IF Wish(p1) # w THEN 2 ELSE 0
        /\ ToldSpare(w, p, t, tl, th) = U + (IF t[tl + 1] # w THEN 2 ELSE 0)
    BY <1>1, <1>5, <1>6 DEF ToldSpare
  <2>3. x = w
    BY <1>6 DEF After
  <2>4. U \in Int
    OBVIOUS
  <2> HIDE DEF U
  <2>5. ToldTurns(w, p1, t, y, tl + 1, th) - ToldSpare(w, p1, t, tl + 1, th)
          = ToldTurns(w, p, t, y, tl, th) - ToldSpare(w, p, t, tl, th)
            + Differ(Wish(p1), x) - Differ(Wish(p), t[tl + 1]) - Differ(t[tl + 1], x)
            + U + (IF tl + 1 = th /\ t[tl + 1] # w THEN 2 ELSE 0)
            - (IF tl + 1 = th /\ Wish(p1) # w THEN 2 ELSE 0)
    BY <1>1, <1>5, <1>6, <2>1, <2>2, <2>3, <2>4 DEF Differ
  <2> QED BY <1>1, <1>2, <1>3, <1>6, <2>5 DEF U
<1>7. CASE tl + 1 # th
  <2>1. /\ ToldTurns(w, p1, t, y, tl + 1, th) = Differ(Wish(p1), t[tl + 2]) + Differ(t[th], w)
             + ((t[th] + 2 * y[th]) - (t[tl + 2] + 2 * y[tl + 2]))
        /\ ToldTurns(w, p, t, y, tl, th) = Differ(Wish(p), t[tl + 1]) + Differ(t[th], w)
             + ((t[th] + 2 * y[th]) - (t[tl + 1] + 2 * y[tl + 1]))
    BY <1>1, <1>7 DEF ToldTurns
  <2>2. /\ ToldSpare(w, p1, t, tl + 1, th) = IF t[th] # w THEN 2 ELSE 0
        /\ ToldSpare(w, p, t, tl, th) = U + (IF t[th] # w THEN 2 ELSE 0)
    BY <1>1, <1>5, <1>7 DEF ToldSpare
  <2>3. x = t[tl + 2]
    BY <1>7 DEF After
  <2>4. U \in Int
    OBVIOUS
  <2> HIDE DEF U
  <2> DEFINE A == t[tl + 2] + 2 * y[tl + 2]
             B == t[tl + 1] + 2 * y[tl + 1]
             E == t[th] + 2 * y[th]
             G == IF t[th] # w THEN 2 ELSE 0
             D == Differ(t[tl + 1], t[tl + 2])
             D0 == Differ(Wish(p), t[tl + 1])
             D1 == Differ(Wish(p1), t[tl + 2])
             D2 == Differ(t[th], w)
  <2>5. A - B = D
    BY <1>1, <1>4, <1>7 DEF Differ
  <2>6. /\ A \in Int /\ B \in Int /\ E \in Int /\ G \in Int
        /\ D \in Int /\ D0 \in Int /\ D1 \in Int /\ D2 \in Int
    BY <1>1 DEF Differ
  <2>7. /\ ToldTurns(w, p1, t, y, tl + 1, th) = D1 + D2 + (E - A)
        /\ ToldTurns(w, p, t, y, tl, th) = D0 + D2 + (E - B)
        /\ ToldSpare(w, p1, t, tl + 1, th) = G
        /\ ToldSpare(w, p, t, tl, th) = U + G
    BY <2>1, <2>2
  <2> HIDE DEF A, B, E, G, D, D0, D1, D2
  <2>8. ToldTurns(w, p1, t, y, tl + 1, th) - ToldSpare(w, p1, t, tl + 1, th)
          = ToldTurns(w, p, t, y, tl, th) - ToldSpare(w, p, t, tl, th)
            + D1 - D0 - D + U + 0 - 0
    BY <2>4, <2>5, <2>6, <2>7
  <2>9. /\ (IF tl + 1 = th /\ t[tl + 1] # w THEN 2 ELSE 0) = 0
        /\ (IF tl + 1 = th /\ Wish(p1) # w THEN 2 ELSE 0) = 0
    BY <1>7
  <2>10. ToldTurns(w, p1, t, y, tl + 1, th) - ToldSpare(w, p1, t, tl + 1, th)
          = ToldTurns(w, p, t, y, tl, th) - ToldSpare(w, p, t, tl, th)
            + Differ(Wish(p1), x) - Differ(Wish(p), t[tl + 1]) - Differ(t[tl + 1], x)
            + U + (IF tl + 1 = th /\ t[tl + 1] # w THEN 2 ELSE 0)
            - (IF tl + 1 = th /\ Wish(p1) # w THEN 2 ELSE 0)
    BY <2>3, <2>8, <2>9, Zenon DEF D, D0, D1
  <2> QED BY <1>1, <1>2, <1>3, <1>4, <1>7, <2>3, <2>10 DEF U
<1> QED BY <1>6, <1>7

\* The peer reads a word and says nothing.
LEMMA HearAccepted ==
    ASSUME NEW w, NEW n, NEW p, NEW s, NEW z, NEW lo, NEW hi, NEW t, NEW y, NEW tl, NEW th,
           Accepted(w, n, p, s, z, lo, hi, t, y, tl, th), tl < th, NEW p1,
           \/ p = "no" /\ t[tl + 1] = 0 /\ p1 = "no"
           \/ p = "yes" /\ t[tl + 1] = 1 /\ p1 = "yes"
           \/ p = "wantno" /\ p1 = "no"
           \/ p = "wantyes" /\ p1 = IF t[tl + 1] = 1 THEN "yes" ELSE "no"
    PROVE  Accepted(w, n, p1, s, z, lo, hi, t, y, tl + 1, th)
<1> DEFINE c == t[tl + 1]
           x == After(w, t, tl, th)
           a == s[hi]
           ST == SaidTurns(p, s, z, lo, hi)
           SS == SaidSpare(p, s, lo, hi)
           TT == ToldTurns(w, p, t, y, tl, th)
           TS == ToldSpare(w, p, t, tl, th)
           ST1 == SaidTurns(p1, s, z, lo, hi)
           SS1 == SaidSpare(p1, s, lo, hi)
           TT1 == ToldTurns(w, p1, t, y, tl + 1, th)
           TS1 == ToldSpare(w, p1, t, tl + 1, th)
<1>1. /\ w \in {0, 1} /\ n \in Nat /\ p \in PeerStates /\ Said(s, z, lo, hi) /\ Told(t, y, tl, th)
      /\ n + SS + TS <= ST + TT
      /\ Habits(w, p, s, lo, hi, t, tl, th) /\ Even(n, s[lo], w)
  BY DEF Accepted, Balanced
<1>2. p1 \in {"no", "yes"} /\ p1 \in PeerStates
  BY DEF PeerStates
<1>3. /\ Told(t, y, tl + 1, th) /\ c \in {0, 1} /\ x \in {0, 1}
      /\ tl + 1 # th /\ c = 0 => x = 1
      /\ TT1 - TS1 = TT - TS + Differ(Wish(p1), x) - Differ(Wish(p), c) - Differ(c, x)
           + (IF p \in {"wantyes", "wantno"} /\ c # Wish(p) THEN 2 ELSE 0)
           + (IF tl + 1 = th /\ c # w THEN 2 ELSE 0)
           - (IF tl + 1 = th /\ Wish(p1) # w THEN 2 ELSE 0)
  BY <1>1, <1>2, HearEffect
<1>4. ST \in Int /\ SS \in Int /\ TT \in Int /\ TS \in Int
  BY <1>1, CountTypes
<1>5. ST1 \in Int /\ SS1 \in Int /\ TT1 \in Int /\ TS1 \in Int
  BY <1>1, <1>3, CountTypes
<1>6. /\ lo \in Int /\ hi \in Int /\ a \in {0, 1} /\ s[lo] \in {0, 1} /\ z[lo] \in Int /\ z[hi] \in Int
      /\ tl \in Int /\ th \in Int
  BY <1>1 DEF Said, Told
<1>61. (tl + 1) + 1 = tl + 2
  BY <1>6
<1>7. ST1 = ST - Differ(a, Wish(p)) + Differ(a, Wish(p1))
  BY <1>6 DEF SaidTurns, Differ
<1>8. /\ SS = (IF Again(s, lo, hi) /\ a = 1 THEN 2 ELSE 0) + (IF p = "no" /\ a = 1 THEN 2 ELSE 0)
      /\ SS1 = (IF Again(s, lo, hi) /\ a = 1 THEN 2 ELSE 0) + (IF p1 = "no" /\ a = 1 THEN 2 ELSE 0)
  BY DEF SaidSpare
<1>9. /\ tl + 1 = th => x = w /\ t[th] = c
      /\ tl + 1 # th => x = t[tl + 2]
      /\ tl + 1 = th /\ c = 0 => w = 0
      /\ tl < th /\ t[th] = 0 => w = 0
  BY <1>1 DEF After, Habits
<1>10. /\ p # "no" => a = Wish(p)
       /\ Again(s, lo, hi) => p # "wantno" /\ (a = 1 => p # "no")
       /\ hi > lo + 1 => ~(a = 1 /\ s[hi - 1] = 1 /\ s[hi - 2] = 1)
       /\ (p = "no" /\ a = 1) \/ (p = "wantyes" /\ Again(s, lo, hi)) => c = 1
  BY <1>1, <1>6 DEF Habits
<1> DEFINE r == tl + 1 = th
           ag == Again(s, lo, hi)
<1>11. ag \in BOOLEAN /\ r \in BOOLEAN
  BY DEF Again
<1>12. \/ p = "no" /\ c = 0 /\ p1 = "no"
       \/ p = "yes" /\ c = 1 /\ p1 = "yes"
       \/ p = "wantno" /\ p1 = "no"
       \/ p = "wantyes" /\ c = 1 /\ p1 = "yes"
       \/ p = "wantyes" /\ c = 0 /\ p1 = "no"
  BY <1>3
<1> HIDE DEF c, x, a, ST, SS, TT, TS, ST1, SS1, TT1, TS1, ag, r
<1>13. /\ TT1 - TS1 = TT - TS + Differ(Wish(p1), x) - Differ(Wish(p), c) - Differ(c, x)
           + (IF p \in {"wantyes", "wantno"} /\ c # Wish(p) THEN 2 ELSE 0)
           + (IF r /\ c # w THEN 2 ELSE 0) - (IF r /\ Wish(p1) # w THEN 2 ELSE 0)
       /\ SS = (IF ag /\ a = 1 THEN 2 ELSE 0) + (IF p = "no" /\ a = 1 THEN 2 ELSE 0)
       /\ SS1 = (IF ag /\ a = 1 THEN 2 ELSE 0) + (IF p1 = "no" /\ a = 1 THEN 2 ELSE 0)
       /\ r => x = w /\ (c = 0 => w = 0)
       /\ ~r /\ c = 0 => x = 1
       /\ p # "no" => a = Wish(p)
       /\ ag => p # "wantno" /\ (a = 1 => p # "no")
       /\ (p = "no" /\ a = 1) \/ (p = "wantyes" /\ ag) => c = 1
  BY <1>3, <1>8, <1>9, <1>10, Zenon DEF r, ag
<1>14. n + SS1 + TS1 <= ST1 + TT1
  BY <1>1, <1>3, <1>4, <1>5, <1>6, <1>7, <1>11, <1>12, <1>13 DEF Wish, Differ
<1>15. /\ p1 # "no" => a = Wish(p1)
       /\ ag => p1 # "wantno" /\ (a = 1 => p1 # "no")
       /\ (p1 = "no" /\ a = 1) \/ (p1 = "wantyes" /\ ag) => IF r THEN w = 0 ELSE x = 1
  BY <1>3, <1>6, <1>11, <1>12, <1>13 DEF Wish
<1>16. Habits(w, p1, s, lo, hi, t, tl + 1, th)
  BY <1>6, <1>61, <1>9, <1>10, <1>15 DEF Habits, a, ag, r
<1>17. n \in Int
  BY <1>1
<1>18. Balanced(w, n, p1, s, z, lo, hi, t, y, tl + 1, th)
  BY <1>1, <1>2, <1>3, <1>14, <1>16, <1>17 DEF Balanced, ST1, SS1, TT1, TS1
<1> QED BY <1>1, <1>18 DEF Accepted

\* The peer reads a word and answers v.
LEMMA AnswerAccepted ==
    ASSUME NEW w, NEW n, NEW p, NEW s, NEW z, NEW lo, NEW hi, NEW t, NEW y, NEW tl, NEW th,
           Accepted(w, n, p, s, z, lo, hi, t, y, tl, th), tl < th, NEW p1, NEW v \in {0, 1},
           \/ p = "no" /\ t[tl + 1] = 1 /\ p1 = IF v = 1 THEN "yes" ELSE "no"
           \/ p = "yes" /\ t[tl + 1] = 0 /\ p1 = "no" /\ v = 0
    PROVE  Accepted(w, n, p1, SayS(s, hi, v), SayZ(s, z, hi, v), lo, hi + 1, t, y, tl + 1, th)
<1> DEFINE c == t[tl + 1]
           x == After(w, t, tl, th)
           a == s[hi]
           s1 == SayS(s, hi, v)
           z1 == SayZ(s, z, hi, v)
           ST == SaidTurns(p, s, z, lo, hi)
           SS == SaidSpare(p, s, lo, hi)
           TT == ToldTurns(w, p, t, y, tl, th)
           TS == ToldSpare(w, p, t, tl, th)
           ST1 == SaidTurns(p1, s1, z1, lo, hi + 1)
           SS1 == SaidSpare(p1, s1, lo, hi + 1)
           TT1 == ToldTurns(w, p1, t, y, tl + 1, th)
           TS1 == ToldSpare(w, p1, t, tl + 1, th)
           r == tl + 1 = th
           ag == Again(s, lo, hi)
<1>1. /\ w \in {0, 1} /\ n \in Nat /\ p \in PeerStates /\ Said(s, z, lo, hi) /\ Told(t, y, tl, th)
      /\ n + SS + TS <= ST + TT
      /\ Habits(w, p, s, lo, hi, t, tl, th) /\ Even(n, s[lo], w)
  BY DEF Accepted, Balanced
<1>2. p1 \in {"no", "yes"} /\ p1 \in PeerStates
  BY DEF PeerStates
<1>3. /\ Told(t, y, tl + 1, th) /\ c \in {0, 1} /\ x \in {0, 1}
      /\ tl + 1 # th /\ c = 0 => x = 1
      /\ TT1 - TS1 = TT - TS + Differ(Wish(p1), x) - Differ(Wish(p), c) - Differ(c, x)
           + (IF p \in {"wantyes", "wantno"} /\ c # Wish(p) THEN 2 ELSE 0)
           + (IF tl + 1 = th /\ c # w THEN 2 ELSE 0)
           - (IF tl + 1 = th /\ Wish(p1) # w THEN 2 ELSE 0)
  BY <1>1, <1>2, HearEffect
<1>4. /\ Said(s1, z1, lo, hi + 1)
      /\ s1[lo] = s[lo] /\ s1[hi + 1] = v
      /\ Again(s1, lo, hi + 1) <=> a = v
      /\ hi + 1 > lo + 1 => (s1[hi + 1] = 1 /\ s1[(hi + 1) - 1] = 1 /\ s1[(hi + 1) - 2] = 1
                             => v = 1 /\ a = 1 /\ ag)
      /\ ST1 = ST - Differ(a, Wish(p)) + (IF a = v THEN 2 ELSE 1) + Differ(v, Wish(p1))
      /\ SS1 = (IF a = v /\ v = 1 THEN 2 ELSE 0) + (IF p1 = "no" /\ v = 1 THEN 2 ELSE 0)
  <2>1. SayFacts(p, p1, s, z, lo, hi, v, s1, z1)
    BY <1>1, SayEffect
  <2> QED BY <2>1, Zenon DEF SayFacts
<1> HIDE DEF s1, z1
<1>5. ST \in Int /\ SS \in Int /\ TT \in Int /\ TS \in Int
  BY <1>1, CountTypes
<1>6. ST1 \in Int /\ SS1 \in Int /\ TT1 \in Int /\ TS1 \in Int
  BY <1>1, <1>3, <1>4, CountTypes
<1>7. /\ lo \in Int /\ hi \in Int /\ a \in {0, 1} /\ s[lo] \in {0, 1}
      /\ tl \in Int /\ th \in Int
  BY <1>1 DEF Said, Told
<1>71. (tl + 1) + 1 = tl + 2 /\ ag \in BOOLEAN /\ r \in BOOLEAN
  BY <1>7 DEF Again
<1>8. SS = (IF ag /\ a = 1 THEN 2 ELSE 0) + (IF p = "no" /\ a = 1 THEN 2 ELSE 0)
  BY DEF SaidSpare
<1>9. /\ tl + 1 = th => x = w /\ t[th] = c
      /\ tl + 1 # th => x = t[tl + 2]
      /\ tl + 1 = th /\ c = 0 => w = 0
      /\ tl < th /\ t[th] = 0 => w = 0
  BY <1>1 DEF After, Habits
<1>10. /\ p # "no" => a = Wish(p)
       /\ ag => p # "wantno" /\ (a = 1 => p # "no")
       /\ (p = "no" /\ a = 1) \/ (p = "wantyes" /\ ag) => c = 1
  BY <1>1, <1>7 DEF Habits
<1> HIDE DEF c, x, a, ST, SS, TT, TS, ST1, SS1, TT1, TS1, ag, r
<1>12. \/ p = "no" /\ c = 1 /\ v = 1 /\ p1 = "yes"
       \/ p = "no" /\ c = 1 /\ v = 0 /\ p1 = "no"
       \/ p = "yes" /\ c = 0 /\ v = 0 /\ p1 = "no"
  BY <1>3 DEF c
<1>13. /\ TT1 - TS1 = TT - TS + Differ(Wish(p1), x) - Differ(Wish(p), c) - Differ(c, x)
           + (IF p \in {"wantyes", "wantno"} /\ c # Wish(p) THEN 2 ELSE 0)
           + (IF r /\ c # w THEN 2 ELSE 0) - (IF r /\ Wish(p1) # w THEN 2 ELSE 0)
       /\ r => x = w /\ (c = 0 => w = 0)
       /\ ~r /\ c = 0 => x = 1
  BY <1>3, <1>9, Zenon DEF r
<1>14. n + SS1 + TS1 <= ST1 + TT1
  BY <1>1, <1>3, <1>4, <1>5, <1>6, <1>7, <1>71, <1>8, <1>10, <1>12, <1>13 DEF Wish, Differ
<1>15. /\ p1 # "no" => v = Wish(p1)
       /\ a = v => p1 # "wantno" /\ (v = 1 => p1 # "no")
       /\ ~(v = 1 /\ a = 1 /\ ag)
       /\ ~(p1 = "no" /\ v = 1) /\ p1 # "wantyes"
  BY <1>7, <1>71, <1>10, <1>12 DEF Wish
<1>16. Habits(w, p1, s1, lo, hi + 1, t, tl + 1, th)
  BY <1>4, <1>7, <1>71, <1>9, <1>15 DEF Habits, r
<1>17. n \in Int
  BY <1>1
<1>18. Balanced(w, n, p1, s1, z1, lo, hi + 1, t, y, tl + 1, th)
  BY <1>1, <1>2, <1>3, <1>4, <1>14, <1>16, <1>17 DEF Balanced, ST1, SS1, TT1, TS1
<1> QED BY <1>1, <1>4, <1>18 DEF Accepted, s1, z1

\* The peer makes a request.
LEMMA OfferAccepted ==
    ASSUME NEW w, NEW n, NEW p, NEW s, NEW z, NEW lo, NEW hi, NEW t, NEW y, NEW tl, NEW th,
           Accepted(w, n, p, s, z, lo, hi, t, y, tl, th), NEW p1, NEW v \in {0, 1},
           \/ p = "no" /\ p1 = "wantyes" /\ v = 1
           \/ p = "yes" /\ p1 = "wantno" /\ v = 0
    PROVE  Accepted(w, n, p1, SayS(s, hi, v), SayZ(s, z, hi, v), lo, hi + 1, t, y, tl, th)
<1> DEFINE a == s[hi]
           s1 == SayS(s, hi, v)
           z1 == SayZ(s, z, hi, v)
           ST == SaidTurns(p, s, z, lo, hi)
           SS == SaidSpare(p, s, lo, hi)
           TT == ToldTurns(w, p, t, y, tl, th)
           TS == ToldSpare(w, p, t, tl, th)
           ST1 == SaidTurns(p1, s1, z1, lo, hi + 1)
           SS1 == SaidSpare(p1, s1, lo, hi + 1)
           TT1 == ToldTurns(w, p1, t, y, tl, th)
           TS1 == ToldSpare(w, p1, t, tl, th)
           ag == Again(s, lo, hi)
           x == IF tl = th THEN w ELSE t[tl + 1]
<1>1. /\ w \in {0, 1} /\ n \in Nat /\ p \in PeerStates /\ Said(s, z, lo, hi) /\ Told(t, y, tl, th)
      /\ n + SS + TS <= ST + TT
      /\ Habits(w, p, s, lo, hi, t, tl, th) /\ Even(n, s[lo], w)
  BY DEF Accepted, Balanced
<1>2. p1 \in PeerStates
  BY DEF PeerStates
<1>4. /\ Said(s1, z1, lo, hi + 1)
      /\ s1[lo] = s[lo] /\ s1[hi + 1] = v
      /\ Again(s1, lo, hi + 1) <=> a = v
      /\ hi + 1 > lo + 1 => (s1[hi + 1] = 1 /\ s1[(hi + 1) - 1] = 1 /\ s1[(hi + 1) - 2] = 1
                             => v = 1 /\ a = 1 /\ ag)
      /\ ST1 = ST - Differ(a, Wish(p)) + (IF a = v THEN 2 ELSE 1) + Differ(v, Wish(p1))
      /\ SS1 = (IF a = v /\ v = 1 THEN 2 ELSE 0) + (IF p1 = "no" /\ v = 1 THEN 2 ELSE 0)
  <2>1. SayFacts(p, p1, s, z, lo, hi, v, s1, z1)
    BY <1>1, SayEffect
  <2> QED BY <2>1, Zenon DEF SayFacts
<1> HIDE DEF s1, z1
<1>5. ST \in Int /\ SS \in Int /\ TT \in Int /\ TS \in Int
  BY <1>1, CountTypes
<1>6. ST1 \in Int /\ SS1 \in Int /\ TT1 \in Int /\ TS1 \in Int
  BY <1>1, <1>4, CountTypes
<1>7. /\ lo \in Int /\ hi \in Int /\ a \in {0, 1} /\ s[lo] \in {0, 1}
      /\ tl \in Int /\ th \in Int /\ t[tl + 1] \in {0, 1} /\ t[th] \in {0, 1}
  <2>1. lo \in Int /\ hi \in Int /\ a \in {0, 1} /\ s[lo] \in {0, 1}
    BY <1>1 DEF Said
  <2>2. tl \in Int /\ th \in Int /\ t[tl + 1] \in {0, 1} /\ t[th] \in {0, 1}
    BY <1>1 DEF Told
  <2> QED BY <2>1, <2>2
<1>72. y[tl + 1] \in Int /\ y[th] \in Int
  BY <1>1, <1>7 DEF Told
<1>71. ag \in BOOLEAN /\ x \in {0, 1}
  BY <1>1, <1>7 DEF Again
<1>8. SS = (IF ag /\ a = 1 THEN 2 ELSE 0) + (IF p = "no" /\ a = 1 THEN 2 ELSE 0)
  BY DEF SaidSpare
<1>9. TT1 = TT - Differ(Wish(p), x) + Differ(Wish(p1), x)
  BY <1>7, <1>71, <1>72 DEF ToldTurns, Differ, Wish
<1>10. TS1 - TS = IF tl = th THEN 2 - (IF Wish(p) # w THEN 2 ELSE 0)
                  ELSE IF x # Wish(p1) THEN 2 ELSE 0
  BY <1>7, <1>71 DEF ToldSpare, Wish
<1>11. /\ p # "no" => a = Wish(p)
       /\ ag => p # "wantno" /\ (a = 1 => p # "no")
       /\ (p = "no" /\ a = 1) \/ (p = "wantyes" /\ ag) => IF tl = th THEN w = 0 ELSE x = 1
       /\ tl < th /\ t[th] = 0 => w = 0
       /\ tl = th => x = w
       /\ tl # th => x = t[tl + 1]
  BY <1>1, <1>7 DEF Habits
<1> HIDE DEF x, a, ST, SS, TT, TS, ST1, SS1, TT1, TS1, ag
<1>14. n + SS1 + TS1 <= ST1 + TT1
  BY <1>1, <1>4, <1>5, <1>6, <1>7, <1>71, <1>8, <1>9, <1>10, <1>11 DEF Wish, Differ
<1>15. /\ p1 # "no" => v = Wish(p1)
       /\ a = v => p1 # "wantno" /\ (v = 1 => p1 # "no")
       /\ ~(v = 1 /\ a = 1 /\ ag)
       /\ (p1 = "no" /\ v = 1) \/ (p1 = "wantyes" /\ a = v) => IF tl = th THEN w = 0 ELSE x = 1
  BY <1>7, <1>71, <1>11 DEF Wish
<1>16. Habits(w, p1, s1, lo, hi + 1, t, tl, th)
  BY <1>4, <1>7, <1>11, <1>15 DEF Habits
<1>17. n \in Int
  BY <1>1
<1>18. Balanced(w, n, p1, s1, z1, lo, hi + 1, t, y, tl, th)
  BY <1>1, <1>2, <1>4, <1>14, <1>16, <1>17 DEF Balanced, ST1, SS1, TT1, TS1
<1> QED BY <1>1, <1>4, <1>18 DEF Accepted, s1, z1

-----------------------------------------------------------------------------
(* The words of one option and direction among those under way.            *)

\* The words there are, the directions of an option as the client sees them
\* (DO and DONT, WILL and WONT), and that of the words that answer.
Messages == Verbs \X Options
Directions == {"do", "will"}
Other(dir) == IF dir = "do" THEN "will" ELSE "do"

\* A word: direction "do" is DO and DONT, "will" is WILL and WONT.
Word(dir, o, v) ==
    <<IF dir = "do" THEN IF v = 1 THEN "DO" ELSE "DONT"
                    ELSE IF v = 1 THEN "WILL" ELSE "WONT", o>>

\* m is a word of dir and o.
IsWord(m, dir, o) == m = Word(dir, o, 0) \/ m = Word(dir, o, 1)

\* s[l + 1], ..., s[h] are the words of dir and o in queue q, and g tells where
\* in it each is.
Track(q, dir, o, l, h, g, s) ==
    /\ q \in Seq(Messages)
    /\ l \in Int /\ h \in Int /\ l <= h /\ g \in [Int -> Int] /\ s \in [Int -> {0, 1}]
    /\ \A i \in Int : l < i /\ i <= h => /\ g[i] \in 1 .. Len(q)
                                         /\ q[g[i]] = Word(dir, o, s[i])
    /\ \A i, j \in Int : l < i /\ i < j /\ j <= h => g[i] < g[j]
    /\ \A k \in 1 .. Len(q) : IsWord(q[k], dir, o) => \E i \in Int : l < i /\ i <= h /\ g[i] = k

\* An empty queue has no words.
LEMMA TrackEmpty ==
    ASSUME NEW dir, NEW o, NEW l, NEW h, NEW g, NEW s, Track(<<>>, dir, o, l, h, g, s)
    PROVE  l = h
<1>1. l \in Int /\ h \in Int /\ l <= h /\ Len(<<>>) = 0
  BY DEF Track
<1>2. CASE l < h
  <2>0. h <= h
    BY <1>1
  <2>1. g[h] \in 1 .. Len(<<>>)
    BY <1>1, <1>2, <2>0, Zenon DEF Track
  <2>2. g[h] \in 1 .. 0
    BY <1>1, <2>1
  <2> QED BY <2>2
<1> QED BY <1>1, <1>2

\* The queues of a new connection.
LEMMA TrackNew ==
    ASSUME NEW dir, NEW o, NEW s \in [Int -> {0, 1}]
    PROVE  \E g : Track(<<>>, dir, o, 0, 0, g, s)
<1> DEFINE g == [i \in Int |-> 0]
<1>1. g \in [Int -> Int] /\ <<>> \in Seq(Messages) /\ Len(<<>>) = 0
  OBVIOUS
<1>2. Track(<<>>, dir, o, 0, 0, g, s)
  BY <1>1 DEF Track
<1> QED BY <1>2

\* What Append makes of a queue.
LEMMA AppendFacts ==
    ASSUME NEW q \in Seq(Messages), NEW m \in Messages
    PROVE  /\ Append(q, m) \in Seq(Messages) /\ Len(Append(q, m)) = Len(q) + 1 /\ Len(q) \in Nat
           /\ \A k \in 1 .. Len(q) : Append(q, m)[k] = q[k]
           /\ Append(q, m)[Len(q) + 1] = m
BY AppendProperties

\* A word of dir and o joins the queue.
LEMMA TrackAppend ==
    ASSUME NEW q, NEW dir, NEW o, NEW l, NEW h, NEW g, NEW s, Track(q, dir, o, l, h, g, s),
           NEW v \in {0, 1}, Word(dir, o, v) \in Messages
    PROVE  \E g1 : Track(Append(q, Word(dir, o, v)), dir, o, l, h + 1, g1, SayS(s, h, v))
<1> DEFINE m == Word(dir, o, v)
           q1 == Append(q, m)
           g1 == [g EXCEPT ![h + 1] = Len(q) + 1]
           s1 == SayS(s, h, v)
<1>1. /\ q \in Seq(Messages) /\ l \in Int /\ h \in Int /\ l <= h
      /\ g \in [Int -> Int] /\ s \in [Int -> {0, 1}] /\ m \in Messages
  BY DEF Track
<1>5. m = Word(dir, o, v)
  OBVIOUS
<1> HIDE DEF m
<1>2. /\ q1 \in Seq(Messages) /\ Len(q1) = Len(q) + 1 /\ Len(q) \in Nat
      /\ \A k \in 1 .. Len(q) : q1[k] = q[k]
      /\ q1[Len(q) + 1] = m
  BY <1>1, AppendFacts
<1>3. /\ g1 \in [Int -> Int] /\ g1[h + 1] = Len(q) + 1
      /\ \A i \in Int : i <= h => g1[i] = g[i]
  <2>1. Len(q) + 1 \in Int /\ h + 1 \in Int /\ \A i \in Int : i <= h => i # h + 1
    BY <1>1, <1>2
  <2> QED BY <1>1, <2>1
<1>4. /\ s1 \in [Int -> {0, 1}] /\ s1[h + 1] = v
      /\ \A i \in Int : i <= h => s1[i] = s[i]
  BY <1>1 DEF SayS
<1> HIDE DEF q1, g1, s1
<1>6. ASSUME NEW i \in Int, l < i, i <= h + 1
      PROVE  g1[i] \in 1 .. Len(q1) /\ q1[g1[i]] = Word(dir, o, s1[i])
  <2>1. CASE i <= h
    <3>1. g[i] \in 1 .. Len(q) /\ q[g[i]] = Word(dir, o, s[i])
      BY <1>6, <2>1 DEF Track
    <3>2. g1[i] = g[i] /\ s1[i] = s[i]
      BY <1>3, <1>4, <2>1
    <3> QED BY <1>2, <3>1, <3>2
  <2>2. CASE i = h + 1
    <3>1. Len(q) + 1 \in 1 .. Len(q1)
      BY <1>2
    <3>2. g1[i] = Len(q) + 1 /\ s1[i] = v
      BY <1>3, <1>4, <2>2
    <3> QED BY <1>2, <1>5, <3>1, <3>2
  <2> QED BY <1>1, <1>6, <2>1, <2>2
<1>7. ASSUME NEW i \in Int, NEW j \in Int, l < i, i < j, j <= h + 1
      PROVE  g1[i] < g1[j]
  <2>1. i <= h /\ g1[i] = g[i] /\ g[i] \in 1 .. Len(q)
    <3>1. i <= h
      BY <1>1, <1>7
    <3> QED BY <1>3, <1>7, <3>1 DEF Track
  <2>2. CASE j <= h
    <3>1. g1[j] = g[j] /\ g[i] < g[j]
      BY <1>3, <1>7, <2>1, <2>2 DEF Track
    <3> QED BY <2>1, <3>1
  <2>3. CASE j = h + 1
    <3>1. g1[j] = Len(q) + 1
      BY <1>3, <2>3
    <3>2. g1[i] <= Len(q) /\ g1[i] \in Int
      BY <1>2, <2>1
    <3> QED BY <1>2, <3>1, <3>2
  <2> QED BY <1>1, <1>7, <2>2, <2>3
<1>8. ASSUME NEW k \in 1 .. Len(q1), IsWord(q1[k], dir, o)
      PROVE  \E i \in Int : l < i /\ i <= h + 1 /\ g1[i] = k
  <2>1. CASE k \in 1 .. Len(q)
    <3>1. IsWord(q[k], dir, o)
      BY <1>2, <1>8, <2>1
    <3>2. PICK i \in Int : l < i /\ i <= h /\ g[i] = k
      BY <2>1, <3>1 DEF Track
    <3>3. g1[i] = k /\ i <= h + 1
      BY <1>1, <1>3, <3>2
    <3> QED BY <3>2, <3>3
  <2>2. CASE k = Len(q) + 1
    <3>1. h + 1 \in Int /\ l < h + 1 /\ h + 1 <= h + 1 /\ g1[h + 1] = k
      BY <1>1, <1>3, <2>2
    <3> QED BY <3>1
  <2> QED BY <1>2, <2>1, <2>2
<1>9. h + 1 \in Int /\ l <= h + 1
  BY <1>1
<1>10. Track(q1, dir, o, l, h + 1, g1, s1)
  BY <1>1, <1>2, <1>3, <1>4, <1>6, <1>7, <1>8, <1>9, Zenon DEF Track
<1> QED BY <1>10 DEF q1, s1, m

\* A word of another option or direction joins the queue.
LEMMA TrackAppendOther ==
    ASSUME NEW q, NEW dir, NEW o, NEW l, NEW h, NEW g, NEW s, Track(q, dir, o, l, h, g, s),
           NEW m \in Messages, ~IsWord(m, dir, o)
    PROVE  Track(Append(q, m), dir, o, l, h, g, s)
<1> DEFINE q1 == Append(q, m)
<1>1. /\ q \in Seq(Messages) /\ l \in Int /\ h \in Int /\ l <= h
      /\ g \in [Int -> Int] /\ s \in [Int -> {0, 1}]
  BY DEF Track
<1>2. /\ q1 \in Seq(Messages) /\ Len(q1) = Len(q) + 1 /\ Len(q) \in Nat
      /\ \A k \in 1 .. Len(q) : q1[k] = q[k]
      /\ q1[Len(q) + 1] = m
  BY <1>1, AppendFacts
<1> HIDE DEF q1
<1>3. ASSUME NEW i \in Int, l < i, i <= h
      PROVE  g[i] \in 1 .. Len(q1) /\ q1[g[i]] = Word(dir, o, s[i])
  <2>1. g[i] \in 1 .. Len(q) /\ q[g[i]] = Word(dir, o, s[i])
    BY <1>3 DEF Track
  <2> QED BY <1>2, <2>1
<1>4. ASSUME NEW k \in 1 .. Len(q1), IsWord(q1[k], dir, o)
      PROVE  \E i \in Int : l < i /\ i <= h /\ g[i] = k
  <2>1. k # Len(q) + 1
    BY <1>2, <1>4
  <2>2. k \in 1 .. Len(q) /\ IsWord(q[k], dir, o)
    BY <1>2, <1>4, <2>1
  <2> QED BY <2>2 DEF Track
<1>5. \A i, j \in Int : l < i /\ i < j /\ j <= h => g[i] < g[j]
  BY DEF Track
<1>6. Track(q1, dir, o, l, h, g, s)
  BY <1>1, <1>2, <1>3, <1>4, <1>5, Zenon DEF Track
<1> QED BY <1>6 DEF q1

\* The positions, once the first message is gone.
Earlier(g) == [i \in Int |-> g[i] - 1]

\* A message other than the first, once the first is gone.
LEMMA EarlierFacts ==
    ASSUME NEW g \in [Int -> Int]
    PROVE  /\ Earlier(g) \in [Int -> Int]
           /\ \A i \in Int : g[i] \in Int /\ Earlier(g)[i] \in Int /\ Earlier(g)[i] = g[i] - 1
<1>1. \A i \in Int : g[i] \in Int /\ g[i] - 1 \in Int
  OBVIOUS
<1> QED BY <1>1 DEF Earlier

\* What Tail makes of a queue.
LEMMA TailFacts ==
    ASSUME NEW q \in Seq(Messages), q # <<>>
    PROVE  /\ Tail(q) \in Seq(Messages) /\ Len(q) \in Nat /\ Len(q) > 0 /\ Len(Tail(q)) = Len(q) - 1
           /\ Head(q) = q[1] /\ \A k \in 1 .. (Len(q) - 1) : Tail(q)[k] = q[k + 1]
BY HeadTailProperties

\* The first message, a word of dir and o, is read.
LEMMA TrackTail ==
    ASSUME NEW q, NEW dir, NEW o, NEW l, NEW h, NEW g, NEW s, Track(q, dir, o, l, h, g, s),
           q # <<>>, NEW v \in {0, 1}, Head(q) = Word(dir, o, v)
    PROVE  l < h /\ s[l + 1] = v /\ Track(Tail(q), dir, o, l + 1, h, Earlier(g), s)
<1> DEFINE q1 == Tail(q)
           g1 == Earlier(g)
<1>1. /\ q \in Seq(Messages) /\ l \in Int /\ h \in Int /\ l <= h
      /\ g \in [Int -> Int] /\ s \in [Int -> {0, 1}]
  BY DEF Track
<1>2. /\ q1 \in Seq(Messages) /\ Len(q) \in Nat /\ Len(q) > 0 /\ Len(q1) = Len(q) - 1
      /\ q[1] = Word(dir, o, v) /\ \A k \in 1 .. (Len(q) - 1) : q1[k] = q[k + 1]
  BY <1>1, TailFacts
<1>3. g1 \in [Int -> Int] /\ \A i \in Int : g[i] \in Int /\ g1[i] \in Int /\ g1[i] = g[i] - 1
  BY <1>1, EarlierFacts
<1> HIDE DEF q1, g1
<1>4. l < h /\ g[l + 1] = 1
  <2>1. 1 \in 1 .. Len(q) /\ IsWord(q[1], dir, o)
    BY <1>2 DEF IsWord
  <2>2. PICK i \in Int : l < i /\ i <= h /\ g[i] = 1
    BY <2>1 DEF Track
  <2>3. l < h /\ l + 1 \in Int /\ l < l + 1 /\ l + 1 <= h
    BY <1>1, <2>2
  <2>4. CASE i = l + 1
    BY <2>2, <2>3, <2>4
  <2>5. CASE l + 1 < i
    <3>1. g[l + 1] < g[i]
      BY <2>2, <2>3, <2>5 DEF Track
    <3>2. g[l + 1] \in 1 .. Len(q)
      BY <2>3 DEF Track
    <3> QED BY <1>2, <2>2, <3>1, <3>2
  <2> QED BY <1>1, <2>2, <2>3, <2>4, <2>5
<1>5. l + 1 \in Int /\ l < l + 1 /\ l + 1 <= h
  BY <1>1, <1>4
<1>6. s[l + 1] = v
  <2>1. Word(dir, o, s[l + 1]) = Word(dir, o, v)
    BY <1>2, <1>4, <1>5 DEF Track
  <2>2. s[l + 1] \in {0, 1}
    BY <1>1, <1>5
  <2> QED BY <2>1, <2>2 DEF Word
<1>7. ASSUME NEW i \in Int, l + 1 < i, i <= h
      PROVE  g1[i] \in 1 .. Len(q1) /\ q1[g1[i]] = Word(dir, o, s[i])
  <2>0. l < i
    BY <1>1, <1>7
  <2>1. g[i] \in 1 .. Len(q) /\ q[g[i]] = Word(dir, o, s[i])
    BY <1>7, <2>0 DEF Track
  <2>2. g[l + 1] < g[i]
    BY <1>5, <1>7 DEF Track
  <2>3. g1[i] \in 1 .. (Len(q) - 1) /\ g1[i] + 1 = g[i]
    <3>1. g1[i] = g[i] - 1 /\ g[i] \in Int /\ g[i] > 1 /\ g[i] <= Len(q)
      BY <1>3, <1>4, <2>1, <2>2
    <3> QED BY <1>2, <3>1
  <2> QED BY <1>2, <2>1, <2>3
<1>8. ASSUME NEW i \in Int, NEW j \in Int, l + 1 < i, i < j, j <= h
      PROVE  g1[i] < g1[j]
  <2>1. l < i
    BY <1>1, <1>8
  <2>2. g[i] < g[j]
    BY <1>8, <2>1 DEF Track
  <2>3. g1[i] = g[i] - 1 /\ g1[j] = g[j] - 1 /\ g[i] \in Int /\ g[j] \in Int
    BY <1>3
  <2> QED BY <2>2, <2>3
<1>9. ASSUME NEW k \in 1 .. Len(q1), IsWord(q1[k], dir, o)
      PROVE  \E i \in Int : l + 1 < i /\ i <= h /\ g1[i] = k
  <2>1. k + 1 \in 1 .. Len(q) /\ k \in 1 .. (Len(q) - 1) /\ k # 0
    BY <1>2
  <2>2. IsWord(q[k + 1], dir, o)
    BY <1>2, <1>9, <2>1
  <2>3. PICK i \in Int : l < i /\ i <= h /\ g[i] = k + 1
    BY <2>1, <2>2 DEF Track
  <2>4. i # l + 1
    BY <1>4, <2>1, <2>3
  <2>5. l + 1 < i /\ g1[i] = k
    BY <1>1, <1>3, <2>1, <2>3, <2>4
  <2> QED BY <2>3, <2>5
<1>10. Track(q1, dir, o, l + 1, h, g1, s)
  BY <1>1, <1>2, <1>3, <1>5, <1>7, <1>8, <1>9, Zenon DEF Track
<1> QED BY <1>4, <1>6, <1>10 DEF q1, g1

\* The first message, of another option or direction, is read.
LEMMA TrackTailOther ==
    ASSUME NEW q, NEW dir, NEW o, NEW l, NEW h, NEW g, NEW s, Track(q, dir, o, l, h, g, s),
           q # <<>>, ~IsWord(Head(q), dir, o)
    PROVE  Track(Tail(q), dir, o, l, h, Earlier(g), s)
<1> DEFINE q1 == Tail(q)
           g1 == Earlier(g)
<1>1. /\ q \in Seq(Messages) /\ l \in Int /\ h \in Int /\ l <= h
      /\ g \in [Int -> Int] /\ s \in [Int -> {0, 1}]
  BY DEF Track
<1>2. /\ q1 \in Seq(Messages) /\ Len(q) \in Nat /\ Len(q) > 0 /\ Len(q1) = Len(q) - 1
      /\ ~IsWord(q[1], dir, o) /\ \A k \in 1 .. (Len(q) - 1) : q1[k] = q[k + 1]
  BY <1>1, TailFacts
<1>3. g1 \in [Int -> Int] /\ \A i \in Int : g[i] \in Int /\ g1[i] \in Int /\ g1[i] = g[i] - 1
  BY <1>1, EarlierFacts
<1> HIDE DEF q1, g1
<1>4. ASSUME NEW i \in Int, l < i, i <= h
      PROVE  g1[i] \in 1 .. Len(q1) /\ q1[g1[i]] = Word(dir, o, s[i])
  <2>1. g[i] \in 1 .. Len(q) /\ q[g[i]] = Word(dir, o, s[i])
    BY <1>4 DEF Track
  <2>2. IsWord(q[g[i]], dir, o)
    <3>1. s[i] \in {0, 1}
      BY <1>1
    <3> QED BY <2>1, <3>1 DEF IsWord
  <2>3. g[i] # 1
    BY <1>2, <2>2
  <2>4. g1[i] \in 1 .. (Len(q) - 1) /\ g1[i] + 1 = g[i]
    <3>1. g1[i] = g[i] - 1 /\ g[i] \in Int /\ g[i] > 1 /\ g[i] <= Len(q)
      BY <1>3, <2>1, <2>3
    <3> QED BY <1>2, <3>1
  <2> QED BY <1>2, <2>1, <2>4
<1>5. ASSUME NEW i \in Int, NEW j \in Int, l < i, i < j, j <= h
      PROVE  g1[i] < g1[j]
  <2>1. g[i] < g[j]
    BY <1>5 DEF Track
  <2>2. g1[i] = g[i] - 1 /\ g1[j] = g[j] - 1 /\ g[i] \in Int /\ g[j] \in Int
    BY <1>3
  <2> QED BY <2>1, <2>2
<1>6. ASSUME NEW k \in 1 .. Len(q1), IsWord(q1[k], dir, o)
      PROVE  \E i \in Int : l < i /\ i <= h /\ g1[i] = k
  <2>1. k + 1 \in 1 .. Len(q) /\ k \in 1 .. (Len(q) - 1)
    BY <1>2
  <2>2. IsWord(q[k + 1], dir, o)
    BY <1>2, <1>6, <2>1
  <2>3. PICK i \in Int : l < i /\ i <= h /\ g[i] = k + 1
    BY <2>1, <2>2 DEF Track
  <2>4. g1[i] = k
    <3>1. g1[i] = g[i] - 1
      BY <1>3
    <3> QED BY <2>1, <2>3, <3>1
  <2> QED BY <2>3, <2>4
<1>7. Track(q1, dir, o, l, h, g1, s)
  BY <1>1, <1>2, <1>3, <1>4, <1>5, <1>6, Zenon DEF Track
<1> QED BY <1>7 DEF q1, g1

-----------------------------------------------------------------------------
(* An option the client refuses.  While the user does not ask for it again   *)
(* before the answer is in, at most two words are under way each way.        *)

\* The words s[l + 1], ..., s[h], written out.
Spelt(s, l, h) ==
    IF h = l THEN "none"
    ELSE IF h = l + 1 THEN IF s[l + 1] = 1 THEN "1" ELSE "0"
    ELSE IF h = l + 2
         THEN IF s[l + 1] = 1 THEN IF s[l + 2] = 1 THEN "11" ELSE "10"
                              ELSE IF s[l + 2] = 1 THEN "01" ELSE "00"
    ELSE "more"

\* The peer's state p and what the client and the peer have under way, c and q:
\* when the client has not got and does not wish for the option, does not have
\* it but wishes, has it and wishes not, has it and wishes.
Out(p, c, q) ==
    \/ p = "no" /\ c = "none" /\ q = "none"
    \/ p = "wantyes" /\ c = "none" /\ q = "1"
    \/ p = "wantno" /\ c = "0" /\ q = "none"
Asking(p, c, q) ==
    \/ p = "no" /\ c = "none" /\ q = "0"
    \/ p = "no" /\ c = "1" /\ q = "none"
    \/ p = "yes" /\ c = "none" /\ q = "1"
    \/ p = "wantno" /\ c = "none" /\ q = "10"
    \/ p = "wantno" /\ c = "01" /\ q = "none"
    \/ p = "wantyes" /\ c = "none" /\ q = "01"
    \/ p = "wantyes" /\ c = "1" /\ q = "1"
Refusing(p, c, q) ==
    \/ p = "no" /\ c = "none" /\ q = "none"
    \/ p = "no" /\ c = "none" /\ q = "0"
    \/ p = "yes" /\ c = "0" /\ q = "none"
    \/ p = "wantno" /\ c = "0" /\ q = "0"
    \/ p = "wantyes" /\ c = "none" /\ q = "01"
    \/ p = "wantyes" /\ c = "none" /\ q = "1"
    \/ p = "wantyes" /\ c = "0" /\ q = "none"
    \/ p = "wantyes" /\ c = "10" /\ q = "none"
In(p, c, q) ==
    \/ p = "yes" /\ c = "none" /\ q = "none"
    \/ p = "wantno" /\ c = "none" /\ q = "0"
    \/ p = "wantyes" /\ c = "1" /\ q = "none"

\* d is the last word the client has read, w its wish, n the response count.
Table(d, w, n, p, c, q) ==
    \/ d = 0 /\ w = 0 /\ n = 0 /\ Out(p, c, q)
    \/ d = 0 /\ w = 1 /\ n = 1 /\ Asking(p, c, q)
    \/ d = 1 /\ w = 0 /\ n = 1 /\ Refusing(p, c, q)
    \/ d = 1 /\ w = 1 /\ n = 0 /\ In(p, c, q)

\* An option the client refuses.
Refused(w, n, p, s, lo, hi, t, tl, th) ==
    /\ s \in [Int -> {0, 1}] /\ t \in [Int -> {0, 1}]
    /\ lo \in Int /\ hi \in Int /\ lo <= hi /\ tl \in Int /\ th \in Int /\ tl <= th
    /\ Table(s[lo], w, n, p, Spelt(t, tl, th), Spelt(s, lo, hi))

\* The table has nothing but what is named here.
LEMMA TableTypes ==
    ASSUME NEW d, NEW w, NEW n, NEW p, NEW c, NEW q, Table(d, w, n, p, c, q)
    PROVE  /\ d \in {0, 1} /\ w \in {0, 1} /\ n \in {0, 1}
           /\ p \in {"no", "yes", "wantno", "wantyes"}
BY DEF Table, Out, Asking, Refusing, In

\* c is q with a word v more.
More(q, v, c) ==
    /\ q = "none" => c = IF v = 1 THEN "1" ELSE "0"
    /\ q = "1" => c = IF v = 1 THEN "11" ELSE "10"
    /\ q = "0" => c = IF v = 1 THEN "01" ELSE "00"

\* Another word, of at most two.
LEMMA SpeltMore ==
    ASSUME NEW s \in [Int -> {0, 1}], NEW l \in Int, NEW h \in Int, l <= h, NEW v \in {0, 1}
    PROVE  /\ SayS(s, h, v) \in [Int -> {0, 1}] /\ SayS(s, h, v)[l] = s[l]
           /\ More(Spelt(s, l, h), v, Spelt(SayS(s, h, v), l, h + 1))
<1> DEFINE s1 == SayS(s, h, v)
<1>1. s1 \in [Int -> {0, 1}] /\ s1[l] = s[l] /\ s1[h + 1] = v /\ (l + 1 <= h => s1[l + 1] = s[l + 1])
  BY DEF SayS
<1>2. s[l + 1] \in {0, 1} /\ s[l + 2] \in {0, 1}
  OBVIOUS
<1> HIDE DEF s1
<1>3. CASE h = l
  <2>1. h + 1 = l + 1 /\ h + 1 # l
    BY <1>3
  <2> QED BY <1>1, <1>3, <2>1 DEF More, Spelt, s1
<1>4. CASE h = l + 1
  <2>1. h + 1 = l + 2 /\ h + 1 # l + 1 /\ h + 1 # l /\ h # l /\ l + 1 <= h
    BY <1>4
  <2>2. Spelt(s, l, h) = IF s[l + 1] = 1 THEN "1" ELSE "0"
    BY <1>4, <2>1 DEF Spelt
  <2>3. s1[l + 2] = v /\ s1[l + 1] = s[l + 1]
    BY <1>1, <2>1
  <2>4. Spelt(s1, l, h + 1) = IF s[l + 1] = 1 THEN IF v = 1 THEN "11" ELSE "10"
                              ELSE IF v = 1 THEN "01" ELSE "00"
    BY <2>1, <2>3 DEF Spelt
  <2> QED BY <1>1, <2>2, <2>4 DEF More, s1
<1>5. CASE h # l /\ h # l + 1
  <2>1. Spelt(s, l, h) \in {"11", "10", "01", "00", "more"}
    BY <1>5 DEF Spelt
  <2> QED BY <1>1, <2>1 DEF More, s1
<1> QED BY <1>3, <1>4, <1>5

\* q without its first word, v, is c.
Less(q, v, c) ==
    /\ q # "none"
    /\ q = "1" => v = 1 /\ c = "none"
    /\ q = "0" => v = 0 /\ c = "none"
    /\ q = "11" => v = 1 /\ c = "1"
    /\ q = "10" => v = 1 /\ c = "0"
    /\ q = "01" => v = 0 /\ c = "1"
    /\ q = "00" => v = 0 /\ c = "0"

\* The first word is read.
LEMMA SpeltLess ==
    ASSUME NEW s \in [Int -> {0, 1}], NEW l \in Int, NEW h \in Int, l < h
    PROVE  Less(Spelt(s, l, h), s[l + 1], Spelt(s, l + 1, h))
<1>1. s[l + 1] \in {0, 1} /\ s[l + 2] \in {0, 1} /\ (l + 1) + 1 = l + 2 /\ h # l
  OBVIOUS
<1>2. CASE h = l + 1
  BY <1>1, <1>2 DEF Less, Spelt
<1>3. CASE h = l + 2
  <2>1. h # l + 1
    BY <1>3
  <2> QED BY <1>1, <1>3, <2>1 DEF Less, Spelt
<1>4. CASE h # l + 1 /\ h # l + 2
  <2>1. Spelt(s, l, h) = "more"
    BY <1>1, <1>4 DEF Spelt
  <2> QED BY <2>1 DEF Less
<1> QED BY <1>2, <1>3, <1>4

\* The user asks for what the client does not wish for yet.
LEMMA AskRefused ==
    ASSUME NEW w, NEW p, NEW s, NEW lo, NEW hi, NEW t, NEW tl, NEW th,
           Refused(w, 0, p, s, lo, hi, t, tl, th), NEW v \in {0, 1}, v # w
    PROVE  Refused(v, 1, p, s, lo, hi, SayS(t, th, v), tl, th + 1)
<1> DEFINE d == s[lo]
           c == Spelt(t, tl, th)
           c1 == Spelt(SayS(t, th, v), tl, th + 1)
           q == Spelt(s, lo, hi)
<1>1. /\ s \in [Int -> {0, 1}] /\ t \in [Int -> {0, 1}]
      /\ lo \in Int /\ hi \in Int /\ lo <= hi /\ tl \in Int /\ th \in Int /\ tl <= th
      /\ Table(d, w, 0, p, c, q)
  BY DEF Refused
<1>2. SayS(t, th, v) \in [Int -> {0, 1}] /\ More(c, v, c1) /\ th + 1 \in Int /\ tl <= th + 1
  BY <1>1, SpeltMore
<1> HIDE DEF d, c, c1, q
<1>3. Table(d, v, 1, p, c1, q)
  <2>1. w \in {0, 1}
    BY <1>1, TableTypes
  <2>2. CASE w = 0 /\ v = 1
    <3>1. d = 0 /\ Out(p, c, q)
      BY <1>1, <2>2 DEF Table
    <3>2. Asking(p, c1, q)
      BY <1>2, <2>2, <3>1 DEF Out, Asking, More
    <3> QED BY <2>2, <3>1, <3>2 DEF Table
  <2>3. CASE w = 1 /\ v = 0
    <3>1. d = 1 /\ In(p, c, q)
      BY <1>1, <2>3 DEF Table
    <3>2. Refusing(p, c1, q)
      BY <1>2, <2>3, <3>1 DEF In, Refusing, More
    <3> QED BY <2>3, <3>1, <3>2 DEF Table
  <2> QED BY <2>1, <2>2, <2>3
<1> QED BY <1>1, <1>2, <1>3 DEF Refused, d, c1, q

\* The client reads a word v: a request it refuses, and accepts that the peer
\* stops.
LEMMA ReadRefused ==
    ASSUME NEW w, NEW n, NEW p, NEW s, NEW lo, NEW hi, NEW t, NEW tl, NEW th,
           Refused(w, n, p, s, lo, hi, t, tl, th), lo < hi,
           NEW v, v = s[lo + 1], NEW m, m = Answered(n, s[lo] = v)
    PROVE  /\ ~(m = 0 /\ w # v) => Refused(w, m, p, s, lo + 1, hi, t, tl, th)
           /\ m = 0 /\ w # v /\ v = 1 =>
                Refused(w, m + 1, p, s, lo + 1, hi, SayS(t, th, 0), tl, th + 1)
           /\ m = 0 /\ w # v /\ v = 0 /\ s[lo] = 1 =>
                Refused(0, m, p, s, lo + 1, hi, SayS(t, th, 0), tl, th + 1)
           /\ m = 0 /\ w # v /\ v = 0 /\ s[lo] = 0 =>
                Refused(0, m, p, s, lo + 1, hi, t, tl, th)
<1> DEFINE d == s[lo]
           c == Spelt(t, tl, th)
           c1 == Spelt(SayS(t, th, 0), tl, th + 1)
           q == Spelt(s, lo, hi)
           q1 == Spelt(s, lo + 1, hi)
<1>1. /\ s \in [Int -> {0, 1}] /\ t \in [Int -> {0, 1}]
      /\ lo \in Int /\ hi \in Int /\ lo <= hi /\ tl \in Int /\ th \in Int /\ tl <= th
      /\ Table(d, w, n, p, c, q)
  BY DEF Refused
<1>2. SayS(t, th, 0) \in [Int -> {0, 1}] /\ More(c, 0, c1) /\ th + 1 \in Int /\ tl <= th + 1
  BY <1>1, SpeltMore
<1>3. Less(q, v, q1) /\ lo + 1 \in Int /\ lo + 1 <= hi /\ v \in {0, 1}
  BY <1>1, SpeltLess
<1>4. m = IF n = 0 THEN 0 ELSE IF n > 1 /\ d = v THEN n - 2 ELSE n - 1
  BY DEF Answered
<1> HIDE DEF d, c, c1, q, q1
<1>0. d \in {0, 1} /\ w \in {0, 1} /\ n \in {0, 1}
  BY <1>1, TableTypes
<1>5. m = 0
  BY <1>0, <1>4
<1>10. /\ w = v => Table(v, w, 0, p, c, q1)
       /\ w # v /\ v = 1 => Table(v, w, 1, p, c1, q1)
       /\ w # v /\ v = 0 /\ d = 1 => Table(v, 0, 0, p, c1, q1)
       /\ w # v /\ v = 0 /\ d = 0 => Table(v, 0, 0, p, c, q1)
  <2>1. CASE d = 0 /\ w = 0
    <3>1. Out(p, c, q)
      BY <1>1, <2>1 DEF Table
    <3>2. v = 1 /\ Refusing(p, c1, q1)
      BY <1>2, <1>3, <3>1 DEF Out, Refusing, More, Less
    <3>3. Table(v, w, 1, p, c1, q1)
      BY <2>1, <3>2 DEF Table
    <3> QED BY <2>1, <3>2, <3>3
  <2>2. CASE d = 0 /\ w = 1
    <3>1. Asking(p, c, q)
      BY <1>1, <2>2 DEF Table
    <3>2. /\ v = 0 => Out(p, c, q1)
          /\ v = 1 => In(p, c, q1)
      BY <1>3, <3>1 DEF Asking, Out, In, Less
    <3>3. /\ v = 0 => Table(v, 0, 0, p, c, q1)
          /\ v = 1 => Table(v, w, 0, p, c, q1)
      BY <2>2, <3>2 DEF Table
    <3> QED BY <1>3, <2>2, <3>3
  <2>3. CASE d = 1 /\ w = 0
    <3>1. Refusing(p, c, q)
      BY <1>1, <2>3 DEF Table
    <3>2. /\ v = 0 => Out(p, c, q1)
          /\ v = 1 => Refusing(p, c1, q1)
      BY <1>2, <1>3, <3>1 DEF Refusing, Out, Less, More
    <3>3. /\ v = 0 => Table(v, w, 0, p, c, q1)
          /\ v = 1 => Table(v, w, 1, p, c1, q1)
      BY <2>3, <3>2 DEF Table
    <3> QED BY <1>3, <2>3, <3>3
  <2>4. CASE d = 1 /\ w = 1
    <3>1. In(p, c, q)
      BY <1>1, <2>4 DEF Table
    <3>2. v = 0 /\ Out(p, c1, q1)
      BY <1>2, <1>3, <3>1 DEF In, Out, Less, More
    <3>3. Table(v, 0, 0, p, c1, q1)
      BY <3>2 DEF Table
    <3> QED BY <2>4, <3>2, <3>3
  <2> QED BY <1>0, <2>1, <2>2, <2>3, <2>4
<1>11. m + 1 = 1
  BY <1>5
<1> QED BY <1>1, <1>2, <1>3, <1>5, <1>10, <1>11 DEF Refused, d, c, c1, q1

\* The peer reads a word and says nothing.
LEMMA HearRefused ==
    ASSUME NEW w, NEW n, NEW p, NEW s, NEW lo, NEW hi, NEW t, NEW tl, NEW th,
           Refused(w, n, p, s, lo, hi, t, tl, th), tl < th, NEW p1,
           \/ p = "no" /\ t[tl + 1] = 0 /\ p1 = "no"
           \/ p = "yes" /\ t[tl + 1] = 1 /\ p1 = "yes"
           \/ p = "wantno" /\ p1 = "no"
           \/ p = "wantyes" /\ p1 = IF t[tl + 1] = 1 THEN "yes" ELSE "no"
    PROVE  Refused(w, n, p1, s, lo, hi, t, tl + 1, th)
<1> DEFINE d == s[lo]
           x == t[tl + 1]
           c == Spelt(t, tl, th)
           c1 == Spelt(t, tl + 1, th)
           q == Spelt(s, lo, hi)
<1>1. /\ s \in [Int -> {0, 1}] /\ t \in [Int -> {0, 1}]
      /\ lo \in Int /\ hi \in Int /\ lo <= hi /\ tl \in Int /\ th \in Int /\ tl <= th
      /\ Table(d, w, n, p, c, q)
  BY DEF Refused
<1>2. Less(c, x, c1) /\ tl + 1 \in Int /\ tl + 1 <= th
  BY <1>1, SpeltLess
<1>3. \/ p = "no" /\ x = 0 /\ p1 = "no"
      \/ p = "yes" /\ x = 1 /\ p1 = "yes"
      \/ p = "wantno" /\ p1 = "no"
      \/ p = "wantyes" /\ p1 = IF x = 1 THEN "yes" ELSE "no"
  OBVIOUS
<1> HIDE DEF d, x, c, c1, q
<1>4. Table(d, w, n, p1, c1, q)
  <2>1. Out(p, c, q) => Out(p1, c1, q)
    BY <1>2, <1>3 DEF Out, Less
  <2>2. Asking(p, c, q) => Asking(p1, c1, q)
    BY <1>2, <1>3 DEF Asking, Less
  <2>3. Refusing(p, c, q) => Refusing(p1, c1, q)
    BY <1>2, <1>3 DEF Refusing, Less
  <2>4. In(p, c, q) => In(p1, c1, q)
    BY <1>2, <1>3 DEF In, Less
  <2> QED BY <1>1, <2>1, <2>2, <2>3, <2>4 DEF Table
<1> QED BY <1>1, <1>2, <1>4 DEF Refused, d, c1, q

\* The peer reads a word and answers v.
LEMMA AnswerRefused ==
    ASSUME NEW w, NEW n, NEW p, NEW s, NEW lo, NEW hi, NEW t, NEW tl, NEW th,
           Refused(w, n, p, s, lo, hi, t, tl, th), tl < th, NEW p1, NEW v \in {0, 1},
           \/ p = "no" /\ t[tl + 1] = 1 /\ p1 = IF v = 1 THEN "yes" ELSE "no"
           \/ p = "yes" /\ t[tl + 1] = 0 /\ p1 = "no" /\ v = 0
    PROVE  Refused(w, n, p1, SayS(s, hi, v), lo, hi + 1, t, tl + 1, th)
<1> DEFINE d == s[lo]
           x == t[tl + 1]
           c == Spelt(t, tl, th)
           c1 == Spelt(t, tl + 1, th)
           q == Spelt(s, lo, hi)
           q1 == Spelt(SayS(s, hi, v), lo, hi + 1)
<1>1. /\ s \in [Int -> {0, 1}] /\ t \in [Int -> {0, 1}]
      /\ lo \in Int /\ hi \in Int /\ lo <= hi /\ tl \in Int /\ th \in Int /\ tl <= th
      /\ Table(d, w, n, p, c, q)
  BY DEF Refused
<1>2. Less(c, x, c1) /\ tl + 1 \in Int /\ tl + 1 <= th
  BY <1>1, SpeltLess
<1>3. /\ SayS(s, hi, v) \in [Int -> {0, 1}] /\ SayS(s, hi, v)[lo] = d
      /\ More(q, v, q1) /\ hi + 1 \in Int /\ lo <= hi + 1
  BY <1>1, SpeltMore
<1>4. \/ p = "no" /\ x = 1 /\ p1 = IF v = 1 THEN "yes" ELSE "no"
      \/ p = "yes" /\ x = 0 /\ p1 = "no" /\ v = 0
  OBVIOUS
<1> HIDE DEF d, x, c, c1, q, q1
<1>5. Table(d, w, n, p1, c1, q1)
  <2>1. Out(p, c, q) => Out(p1, c1, q1)
    BY <1>2, <1>3, <1>4 DEF Out, Less, More
  <2>2. Asking(p, c, q) => Asking(p1, c1, q1)
    BY <1>2, <1>3, <1>4 DEF Asking, Less, More
  <2>3. Refusing(p, c, q) => Refusing(p1, c1, q1)
    BY <1>2, <1>3, <1>4 DEF Refusing, Less, More
  <2>4. In(p, c, q) => In(p1, c1, q1)
    BY <1>2, <1>3, <1>4 DEF In, Less, More
  <2> QED BY <1>1, <2>1, <2>2, <2>3, <2>4 DEF Table
<1> QED BY <1>1, <1>2, <1>3, <1>5 DEF Refused, c1, q1

\* The peer makes a request.
LEMMA OfferRefused ==
    ASSUME NEW w, NEW n, NEW p, NEW s, NEW lo, NEW hi, NEW t, NEW tl, NEW th,
           Refused(w, n, p, s, lo, hi, t, tl, th), NEW p1, NEW v \in {0, 1},
           \/ p = "no" /\ p1 = "wantyes" /\ v = 1
           \/ p = "yes" /\ p1 = "wantno" /\ v = 0
    PROVE  Refused(w, n, p1, SayS(s, hi, v), lo, hi + 1, t, tl, th)
<1> DEFINE d == s[lo]
           c == Spelt(t, tl, th)
           q == Spelt(s, lo, hi)
           q1 == Spelt(SayS(s, hi, v), lo, hi + 1)
<1>1. /\ s \in [Int -> {0, 1}] /\ t \in [Int -> {0, 1}]
      /\ lo \in Int /\ hi \in Int /\ lo <= hi /\ tl \in Int /\ th \in Int /\ tl <= th
      /\ Table(d, w, n, p, c, q)
  BY DEF Refused
<1>2. /\ SayS(s, hi, v) \in [Int -> {0, 1}] /\ SayS(s, hi, v)[lo] = d
      /\ More(q, v, q1) /\ hi + 1 \in Int /\ lo <= hi + 1
  BY <1>1, SpeltMore
<1> HIDE DEF d, c, q, q1
<1>3. Table(d, w, n, p1, c, q1)
  <2>1. Out(p, c, q) => Out(p1, c, q1)
    BY <1>2 DEF Out, More
  <2>2. Asking(p, c, q) => Asking(p1, c, q1)
    BY <1>2 DEF Asking, More
  <2>3. Refusing(p, c, q) => Refusing(p1, c, q1)
    BY <1>2 DEF Refusing, More
  <2>4. In(p, c, q) => In(p1, c, q1)
    BY <1>2 DEF In, More
  <2> QED BY <1>1, <2>1, <2>2, <2>3, <2>4 DEF Table
<1> QED BY <1>1, <1>2, <1>3 DEF Refused, c, q1

-----------------------------------------------------------------------------
(* An option in one direction: the queues, and the state of both sides.     *)

\* A state as a word.
Num(b) == IF b THEN 1 ELSE 0

\* An option of either kind is as it should be.
Sound(acc, w, n, p, s, z, lo, hi, t, y, tl, th) ==
    IF acc THEN Accepted(w, n, p, s, z, lo, hi, t, y, tl, th)
    ELSE Refused(w, n, p, s, lo, hi, t, tl, th)

\* acc: the client accepts the option.  d and w are its two bits of state, n its
\* response count, p the peer's state, out and in what they have under way.
Side(acc, dir, o, d, w, n, p, out, in) ==
    \E s, z, g, t, y, f, lo, hi, tl, th :
        /\ Track(in, Other(dir), o, lo, hi, g, s)
        /\ Track(out, dir, o, tl, th, f, t)
        /\ s[lo] = Num(d)
        /\ Sound(acc, Num(w), n, p, s, z, lo, hi, t, y, tl, th)

\* The parts of Side, with witnesses given.
LEMMA SideIntro ==
    ASSUME NEW acc, NEW dir, NEW o, NEW d, NEW w, NEW n, NEW p, NEW out, NEW in,
           NEW s, NEW z, NEW g, NEW t, NEW y, NEW f, NEW lo, NEW hi, NEW tl, NEW th,
           Track(in, Other(dir), o, lo, hi, g, s), Track(out, dir, o, tl, th, f, t),
           s[lo] = Num(d), Sound(acc, Num(w), n, p, s, z, lo, hi, t, y, tl, th)
    PROVE  Side(acc, dir, o, d, w, n, p, out, in)
BY Zenon DEF Side

\* The client says something of another option or direction.
LEMMA SideOutMore ==
    ASSUME NEW acc, NEW dir, NEW o, NEW d, NEW w, NEW n, NEW p, NEW out, NEW in,
           Side(acc, dir, o, d, w, n, p, out, in), NEW m \in Messages, ~IsWord(m, dir, o)
    PROVE  Side(acc, dir, o, d, w, n, p, Append(out, m), in)
<1>1. PICK s, z, g, t, y, f, lo, hi, tl, th :
        /\ Track(in, Other(dir), o, lo, hi, g, s) /\ Track(out, dir, o, tl, th, f, t)
        /\ s[lo] = Num(d) /\ Sound(acc, Num(w), n, p, s, z, lo, hi, t, y, tl, th)
  BY DEF Side
<1>2. Track(Append(out, m), dir, o, tl, th, f, t)
  BY <1>1, TrackAppendOther
<1> QED BY <1>1, <1>2, SideIntro

\* The peer says something of another option or direction.
LEMMA SideInMore ==
    ASSUME NEW acc, NEW dir, NEW o, NEW d, NEW w, NEW n, NEW p, NEW out, NEW in,
           Side(acc, dir, o, d, w, n, p, out, in), NEW m \in Messages, ~IsWord(m, Other(dir), o)
    PROVE  Side(acc, dir, o, d, w, n, p, out, Append(in, m))
<1>1. PICK s, z, g, t, y, f, lo, hi, tl, th :
        /\ Track(in, Other(dir), o, lo, hi, g, s) /\ Track(out, dir, o, tl, th, f, t)
        /\ s[lo] = Num(d) /\ Sound(acc, Num(w), n, p, s, z, lo, hi, t, y, tl, th)
  BY DEF Side
<1>2. Track(Append(in, m), Other(dir), o, lo, hi, g, s)
  BY <1>1, TrackAppendOther
<1> QED BY <1>1, <1>2, SideIntro

\* The peer reads something of another option or direction.
LEMMA SideOutLess ==
    ASSUME NEW acc, NEW dir, NEW o, NEW d, NEW w, NEW n, NEW p, NEW out, NEW in,
           Side(acc, dir, o, d, w, n, p, out, in), out # <<>>, ~IsWord(Head(out), dir, o)
    PROVE  Side(acc, dir, o, d, w, n, p, Tail(out), in)
<1>1. PICK s, z, g, t, y, f, lo, hi, tl, th :
        /\ Track(in, Other(dir), o, lo, hi, g, s) /\ Track(out, dir, o, tl, th, f, t)
        /\ s[lo] = Num(d) /\ Sound(acc, Num(w), n, p, s, z, lo, hi, t, y, tl, th)
  BY DEF Side
<1>2. Track(Tail(out), dir, o, tl, th, Earlier(f), t)
  BY <1>1, TrackTailOther
<1> QED BY <1>1, <1>2, SideIntro

\* The client reads something of another option or direction.
LEMMA SideInLess ==
    ASSUME NEW acc, NEW dir, NEW o, NEW d, NEW w, NEW n, NEW p, NEW out, NEW in,
           Side(acc, dir, o, d, w, n, p, out, in), in # <<>>, ~IsWord(Head(in), Other(dir), o)
    PROVE  Side(acc, dir, o, d, w, n, p, out, Tail(in))
<1>1. PICK s, z, g, t, y, f, lo, hi, tl, th :
        /\ Track(in, Other(dir), o, lo, hi, g, s) /\ Track(out, dir, o, tl, th, f, t)
        /\ s[lo] = Num(d) /\ Sound(acc, Num(w), n, p, s, z, lo, hi, t, y, tl, th)
  BY DEF Side
<1>2. Track(Tail(in), Other(dir), o, lo, hi, Earlier(g), s)
  BY <1>1, TrackTailOther
<1> QED BY <1>1, <1>2, SideIntro

\* A word is a message.
LEMMA WordIsMessage ==
    ASSUME NEW dir, NEW o \in Options, NEW v
    PROVE  Word(dir, o, v) \in Messages
BY DEF Word, Messages, Verbs

\* What the parts say of each other.
LEMMA SideFacts ==
    ASSUME NEW acc \in BOOLEAN, NEW dir, NEW o, NEW d \in BOOLEAN, NEW w \in BOOLEAN,
           NEW n, NEW p, NEW out, NEW in, Side(acc, dir, o, d, w, n, p, out, in)
    PROVE  /\ n \in Nat /\ p \in PeerStates /\ (n = 0 => d = w)
           /\ out \in Seq(Messages) /\ in \in Seq(Messages)
<1>1. PICK s, z, g, t, y, f, lo, hi, tl, th :
        /\ Track(in, Other(dir), o, lo, hi, g, s) /\ Track(out, dir, o, tl, th, f, t)
        /\ s[lo] = Num(d) /\ Sound(acc, Num(w), n, p, s, z, lo, hi, t, y, tl, th)
  BY DEF Side
<1>2. Num(d) \in {0, 1} /\ Num(w) \in {0, 1} /\ (Num(d) = Num(w) => d = w)
  BY DEF Num
<1>3. out \in Seq(Messages) /\ in \in Seq(Messages)
  BY <1>1 DEF Track
<1>4. CASE acc
  <2>1. n \in Nat /\ p \in PeerStates /\ Even(n, s[lo], Num(w))
    BY <1>1, <1>4 DEF Sound, Accepted, Balanced
  <2>2. n = 0 => Num(d) = Num(w)
    BY <1>1, <1>2, <2>1, CountParity
  <2> QED BY <1>2, <1>3, <2>1, <2>2
<1>5. CASE ~acc
  <2>1. PICK c, q : Table(Num(d), Num(w), n, p, c, q)
    BY <1>1, <1>5 DEF Sound, Refused
  <2>2. n \in {0, 1} /\ p \in PeerStates
    BY <2>1, TableTypes DEF PeerStates
  <2>3. n = 0 => Num(d) = Num(w)
    BY <2>1 DEF Table
  <2> QED BY <1>2, <1>3, <2>2, <2>3
<1> QED BY <1>4, <1>5

\* The user asks: the client wishes for v, and says so.
LEMMA SideAsk ==
    ASSUME NEW acc \in BOOLEAN, NEW dir, NEW o \in Options, NEW d, NEW w \in BOOLEAN,
           NEW n, NEW p, NEW out, NEW in, Side(acc, dir, o, d, w, n, p, out, in),
           acc \/ n = 0, NEW v \in BOOLEAN, v # w
    PROVE  Side(acc, dir, o, d, v, n + 1, p, Append(out, Word(dir, o, Num(v))), in)
<1>1. PICK s, z, g, t, y, f, lo, hi, tl, th :
        /\ Track(in, Other(dir), o, lo, hi, g, s) /\ Track(out, dir, o, tl, th, f, t)
        /\ s[lo] = Num(d) /\ Sound(acc, Num(w), n, p, s, z, lo, hi, t, y, tl, th)
  BY DEF Side
<1>2. Num(v) \in {0, 1} /\ Num(v) # Num(w)
  BY DEF Num
<1>3. PICK f1 : Track(Append(out, Word(dir, o, Num(v))), dir, o, tl, th + 1, f1, SayS(t, th, Num(v)))
  BY <1>1, <1>2, TrackAppend, WordIsMessage
<1>4. Sound(acc, Num(v), n + 1, p, s, z, lo, hi,
            SayS(t, th, Num(v)), TellY(t, y, th, Num(v)), tl, th + 1)
  <2>1. CASE acc
    <3>1. Accepted(Num(w), n, p, s, z, lo, hi, t, y, tl, th)
      BY <1>1, <2>1 DEF Sound
    <3>2. Accepted(Num(v), n + 1, p, s, z, lo, hi,
                   SayS(t, th, Num(v)), TellY(t, y, th, Num(v)), tl, th + 1)
      BY <1>2, <3>1, AskAccepted
    <3> QED BY <2>1, <3>2 DEF Sound
  <2>2. CASE ~acc
    <3>1. Refused(Num(w), 0, p, s, lo, hi, t, tl, th) /\ n + 1 = 1
      BY <1>1, <2>2 DEF Sound
    <3>2. Refused(Num(v), n + 1, p, s, lo, hi, SayS(t, th, Num(v)), tl, th + 1)
      BY <1>2, <3>1, AskRefused
    <3> QED BY <2>2, <3>2 DEF Sound
  <2> QED BY <2>1, <2>2
<1> QED BY <1>1, <1>3, <1>4, SideIntro

\* The client says DO again, of what it wishes for.
LEMMA SideRepeat ==
    ASSUME NEW acc \in BOOLEAN, NEW dir, NEW o \in Options, NEW d, NEW w \in BOOLEAN,
           NEW n, NEW p, NEW out, NEW in, Side(acc, dir, o, d, w, n, p, out, in)
    PROVE  acc /\ w => Side(acc, dir, o, d, w, n, p, Append(out, Word(dir, o, 1)), in)
<1>1. PICK s, z, g, t, y, f, lo, hi, tl, th :
        /\ Track(in, Other(dir), o, lo, hi, g, s) /\ Track(out, dir, o, tl, th, f, t)
        /\ s[lo] = Num(d) /\ Sound(acc, Num(w), n, p, s, z, lo, hi, t, y, tl, th)
  BY DEF Side
<1>2. w => Num(w) = 1
  BY DEF Num
<1>3. PICK f1 : Track(Append(out, Word(dir, o, 1)), dir, o, tl, th + 1, f1, SayS(t, th, 1))
  BY <1>1, TrackAppend, WordIsMessage
<1>4. acc /\ w => Accepted(1, n, p, s, z, lo, hi, t, y, tl, th)
  BY <1>1, <1>2 DEF Sound
<1>5. acc /\ w => Accepted(1, n, p, s, z, lo, hi, SayS(t, th, 1), TellY(t, y, th, 1), tl, th + 1)
  BY <1>4, RepeatAccepted
<1>6. acc /\ w =>
        Sound(acc, Num(w), n, p, s, z, lo, hi, SayS(t, th, 1), TellY(t, y, th, 1), tl, th + 1)
  BY <1>2, <1>5 DEF Sound
<1> QED BY <1>1, <1>3, <1>6, SideIntro

\* The client reads v.
LEMMA SideRead ==
    ASSUME NEW acc \in BOOLEAN, NEW dir, NEW o \in Options, NEW d \in BOOLEAN, NEW w \in BOOLEAN,
           NEW n, NEW p, NEW out, NEW in, Side(acc, dir, o, d, w, n, p, out, in),
           in # <<>>, NEW v \in BOOLEAN, Head(in) = Word(Other(dir), o, Num(v)),
           NEW m, m = Answered(n, d = v)
    PROVE  /\ ~(m = 0 /\ w # v) => Side(acc, dir, o, v, w, m, p, out, Tail(in))
           /\ m = 0 /\ w # v /\ v /\ acc =>
                Side(acc, dir, o, v, v, m, p, Append(out, Word(dir, o, 1)), Tail(in))
           /\ m = 0 /\ w # v /\ v /\ ~acc =>
                Side(acc, dir, o, v, w, m + 1, p, Append(out, Word(dir, o, 0)), Tail(in))
           /\ m = 0 /\ w # v /\ ~v /\ d =>
                Side(acc, dir, o, v, v, m, p, Append(out, Word(dir, o, 0)), Tail(in))
           /\ m = 0 /\ w # v /\ ~v /\ ~d => Side(acc, dir, o, v, v, m, p, out, Tail(in))
<1>1. PICK s, z, g, t, y, f, lo, hi, tl, th :
        /\ Track(in, Other(dir), o, lo, hi, g, s) /\ Track(out, dir, o, tl, th, f, t)
        /\ s[lo] = Num(d) /\ Sound(acc, Num(w), n, p, s, z, lo, hi, t, y, tl, th)
  BY DEF Side
<1>2. /\ Num(v) \in {0, 1} /\ (Num(d) = Num(v) <=> d = v) /\ (Num(w) = Num(v) <=> w = v)
      /\ (Num(v) = 1 <=> v) /\ (Num(d) = 1 <=> d) /\ (Num(v) = 0 <=> ~v) /\ (Num(d) = 0 <=> ~d)
  BY DEF Num
<1>3. lo < hi /\ s[lo + 1] = Num(v) /\ Track(Tail(in), Other(dir), o, lo + 1, hi, Earlier(g), s)
  BY <1>1, <1>2, TrackTail
<1>4. m = Answered(n, s[lo] = Num(v))
  BY <1>1, <1>2 DEF Answered
<1>5. ASSUME NEW b \in {0, 1}
      PROVE  \E f1 : Track(Append(out, Word(dir, o, b)), dir, o, tl, th + 1, f1, SayS(t, th, b))
  BY <1>1, TrackAppend, WordIsMessage
<1>6. CASE acc
  <2>1. Accepted(Num(w), n, p, s, z, lo, hi, t, y, tl, th)
    BY <1>1, <1>6 DEF Sound
  <2>2. /\ ~(m = 0 /\ Num(w) # Num(v)) => Accepted(Num(w), m, p, s, z, lo + 1, hi, t, y, tl, th)
        /\ m = 0 /\ Num(w) # Num(v) /\ ~(Num(v) = 0 /\ s[lo] = 0) =>
              Accepted(Num(v), m, p, s, z, lo + 1, hi,
                       SayS(t, th, Num(v)), TellY(t, y, th, Num(v)), tl, th + 1)
        /\ m = 0 /\ Num(w) # Num(v) /\ Num(v) = 0 /\ s[lo] = 0 =>
              Accepted(Num(v), m, p, s, z, lo + 1, hi, t, y, tl, th)
    BY <1>3, <1>4, <2>1, ReadAccepted
  <2>3. ASSUME ~(m = 0 /\ w # v) PROVE Side(acc, dir, o, v, w, m, p, out, Tail(in))
    <3>1. Sound(acc, Num(w), m, p, s, z, lo + 1, hi, t, y, tl, th)
      BY <1>2, <1>6, <2>2, <2>3 DEF Sound
    <3> QED BY <1>1, <1>3, <3>1, SideIntro
  <2>4. ASSUME m = 0, w # v, ~(~v /\ ~d)
        PROVE  Side(acc, dir, o, v, v, m, p, Append(out, Word(dir, o, Num(v))), Tail(in))
    <3>1. Sound(acc, Num(v), m, p, s, z, lo + 1, hi,
                SayS(t, th, Num(v)), TellY(t, y, th, Num(v)), tl, th + 1)
      BY <1>1, <1>2, <1>6, <2>2, <2>4 DEF Sound
    <3>2. PICK f1 : Track(Append(out, Word(dir, o, Num(v))), dir, o, tl, th + 1, f1,
                          SayS(t, th, Num(v)))
      BY <1>2, <1>5
    <3> QED BY <1>3, <3>1, <3>2, SideIntro
  <2>5. ASSUME m = 0, w # v, ~v, ~d PROVE Side(acc, dir, o, v, v, m, p, out, Tail(in))
    <3>1. Sound(acc, Num(v), m, p, s, z, lo + 1, hi, t, y, tl, th)
      BY <1>1, <1>2, <1>6, <2>2, <2>5 DEF Sound
    <3> QED BY <1>1, <1>3, <3>1, SideIntro
  <2> QED BY <1>2, <1>6, <2>3, <2>4, <2>5
<1>7. CASE ~acc
  <2>1. Refused(Num(w), n, p, s, lo, hi, t, tl, th)
    BY <1>1, <1>7 DEF Sound
  <2>2. /\ ~(m = 0 /\ Num(w) # Num(v)) => Refused(Num(w), m, p, s, lo + 1, hi, t, tl, th)
        /\ m = 0 /\ Num(w) # Num(v) /\ Num(v) = 1 =>
             Refused(Num(w), m + 1, p, s, lo + 1, hi, SayS(t, th, 0), tl, th + 1)
        /\ m = 0 /\ Num(w) # Num(v) /\ Num(v) = 0 /\ s[lo] = 1 =>
             Refused(0, m, p, s, lo + 1, hi, SayS(t, th, 0), tl, th + 1)
        /\ m = 0 /\ Num(w) # Num(v) /\ Num(v) = 0 /\ s[lo] = 0 =>
             Refused(0, m, p, s, lo + 1, hi, t, tl, th)
    BY <1>3, <1>4, <2>1, ReadRefused
  <2>3. ASSUME ~(m = 0 /\ w # v) PROVE Side(acc, dir, o, v, w, m, p, out, Tail(in))
    <3>1. Sound(acc, Num(w), m, p, s, z, lo + 1, hi, t, y, tl, th)
      BY <1>2, <1>7, <2>2, <2>3 DEF Sound
    <3> QED BY <1>1, <1>3, <3>1, SideIntro
  <2>4. PICK f1 : Track(Append(out, Word(dir, o, 0)), dir, o, tl, th + 1, f1, SayS(t, th, 0))
    BY <1>5
  <2>5. ASSUME m = 0, w # v, v
        PROVE  Side(acc, dir, o, v, w, m + 1, p, Append(out, Word(dir, o, 0)), Tail(in))
    <3>1. Sound(acc, Num(w), m + 1, p, s, z, lo + 1, hi, SayS(t, th, 0), y, tl, th + 1)
      BY <1>2, <1>7, <2>2, <2>5 DEF Sound
    <3> QED BY <1>3, <2>4, <3>1, SideIntro
  <2>6. ASSUME m = 0, w # v, ~v, d
        PROVE  Side(acc, dir, o, v, v, m, p, Append(out, Word(dir, o, 0)), Tail(in))
    <3>1. Sound(acc, Num(v), m, p, s, z, lo + 1, hi, SayS(t, th, 0), y, tl, th + 1)
      BY <1>1, <1>2, <1>7, <2>2, <2>6 DEF Sound
    <3> QED BY <1>3, <2>4, <3>1, SideIntro
  <2>7. ASSUME m = 0, w # v, ~v, ~d PROVE Side(acc, dir, o, v, v, m, p, out, Tail(in))
    <3>1. Sound(acc, Num(v), m, p, s, z, lo + 1, hi, t, y, tl, th)
      BY <1>1, <1>2, <1>7, <2>2, <2>7 DEF Sound
    <3> QED BY <1>1, <1>3, <3>1, SideIntro
  <2> QED BY <1>7, <2>3, <2>5, <2>6, <2>7
<1> QED BY <1>6, <1>7

\* The peer reads v and says nothing.
LEMMA SideHear ==
    ASSUME NEW acc \in BOOLEAN, NEW dir, NEW o \in Options, NEW d, NEW w,
           NEW n, NEW p, NEW out, NEW in, Side(acc, dir, o, d, w, n, p, out, in),
           out # <<>>, NEW v \in {0, 1}, Head(out) = Word(dir, o, v), NEW p1,
           \/ p = "no" /\ v = 0 /\ p1 = "no"
           \/ p = "yes" /\ v = 1 /\ p1 = "yes"
           \/ p = "wantno" /\ p1 = "no"
           \/ p = "wantyes" /\ p1 = IF v = 1 THEN "yes" ELSE "no"
    PROVE  Side(acc, dir, o, d, w, n, p1, Tail(out), in)
<1>1. PICK s, z, g, t, y, f, lo, hi, tl, th :
        /\ Track(in, Other(dir), o, lo, hi, g, s) /\ Track(out, dir, o, tl, th, f, t)
        /\ s[lo] = Num(d) /\ Sound(acc, Num(w), n, p, s, z, lo, hi, t, y, tl, th)
  BY DEF Side
<1>2. tl < th /\ t[tl + 1] = v /\ Track(Tail(out), dir, o, tl + 1, th, Earlier(f), t)
  BY <1>1, TrackTail
<1>3. Sound(acc, Num(w), n, p1, s, z, lo, hi, t, y, tl + 1, th)
  <2>1. CASE acc
    <3>1. Accepted(Num(w), n, p, s, z, lo, hi, t, y, tl, th)
      BY <1>1, <2>1 DEF Sound
    <3>2. Accepted(Num(w), n, p1, s, z, lo, hi, t, y, tl + 1, th)
      BY <1>2, <3>1, HearAccepted
    <3> QED BY <2>1, <3>2 DEF Sound
  <2>2. CASE ~acc
    <3>1. Refused(Num(w), n, p, s, lo, hi, t, tl, th)
      BY <1>1, <2>2 DEF Sound
    <3>2. Refused(Num(w), n, p1, s, lo, hi, t, tl + 1, th)
      BY <1>2, <3>1, HearRefused
    <3> QED BY <2>2, <3>2 DEF Sound
  <2> QED BY <2>1, <2>2
<1> QED BY <1>1, <1>2, <1>3, SideIntro

\* The peer reads v and answers b.
LEMMA SideAnswer ==
    ASSUME NEW acc \in BOOLEAN, NEW dir, NEW o \in Options, NEW d, NEW w,
           NEW n, NEW p, NEW out, NEW in, Side(acc, dir, o, d, w, n, p, out, in),
           out # <<>>, NEW v \in {0, 1}, Head(out) = Word(dir, o, v), NEW p1, NEW b \in {0, 1},
           \/ p = "no" /\ v = 1 /\ p1 = IF b = 1 THEN "yes" ELSE "no"
           \/ p = "yes" /\ v = 0 /\ p1 = "no" /\ b = 0
    PROVE  Side(acc, dir, o, d, w, n, p1, Tail(out), Append(in, Word(Other(dir), o, b)))
<1>1. PICK s, z, g, t, y, f, lo, hi, tl, th :
        /\ Track(in, Other(dir), o, lo, hi, g, s) /\ Track(out, dir, o, tl, th, f, t)
        /\ s[lo] = Num(d) /\ Sound(acc, Num(w), n, p, s, z, lo, hi, t, y, tl, th)
  BY DEF Side
<1>2. tl < th /\ t[tl + 1] = v /\ Track(Tail(out), dir, o, tl + 1, th, Earlier(f), t)
  BY <1>1, TrackTail
<1>3. PICK g1 : Track(Append(in, Word(Other(dir), o, b)), Other(dir), o, lo, hi + 1, g1, SayS(s, hi, b))
  BY <1>1, TrackAppend, WordIsMessage
<1>4. SayS(s, hi, b)[lo] = Num(d)
  BY <1>1 DEF SayS, Track
<1>5. Sound(acc, Num(w), n, p1, SayS(s, hi, b), SayZ(s, z, hi, b), lo, hi + 1, t, y, tl + 1, th)
  <2>1. CASE acc
    <3>1. Accepted(Num(w), n, p, s, z, lo, hi, t, y, tl, th)
      BY <1>1, <2>1 DEF Sound
    <3>2. Accepted(Num(w), n, p1, SayS(s, hi, b), SayZ(s, z, hi, b), lo, hi + 1, t, y, tl + 1, th)
      BY <1>2, <3>1, AnswerAccepted
    <3> QED BY <2>1, <3>2 DEF Sound
  <2>2. CASE ~acc
    <3>1. Refused(Num(w), n, p, s, lo, hi, t, tl, th)
      BY <1>1, <2>2 DEF Sound
    <3>2. Refused(Num(w), n, p1, SayS(s, hi, b), lo, hi + 1, t, tl + 1, th)
      BY <1>2, <3>1, AnswerRefused
    <3> QED BY <2>2, <3>2 DEF Sound
  <2> QED BY <2>1, <2>2
<1> QED BY <1>2, <1>3, <1>4, <1>5, SideIntro

\* The peer makes a request b.
LEMMA SideOffer ==
    ASSUME NEW acc \in BOOLEAN, NEW dir, NEW o \in Options, NEW d, NEW w,
           NEW n, NEW p, NEW out, NEW in, Side(acc, dir, o, d, w, n, p, out, in),
           NEW p1, NEW b \in {0, 1},
           \/ p = "no" /\ p1 = "wantyes" /\ b = 1
           \/ p = "yes" /\ p1 = "wantno" /\ b = 0
    PROVE  Side(acc, dir, o, d, w, n, p1, out, Append(in, Word(Other(dir), o, b)))
<1>1. PICK s, z, g, t, y, f, lo, hi, tl, th :
        /\ Track(in, Other(dir), o, lo, hi, g, s) /\ Track(out, dir, o, tl, th, f, t)
        /\ s[lo] = Num(d) /\ Sound(acc, Num(w), n, p, s, z, lo, hi, t, y, tl, th)
  BY DEF Side
<1>2. PICK g1 : Track(Append(in, Word(Other(dir), o, b)), Other(dir), o, lo, hi + 1, g1, SayS(s, hi, b))
  BY <1>1, TrackAppend, WordIsMessage
<1>3. SayS(s, hi, b)[lo] = Num(d)
  BY <1>1 DEF SayS, Track
<1>4. Sound(acc, Num(w), n, p1, SayS(s, hi, b), SayZ(s, z, hi, b), lo, hi + 1, t, y, tl, th)
  <2>1. CASE acc
    <3>1. Accepted(Num(w), n, p, s, z, lo, hi, t, y, tl, th)
      BY <1>1, <2>1 DEF Sound
    <3>2. Accepted(Num(w), n, p1, SayS(s, hi, b), SayZ(s, z, hi, b), lo, hi + 1, t, y, tl, th)
      BY <3>1, OfferAccepted
    <3> QED BY <2>1, <3>2 DEF Sound
  <2>2. CASE ~acc
    <3>1. Refused(Num(w), n, p, s, lo, hi, t, tl, th)
      BY <1>1, <2>2 DEF Sound
    <3>2. Refused(Num(w), n, p1, SayS(s, hi, b), lo, hi + 1, t, tl, th)
      BY <3>1, OfferRefused
    <3> QED BY <2>2, <3>2 DEF Sound
  <2> QED BY <2>1, <2>2
<1> QED BY <1>1, <1>2, <1>3, <1>4, SideIntro

\* A new connection.
LEMMA SideNew ==
    ASSUME NEW acc \in BOOLEAN, NEW dir, NEW o
    PROVE  Side(acc, dir, o, FALSE, FALSE, 0, "no", <<>>, <<>>)
<1> DEFINE s == [i \in Int |-> 0]
<1>1. s \in [Int -> {0, 1}] /\ s \in [Int -> Int] /\ s[0] = 0 /\ s[1] = 0 /\ s[0 + 1] = 0
  OBVIOUS
<1> HIDE DEF s
<1>2. PICK g : Track(<<>>, Other(dir), o, 0, 0, g, s)
  BY <1>1, TrackNew
<1>3. PICK f : Track(<<>>, dir, o, 0, 0, f, s)
  BY <1>1, TrackNew
<1>4. Num(FALSE) = 0
  BY DEF Num
<1>5. ~Again(s, 0, 0)
  BY DEF Again
<1>6. Said(s, s, 0, 0)
  BY <1>1 DEF Said
<1>7. Told(s, s, 0, 0)
  BY <1>1 DEF Told
<1>8. Habits(0, "no", s, 0, 0, s, 0, 0)
  BY <1>1, <1>5 DEF Habits, Wish
<1>9. Accepted(0, 0, "no", s, s, 0, 0, s, s, 0, 0)
  <2>1. /\ SaidSpare("no", s, 0, 0) = 0 /\ ToldSpare(0, "no", s, 0, 0) = 0
        /\ SaidTurns("no", s, s, 0, 0) = 0 /\ ToldTurns(0, "no", s, s, 0, 0) = 0
    BY <1>1, <1>5 DEF SaidSpare, ToldSpare, SaidTurns, ToldTurns, Differ, Wish
  <2>2. Even(0, s[0], 0)
    BY <1>1, CountParity
  <2>3. Balanced(0, 0, "no", s, s, 0, 0, s, s, 0, 0)
    BY <1>6, <1>7, <1>8, <2>1 DEF Balanced, PeerStates
  <2> QED BY <2>2, <2>3 DEF Accepted
<1>10. Refused(0, 0, "no", s, 0, 0, s, 0, 0)
  <2>1. Spelt(s, 0, 0) = "none"
    BY DEF Spelt
  <2>2. Table(0, 0, 0, "no", "none", "none")
    BY DEF Table, Out
  <2> QED BY <1>1, <2>1, <2>2 DEF Refused
<1>11. Sound(acc, 0, 0, "no", s, s, 0, 0, s, s, 0, 0)
  BY <1>9, <1>10 DEF Sound
<1> QED BY <1>1, <1>2, <1>3, <1>4, <1>11, SideIntro

\* With nothing under way both sides agree.
LEMMA SideQuiet ==
    ASSUME NEW acc \in BOOLEAN, NEW dir, NEW o, NEW d \in BOOLEAN, NEW w \in BOOLEAN, NEW n, NEW p,
           NEW out, NEW in, Side(acc, dir, o, d, w, n, p, out, in), out = <<>>, in = <<>>
    PROVE  p = InForce(w, d) /\ (acc => w = d)
<1>1. PICK s, z, g, t, y, f, lo, hi, tl, th :
        /\ Track(in, Other(dir), o, lo, hi, g, s) /\ Track(out, dir, o, tl, th, f, t)
        /\ s[lo] = Num(d) /\ Sound(acc, Num(w), n, p, s, z, lo, hi, t, y, tl, th)
  BY DEF Side
<1>2. lo = hi /\ tl = th
  BY <1>1, TrackEmpty
<1>3. CASE acc
  <2>1. /\ n \in Nat /\ p \in PeerStates /\ Said(s, z, lo, hi) /\ Told(t, y, tl, th)
        /\ n + SaidSpare(p, s, lo, hi) + ToldSpare(Num(w), p, t, tl, th)
             <= SaidTurns(p, s, z, lo, hi) + ToldTurns(Num(w), p, t, y, tl, th)
        /\ Habits(Num(w), p, s, lo, hi, t, tl, th)
    BY <1>1, <1>3 DEF Sound, Accepted, Balanced
  <2>2. s[lo] \in {0, 1} /\ z[lo] \in Int /\ Num(w) \in {0, 1} /\ Wish(p) \in {0, 1} /\ lo \in Int
    BY <2>1 DEF Said, Num, Wish
  <2>3. /\ SaidTurns(p, s, z, lo, hi) = Differ(s[lo], Wish(p))
        /\ ToldTurns(Num(w), p, t, y, tl, th) = Differ(Wish(p), Num(w))
        /\ SaidSpare(p, s, lo, hi) = IF p = "no" /\ s[lo] = 1 THEN 2 ELSE 0
        /\ ToldSpare(Num(w), p, t, tl, th)
             = IF p \in {"wantyes", "wantno"} \/ Wish(p) # Num(w) THEN 2 ELSE 0
    BY <1>2, <2>2 DEF SaidTurns, ToldTurns, SaidSpare, ToldSpare, Again, Differ
  <2>4. p # "no" => s[lo] = Wish(p)
    BY <1>2, <2>1 DEF Habits
  <2>5. p \in {"no", "yes"} /\ s[lo] = Num(w) /\ Wish(p) = Num(w)
    BY <2>1, <2>2, <2>3, <2>4 DEF Differ, Wish, PeerStates
  <2> QED BY <1>1, <2>5 DEF Num, Wish, InForce
<1>4. CASE ~acc
  <2>1. Table(s[lo], Num(w), n, p, Spelt(t, tl, th), Spelt(s, lo, hi))
    BY <1>1, <1>4 DEF Sound, Refused
  <2>2. Spelt(t, tl, th) = "none" /\ Spelt(s, lo, hi) = "none"
    BY <1>2 DEF Spelt
  <2>3. Table(Num(d), Num(w), n, p, "none", "none")
    BY <1>1, <2>1, <2>2
  <2>4. \/ Num(w) = 0 /\ p = "no"
        \/ Num(d) = 1 /\ Num(w) = 1 /\ p = "yes"
    BY <2>3 DEF Table, Out, Asking, Refusing, In
  <2> QED BY <1>4, <2>4 DEF Num, InForce
<1> QED BY <1>3, <1>4

-----------------------------------------------------------------------------
(* The client and its peer.                                                 *)

\* What the client and its peer may be.
Clients == [will : [Options -> BOOLEAN], wantwill : [Options -> BOOLEAN],
            do : [Options -> BOOLEAN], wantdo : [Options -> BOOLEAN],
            wwr : [Options -> Nat], ddr : [Options -> Nat],
            flushout : BOOLEAN, out : Seq(Messages)]
Peers == [will : [Options -> PeerStates], do : [Options -> PeerStates], out : Seq(Messages)]

\* The options the client agrees to (telnet.c:330-343, 452-500).
Accepts(dir, o) == IF dir = "do" THEN o \in AcceptWill ELSE o \in AcceptDo \cup {"LINEMODE"}

\* The client's two bits of state and its response count, and the peer's state.
Have(s, dir) == IF dir = "do" THEN s.do ELSE s.will
Want(s, dir) == IF dir = "do" THEN s.wantdo ELSE s.wantwill
Count(s, dir) == IF dir = "do" THEN s.ddr ELSE s.wwr
State(p, dir) == IF dir = "do" THEN p.will ELSE p.do

\* One option in one direction is as it should be.
SideOf(s, p, dir, o) ==
    Side(Accepts(dir, o), dir, o, Have(s, dir)[o], Want(s, dir)[o], Count(s, dir)[o],
         State(p, dir)[o], s.out, p.out)

\* h: the user was hasty.
Sides(s, p, h) ==
    \A dir \in Directions, o \in Options \ {"TM"} :
        Accepts(dir, o) \/ ~h => SideOf(s, p, dir, o)

\* r differs from s in one option and direction, and in what it has sent.
Aside(s, r, dir, o) ==
    \A e \in Directions, x \in Options : e # dir \/ x # o =>
        /\ Have(r, e)[x] = Have(s, e)[x]
        /\ Want(r, e)[x] = Want(s, e)[x]
        /\ Count(r, e)[x] = Count(s, e)[x]

\* That option and direction is now d, w and n.
Turned(s, r, dir, o, d, w, n) ==
    /\ Aside(s, r, dir, o)
    /\ Have(r, dir)[o] = d /\ Want(r, dir)[o] = w /\ Count(r, dir)[o] = n

\* The same of the peer.
PeerTurned(p, r, dir, o, state) ==
    /\ \A e \in Directions, x \in Options : e # dir \/ x # o => State(r, e)[x] = State(p, e)[x]
    /\ State(r, dir)[o] = state

\* The parts of a client have their types.
LEMMA Parts ==
    ASSUME NEW s \in Clients, NEW dir \in Directions, NEW o \in Options
    PROVE  /\ Have(s, dir)[o] \in BOOLEAN /\ Want(s, dir)[o] \in BOOLEAN /\ Count(s, dir)[o] \in Nat
           /\ s.out \in Seq(Messages)
BY DEF Clients, Have, Want, Count

\* An option is accepted or not.
LEMMA AcceptsBoolean == \A dir, o : Accepts(dir, o) \in BOOLEAN
<1> TAKE dir, o
<1>1. CASE dir = "do"
  BY <1>1 DEF Accepts
<1>2. CASE dir # "do"
  BY <1>2 DEF Accepts
<1> QED BY <1>1, <1>2

\* A word belongs to one option and direction.
LEMMA WordDistinct ==
    ASSUME NEW dir \in Directions, NEW o, NEW v, NEW e \in Directions, NEW x,
           IsWord(Word(dir, o, v), e, x)
    PROVE  e = dir /\ x = o
BY DEF IsWord, Word, Directions

\* There are two directions.
LEMMA OtherDirection ==
    ASSUME NEW dir \in Directions
    PROVE  /\ Other(dir) \in Directions /\ Other(Other(dir)) = dir
           /\ \A e \in Directions : Other(e) = Other(dir) => e = dir
BY DEF Other, Directions

\* A step of one option and direction leaves the others sound.
LEMMA OthersOut ==
    ASSUME NEW s, NEW r, NEW p, NEW dir \in Directions, NEW o \in Options, NEW v,
           Aside(s, r, dir, o), r.out = s.out \/ r.out = Append(s.out, Word(dir, o, v)),
           NEW e \in Directions, NEW x \in Options, e # dir \/ x # o, SideOf(s, p, e, x)
    PROVE  SideOf(r, p, e, x)
<1>1. /\ Have(r, e)[x] = Have(s, e)[x] /\ Want(r, e)[x] = Want(s, e)[x]
      /\ Count(r, e)[x] = Count(s, e)[x]
  BY DEF Aside
<1>2. Side(Accepts(e, x), e, x, Have(s, e)[x], Want(s, e)[x], Count(s, e)[x],
           State(p, e)[x], s.out, p.out)
  BY DEF SideOf
<1>3. CASE r.out = s.out
  BY <1>1, <1>2, <1>3 DEF SideOf
<1>4. CASE r.out = Append(s.out, Word(dir, o, v))
  <2>1. Word(dir, o, v) \in Messages /\ ~IsWord(Word(dir, o, v), e, x)
    BY WordIsMessage, WordDistinct
  <2>2. Side(Accepts(e, x), e, x, Have(s, e)[x], Want(s, e)[x], Count(s, e)[x],
             State(p, e)[x], Append(s.out, Word(dir, o, v)), p.out)
    BY <1>2, <2>1, SideOutMore
  <2> QED BY <1>1, <1>4, <2>2 DEF SideOf
<1> QED BY <1>3, <1>4

\* The client asks for v, which it did not wish before, and counts the response;
\* h and h1: the user was hasty, before and after.
Asked(s, r, dir, o, v, h, h1) ==
    /\ v # Want(s, dir)[o]
    /\ Turned(s, r, dir, o, Have(s, dir)[o], v, Count(s, dir)[o] + 1)
    /\ r.out = Append(s.out, Word(dir, o, Num(v)))
    /\ h => h1
    /\ Accepts(dir, o) \/ h1 \/ Count(s, dir)[o] = 0

\* The user asks.
LEMMA AskSides ==
    ASSUME NEW s \in Clients, NEW r, NEW p, NEW h \in BOOLEAN, NEW h1 \in BOOLEAN, Sides(s, p, h),
           NEW dir \in Directions, NEW o \in Options \ {"TM"}, NEW v \in BOOLEAN,
           Asked(s, r, dir, o, v, h, h1)
    PROVE  Sides(r, p, h1)
<1> /\ v # Want(s, dir)[o] /\ Turned(s, r, dir, o, Have(s, dir)[o], v, Count(s, dir)[o] + 1)
    /\ r.out = Append(s.out, Word(dir, o, Num(v)))
    /\ h => h1
    /\ Accepts(dir, o) \/ h1 \/ Count(s, dir)[o] = 0
  BY DEF Asked
<1> SUFFICES ASSUME NEW e \in Directions, NEW x \in Options \ {"TM"}, Accepts(e, x) \/ ~h1
             PROVE  SideOf(r, p, e, x)
  BY DEF Sides
<1>1. SideOf(s, p, e, x)
  BY DEF Sides
<1>2. CASE e # dir \/ x # o
  BY <1>1, <1>2, OthersOut DEF Turned
<1>3. CASE e = dir /\ x = o
  <2>1. Side(Accepts(dir, o), dir, o, Have(s, dir)[o], Want(s, dir)[o], Count(s, dir)[o],
             State(p, dir)[o], s.out, p.out)
    BY <1>1, <1>3 DEF SideOf
  <2>2. Accepts(dir, o) \in BOOLEAN /\ Want(s, dir)[o] \in BOOLEAN
    BY Parts, AcceptsBoolean
  <2>3. Side(Accepts(dir, o), dir, o, Have(s, dir)[o], v, Count(s, dir)[o] + 1,
             State(p, dir)[o], Append(s.out, Word(dir, o, Num(v))), p.out)
    BY <1>3, <2>1, <2>2, SideAsk
  <2> QED BY <1>3, <2>3 DEF SideOf, Turned
<1> QED BY <1>2, <1>3

\* The client repeats what it wishes for.
LEMMA RepeatSides ==
    ASSUME NEW s \in Clients, NEW r, NEW p, NEW h \in BOOLEAN, Sides(s, p, h),
           NEW dir \in Directions, NEW o \in Options \ {"TM"}, Accepts(dir, o), Want(s, dir)[o],
           Turned(s, r, dir, o, Have(s, dir)[o], Want(s, dir)[o], Count(s, dir)[o]),
           r.out = Append(s.out, Word(dir, o, 1))
    PROVE  Sides(r, p, h)
<1> SUFFICES ASSUME NEW e \in Directions, NEW x \in Options \ {"TM"}, Accepts(e, x) \/ ~h
             PROVE  SideOf(r, p, e, x)
  BY DEF Sides
<1>1. SideOf(s, p, e, x)
  BY DEF Sides
<1>2. CASE e # dir \/ x # o
  BY <1>1, <1>2, OthersOut DEF Turned
<1>3. CASE e = dir /\ x = o
  <2>1. Side(Accepts(dir, o), dir, o, Have(s, dir)[o], Want(s, dir)[o], Count(s, dir)[o],
             State(p, dir)[o], s.out, p.out)
    BY <1>1, <1>3, Zenon DEF SideOf
  <2>2. Accepts(dir, o) \in BOOLEAN /\ Want(s, dir)[o] \in BOOLEAN
    BY Parts, AcceptsBoolean
  <2>3. Side(Accepts(dir, o), dir, o, Have(s, dir)[o], Want(s, dir)[o], Count(s, dir)[o],
             State(p, dir)[o], Append(s.out, Word(dir, o, 1)), p.out)
    BY <2>1, <2>2, SideRepeat
  <2> QED BY <1>3, <2>3 DEF SideOf, Turned
<1> QED BY <1>2, <1>3

\* What the client's state, wish, count and words become when it reads v of an
\* option, with m the responses still due.
ReadTurned(s, r, dir, o, v, m) ==
    LET d == Have(s, dir)[o]
        w == Want(s, dir)[o]
        acc == Accepts(dir, o)
    IN /\ ~(m = 0 /\ w # v) => Turned(s, r, dir, o, v, w, m) /\ r.out = s.out
       /\ m = 0 /\ w # v /\ v /\ acc =>
            Turned(s, r, dir, o, v, v, m) /\ r.out = Append(s.out, Word(dir, o, 1))
       /\ m = 0 /\ w # v /\ v /\ ~acc =>
            Turned(s, r, dir, o, v, w, m + 1) /\ r.out = Append(s.out, Word(dir, o, 0))
       /\ m = 0 /\ w # v /\ ~v /\ d =>
            Turned(s, r, dir, o, v, v, m) /\ r.out = Append(s.out, Word(dir, o, 0))
       /\ m = 0 /\ w # v /\ ~v /\ ~d => Turned(s, r, dir, o, v, v, m) /\ r.out = s.out

\* The client reads v of an option: all options stay sound.
LEMMA ReadSides ==
    ASSUME NEW s \in Clients, NEW r, NEW p, NEW p1, NEW h \in BOOLEAN, Sides(s, p, h),
           NEW dir \in Directions, NEW o \in Options \ {"TM"}, NEW v \in BOOLEAN,
           p.out # <<>>, Head(p.out) = Word(Other(dir), o, Num(v)),
           p1.out = Tail(p.out), p1.will = p.will, p1.do = p.do,
           ReadTurned(s, r, dir, o, v, Answered(Count(s, dir)[o], Have(s, dir)[o] = v))
    PROVE  Sides(r, p1, h)
<1> SUFFICES ASSUME NEW e \in Directions, NEW x \in Options \ {"TM"}, Accepts(e, x) \/ ~h
             PROVE  SideOf(r, p1, e, x)
  BY DEF Sides
<1> DEFINE d == Have(s, dir)[o]
           w == Want(s, dir)[o]
           acc == Accepts(dir, o)
           m == Answered(Count(s, dir)[o], Have(s, dir)[o] = v)
<1>1. SideOf(s, p, e, x)
  BY DEF Sides
<1>2. \A y \in Directions : State(p1, y) = State(p, y)
  BY DEF State
<1>3. d \in BOOLEAN /\ w \in BOOLEAN /\ acc \in BOOLEAN
  BY Parts, AcceptsBoolean
<1>4. CASE e # dir \/ x # o
  <2>1. Aside(s, r, dir, o) /\ (r.out = s.out \/ r.out = Append(s.out, Word(dir, o, 0))
                                  \/ r.out = Append(s.out, Word(dir, o, 1)))
    BY <1>3 DEF ReadTurned, Turned
  <2>2. SideOf(r, p, e, x)
    BY <1>1, <1>4, <2>1, OthersOut
  <2>3. ~IsWord(Head(p.out), Other(e), x)
    <3>1. Other(dir) \in Directions /\ Other(e) \in Directions /\ (Other(e) = Other(dir) => e = dir)
      BY OtherDirection
    <3> QED BY <1>4, <3>1, WordDistinct
  <2>4. Side(Accepts(e, x), e, x, Have(r, e)[x], Want(r, e)[x], Count(r, e)[x],
             State(p, e)[x], r.out, p.out)
    BY <2>2 DEF SideOf
  <2>5. Side(Accepts(e, x), e, x, Have(r, e)[x], Want(r, e)[x], Count(r, e)[x],
             State(p, e)[x], r.out, Tail(p.out))
    BY <2>3, <2>4, SideInLess
  <2> QED BY <1>2, <2>5 DEF SideOf
<1>5. CASE e = dir /\ x = o
  <2>1. Side(acc, dir, o, d, w, Count(s, dir)[o], State(p, dir)[o], s.out, p.out)
    BY <1>1, <1>5 DEF SideOf
  <2> HIDE DEF d, w, acc, m
  <2>2. m = Answered(Count(s, dir)[o], d = v)
    BY DEF m, d
  <2>3. /\ ~(m = 0 /\ w # v) =>
             Side(acc, dir, o, v, w, m, State(p, dir)[o], s.out, Tail(p.out))
        /\ m = 0 /\ w # v /\ v /\ acc =>
             Side(acc, dir, o, v, v, m, State(p, dir)[o], Append(s.out, Word(dir, o, 1)), Tail(p.out))
        /\ m = 0 /\ w # v /\ v /\ ~acc =>
             Side(acc, dir, o, v, w, m + 1, State(p, dir)[o], Append(s.out, Word(dir, o, 0)), Tail(p.out))
        /\ m = 0 /\ w # v /\ ~v /\ d =>
             Side(acc, dir, o, v, v, m, State(p, dir)[o], Append(s.out, Word(dir, o, 0)), Tail(p.out))
        /\ m = 0 /\ w # v /\ ~v /\ ~d =>
             Side(acc, dir, o, v, v, m, State(p, dir)[o], s.out, Tail(p.out))
    <3> DEFINE n == Count(s, dir)[o]
               st == State(p, dir)[o]
               out == s.out
               in == p.out
    <3>1. /\ Side(acc, dir, o, d, w, n, st, out, in) /\ in # <<>>
          /\ Head(in) = Word(Other(dir), o, Num(v)) /\ m = Answered(n, d = v)
      BY <2>1, <2>2
    <3> HIDE DEF n, st, out, in
    <3>2. /\ ~(m = 0 /\ w # v) => Side(acc, dir, o, v, w, m, st, out, Tail(in))
          /\ m = 0 /\ w # v /\ v /\ acc =>
               Side(acc, dir, o, v, v, m, st, Append(out, Word(dir, o, 1)), Tail(in))
          /\ m = 0 /\ w # v /\ v /\ ~acc =>
               Side(acc, dir, o, v, w, m + 1, st, Append(out, Word(dir, o, 0)), Tail(in))
          /\ m = 0 /\ w # v /\ ~v /\ d =>
               Side(acc, dir, o, v, v, m, st, Append(out, Word(dir, o, 0)), Tail(in))
          /\ m = 0 /\ w # v /\ ~v /\ ~d => Side(acc, dir, o, v, v, m, st, out, Tail(in))
      BY <1>3, <3>1, SideRead, SMTT(60)
    <3> QED BY <3>2, Zenon DEF n, st, out, in
  <2>4. /\ ~(m = 0 /\ w # v) => Turned(s, r, dir, o, v, w, m) /\ r.out = s.out
        /\ m = 0 /\ w # v /\ v /\ acc =>
             Turned(s, r, dir, o, v, v, m) /\ r.out = Append(s.out, Word(dir, o, 1))
        /\ m = 0 /\ w # v /\ v /\ ~acc =>
             Turned(s, r, dir, o, v, w, m + 1) /\ r.out = Append(s.out, Word(dir, o, 0))
        /\ m = 0 /\ w # v /\ ~v /\ d =>
             Turned(s, r, dir, o, v, v, m) /\ r.out = Append(s.out, Word(dir, o, 0))
        /\ m = 0 /\ w # v /\ ~v /\ ~d => Turned(s, r, dir, o, v, v, m) /\ r.out = s.out
    BY DEF ReadTurned, m, w, d, acc
  <2>5. Side(acc, dir, o, Have(r, dir)[o], Want(r, dir)[o], Count(r, dir)[o],
             State(p, dir)[o], r.out, Tail(p.out))
    BY <1>3, <2>3, <2>4 DEF Turned
  <2> QED BY <1>2, <1>5, <2>5 DEF SideOf, acc
<1> QED BY <1>4, <1>5

\* TM: the other options are left alone.
LEMMA MarkSides ==
    ASSUME NEW s, NEW r, NEW p, NEW h \in BOOLEAN, NEW h1 \in BOOLEAN, Sides(s, p, h), h => h1,
           NEW dir \in Directions, NEW v, "TM" \in Options, Aside(s, r, dir, "TM"),
           r.out = s.out \/ r.out = Append(s.out, Word(dir, "TM", v))
    PROVE  Sides(r, p, h1)
<1> SUFFICES ASSUME NEW e \in Directions, NEW x \in Options \ {"TM"}, Accepts(e, x) \/ ~h1
             PROVE  SideOf(r, p, e, x)
  BY DEF Sides
<1>1. SideOf(s, p, e, x)
  BY DEF Sides
<1>2. x \in Options /\ (e # dir \/ x # "TM")
  OBVIOUS
<1>3. CASE r.out = s.out
  BY <1>1, <1>2, <1>3, OthersOut, Zenon
<1>4. CASE r.out = Append(s.out, Word(dir, "TM", v))
  BY <1>1, <1>2, <1>4, OthersOut, Zenon
<1> QED BY <1>3, <1>4

\* The client reads a word of TM: the other options are left alone.
LEMMA ReadMark ==
    ASSUME NEW s, NEW p, NEW p1, NEW h \in BOOLEAN, Sides(s, p, h),
           NEW dir \in Directions, NEW v, p.out # <<>>, Head(p.out) = Word(dir, "TM", v),
           p1.out = Tail(p.out), p1.will = p.will, p1.do = p.do
    PROVE  Sides(s, p1, h)
<1> SUFFICES ASSUME NEW e \in Directions, NEW x \in Options \ {"TM"}, Accepts(e, x) \/ ~h
             PROVE  SideOf(s, p1, e, x)
  BY DEF Sides
<1>1. SideOf(s, p, e, x)
  BY DEF Sides
<1>2. State(p1, e) = State(p, e)
  BY DEF State
<1>3. ~IsWord(Head(p.out), Other(e), x)
  BY OtherDirection, WordDistinct
<1>4. Side(Accepts(e, x), e, x, Have(s, e)[x], Want(s, e)[x], Count(s, e)[x],
           State(p, e)[x], s.out, p.out)
  BY <1>1 DEF SideOf
<1>5. Side(Accepts(e, x), e, x, Have(s, e)[x], Want(s, e)[x], Count(s, e)[x],
           State(p, e)[x], s.out, Tail(p.out))
  BY <1>3, <1>4, SideInLess
<1> QED BY <1>2, <1>5 DEF SideOf

-----------------------------------------------------------------------------
(* What the peer reads and says.                                            *)

\* The peer goes from state st to st1 on reading v: in silence, and saying b.
Silent(st, v, st1) ==
    \/ st = "no" /\ v = 0 /\ st1 = "no"
    \/ st = "yes" /\ v = 1 /\ st1 = "yes"
    \/ st = "wantno" /\ st1 = "no"
    \/ st = "wantyes" /\ st1 = IF v = 1 THEN "yes" ELSE "no"
Replied(st, v, st1, b) ==
    \/ st = "no" /\ v = 1 /\ st1 = IF b = 1 THEN "yes" ELSE "no"
    \/ st = "yes" /\ v = 0 /\ st1 = "no" /\ b = 0

\* p becomes q when the peer reads v of dir and o: it goes to st and says b, or
\* nothing.
Heard(p, q, dir, o, v, b, st) ==
    /\ PeerTurned(p, q, dir, o, st)
    /\ q.out = p.out \/ q.out = Append(p.out, Word(Other(dir), o, b))
    /\ o # "TM" => \/ Silent(State(p, dir)[o], v, st) /\ q.out = p.out
                   \/ /\ Replied(State(p, dir)[o], v, st, b)
                      /\ q.out = Append(p.out, Word(Other(dir), o, b))

\* The client's states and counts stay as they are.
Unmoved(s, r) ==
    \A e \in Directions : Have(r, e) = Have(s, e) /\ Want(r, e) = Want(s, e) /\ Count(r, e) = Count(s, e)

\* The peer says b of dir and o, or nothing: the others stay sound.
LEMMA OthersIn ==
    ASSUME NEW s, NEW p, NEW p1, NEW dir \in Directions, NEW o \in Options, NEW b,
           NEW e \in Directions, NEW x \in Options, e # dir \/ x # o, SideOf(s, p, e, x),
           State(p1, e)[x] = State(p, e)[x],
           p1.out = p.out \/ p1.out = Append(p.out, Word(Other(dir), o, b))
    PROVE  SideOf(s, p1, e, x)
<1>1. Side(Accepts(e, x), e, x, Have(s, e)[x], Want(s, e)[x], Count(s, e)[x],
           State(p, e)[x], s.out, p.out)
  BY DEF SideOf
<1>2. CASE p1.out = p.out
  BY <1>1, <1>2 DEF SideOf
<1>3. CASE p1.out = Append(p.out, Word(Other(dir), o, b))
  <2>1. Other(dir) \in Directions /\ Other(e) \in Directions /\ (Other(e) = Other(dir) => e = dir)
    BY OtherDirection
  <2>2. Word(Other(dir), o, b) \in Messages /\ ~IsWord(Word(Other(dir), o, b), Other(e), x)
    BY <2>1, WordIsMessage, WordDistinct
  <2>3. Side(Accepts(e, x), e, x, Have(s, e)[x], Want(s, e)[x], Count(s, e)[x],
             State(p, e)[x], s.out, Append(p.out, Word(Other(dir), o, b)))
    BY <1>1, <2>2, SideInMore
  <2> QED BY <1>3, <2>3 DEF SideOf
<1> QED BY <1>2, <1>3

\* The peer reads a word.
LEMMA HearSides ==
    ASSUME NEW s, NEW s1, NEW p, NEW p1, NEW h \in BOOLEAN, Sides(s, p, h),
           NEW dir \in Directions, NEW o \in Options, NEW v \in {0, 1}, NEW b \in {0, 1}, NEW st,
           s.out # <<>>, Head(s.out) = Word(dir, o, v), s1.out = Tail(s.out),
           Unmoved(s, s1),
           Heard(p, p1, dir, o, v, b, st)
    PROVE  Sides(s1, p1, h)
<1> /\ PeerTurned(p, p1, dir, o, st)
    /\ p1.out = p.out \/ p1.out = Append(p.out, Word(Other(dir), o, b))
    /\ o # "TM" => \/ Silent(State(p, dir)[o], v, st) /\ p1.out = p.out
                   \/ /\ Replied(State(p, dir)[o], v, st, b)
                      /\ p1.out = Append(p.out, Word(Other(dir), o, b))
  BY DEF Heard
<1> \A e \in Directions : Have(s1, e) = Have(s, e) /\ Want(s1, e) = Want(s, e) /\ Count(s1, e) = Count(s, e)
  BY DEF Unmoved
<1> SUFFICES ASSUME NEW e \in Directions, NEW x \in Options \ {"TM"}, Accepts(e, x) \/ ~h
             PROVE  SideOf(s1, p1, e, x)
  BY DEF Sides
<1>1. Side(Accepts(e, x), e, x, Have(s, e)[x], Want(s, e)[x], Count(s, e)[x],
           State(p, e)[x], s.out, p.out)
  BY DEF Sides, SideOf
<1>2. CASE e # dir \/ x # o
  <2>1. ~IsWord(Head(s.out), e, x)
    BY <1>2, WordDistinct
  <2>2. Side(Accepts(e, x), e, x, Have(s, e)[x], Want(s, e)[x], Count(s, e)[x],
             State(p, e)[x], Tail(s.out), p.out)
    BY <1>1, <2>1, SideOutLess
  <2>3. SideOf(s1, p, e, x)
    BY <2>2 DEF SideOf
  <2>4. State(p1, e)[x] = State(p, e)[x]
    BY <1>2 DEF PeerTurned
  <2> QED BY <1>2, <2>3, <2>4, OthersIn
<1>3. CASE e = dir /\ x = o
  <2> DEFINE acc == Accepts(dir, o)
             d == Have(s, dir)[o]
             w == Want(s, dir)[o]
             n == Count(s, dir)[o]
             st0 == State(p, dir)[o]
             out == s.out
             in == p.out
  <2>1. /\ Side(acc, dir, o, d, w, n, st0, out, in) /\ out # <<>> /\ Head(out) = Word(dir, o, v)
        /\ acc \in BOOLEAN
    BY <1>1, <1>3, AcceptsBoolean
  <2>2. /\ d = Have(s1, dir)[o] /\ w = Want(s1, dir)[o] /\ n = Count(s1, dir)[o]
        /\ st = State(p1, dir)[o] /\ s1.out = Tail(out)
    BY DEF PeerTurned
  <2>3. \/ Silent(st0, v, st) /\ p1.out = in
        \/ Replied(st0, v, st, b) /\ p1.out = Append(in, Word(Other(dir), o, b))
    BY <1>3
  <2> HIDE DEF acc, d, w, n, st0, out, in
  <2>4. CASE Silent(st0, v, st) /\ p1.out = in
    <3>1. Side(acc, dir, o, d, w, n, st, Tail(out), in)
      BY <2>1, <2>4, SideHear DEF Silent
    <3> QED BY <1>3, <2>2, <2>4, <3>1 DEF SideOf, acc
  <2>5. CASE Replied(st0, v, st, b) /\ p1.out = Append(in, Word(Other(dir), o, b))
    <3>1. Side(acc, dir, o, d, w, n, st, Tail(out), Append(in, Word(Other(dir), o, b)))
      BY <2>1, <2>5, SideAnswer DEF Replied
    <3> QED BY <1>3, <2>2, <2>5, <3>1 DEF SideOf, acc
  <2> QED BY <2>3, <2>4, <2>5
<1> QED BY <1>2, <1>3

\* The peer makes a request.
LEMMA OfferSides ==
    ASSUME NEW s, NEW p, NEW p1, NEW h \in BOOLEAN, Sides(s, p, h),
           NEW dir \in Directions, NEW o \in Options, NEW b \in {0, 1}, NEW st,
           PeerTurned(p, p1, dir, o, st), p1.out = Append(p.out, Word(Other(dir), o, b)),
           o # "TM" => \/ State(p, dir)[o] = "no" /\ st = "wantyes" /\ b = 1
                       \/ State(p, dir)[o] = "yes" /\ st = "wantno" /\ b = 0
    PROVE  Sides(s, p1, h)
<1> SUFFICES ASSUME NEW e \in Directions, NEW x \in Options \ {"TM"}, Accepts(e, x) \/ ~h
             PROVE  SideOf(s, p1, e, x)
  BY DEF Sides
<1>1. SideOf(s, p, e, x)
  BY DEF Sides
<1>2. CASE e # dir \/ x # o
  <2>1. State(p1, e)[x] = State(p, e)[x]
    BY <1>2 DEF PeerTurned
  <2> QED BY <1>1, <1>2, <2>1, OthersIn
<1>3. CASE e = dir /\ x = o
  <2> DEFINE acc == Accepts(dir, o)
             d == Have(s, dir)[o]
             w == Want(s, dir)[o]
             n == Count(s, dir)[o]
             st0 == State(p, dir)[o]
             out == s.out
             in == p.out
  <2>1. /\ Side(acc, dir, o, d, w, n, st0, out, in) /\ acc \in BOOLEAN
    BY <1>1, <1>3, AcceptsBoolean DEF SideOf
  <2>2. \/ st0 = "no" /\ st = "wantyes" /\ b = 1
        \/ st0 = "yes" /\ st = "wantno" /\ b = 0
    BY <1>3
  <2>3. st = State(p1, dir)[o] /\ p1.out = Append(in, Word(Other(dir), o, b))
    BY DEF PeerTurned
  <2> HIDE DEF acc, d, w, n, st0, out, in
  <2>4. Side(acc, dir, o, d, w, n, st, out, Append(in, Word(Other(dir), o, b)))
    BY <2>1, <2>2, SideOffer
  <2> QED BY <1>3, <2>3, <2>4 DEF SideOf, acc, d, w, n, out
<1> QED BY <1>2, <1>3

-----------------------------------------------------------------------------
(* What the client's handlers and requests do.                              *)

\* The client with one option and direction, and what it has sent, changed.
Changed(s, dir, o, d, w, n, q, f) ==
    IF dir = "do"
    THEN [will |-> s.will, wantwill |-> s.wantwill, wwr |-> s.wwr,
          do |-> [s.do EXCEPT ![o] = d], wantdo |-> [s.wantdo EXCEPT ![o] = w],
          ddr |-> [s.ddr EXCEPT ![o] = n], flushout |-> f, out |-> q]
    ELSE [will |-> [s.will EXCEPT ![o] = d], wantwill |-> [s.wantwill EXCEPT ![o] = w],
          wwr |-> [s.wwr EXCEPT ![o] = n], do |-> s.do, wantdo |-> s.wantdo,
          ddr |-> s.ddr, flushout |-> f, out |-> q]

\* A client is the record of its parts.
LEMMA ClientShape ==
    ASSUME NEW s \in Clients
    PROVE  s = [will |-> s.will, wantwill |-> s.wantwill, wwr |-> s.wwr,
                do |-> s.do, wantdo |-> s.wantdo, ddr |-> s.ddr, flushout |-> s.flushout, out |-> s.out]
BY DEF Clients

\* What Changed does and leaves alone.
LEMMA ChangedFacts ==
    ASSUME NEW s \in Clients, NEW dir \in Directions, NEW o \in Options, NEW f \in BOOLEAN,
           NEW d \in BOOLEAN, NEW w \in BOOLEAN, NEW n \in Nat, NEW q \in Seq(Messages)
    PROVE  /\ Changed(s, dir, o, d, w, n, q, f) \in Clients
           /\ Turned(s, Changed(s, dir, o, d, w, n, q, f), dir, o, d, w, n)
           /\ Changed(s, dir, o, d, w, n, q, f).out = q
<1> DEFINE r == Changed(s, dir, o, d, w, n, q, f)
<1>1. CASE dir = "do"
  <2>1. r = [will |-> s.will, wantwill |-> s.wantwill, wwr |-> s.wwr,
             do |-> [s.do EXCEPT ![o] = d], wantdo |-> [s.wantdo EXCEPT ![o] = w],
             ddr |-> [s.ddr EXCEPT ![o] = n], flushout |-> f, out |-> q]
    BY <1>1 DEF Changed
  <2>2. r \in Clients
    BY <2>1 DEF Clients
  <2>3. /\ r.do = [s.do EXCEPT ![o] = d] /\ r.wantdo = [s.wantdo EXCEPT ![o] = w]
        /\ r.ddr = [s.ddr EXCEPT ![o] = n] /\ r.out = q
        /\ r.will = s.will /\ r.wantwill = s.wantwill /\ r.wwr = s.wwr
    BY <2>1
  <2> HIDE DEF r
  <2>4. /\ s.do \in [Options -> BOOLEAN] /\ s.wantdo \in [Options -> BOOLEAN] /\ s.ddr \in [Options -> Nat]
    BY DEF Clients
  <2>5. Turned(s, r, "do", o, d, w, n)
    BY <2>3, <2>4 DEF Turned, Aside, Have, Want, Count, Directions
  <2> QED BY <1>1, <2>2, <2>3, <2>5 DEF r
<1>2. CASE dir = "will"
  <2>1. r = [will |-> [s.will EXCEPT ![o] = d], wantwill |-> [s.wantwill EXCEPT ![o] = w],
             wwr |-> [s.wwr EXCEPT ![o] = n], do |-> s.do, wantdo |-> s.wantdo,
             ddr |-> s.ddr, flushout |-> f, out |-> q]
    BY <1>2 DEF Changed
  <2>2. r \in Clients
    BY <2>1 DEF Clients
  <2>3. /\ r.will = [s.will EXCEPT ![o] = d] /\ r.wantwill = [s.wantwill EXCEPT ![o] = w]
        /\ r.wwr = [s.wwr EXCEPT ![o] = n] /\ r.out = q
        /\ r.do = s.do /\ r.wantdo = s.wantdo /\ r.ddr = s.ddr
    BY <2>1
  <2> HIDE DEF r
  <2>4. /\ s.will \in [Options -> BOOLEAN] /\ s.wantwill \in [Options -> BOOLEAN] /\ s.wwr \in [Options -> Nat]
    BY DEF Clients
  <2>5. Turned(s, r, "will", o, d, w, n)
    BY <2>3, <2>4 DEF Turned, Aside, Have, Want, Count, Directions
  <2> QED BY <1>2, <2>2, <2>3, <2>5 DEF r
<1> QED BY <1>1, <1>2 DEF Directions

\* A response count never goes below zero.
LEMMA AnsweredFacts ==
    ASSUME NEW n \in Nat, NEW b \in BOOLEAN
    PROVE  Answered(n, b) \in Nat
BY DEF Answered

\* WILL of an option.
LEMMA WillEffect ==
    ASSUME NEW s \in Clients, NEW o \in Options
    PROVE  LET m == Answered(s.ddr[o], s.do[o])
               w == s.wantdo[o]
           IN /\ ~(m = 0 /\ ~w) => willoption(s, o) = Changed(s, "do", o, TRUE, w, m, s.out, s.flushout)
              /\ m = 0 /\ ~w /\ o # "TM" /\ o \in AcceptWill =>
                   willoption(s, o) = Changed(s, "do", o, TRUE, TRUE, m, Append(s.out, <<"DO", o>>), s.flushout)
              /\ m = 0 /\ ~w /\ o # "TM" /\ o \notin AcceptWill =>
                   willoption(s, o) = Changed(s, "do", o, TRUE, w, m + 1, Append(s.out, <<"DONT", o>>), s.flushout)
              /\ m = 0 /\ ~w /\ o = "TM" =>
                   willoption(s, o) = Changed(s, "do", o, FALSE, FALSE, m, s.out, FALSE)
<1> DEFINE m == Answered(s.ddr[o], s.do[o])
           w == s.wantdo[o]
           t == [s EXCEPT !.ddr[o] = m]
<1>1. t = [s EXCEPT !.ddr[o] = Answered(@, s.do[o])]
  BY DEF Clients
<1>2. m \in Nat /\ w \in BOOLEAN
  BY AnsweredFacts DEF Clients
<1>3. /\ t.ddr = [s.ddr EXCEPT ![o] = m] /\ t.ddr[o] = m /\ t.wantdo = s.wantdo /\ t.do = s.do /\ t.out = s.out
  BY DEF Clients
<1> HIDE DEF m
<1>4. CASE ~(m = 0 /\ ~w)
  <2>1. willoption(s, o) = [t EXCEPT !.do[o] = TRUE]
    BY <1>1, <1>3, <1>4 DEF willoption
  <2> QED BY <1>4, <2>1 DEF Changed, m, Clients
<1>5. CASE m = 0 /\ ~w /\ o # "TM" /\ o \in AcceptWill
  <2>1. willoption(s, o) = [send_do([t EXCEPT !.wantdo[o] = TRUE], o, FALSE) EXCEPT !.do[o] = TRUE]
    BY <1>1, <1>3, <1>5 DEF willoption
  <2> QED BY <1>5, <2>1 DEF Changed, m, Clients, send_do, Emit
<1>6. CASE m = 0 /\ ~w /\ o # "TM" /\ o \notin AcceptWill
  <2>1. willoption(s, o) = [send_dont([t EXCEPT !.ddr[o] = @ + 1], o, FALSE) EXCEPT !.do[o] = TRUE]
    BY <1>1, <1>3, <1>6 DEF willoption
  <2>2. [t EXCEPT !.ddr[o] = @ + 1] = [s EXCEPT !.ddr[o] = m + 1]
    BY DEF Clients
  <2>3. willoption(s, o) = [send_dont([s EXCEPT !.ddr[o] = m + 1], o, FALSE) EXCEPT !.do[o] = TRUE]
    BY <2>1, <2>2
  <2> QED BY <1>6, <2>3 DEF Changed, m, Clients, send_dont, Emit
<1>7. CASE m = 0 /\ ~w /\ o = "TM"
  <2>1. willoption(s, o) = [t EXCEPT !.flushout = FALSE, !.wantdo[o] = FALSE, !.do[o] = FALSE]
    BY <1>1, <1>3, <1>7 DEF willoption
  <2> QED BY <1>7, <2>1 DEF Changed, m, Clients
<1> QED BY <1>4, <1>5, <1>6, <1>7 DEF m

\* WONT of an option.
LEMMA WontEffect ==
    ASSUME NEW s \in Clients, NEW o \in Options
    PROVE  LET m == Answered(s.ddr[o], ~s.do[o])
               w == s.wantdo[o]
           IN /\ o # "TM" /\ ~(m = 0 /\ w) =>
                   wontoption(s, o) = Changed(s, "do", o, FALSE, w, m, s.out, s.flushout)
              /\ m = 0 /\ w /\ o # "TM" /\ s.do[o] =>
                   wontoption(s, o) = Changed(s, "do", o, FALSE, FALSE, m, Append(s.out, <<"DONT", o>>), s.flushout)
              /\ m = 0 /\ w /\ o # "TM" /\ ~s.do[o] =>
                   wontoption(s, o) = Changed(s, "do", o, FALSE, FALSE, m, s.out, s.flushout)
              /\ o = "TM" => wontoption(s, o) = Changed(s, "do", o, FALSE, FALSE, m, s.out, FALSE)
<1> DEFINE m == Answered(s.ddr[o], ~s.do[o])
           w == s.wantdo[o]
           t == [s EXCEPT !.ddr[o] = m]
<1>1. t = [s EXCEPT !.ddr[o] = Answered(@, ~s.do[o])]
  BY DEF Clients
<1>2. m \in Nat /\ w \in BOOLEAN
  BY AnsweredFacts DEF Clients
<1>3. /\ t.ddr = [s.ddr EXCEPT ![o] = m] /\ t.ddr[o] = m /\ t.wantdo = s.wantdo /\ t.do = s.do /\ t.out = s.out
  BY DEF Clients
<1> HIDE DEF m
<1>4. CASE o # "TM" /\ ~(m = 0 /\ w)
  <2>1. wontoption(s, o) = [t EXCEPT !.do[o] = FALSE]
    BY <1>1, <1>3, <1>4 DEF wontoption
  <2> QED BY <1>4, <2>1 DEF Changed, m, Clients
<1>5. CASE m = 0 /\ w /\ o # "TM" /\ s.do[o]
  <2>1. wontoption(s, o) = [send_dont([t EXCEPT !.wantdo[o] = FALSE], o, FALSE) EXCEPT !.do[o] = FALSE]
    BY <1>1, <1>3, <1>5 DEF wontoption
  <2> QED BY <1>5, <2>1 DEF Changed, m, Clients, send_dont, Emit
<1>6. CASE m = 0 /\ w /\ o # "TM" /\ ~s.do[o]
  <2>1. wontoption(s, o) = [[t EXCEPT !.wantdo[o] = FALSE] EXCEPT !.do[o] = FALSE]
    BY <1>1, <1>3, <1>6 DEF wontoption
  <2> QED BY <1>6, <2>1 DEF Changed, m, Clients
<1>7. CASE o = "TM"
  <2>1. wontoption(s, o) = [t EXCEPT !.flushout = FALSE, !.wantdo[o] = FALSE, !.do[o] = FALSE]
    BY <1>1, <1>3, <1>7 DEF wontoption
  <2> QED BY <1>7, <2>1 DEF Changed, m, Clients
<1> QED BY <1>4, <1>5, <1>6, <1>7 DEF m

\* DONT of an option.
LEMMA DontEffect ==
    ASSUME NEW s \in Clients, NEW o \in Options
    PROVE  LET m == Answered(s.wwr[o], ~s.will[o])
               w == s.wantwill[o]
           IN /\ ~(m = 0 /\ w) =>
                   dontoption(s, o) = Changed(s, "will", o, FALSE, w, m, s.out, s.flushout)
              /\ m = 0 /\ w /\ s.will[o] =>
                   dontoption(s, o) = Changed(s, "will", o, FALSE, FALSE, m, Append(s.out, <<"WONT", o>>), s.flushout)
              /\ m = 0 /\ w /\ ~s.will[o] =>
                   dontoption(s, o) = Changed(s, "will", o, FALSE, FALSE, m, s.out, s.flushout)
<1> DEFINE m == Answered(s.wwr[o], ~s.will[o])
           w == s.wantwill[o]
           t == [s EXCEPT !.wwr[o] = m]
<1>1. t = [s EXCEPT !.wwr[o] = Answered(@, ~s.will[o])]
  BY DEF Clients
<1>2. m \in Nat /\ w \in BOOLEAN
  BY AnsweredFacts DEF Clients
<1>3. /\ t.wwr = [s.wwr EXCEPT ![o] = m] /\ t.wwr[o] = m /\ t.wantwill = s.wantwill /\ t.will = s.will /\ t.out = s.out
  BY DEF Clients
<1> HIDE DEF m
<1>4. CASE ~(m = 0 /\ w)
  <2>1. dontoption(s, o) = [t EXCEPT !.will[o] = FALSE]
    BY <1>1, <1>3, <1>4 DEF dontoption
  <2> QED BY <1>4, <2>1 DEF Changed, m, Clients
<1>5. CASE m = 0 /\ w /\ s.will[o]
  <2>1. dontoption(s, o) = [send_wont([t EXCEPT !.wantwill[o] = FALSE], o, FALSE) EXCEPT !.will[o] = FALSE]
    BY <1>1, <1>3, <1>5 DEF dontoption
  <2> QED BY <1>5, <2>1 DEF Changed, m, Clients, send_wont, Emit
<1>6. CASE m = 0 /\ w /\ ~s.will[o]
  <2>1. dontoption(s, o) = [[t EXCEPT !.wantwill[o] = FALSE] EXCEPT !.will[o] = FALSE]
    BY <1>1, <1>3, <1>6 DEF dontoption
  <2> QED BY <1>6, <2>1 DEF Changed, m, Clients
<1> QED BY <1>4, <1>5, <1>6 DEF m

\* A request of the user's.
LEMMA DoAsk ==
    ASSUME NEW s \in Clients, NEW c \in Options
    PROVE  IF (s.ddr[c] = 0 /\ s.do[c]) \/ s.wantdo[c] THEN send_do(s, c, TRUE) = s
           ELSE send_do(s, c, TRUE) = Changed(s, "do", c, s.do[c], TRUE, s.ddr[c] + 1,
                                              Append(s.out, <<"DO", c>>), s.flushout)
<1>1. CASE (s.ddr[c] = 0 /\ s.do[c]) \/ s.wantdo[c]
  BY <1>1 DEF send_do
<1>2. CASE ~((s.ddr[c] = 0 /\ s.do[c]) \/ s.wantdo[c])
  <2>1. send_do(s, c, TRUE) = Emit([s EXCEPT !.wantdo[c] = TRUE, !.ddr[c] = @ + 1], "DO", c)
    BY <1>2 DEF send_do
  <2> QED BY <1>2, <2>1 DEF Emit, Changed, Clients
<1> QED BY <1>1, <1>2

\* The user asks that the peer stop an option.
LEMMA DontAsk ==
    ASSUME NEW s \in Clients, NEW c \in Options
    PROVE  IF (s.ddr[c] = 0 /\ ~s.do[c]) \/ ~s.wantdo[c] THEN send_dont(s, c, TRUE) = s
           ELSE send_dont(s, c, TRUE) = Changed(s, "do", c, s.do[c], FALSE, s.ddr[c] + 1,
                                                Append(s.out, <<"DONT", c>>), s.flushout)
<1>1. CASE (s.ddr[c] = 0 /\ ~s.do[c]) \/ ~s.wantdo[c]
  BY <1>1 DEF send_dont
<1>2. CASE ~((s.ddr[c] = 0 /\ ~s.do[c]) \/ ~s.wantdo[c])
  <2>1. send_dont(s, c, TRUE) = Emit([s EXCEPT !.wantdo[c] = FALSE, !.ddr[c] = @ + 1], "DONT", c)
    BY <1>2 DEF send_dont
  <2> QED BY <1>2, <2>1 DEF Emit, Changed, Clients
<1> QED BY <1>1, <1>2

\* The user offers an option.
LEMMA WillAsk ==
    ASSUME NEW s \in Clients, NEW c \in Options
    PROVE  IF (s.wwr[c] = 0 /\ s.will[c]) \/ s.wantwill[c] THEN send_will(s, c, TRUE) = s
           ELSE send_will(s, c, TRUE) = Changed(s, "will", c, s.will[c], TRUE, s.wwr[c] + 1,
                                                Append(s.out, <<"WILL", c>>), s.flushout)
<1>1. CASE (s.wwr[c] = 0 /\ s.will[c]) \/ s.wantwill[c]
  BY <1>1 DEF send_will
<1>2. CASE ~((s.wwr[c] = 0 /\ s.will[c]) \/ s.wantwill[c])
  <2>1. send_will(s, c, TRUE) = Emit([s EXCEPT !.wantwill[c] = TRUE, !.wwr[c] = @ + 1], "WILL", c)
    BY <1>2 DEF send_will
  <2> QED BY <1>2, <2>1 DEF Emit, Changed, Clients
<1> QED BY <1>1, <1>2

\* The user withdraws an option.
LEMMA WontAsk ==
    ASSUME NEW s \in Clients, NEW c \in Options
    PROVE  IF (s.wwr[c] = 0 /\ ~s.will[c]) \/ ~s.wantwill[c] THEN send_wont(s, c, TRUE) = s
           ELSE send_wont(s, c, TRUE) = Changed(s, "will", c, s.will[c], FALSE, s.wwr[c] + 1,
                                                Append(s.out, <<"WONT", c>>), s.flushout)
<1>1. CASE (s.wwr[c] = 0 /\ ~s.will[c]) \/ ~s.wantwill[c]
  BY <1>1 DEF send_wont
<1>2. CASE ~((s.wwr[c] = 0 /\ ~s.will[c]) \/ ~s.wantwill[c])
  <2>1. send_wont(s, c, TRUE) = Emit([s EXCEPT !.wantwill[c] = FALSE, !.wwr[c] = @ + 1], "WONT", c)
    BY <1>2 DEF send_wont
  <2> QED BY <1>2, <2>1 DEF Emit, Changed, Clients
<1> QED BY <1>1, <1>2

\* A request makes a client of a client.
LEMMA DoAskTypes ==
    ASSUME NEW s \in Clients, NEW c \in Options
    PROVE  send_do(s, c, TRUE) \in Clients
<1> DEFINE k == (s.ddr[c] = 0 /\ s.do[c]) \/ s.wantdo[c]
           v == TRUE
           r == Changed(s, "do", c, s.do[c], v, s.ddr[c] + 1, Append(s.out, <<"DO", c>>), s.flushout)
<1>1. /\ s.do[c] \in BOOLEAN /\ s.ddr[c] + 1 \in Nat /\ s.flushout \in BOOLEAN /\ v \in BOOLEAN
      /\ s.out \in Seq(Messages) /\ <<"DO", c>> \in Messages /\ "do" \in Directions
  BY DEF Clients, Messages, Verbs, Directions
<1>2. Append(s.out, <<"DO", c>>) \in Seq(Messages)
  BY <1>1, AppendFacts
<1>3. send_do(s, c, TRUE) = s \/ send_do(s, c, TRUE) = r
  BY DoAsk
<1> HIDE DEF v
<1>4. r \in Clients
  BY <1>1, <1>2, ChangedFacts
<1> QED BY <1>3, <1>4

\* What the client asks for besides when it reads DO of an option.
Beside(s, o) ==
    LET m == Answered(s.wwr[o], s.will[o])
        sga == send_do(s, "SGA", TRUE)
    IN IF o # "LINEMODE" \/ m # 0 THEN s
       ELSE IF ~s.wantwill[o] THEN sga ELSE Emit(sga, "DO", "SGA")

\* DO of an option.
LEMMA DoEffect ==
    ASSUME NEW s \in Clients, NEW o \in Options
    PROVE  LET m == Answered(s.wwr[o], s.will[o])
               w == s.wantwill[o]
               b == Beside(s, o)
           IN /\ ~(m = 0 /\ ~w) => dooption(s, o) = Changed(b, "will", o, TRUE, w, m, b.out, s.flushout)
              /\ m = 0 /\ ~w /\ o # "TM" /\ o \in AcceptDo \cup {"LINEMODE"} =>
                   dooption(s, o) = Changed(b, "will", o, TRUE, TRUE, m, Append(b.out, <<"WILL", o>>), s.flushout)
              /\ m = 0 /\ ~w /\ o # "TM" /\ o \notin AcceptDo \cup {"LINEMODE"} =>
                   dooption(s, o) = Changed(b, "will", o, TRUE, w, m + 1, Append(b.out, <<"WONT", o>>), s.flushout)
              /\ m = 0 /\ ~w /\ o = "TM" =>
                   dooption(s, o) = Changed(s, "will", o, FALSE, FALSE, m, Append(s.out, <<"WILL", o>>), s.flushout)
<1> DEFINE m == Answered(s.wwr[o], s.will[o])
           w == s.wantwill[o]
           t == [s EXCEPT !.wwr[o] = m]
           b == Beside(s, o)
<1>1. t = [s EXCEPT !.wwr[o] = Answered(@, s.will[o])]
  BY DEF Clients
<1>2. m \in Nat /\ w \in BOOLEAN
  BY AnsweredFacts DEF Clients
<1>3. /\ t.wwr = [s.wwr EXCEPT ![o] = m] /\ t.wwr[o] = m /\ t.wantwill = s.wantwill /\ t.will = s.will /\ t.out = s.out
  BY DEF Clients
<1>a. "SGA" \in Options
  BY OptionsAssumption
<1>b. send_do(t, "SGA", TRUE) = [send_do(s, "SGA", TRUE) EXCEPT !.wwr[o] = m]
  <2> DEFINE k == (s.ddr["SGA"] = 0 /\ s.do["SGA"]) \/ s.wantdo["SGA"]
  <2>1. t.ddr = s.ddr /\ t.do = s.do /\ t.wantdo = s.wantdo
    BY DEF Clients
  <2>2. CASE k
    BY <2>1, <2>2 DEF send_do
  <2>3. CASE ~k
    BY <2>1, <2>3 DEF send_do, Emit, Clients
  <2> QED BY <2>2, <2>3
<1> HIDE DEF m, b
<1>4. CASE o # "LINEMODE" /\ ~(m = 0 /\ ~w)
  <2>1. dooption(s, o) = [t EXCEPT !.will[o] = TRUE] /\ b = s
    BY <1>1, <1>3, <1>4 DEF dooption, Beside, m, b
  <2>2. dooption(s, o) = Changed(s, "will", o, TRUE, w, m, s.out, s.flushout)
    BY <2>1 DEF Changed, Clients
  <2> QED BY <1>4, <2>1, <2>2 DEF m, b
<1>5. CASE o # "LINEMODE" /\ m = 0 /\ ~w /\ o # "TM" /\ o \in AcceptDo
  <2>1. dooption(s, o) = [send_will([t EXCEPT !.wantwill[o] = TRUE], o, FALSE) EXCEPT !.will[o] = TRUE] /\ b = s
    BY <1>1, <1>3, <1>5 DEF dooption, Beside, m, b
  <2>2. dooption(s, o) = Changed(s, "will", o, TRUE, TRUE, m, Append(s.out, <<"WILL", o>>), s.flushout)
    BY <2>1 DEF Changed, Clients, send_will, Emit
  <2> QED BY <1>5, <2>1, <2>2 DEF m, b
<1>6. CASE m = 0 /\ ~w /\ o # "TM" /\ o \notin AcceptDo \cup {"LINEMODE"}
  <2>1. dooption(s, o) = [send_wont([t EXCEPT !.wwr[o] = @ + 1], o, FALSE) EXCEPT !.will[o] = TRUE] /\ b = s
    BY <1>1, <1>3, <1>6 DEF dooption, Beside, m, b
  <2>2. [t EXCEPT !.wwr[o] = @ + 1] = [s EXCEPT !.wwr[o] = m + 1]
    BY DEF Clients
  <2>3. dooption(s, o) = [send_wont([s EXCEPT !.wwr[o] = m + 1], o, FALSE) EXCEPT !.will[o] = TRUE]
    BY <2>1, <2>2
  <2>4. dooption(s, o) = Changed(s, "will", o, TRUE, w, m + 1, Append(s.out, <<"WONT", o>>), s.flushout)
    BY <2>3 DEF Changed, Clients, send_wont, Emit
  <2> QED BY <1>6, <2>1, <2>4 DEF m, b
<1>7. CASE m = 0 /\ ~w /\ o = "TM"
  <2>1. dooption(s, o) = [send_will(t, o, FALSE) EXCEPT !.wantwill[o] = FALSE, !.will[o] = FALSE]
    BY <1>1, <1>3, <1>7 DEF dooption
  <2> QED BY ZenonT(60), <1>7, <2>1 DEF Changed, m, Clients, send_will, Emit
<1>8. CASE o = "LINEMODE"
  <2> DEFINE sga == send_do(s, "SGA", TRUE)
  <2>1. sga \in Clients /\ sga.flushout = s.flushout /\ sga.will = s.will
        /\ sga.wantwill = s.wantwill /\ sga.wwr = s.wwr
    <3>1. \/ sga = s
          \/ sga = Changed(s, "do", "SGA", s.do["SGA"], TRUE, s.ddr["SGA"] + 1, Append(s.out, <<"DO", "SGA">>), s.flushout)
      BY <1>a, DoAsk
    <3>2. sga \in Clients
      BY <1>a, DoAskTypes
    <3> HIDE DEF sga
    <3> QED BY <3>1, <3>2 DEF Changed
  <2>2. [t EXCEPT !.wwr[o] = m] = t
    BY DEF Clients
  <2> HIDE DEF sga
  <2>3. CASE m # 0
    <3>1. dooption(s, o) = [t EXCEPT !.will[o] = TRUE] /\ b = s
      BY <1>1, <1>3, <1>8, <2>3 DEF dooption, Beside, m, b
    <3>2. dooption(s, o) = Changed(s, "will", o, TRUE, w, m, s.out, s.flushout)
      BY <3>1 DEF Changed, Clients
    <3> QED BY <2>3, <3>1, <3>2 DEF m, b
  <2>4. CASE m = 0 /\ ~w
    <3>1. dooption(s, o) = [send_will([[sga EXCEPT !.wwr[o] = m] EXCEPT !.wantwill[o] = TRUE], o, FALSE)
                             EXCEPT !.will[o] = TRUE] /\ b = sga
      BY <1>1, <1>3, <1>8, <1>b, <2>4 DEF dooption, Beside, m, b, sga
    <3>2. dooption(s, o) = Changed(sga, "will", o, TRUE, TRUE, m, Append(sga.out, <<"WILL", o>>), s.flushout)
      BY <2>1, <3>1 DEF Changed, Clients, send_will, Emit
    <3> QED BY <1>8, <2>4, <3>1, <3>2 DEF m, b
  <2>5. CASE m = 0 /\ w
    <3>1. dooption(s, o) = [send_do([sga EXCEPT !.wwr[o] = m], "SGA", FALSE) EXCEPT !.will[o] = TRUE]
          /\ b = Emit(sga, "DO", "SGA")
      BY <1>1, <1>3, <1>8, <1>b, <2>5 DEF dooption, Beside, m, b, sga
    <3> DEFINE e == Emit(sga, "DO", "SGA")
    <3>2. /\ e = [sga EXCEPT !.out = Append(sga.out, <<"DO", "SGA">>)]
          /\ send_do([sga EXCEPT !.wwr[o] = m], "SGA", FALSE)
               = [[sga EXCEPT !.wwr[o] = m] EXCEPT !.out = Append(sga.out, <<"DO", "SGA">>)]
      BY <2>1 DEF send_do, Emit, Clients
    <3> HIDE DEF e
    <3>3. dooption(s, o) = [[[sga EXCEPT !.wwr[o] = m] EXCEPT !.out = Append(sga.out, <<"DO", "SGA">>)]
                             EXCEPT !.will[o] = TRUE]
      BY <3>1, <3>2
    <3>4. Changed(e, "will", o, TRUE, w, m, e.out, s.flushout)
            = [will |-> [sga.will EXCEPT ![o] = TRUE], wantwill |-> [sga.wantwill EXCEPT ![o] = w],
               wwr |-> [sga.wwr EXCEPT ![o] = m], do |-> sga.do, wantdo |-> sga.wantdo,
               ddr |-> sga.ddr, flushout |-> s.flushout, out |-> Append(sga.out, <<"DO", "SGA">>)]
      BY <2>1, <3>2 DEF Changed, Clients
    <3>5. [sga.wantwill EXCEPT ![o] = w] = sga.wantwill
      BY <2>1 DEF Clients
    <3>6. dooption(s, o) = Changed(e, "will", o, TRUE, w, m, e.out, s.flushout)
      BY <2>1, <3>3, <3>4, <3>5 DEF Clients
    <3> QED BY <1>8, <2>5, <3>1, <3>6 DEF m, b, e
  <2> QED BY <1>8, <2>3, <2>4, <2>5, <1>2 DEF m, b
<1> QED BY <1>2, <1>4, <1>5, <1>6, <1>7, <1>8 DEF m, b

\* What ChangedFacts says, by name.
ChangedTo(s, r, dir, o, d, w, n, q) ==
    r \in Clients /\ Turned(s, r, dir, o, d, w, n) /\ r.out = q

\* ChangedFacts, of r.
LEMMA ChangedIs ==
    ASSUME NEW s \in Clients, NEW dir \in Directions, NEW o \in Options, NEW f \in BOOLEAN,
           NEW d \in BOOLEAN, NEW w \in BOOLEAN, NEW n \in Nat, NEW q \in Seq(Messages), NEW r,
           r = Changed(s, dir, o, d, w, n, q, f)
    PROVE  ChangedTo(s, r, dir, o, d, w, n, q)
BY ChangedFacts DEF ChangedTo

\* What the client has sent stays a queue of messages.
LEMMA Sent ==
    ASSUME NEW s \in Clients, NEW o \in Options, NEW v \in Verbs
    PROVE  s.out \in Seq(Messages) /\ Append(s.out, <<v, o>>) \in Seq(Messages)
<1>1. s.out \in Seq(Messages) /\ <<v, o>> \in Messages
  BY DEF Clients, Messages
<1> QED BY <1>1, AppendFacts

\* How words are spelt.
LEMMA Words ==
    ASSUME NEW o
    PROVE  /\ Word("do", o, 1) = <<"DO", o>> /\ Word("do", o, 0) = <<"DONT", o>>
           /\ Word("will", o, 1) = <<"WILL", o>> /\ Word("will", o, 0) = <<"WONT", o>>
BY DEF Word

\* willoption() turns the option as ReadTurned says, and settles TM by itself.
LEMMA WillRead ==
    ASSUME NEW s \in Clients, NEW o \in Options, NEW v \in BOOLEAN, v = TRUE
    PROVE  /\ willoption(s, o) \in Clients
           /\ o # "TM" => ReadTurned(s, willoption(s, o), "do", o, v,
                                     Answered(Count(s, "do")[o], Have(s, "do")[o] = v))
           /\ o = "TM" => Aside(s, willoption(s, o), "do", o) /\ willoption(s, o).out = s.out
<1> DEFINE r == willoption(s, o)
           d == s.do[o]
           w == s.wantdo[o]
           m == Answered(s.ddr[o], s.do[o])
           no == FALSE
<1>1. /\ d \in BOOLEAN /\ w \in BOOLEAN /\ m \in Nat /\ m + 1 \in Nat /\ s.flushout \in BOOLEAN
      /\ "do" \in Directions /\ no \in BOOLEAN
  <2>1. /\ d \in BOOLEAN /\ w \in BOOLEAN /\ s.flushout \in BOOLEAN /\ Count(s, "do")[o] \in Nat
        /\ "do" \in Directions
    BY DEF Clients, Directions, Count
  <2>2. m \in Nat
    BY <2>1, AnsweredFacts DEF Count
  <2> HIDE DEF m, d, w
  <2> QED BY <2>1, <2>2 DEF no
<1>2. /\ s.out \in Seq(Messages) /\ Append(s.out, <<"DO", o>>) \in Seq(Messages)
      /\ Append(s.out, <<"DONT", o>>) \in Seq(Messages)
  BY Sent DEF Verbs
<1>3. /\ ~(m = 0 /\ ~w) => r = Changed(s, "do", o, v, w, m, s.out, s.flushout)
      /\ m = 0 /\ ~w /\ o # "TM" /\ o \in AcceptWill =>
           r = Changed(s, "do", o, v, v, m, Append(s.out, <<"DO", o>>), s.flushout)
      /\ m = 0 /\ ~w /\ o # "TM" /\ o \notin AcceptWill =>
           r = Changed(s, "do", o, v, w, m + 1, Append(s.out, <<"DONT", o>>), s.flushout)
      /\ m = 0 /\ ~w /\ o = "TM" => r = Changed(s, "do", o, no, no, m, s.out, no)
  BY WillEffect
<1>4. Answered(Count(s, "do")[o], Have(s, "do")[o] = v) = m
  BY DEF Count, Have, Answered
<1>5. Have(s, "do")[o] = d /\ Want(s, "do")[o] = w /\ (Accepts("do", o) <=> o \in AcceptWill)
  BY DEF Have, Want, Accepts
<1> HIDE DEF r, m, d, w, no
<1>6. /\ ~(m = 0 /\ ~w) => ChangedTo(s, r, "do", o, v, w, m, s.out)
      /\ m = 0 /\ ~w /\ o # "TM" /\ o \in AcceptWill =>
           ChangedTo(s, r, "do", o, v, v, m, Append(s.out, <<"DO", o>>))
      /\ m = 0 /\ ~w /\ o # "TM" /\ o \notin AcceptWill =>
           ChangedTo(s, r, "do", o, v, w, m + 1, Append(s.out, <<"DONT", o>>))
      /\ m = 0 /\ ~w /\ o = "TM" => ChangedTo(s, r, "do", o, no, no, m, s.out)
  BY ZenonT(60), <1>1, <1>2, <1>3, ChangedIs
<1>7. r \in Clients
  BY <1>6 DEF ChangedTo
<1>8. ASSUME o # "TM" PROVE ReadTurned(s, r, "do", o, v, m)
  BY <1>1, <1>5, <1>6, <1>8, Words DEF ReadTurned, ChangedTo
<1>9. ASSUME o = "TM" PROVE Aside(s, r, "do", o) /\ r.out = s.out
  BY <1>1, <1>6, <1>9 DEF ChangedTo, Turned
<1> QED BY <1>4, <1>7, <1>8, <1>9 DEF r

\* wontoption() turns the option as ReadTurned says, and settles TM by itself.
LEMMA WontRead ==
    ASSUME NEW s \in Clients, NEW o \in Options, NEW v \in BOOLEAN, v = FALSE
    PROVE  /\ wontoption(s, o) \in Clients
           /\ o # "TM" => ReadTurned(s, wontoption(s, o), "do", o, v,
                                     Answered(Count(s, "do")[o], Have(s, "do")[o] = v))
           /\ o = "TM" => Aside(s, wontoption(s, o), "do", o) /\ wontoption(s, o).out = s.out
<1> DEFINE r == wontoption(s, o)
           d == s.do[o]
           w == s.wantdo[o]
           m == Answered(s.ddr[o], ~s.do[o])
<1>1. /\ d \in BOOLEAN /\ w \in BOOLEAN /\ m \in Nat /\ m + 1 \in Nat /\ s.flushout \in BOOLEAN
      /\ "do" \in Directions
  <2>1. /\ d \in BOOLEAN /\ w \in BOOLEAN /\ s.flushout \in BOOLEAN /\ Count(s, "do")[o] \in Nat
        /\ "do" \in Directions
    BY DEF Clients, Directions, Count
  <2>2. m \in Nat
    BY <2>1, AnsweredFacts DEF Count
  <2> HIDE DEF m, d, w
  <2> QED BY <2>1, <2>2
<1>2. /\ s.out \in Seq(Messages) /\ Append(s.out, <<"DONT", o>>) \in Seq(Messages)
  BY Sent DEF Verbs
<1>3. /\ o # "TM" /\ ~(m = 0 /\ w) => r = Changed(s, "do", o, v, w, m, s.out, s.flushout)
      /\ m = 0 /\ w /\ o # "TM" /\ d =>
           r = Changed(s, "do", o, v, v, m, Append(s.out, <<"DONT", o>>), s.flushout)
      /\ m = 0 /\ w /\ o # "TM" /\ ~d => r = Changed(s, "do", o, v, v, m, s.out, s.flushout)
      /\ o = "TM" => r = Changed(s, "do", o, v, v, m, s.out, v)
  BY WontEffect
<1>4. Answered(Count(s, "do")[o], Have(s, "do")[o] = v) = m
  BY <1>1 DEF Count, Have, Answered
<1>5. Have(s, "do")[o] = d /\ Want(s, "do")[o] = w
  BY DEF Have, Want
<1> HIDE DEF r, m, d, w
<1>6. /\ o # "TM" /\ ~(m = 0 /\ w) => ChangedTo(s, r, "do", o, v, w, m, s.out)
      /\ m = 0 /\ w /\ o # "TM" /\ d =>
           ChangedTo(s, r, "do", o, v, v, m, Append(s.out, <<"DONT", o>>))
      /\ m = 0 /\ w /\ o # "TM" /\ ~d => ChangedTo(s, r, "do", o, v, v, m, s.out)
      /\ o = "TM" => ChangedTo(s, r, "do", o, v, v, m, s.out)
  BY <1>1, <1>2, <1>3, ChangedIs
<1>7. r \in Clients
  BY <1>6 DEF ChangedTo
<1>8. ASSUME o # "TM" PROVE ReadTurned(s, r, "do", o, v, m)
  BY <1>1, <1>5, <1>6, <1>8, Words DEF ReadTurned, ChangedTo
<1>9. ASSUME o = "TM" PROVE Aside(s, r, "do", o) /\ r.out = s.out
  BY <1>1, <1>6, <1>9 DEF ChangedTo, Turned
<1> QED BY <1>4, <1>7, <1>8, <1>9 DEF r

\* dontoption() turns the option as ReadTurned says.
LEMMA DontRead ==
    ASSUME NEW s \in Clients, NEW o \in Options, NEW v \in BOOLEAN, v = FALSE
    PROVE  /\ dontoption(s, o) \in Clients
           /\ ReadTurned(s, dontoption(s, o), "will", o, v,
                         Answered(Count(s, "will")[o], Have(s, "will")[o] = v))
<1> DEFINE r == dontoption(s, o)
           d == s.will[o]
           w == s.wantwill[o]
           m == Answered(s.wwr[o], ~s.will[o])
<1>1. /\ d \in BOOLEAN /\ w \in BOOLEAN /\ m \in Nat /\ m + 1 \in Nat /\ s.flushout \in BOOLEAN
      /\ "will" \in Directions
  <2>1. /\ d \in BOOLEAN /\ w \in BOOLEAN /\ s.flushout \in BOOLEAN /\ Count(s, "will")[o] \in Nat
        /\ "will" \in Directions
    BY DEF Clients, Directions, Count
  <2>2. m \in Nat
    BY <2>1, AnsweredFacts DEF Count
  <2> HIDE DEF m, d, w
  <2> QED BY <2>1, <2>2
<1>2. /\ s.out \in Seq(Messages) /\ Append(s.out, <<"WONT", o>>) \in Seq(Messages)
  BY Sent DEF Verbs
<1>3. /\ ~(m = 0 /\ w) => r = Changed(s, "will", o, v, w, m, s.out, s.flushout)
      /\ m = 0 /\ w /\ d => r = Changed(s, "will", o, v, v, m, Append(s.out, <<"WONT", o>>), s.flushout)
      /\ m = 0 /\ w /\ ~d => r = Changed(s, "will", o, v, v, m, s.out, s.flushout)
  BY DontEffect
<1>4. Answered(Count(s, "will")[o], Have(s, "will")[o] = v) = m
  BY <1>1 DEF Count, Have, Answered
<1>5. Have(s, "will")[o] = d /\ Want(s, "will")[o] = w
  BY DEF Have, Want
<1> HIDE DEF r, m, d, w
<1>6. /\ ~(m = 0 /\ w) => ChangedTo(s, r, "will", o, v, w, m, s.out)
      /\ m = 0 /\ w /\ d => ChangedTo(s, r, "will", o, v, v, m, Append(s.out, <<"WONT", o>>))
      /\ m = 0 /\ w /\ ~d => ChangedTo(s, r, "will", o, v, v, m, s.out)
  BY <1>1, <1>2, <1>3, ChangedIs
<1>7. r \in Clients
  BY <1>6 DEF ChangedTo
<1>8. ReadTurned(s, r, "will", o, v, m)
  BY <1>1, <1>5, <1>6, Words DEF ReadTurned, ChangedTo
<1> QED BY <1>4, <1>7, <1>8 DEF r

\* What is asked for besides leaves the client's own options alone.
LEMMA BesideFacts ==
    ASSUME NEW s \in Clients, NEW o \in Options
    PROVE  LET b == Beside(s, o)
           IN /\ b \in Clients /\ b.will = s.will /\ b.wantwill = s.wantwill /\ b.wwr = s.wwr
              /\ o # "LINEMODE" => b = s
<1> DEFINE sga == send_do(s, "SGA", TRUE)
           b == Beside(s, o)
<1>1. "SGA" \in Options
  BY OptionsAssumption
<1>2. \/ sga = s
      \/ sga = Changed(s, "do", "SGA", s.do["SGA"], TRUE, s.ddr["SGA"] + 1, Append(s.out, <<"DO", "SGA">>), s.flushout)
  BY <1>1, DoAsk
<1>3. sga \in Clients
  BY <1>1, DoAskTypes
<1>4. /\ b = s \/ b = sga \/ b = [sga EXCEPT !.out = Append(sga.out, <<"DO", "SGA">>)]
      /\ o # "LINEMODE" => b = s
  BY <1>3 DEF Beside, Emit, Clients
<1> HIDE DEF sga, b
<1>5. sga.will = s.will /\ sga.wantwill = s.wantwill /\ sga.wwr = s.wwr
  BY <1>2 DEF Changed
<1>6. sga.out \in Seq(Messages) /\ Append(sga.out, <<"DO", "SGA">>) \in Seq(Messages)
  BY <1>1, <1>3, Sent DEF Verbs
<1>7. CASE b = [sga EXCEPT !.out = Append(sga.out, <<"DO", "SGA">>)]
  <2> DEFINE q == Append(sga.out, <<"DO", "SGA">>)
  <2>1. q \in Seq(Messages) /\ b = [sga EXCEPT !.out = q]
    BY <1>6, <1>7
  <2> HIDE DEF q
  <2>2. b = [will |-> sga.will, wantwill |-> sga.wantwill, wwr |-> sga.wwr,
             do |-> sga.do, wantdo |-> sga.wantdo, ddr |-> sga.ddr, flushout |-> sga.flushout, out |-> q]
    BY <1>3, <2>1 DEF Clients
  <2>3. b \in Clients
    BY <1>3, <2>1, <2>2 DEF Clients
  <2> QED BY <1>4, <1>5, <2>2, <2>3 DEF b
<1> QED BY <1>3, <1>4, <1>5, <1>7 DEF b

\* dooption() turns the option as ReadTurned says, after what it asks for
\* besides, and settles TM by itself.
LEMMA DoRead ==
    ASSUME NEW s \in Clients, NEW o \in Options, NEW v \in BOOLEAN, v = TRUE
    PROVE  /\ dooption(s, o) \in Clients
           /\ o # "TM" => LET b == Beside(s, o)
                          IN ReadTurned(b, dooption(s, o), "will", o, v,
                                        Answered(Count(b, "will")[o], Have(b, "will")[o] = v))
           /\ o = "TM" => /\ Aside(s, dooption(s, o), "will", o)
                          /\ \/ dooption(s, o).out = s.out
                             \/ dooption(s, o).out = Append(s.out, Word("will", o, 1))
<1> DEFINE r == dooption(s, o)
           b == Beside(s, o)
           d == s.will[o]
           w == s.wantwill[o]
           m == Answered(s.wwr[o], s.will[o])
           no == FALSE
<1>1. /\ d \in BOOLEAN /\ w \in BOOLEAN /\ m \in Nat /\ m + 1 \in Nat /\ s.flushout \in BOOLEAN
      /\ "will" \in Directions /\ no \in BOOLEAN
  <2>1. /\ d \in BOOLEAN /\ w \in BOOLEAN /\ s.flushout \in BOOLEAN /\ Count(s, "will")[o] \in Nat
        /\ "will" \in Directions
    BY DEF Clients, Directions, Count
  <2>2. m \in Nat
    BY <2>1, AnsweredFacts DEF Count
  <2> HIDE DEF m, d, w
  <2> QED BY <2>1, <2>2 DEF no
<1>2. b \in Clients /\ b.will = s.will /\ b.wantwill = s.wantwill /\ b.wwr = s.wwr /\ (o = "TM" => b = s)
  BY BesideFacts
<1>3. /\ ~(m = 0 /\ ~w) => r = Changed(b, "will", o, v, w, m, b.out, s.flushout)
      /\ m = 0 /\ ~w /\ o # "TM" /\ o \in AcceptDo \cup {"LINEMODE"} =>
           r = Changed(b, "will", o, v, v, m, Append(b.out, <<"WILL", o>>), s.flushout)
      /\ m = 0 /\ ~w /\ o # "TM" /\ o \notin AcceptDo \cup {"LINEMODE"} =>
           r = Changed(b, "will", o, v, w, m + 1, Append(b.out, <<"WONT", o>>), s.flushout)
      /\ m = 0 /\ ~w /\ o = "TM" => r = Changed(s, "will", o, no, no, m, Append(s.out, <<"WILL", o>>), s.flushout)
  BY DoEffect
<1> HIDE DEF b
<1>4. Answered(Count(b, "will")[o], Have(b, "will")[o] = v) = m
  BY <1>2 DEF Count, Have, Answered
<1>5. Have(b, "will")[o] = d /\ Want(b, "will")[o] = w
      /\ (Accepts("will", o) <=> o \in AcceptDo \cup {"LINEMODE"})
  BY <1>2 DEF Have, Want, Accepts
<1> HIDE DEF r, m, d, w, no
<1>x. /\ b.out \in Seq(Messages) /\ Append(b.out, <<"WILL", o>>) \in Seq(Messages)
      /\ Append(b.out, <<"WONT", o>>) \in Seq(Messages)
      /\ s.out \in Seq(Messages) /\ Append(s.out, <<"WILL", o>>) \in Seq(Messages)
  BY <1>2, Sent DEF Verbs
<1>6. /\ ~(m = 0 /\ ~w) => ChangedTo(b, r, "will", o, v, w, m, b.out)
      /\ m = 0 /\ ~w /\ o # "TM" /\ o \in AcceptDo \cup {"LINEMODE"} =>
           ChangedTo(b, r, "will", o, v, v, m, Append(b.out, <<"WILL", o>>))
      /\ m = 0 /\ ~w /\ o # "TM" /\ o \notin AcceptDo \cup {"LINEMODE"} =>
           ChangedTo(b, r, "will", o, v, w, m + 1, Append(b.out, <<"WONT", o>>))
      /\ m = 0 /\ ~w /\ o = "TM" => ChangedTo(s, r, "will", o, no, no, m, Append(s.out, <<"WILL", o>>))
  <2>1. ASSUME ~(m = 0 /\ ~w) PROVE ChangedTo(b, r, "will", o, v, w, m, b.out)
    BY ZenonT(60), <1>1, <1>2, <1>3, <1>x, <2>1, ChangedIs
  <2>2. ASSUME m = 0 /\ ~w /\ o # "TM" /\ o \in AcceptDo \cup {"LINEMODE"}
        PROVE  ChangedTo(b, r, "will", o, v, v, m, Append(b.out, <<"WILL", o>>))
    <3>1. r = Changed(b, "will", o, v, v, m, Append(b.out, <<"WILL", o>>), s.flushout)
      BY <1>3, <2>2
    <3> QED BY <1>1, <1>2, <1>x, <3>1, ChangedIs
  <2>3. ASSUME m = 0 /\ ~w /\ o # "TM" /\ o \notin AcceptDo \cup {"LINEMODE"}
        PROVE  ChangedTo(b, r, "will", o, v, w, m + 1, Append(b.out, <<"WONT", o>>))
    <3>1. r = Changed(b, "will", o, v, w, m + 1, Append(b.out, <<"WONT", o>>), s.flushout)
      BY <1>3, <2>3
    <3> QED BY ZenonT(60), <1>1, <1>2, <1>x, <3>1, ChangedIs
  <2>4. ASSUME m = 0 /\ ~w /\ o = "TM"
        PROVE  ChangedTo(s, r, "will", o, no, no, m, Append(s.out, <<"WILL", o>>))
    <3>1. r = Changed(s, "will", o, no, no, m, Append(s.out, <<"WILL", o>>), s.flushout)
      BY <1>3, <2>4
    <3> QED BY ZenonT(60), <1>1, <1>x, <3>1, ChangedIs
  <2> QED BY <2>1, <2>2, <2>3, <2>4
<1>7. r \in Clients
  BY <1>6 DEF ChangedTo
<1>8. ASSUME o # "TM" PROVE ReadTurned(b, r, "will", o, v, m)
  BY <1>1, <1>5, <1>6, <1>8, Words DEF ReadTurned, ChangedTo
<1>9. ASSUME o = "TM"
      PROVE  Aside(s, r, "will", o) /\ (r.out = s.out \/ r.out = Append(s.out, Word("will", o, 1)))
  BY <1>1, <1>2, <1>6, <1>9, Words DEF ChangedTo, Turned
<1> QED BY <1>4, <1>7, <1>8, <1>9 DEF r, b

\* A request of the client's own: it asks, or has asked already.
LEMMA RequestSides ==
    ASSUME NEW s \in Clients, NEW r, NEW p, NEW h \in BOOLEAN, NEW h1 \in BOOLEAN, Sides(s, p, h), h => h1,
           NEW dir \in Directions, NEW o \in Options, NEW v \in BOOLEAN,
           Accepts(dir, o) \/ h1 \/ Count(s, dir)[o] = 0,
           \/ r = s
           \/ /\ v # Want(s, dir)[o]
              /\ ChangedTo(s, r, dir, o, Have(s, dir)[o], v, Count(s, dir)[o] + 1,
                           Append(s.out, Word(dir, o, Num(v))))
    PROVE  Sides(r, p, h1)
<1>1. CASE r = s
  BY <1>1 DEF Sides
<1>2. CASE r # s /\ o # "TM"
  <2>1. /\ v # Want(s, dir)[o] /\ r.out = Append(s.out, Word(dir, o, Num(v)))
        /\ Turned(s, r, dir, o, Have(s, dir)[o], v, Count(s, dir)[o] + 1)
    BY <1>2 DEF ChangedTo
  <2>2. o \in Options \ {"TM"}
    BY <1>2
  <2>3. Asked(s, r, dir, o, v, h, h1)
    BY <2>1 DEF Asked
  <2> QED BY <2>2, <2>3, AskSides
<1>3. CASE r # s /\ o = "TM"
  <2>1. Aside(s, r, dir, "TM") /\ r.out = Append(s.out, Word(dir, "TM", Num(v)))
    BY <1>3 DEF ChangedTo, Turned
  <2>2. "TM" \in Options
    BY <1>3
  <2> QED BY <2>1, <2>2, MarkSides
<1> QED BY <1>1, <1>2, <1>3

\* The four requests, as RequestSides reads them.
LEMMA Asks ==
    ASSUME NEW s \in Clients, NEW o \in Options, NEW v \in BOOLEAN
    PROVE  LET Ask(r, dir) ==
                 \/ r = s
                 \/ /\ v # Want(s, dir)[o]
                    /\ ChangedTo(s, r, dir, o, Have(s, dir)[o], v, Count(s, dir)[o] + 1,
                                 Append(s.out, Word(dir, o, Num(v))))
           IN /\ v => Ask(send_do(s, o, TRUE), "do") /\ Ask(send_will(s, o, TRUE), "will")
              /\ ~v => Ask(send_dont(s, o, TRUE), "do") /\ Ask(send_wont(s, o, TRUE), "will")
<1>1. /\ s.do[o] \in BOOLEAN /\ s.will[o] \in BOOLEAN /\ s.wantdo[o] \in BOOLEAN /\ s.wantwill[o] \in BOOLEAN
      /\ s.ddr[o] + 1 \in Nat /\ s.wwr[o] + 1 \in Nat /\ s.flushout \in BOOLEAN
      /\ "do" \in Directions /\ "will" \in Directions
  BY DEF Clients, Directions
<1>2. /\ Append(s.out, <<"DO", o>>) \in Seq(Messages) /\ Append(s.out, <<"DONT", o>>) \in Seq(Messages)
      /\ Append(s.out, <<"WILL", o>>) \in Seq(Messages) /\ Append(s.out, <<"WONT", o>>) \in Seq(Messages)
  BY Sent DEF Verbs
<1>3. /\ Have(s, "do") = s.do /\ Want(s, "do") = s.wantdo /\ Count(s, "do") = s.ddr
      /\ Have(s, "will") = s.will /\ Want(s, "will") = s.wantwill /\ Count(s, "will") = s.wwr
  BY DEF Have, Want, Count
<1>4. CASE v = TRUE
  <2> DEFINE a == send_do(s, o, TRUE)
             b == send_will(s, o, TRUE)
  <2>1. /\ Word("do", o, Num(v)) = <<"DO", o>> /\ Word("will", o, Num(v)) = <<"WILL", o>>
    BY <1>4, Words DEF Num
  <2>2. a = s \/
        /\ ~s.wantdo[o]
        /\ a = Changed(s, "do", o, s.do[o], v, s.ddr[o] + 1, Append(s.out, <<"DO", o>>), s.flushout)
    BY <1>4, DoAsk
  <2>3. b = s \/
        /\ ~s.wantwill[o]
        /\ b = Changed(s, "will", o, s.will[o], v, s.wwr[o] + 1, Append(s.out, <<"WILL", o>>), s.flushout)
    BY <1>4, WillAsk
  <2> HIDE DEF a, b
  <2>4. a = s \/
        /\ ~s.wantdo[o]
        /\ ChangedTo(s, a, "do", o, s.do[o], v, s.ddr[o] + 1, Append(s.out, <<"DO", o>>))
    <3> DEFINE d == s.do[o]
               n == s.ddr[o] + 1
               q == Append(s.out, <<"DO", o>>)
               f == s.flushout
    <3>1. /\ d \in BOOLEAN /\ n \in Nat /\ q \in Seq(Messages) /\ f \in BOOLEAN /\ "do" \in Directions
          /\ a = s \/ (~s.wantdo[o] /\ a = Changed(s, "do", o, d, v, n, q, f))
      BY <1>1, <1>2, <2>2
    <3> HIDE DEF d, n, q, f
    <3>2. a = s \/ (~s.wantdo[o] /\ ChangedTo(s, a, "do", o, d, v, n, q))
      BY <3>1, ChangedIs
    <3> QED BY <3>2 DEF d, n, q
  <2>5. b = s \/
        /\ ~s.wantwill[o]
        /\ ChangedTo(s, b, "will", o, s.will[o], v, s.wwr[o] + 1, Append(s.out, <<"WILL", o>>))
    <3> DEFINE d == s.will[o]
               n == s.wwr[o] + 1
               q == Append(s.out, <<"WILL", o>>)
               f == s.flushout
    <3>1. /\ d \in BOOLEAN /\ n \in Nat /\ q \in Seq(Messages) /\ f \in BOOLEAN /\ "will" \in Directions
          /\ b = s \/ (~s.wantwill[o] /\ b = Changed(s, "will", o, d, v, n, q, f))
      BY <1>1, <1>2, <2>3
    <3> HIDE DEF d, n, q, f
    <3>2. b = s \/ (~s.wantwill[o] /\ ChangedTo(s, b, "will", o, d, v, n, q))
      BY <3>1, ChangedIs
    <3> QED BY <3>2 DEF d, n, q
  <2> QED BY <1>1, <1>3, <1>4, <2>1, <2>4, <2>5 DEF a, b
<1>5. CASE v = FALSE
  <2> DEFINE a == send_dont(s, o, TRUE)
             b == send_wont(s, o, TRUE)
  <2>1. /\ Word("do", o, Num(v)) = <<"DONT", o>> /\ Word("will", o, Num(v)) = <<"WONT", o>>
    BY <1>5, Words DEF Num
  <2>2. a = s \/
        /\ s.wantdo[o]
        /\ a = Changed(s, "do", o, s.do[o], v, s.ddr[o] + 1, Append(s.out, <<"DONT", o>>), s.flushout)
    BY <1>5, DontAsk
  <2>3. b = s \/
        /\ s.wantwill[o]
        /\ b = Changed(s, "will", o, s.will[o], v, s.wwr[o] + 1, Append(s.out, <<"WONT", o>>), s.flushout)
    BY <1>5, WontAsk
  <2> HIDE DEF a, b
  <2>4. a = s \/
        /\ s.wantdo[o]
        /\ ChangedTo(s, a, "do", o, s.do[o], v, s.ddr[o] + 1, Append(s.out, <<"DONT", o>>))
    <3> DEFINE d == s.do[o]
               n == s.ddr[o] + 1
               q == Append(s.out, <<"DONT", o>>)
               f == s.flushout
    <3>1. /\ d \in BOOLEAN /\ n \in Nat /\ q \in Seq(Messages) /\ f \in BOOLEAN /\ "do" \in Directions
          /\ a = s \/ (s.wantdo[o] /\ a = Changed(s, "do", o, d, v, n, q, f))
      BY <1>1, <1>2, <2>2
    <3> HIDE DEF d, n, q, f
    <3>2. a = s \/ (s.wantdo[o] /\ ChangedTo(s, a, "do", o, d, v, n, q))
      BY <3>1, ChangedIs
    <3> QED BY <3>2 DEF d, n, q
  <2>5. b = s \/
        /\ s.wantwill[o]
        /\ ChangedTo(s, b, "will", o, s.will[o], v, s.wwr[o] + 1, Append(s.out, <<"WONT", o>>))
    <3> DEFINE d == s.will[o]
               n == s.wwr[o] + 1
               q == Append(s.out, <<"WONT", o>>)
               f == s.flushout
    <3>1. /\ d \in BOOLEAN /\ n \in Nat /\ q \in Seq(Messages) /\ f \in BOOLEAN /\ "will" \in Directions
          /\ b = s \/ (s.wantwill[o] /\ b = Changed(s, "will", o, d, v, n, q, f))
      BY <1>1, <1>2, <2>3
    <3> HIDE DEF d, n, q, f
    <3>2. b = s \/ (s.wantwill[o] /\ ChangedTo(s, b, "will", o, d, v, n, q))
      BY <3>1, ChangedIs
    <3> QED BY <3>2 DEF d, n, q
  <2> QED BY <1>1, <1>3, <1>5, <2>1, <2>4, <2>5 DEF a, b
<1> QED BY <1>4, <1>5

\* SGA, asked for along with LINEMODE: the others stay sound.
LEMMA BesideSides ==
    ASSUME NEW s \in Clients, NEW p, NEW h \in BOOLEAN, Sides(s, p, h), NEW o \in Options
    PROVE  Sides(Beside(s, o), p, h)
<1> DEFINE sga == send_do(s, "SGA", TRUE)
           e == Emit(sga, "DO", "SGA")
           v == TRUE
<1>1. /\ "SGA" \in Options /\ "SGA" \in Options \ {"TM"} /\ Accepts("do", "SGA") /\ "do" \in Directions
      /\ v \in BOOLEAN
  BY OptionsAssumption DEF Accepts, AcceptWill, Directions
<1>2. Beside(s, o) = s \/ Beside(s, o) = sga \/ Beside(s, o) = e
  BY DEF Beside
<1>3. sga \in Clients
  BY <1>1, DoAskTypes
<1>4. \/ sga = s
      \/ /\ v # Want(s, "do")["SGA"]
         /\ ChangedTo(s, sga, "do", "SGA", Have(s, "do")["SGA"], v, Count(s, "do")["SGA"] + 1,
                      Append(s.out, Word("do", "SGA", Num(v))))
  BY <1>1, Asks
<1>5. sga = s => (s.ddr["SGA"] = 0 /\ s.do["SGA"]) \/ s.wantdo["SGA"]
  <2> SUFFICES ASSUME ~((s.ddr["SGA"] = 0 /\ s.do["SGA"]) \/ s.wantdo["SGA"])
               PROVE  sga # s
    OBVIOUS
  <2>1. sga = Changed(s, "do", "SGA", s.do["SGA"], TRUE, s.ddr["SGA"] + 1,
                      Append(s.out, <<"DO", "SGA">>), s.flushout)
    BY <1>1, DoAsk
  <2>2. sga.wantdo["SGA"]
    <3> HIDE DEF sga
    <3>1. sga.wantdo = [s.wantdo EXCEPT !["SGA"] = TRUE]
      BY <2>1 DEF Changed
    <3>2. s.wantdo \in [Options -> BOOLEAN]
      BY DEF Clients
    <3> QED BY <1>1, <3>1, <3>2
  <2> QED BY <2>2
<1> HIDE DEF sga
<1>6. e = [sga EXCEPT !.out = Append(sga.out, <<"DO", "SGA">>)]
  BY <1>3 DEF Emit, Clients
<1> HIDE DEF e, v
<1>7. Sides(sga, p, h)
  BY <1>1, <1>4, RequestSides
<1>8. Want(sga, "do")["SGA"]
  <2>1. CASE sga = s
    <3>1. SideOf(s, p, "do", "SGA")
      BY <1>1 DEF Sides
    <3>2. /\ Have(s, "do")["SGA"] \in BOOLEAN /\ Want(s, "do")["SGA"] \in BOOLEAN
          /\ Accepts("do", "SGA") \in BOOLEAN
      BY <1>1, Parts, AcceptsBoolean
    <3>3. Count(s, "do")["SGA"] = 0 => Have(s, "do")["SGA"] = Want(s, "do")["SGA"]
      BY <3>1, <3>2, SideFacts DEF SideOf
    <3> QED BY <1>5, <2>1, <3>2, <3>3 DEF Have, Want, Count
  <2>2. CASE sga # s
    <3>1. Want(sga, "do")["SGA"] = v
      BY <1>4, <2>2 DEF ChangedTo, Turned
    <3> QED BY <3>1 DEF v
  <2> QED BY <2>1, <2>2
<1>9. Sides(e, p, h)
  <2>1. /\ e.will = sga.will /\ e.wantwill = sga.wantwill /\ e.do = sga.do /\ e.wantdo = sga.wantdo
        /\ e.wwr = sga.wwr /\ e.ddr = sga.ddr /\ e.out = Append(sga.out, Word("do", "SGA", 1))
    BY <1>3, <1>6, Words DEF Clients
  <2>2. \A y \in Directions : Have(e, y) = Have(sga, y) /\ Want(e, y) = Want(sga, y) /\ Count(e, y) = Count(sga, y)
    BY <2>1 DEF Have, Want, Count
  <2>3. Turned(sga, e, "do", "SGA", Have(sga, "do")["SGA"], Want(sga, "do")["SGA"], Count(sga, "do")["SGA"])
    BY <1>1, <2>2 DEF Turned, Aside
  <2> QED BY <1>1, <1>3, <1>7, <1>8, <2>1, <2>3, RepeatSides
<1> QED BY <1>2, <1>7, <1>9

\* Reading a word, whichever it is: the handler of the code.
LEMMA HandlerTypes ==
    ASSUME NEW s \in Clients, NEW m \in Messages
    PROVE  Handler(s, m) \in Clients
<1> DEFINE yes == TRUE
           no == FALSE
           o == m[2]
<1>1. yes \in BOOLEAN /\ yes = TRUE /\ no \in BOOLEAN /\ no = FALSE
      /\ o \in Options /\ m[1] \in {"DO", "DONT", "WILL", "WONT"}
  BY DEF Messages, Verbs
<1>2. /\ willoption(s, o) \in Clients /\ wontoption(s, o) \in Clients
      /\ dooption(s, o) \in Clients /\ dontoption(s, o) \in Clients
  <2> HIDE DEF yes, no
  <2> QED BY <1>1, WillRead, WontRead, DoRead, DontRead
<1> QED BY <1>1, <1>2 DEF Handler

\* The client reads the peer's next word.
LEMMA HandlerSides ==
    ASSUME NEW s \in Clients, NEW p, NEW p1, NEW h \in BOOLEAN, Sides(s, p, h),
           p.out # <<>>, Head(p.out) \in Messages,
           p1.out = Tail(p.out), p1.will = p.will, p1.do = p.do
    PROVE  Sides(Handler(s, Head(p.out)), p1, h)
<1> DEFINE yes == TRUE
           no == FALSE
           m == Head(p.out)
           o == m[2]
           r == Handler(s, m)
<1>0. yes = TRUE /\ no = FALSE
  OBVIOUS
<1>1. /\ yes \in BOOLEAN /\ no \in BOOLEAN
      /\ o \in Options /\ m[1] \in {"DO", "DONT", "WILL", "WONT"} /\ m = <<m[1], o>>
      /\ Num(yes) = 1 /\ Num(no) = 0 /\ "do" \in Directions /\ "will" \in Directions
      /\ Other("do") = "will" /\ Other("will") = "do" /\ "TM" \in Options
  BY OptionsAssumption DEF Messages, Verbs, Num, Directions, Other
<1>2. /\ m[1] = "WILL" => r = willoption(s, o) /\ m = Word("will", o, 1)
      /\ m[1] = "WONT" => r = wontoption(s, o) /\ m = Word("will", o, 0)
      /\ m[1] = "DO" => r = dooption(s, o) /\ m = Word("do", o, 1)
      /\ m[1] = "DONT" => r = dontoption(s, o) /\ m = Word("do", o, 0)
  BY <1>1, Words DEF Handler
<1>3. m = Head(p.out)
  OBVIOUS
<1> HIDE DEF yes, no, m, o, r
<1>4. CASE o # "TM" /\ m[1] = "WILL"
  <2>1. ReadTurned(s, r, "do", o, yes, Answered(Count(s, "do")[o], Have(s, "do")[o] = yes))
    <3>1. o # "TM" => ReadTurned(s, willoption(s, o), "do", o, yes,
                                 Answered(Count(s, "do")[o], Have(s, "do")[o] = yes))
      BY <1>0, <1>1, WillRead
    <3> QED BY <1>2, <1>4, <3>1
  <2>2. Head(p.out) = Word(Other("do"), o, Num(yes)) /\ o \in Options \ {"TM"}
    BY <1>1, <1>2, <1>3, <1>4
  <2> QED BY <1>1, <2>1, <2>2, ReadSides DEF r, m
<1>5. CASE o # "TM" /\ m[1] = "WONT"
  <2>1. ReadTurned(s, r, "do", o, no, Answered(Count(s, "do")[o], Have(s, "do")[o] = no))
    BY <1>1, <1>2, <1>5, <1>0, WontRead
  <2>2. Head(p.out) = Word(Other("do"), o, Num(no)) /\ o \in Options \ {"TM"}
    BY <1>1, <1>2, <1>3, <1>5
  <2> QED BY <1>1, <2>1, <2>2, ReadSides DEF r, m
<1>6. CASE o # "TM" /\ m[1] = "DONT"
  <2>1. ReadTurned(s, r, "will", o, no, Answered(Count(s, "will")[o], Have(s, "will")[o] = no))
    BY <1>1, <1>2, <1>6, <1>0, DontRead
  <2>2. Head(p.out) = Word(Other("will"), o, Num(no)) /\ o \in Options \ {"TM"}
    BY <1>1, <1>2, <1>3, <1>6
  <2> QED BY <1>1, <2>1, <2>2, ReadSides DEF r, m
<1>7. CASE o # "TM" /\ m[1] = "DO"
  <2> DEFINE b == Beside(s, o)
  <2>1. ReadTurned(b, r, "will", o, yes, Answered(Count(b, "will")[o], Have(b, "will")[o] = yes))
    BY <1>1, <1>2, <1>7, <1>0, DoRead
  <2>2. Head(p.out) = Word(Other("will"), o, Num(yes)) /\ o \in Options \ {"TM"}
    BY <1>1, <1>2, <1>3, <1>7
  <2>3. b \in Clients
    BY <1>1, BesideFacts
  <2>4. Sides(b, p, h)
    BY <1>1, BesideSides
  <2> HIDE DEF b
  <2> QED BY <1>1, <2>1, <2>2, <2>3, <2>4, ReadSides DEF r, m
<1>8. CASE o = "TM" /\ m[1] \in {"WILL", "WONT"}
  <2>1. Aside(s, r, "do", "TM") /\ r.out = s.out
    <3>1. CASE m[1] = "WILL"
      <4>1. o = "TM" => Aside(s, willoption(s, o), "do", o) /\ willoption(s, o).out = s.out
        BY <1>0, <1>1, WillRead
      <4> QED BY <1>2, <1>8, <3>1, <4>1
    <3>2. CASE m[1] = "WONT"
      <4>1. o = "TM" => Aside(s, wontoption(s, o), "do", o) /\ wontoption(s, o).out = s.out
        BY <1>0, <1>1, WontRead
      <4> QED BY <1>2, <1>8, <3>2, <4>1
    <3> QED BY <1>8, <3>1, <3>2
  <2>2. Sides(r, p, h)
    BY <1>1, <2>1, MarkSides
  <2>3. Head(p.out) = Word("will", "TM", 0) \/ Head(p.out) = Word("will", "TM", 1)
    BY <1>2, <1>3, <1>8
  <2> QED BY <1>1, <2>2, <2>3, ReadMark DEF r, m
<1>9. CASE o = "TM" /\ m[1] = "DO"
  <2>1. Aside(s, r, "will", "TM") /\ (r.out = s.out \/ r.out = Append(s.out, Word("will", "TM", 1)))
    <3>1. o = "TM" => /\ Aside(s, dooption(s, o), "will", o)
                      /\ \/ dooption(s, o).out = s.out
                         \/ dooption(s, o).out = Append(s.out, Word("will", o, 1))
      BY <1>0, <1>1, DoRead
    <3> QED BY <1>2, <1>9, <3>1
  <2>2. Sides(r, p, h)
    BY <1>1, <2>1, MarkSides
  <2>3. Head(p.out) = Word("do", "TM", 1)
    BY <1>2, <1>3, <1>9
  <2> QED BY <1>1, <2>2, <2>3, ReadMark DEF r, m
<1>10. CASE o = "TM" /\ m[1] = "DONT"
  <2>1. /\ Aside(s, r, "will", "TM")
        /\ r.out = s.out \/ r.out = Append(s.out, Word("will", "TM", 0)) \/ r.out = Append(s.out, Word("will", "TM", 1))
    <3>1. ReadTurned(s, r, "will", o, no, Answered(Count(s, "will")[o], Have(s, "will")[o] = no))
      BY <1>1, <1>2, <1>10, <1>0, DontRead
    <3>2. Have(s, "will")[o] \in BOOLEAN /\ Want(s, "will")[o] \in BOOLEAN
      BY <1>1, Parts
    <3> QED BY <1>1, <1>10, <3>1, <3>2 DEF ReadTurned, Turned
  <2>2. Sides(r, p, h)
    BY <1>1, <2>1, MarkSides
  <2>3. Head(p.out) = Word("do", "TM", 0)
    BY <1>2, <1>3, <1>10
  <2> QED BY <1>1, <2>2, <2>3, ReadMark DEF r, m
<1> QED BY <1>1, <1>4, <1>5, <1>6, <1>7, <1>8, <1>9, <1>10

-----------------------------------------------------------------------------
(* The peer.                                                                *)

\* What PeerTurns allows is silence or a reply.
LEMMA Turns ==
    ASSUME NEW st \in PeerStates, NEW v \in {0, 1}, NEW t, t \in PeerTurns(st, v = 1)
    PROVE  /\ t[1] \in PeerStates
           /\ \/ t[2] = "silence" /\ Silent(st, v, t[1])
              \/ t[2] = "agree" /\ Replied(st, v, t[1], 1)
              \/ t[2] = "refuse" /\ Replied(st, v, t[1], 0)
<1>1. CASE v = 1
  BY <1>1 DEF PeerTurns, PeerStates, Silent, Replied
<1>2. CASE v = 0
  BY <1>2 DEF PeerTurns, PeerStates, Silent, Replied
<1> QED BY <1>1, <1>2

\* One message after a queue, and none.
LEMMA Concats ==
    ASSUME NEW q \in Seq(Messages), NEW m \in Messages
    PROVE  q \o <<m>> = Append(q, m) /\ q \o <<>> = q
BY AppendIsConcat, ConcatEmptySeq

\* The peer with one state and its words changed.
PeerChanged(p, dir, o, st, out) ==
    IF dir = "do" THEN [will |-> [p.will EXCEPT ![o] = st], do |-> p.do, out |-> out]
    ELSE [will |-> p.will, do |-> [p.do EXCEPT ![o] = st], out |-> out]
PeerChangedTo(p, q, dir, o, st, out) ==
    q \in Peers /\ PeerTurned(p, q, dir, o, st) /\ q.out = out

\* What PeerChanged does and leaves alone.
LEMMA PeerChangedIs ==
    ASSUME NEW p \in Peers, NEW dir \in Directions, NEW o \in Options, NEW st \in PeerStates,
           NEW out \in Seq(Messages), NEW q, q = PeerChanged(p, dir, o, st, out)
    PROVE  PeerChangedTo(p, q, dir, o, st, out)
<1>0. p.will \in [Options -> PeerStates] /\ p.do \in [Options -> PeerStates]
  BY DEF Peers
<1>1. CASE dir = "do"
  <2>1. q = [will |-> [p.will EXCEPT ![o] = st], do |-> p.do, out |-> out]
    BY <1>1 DEF PeerChanged
  <2>2. q \in Peers
    BY <1>0, <2>1 DEF Peers
  <2>4. q.will = [p.will EXCEPT ![o] = st] /\ q.do = p.do /\ q.out = out
    BY <2>1
  <2> QED BY <1>0, <1>1, <2>2, <2>4 DEF PeerChangedTo, PeerTurned, State, Directions
<1>2. CASE dir = "will"
  <2>1. q = [will |-> p.will, do |-> [p.do EXCEPT ![o] = st], out |-> out]
    BY <1>2 DEF PeerChanged
  <2>2. q \in Peers
    BY <1>0, <2>1 DEF Peers
  <2>4. q.do = [p.do EXCEPT ![o] = st] /\ q.will = p.will /\ q.out = out
    BY <2>1
  <2> QED BY <1>0, <1>2, <2>2, <2>4 DEF PeerChangedTo, PeerTurned, State, Directions
<1> QED BY <1>1, <1>2 DEF Directions

\* What the peer may become on reading a word.
LEMMA Answers ==
    ASSUME NEW p \in Peers, NEW m \in Messages, NEW q, q \in PeerAnswers(p, m)
    PROVE  /\ q \in Peers
           /\ \E dir \in Directions, o \in Options, v \in {0, 1}, b \in {0, 1}, st \in PeerStates :
                m = Word(dir, o, v) /\ Heard(p, q, dir, o, v, b, st)
<1> DEFINE o == m[2]
<1>1. /\ o \in Options /\ m[1] \in {"DO", "DONT", "WILL", "WONT"} /\ m = <<m[1], o>>
      /\ p.out \in Seq(Messages) /\ p.will[o] \in PeerStates /\ p.do[o] \in PeerStates
  BY DEF Messages, Verbs, Peers
<1>2. \A verb \in Verbs : /\ <<verb, o>> \in Messages /\ Append(p.out, <<verb, o>>) \in Seq(Messages)
                          /\ p.out \o <<<<verb, o>>>> = Append(p.out, <<verb, o>>)
                          /\ p.out \o <<>> = p.out
  BY <1>1, AppendFacts, Concats DEF Messages
<1>3. CASE m = <<"DO", "TM">>
  <2>1. o = "TM" /\ m = Word("do", o, 1)
    BY <1>3, Words
  <2>2. PICK b \in {0, 1} : q = [p EXCEPT !.out = Append(p.out, Word("will", o, b))]
    <3>1. q = Say(p, "WILL", o) \/ q = Say(p, "WONT", o)
      BY <1>3 DEF PeerAnswers
    <3> QED BY <3>1, Words DEF Say, Peers
  <2>3. Append(p.out, Word("will", o, b)) \in Seq(Messages)
    BY <1>1, AppendFacts, WordIsMessage
  <2>4. q = PeerChanged(p, "do", o, p.will[o], Append(p.out, Word("will", o, b)))
    <3>1. p.will \in [Options -> PeerStates] /\ [p.will EXCEPT ![o] = p.will[o]] = p.will
      BY <1>1 DEF Peers
    <3>2. q = [will |-> p.will, do |-> p.do, out |-> Append(p.out, Word("will", o, b))]
      BY <2>2 DEF Peers
    <3> QED BY <3>1, <3>2 DEF PeerChanged
  <2>5. q \in Peers /\ PeerTurned(p, q, "do", o, p.will[o]) /\ q.out = Append(p.out, Word("will", o, b))
    <3> DEFINE st == p.will[o]
               out == Append(p.out, Word("will", o, b))
    <3>1. st \in PeerStates /\ out \in Seq(Messages) /\ o \in Options
          /\ q = PeerChanged(p, "do", o, st, out) /\ "do" \in Directions
      BY <1>1, <2>3, <2>4 DEF Directions
    <3> HIDE DEF st, out, o
    <3>2. PeerChangedTo(p, q, "do", o, st, out)
      BY <3>1, PeerChangedIs
    <3> QED BY <3>2 DEF PeerChangedTo, st, out
  <2>6. Heard(p, q, "do", o, 1, b, p.will[o])
    BY <2>1, <2>5 DEF Heard, Other
  <2> QED BY <1>1, <2>1, <2>5, <2>6 DEF Directions
<1>4. CASE m # <<"DO", "TM">> /\ m[1] \in {"DO", "DONT"}
  <2> DEFINE v == IF m[1] = "DO" THEN 1 ELSE 0
             word(w) == CASE w = "agree" -> <<<<"WILL", o>>>>
                          [] w = "refuse" -> <<<<"WONT", o>>>>
                          [] w = "silence" -> <<>>
  <2>1. v \in {0, 1} /\ m = Word("do", o, v) /\ ((m[1] = "DO") = (v = 1))
    BY <1>1, <1>4, Words
  <2>2. PICK t \in PeerTurns(p.will[o], m[1] = "DO") :
          q = [p EXCEPT !.will[o] = t[1], !.out = @ \o word(t[2])]
    BY <1>1, <1>4 DEF PeerAnswers
  <2>3. t \in PeerTurns(p.will[o], v = 1)
    BY <2>1, <2>2
  <2> HIDE DEF v
  <2>4. /\ t[1] \in PeerStates
        /\ \/ t[2] = "silence" /\ Silent(p.will[o], v, t[1])
           \/ t[2] = "agree" /\ Replied(p.will[o], v, t[1], 1)
           \/ t[2] = "refuse" /\ Replied(p.will[o], v, t[1], 0)
    BY SMTT(30), <1>1, <2>1, <2>3, Turns
  <2>5. PICK b \in {0, 1} :
          \/ p.out \o word(t[2]) = p.out /\ Silent(p.will[o], v, t[1])
          \/ /\ p.out \o word(t[2]) = Append(p.out, Word(Other("do"), o, b))
             /\ Replied(p.will[o], v, t[1], b)
    <3>1. CASE t[2] = "silence"
      BY <1>2, <2>4, <3>1 DEF Verbs
    <3>2. CASE t[2] = "agree"
      BY <1>2, <2>4, <3>2, Words DEF Verbs, Other
    <3>3. CASE t[2] = "refuse"
      BY <1>2, <2>4, <3>3, Words DEF Verbs, Other
    <3> QED BY <2>4, <3>1, <3>2, <3>3
  <2> DEFINE st == t[1]
             out == p.out \o word(t[2])
  <2>6. /\ out = p.out \/ out = Append(p.out, Word(Other("do"), o, b))
        /\ \/ Silent(p.will[o], v, st) /\ out = p.out
           \/ Replied(p.will[o], v, st, b) /\ out = Append(p.out, Word(Other("do"), o, b))
    BY <2>5
  <2>7. q = PeerChanged(p, "do", o, st, out) /\ st \in PeerStates
    <3>1. q = [p EXCEPT !.will[o] = st, !.out = p.out \o word(t[2])] /\ st \in PeerStates
          /\ out = p.out \o word(t[2])
      <4> HIDE DEF word
      <4> QED BY <2>2, <2>4 DEF Peers
    <3> HIDE DEF st, out, o, word
    <3>2. q = [p EXCEPT !.will[o] = st, !.out = out] /\ st \in PeerStates
      BY <3>1
    <3>3. q = [will |-> [p.will EXCEPT ![o] = st], do |-> p.do, out |-> out]
      BY <3>2 DEF Peers
    <3> QED BY <3>2, <3>3 DEF PeerChanged
  <2> HIDE DEF st, out, o
  <2>8. out \in Seq(Messages) /\ "do" \in Directions
    <3>1. Append(p.out, Word(Other("do"), o, b)) \in Seq(Messages)
      BY <1>1, AppendFacts, WordIsMessage
    <3> QED BY <1>1, <2>6, <3>1 DEF Directions
  <2>9. q \in Peers /\ PeerTurned(p, q, "do", o, st) /\ q.out = out
    <3>1. PeerChangedTo(p, q, "do", o, st, out)
      BY <1>1, <2>7, <2>8, PeerChangedIs
    <3> QED BY <3>1 DEF PeerChangedTo
  <2>10. Heard(p, q, "do", o, v, b, st)
    BY <2>6, <2>9 DEF Heard, State
  <2>11. "do" \in Directions
    BY DEF Directions
  <2> QED BY <1>1, <2>1, <2>7, <2>9, <2>10, <2>11
<1>5. CASE m # <<"DO", "TM">> /\ m[1] \in {"WILL", "WONT"}
  <2> DEFINE v == IF m[1] = "WILL" THEN 1 ELSE 0
             word(w) == CASE w = "agree" -> <<<<"DO", o>>>>
                          [] w = "refuse" -> <<<<"DONT", o>>>>
                          [] w = "silence" -> <<>>
  <2>1. v \in {0, 1} /\ m = Word("will", o, v) /\ ((m[1] = "WILL") = (v = 1))
    BY <1>1, <1>5, Words
  <2>2. PICK t \in PeerTurns(p.do[o], m[1] = "WILL") :
          q = [p EXCEPT !.do[o] = t[1], !.out = @ \o word(t[2])]
    BY <1>1, <1>5 DEF PeerAnswers
  <2>3. t \in PeerTurns(p.do[o], v = 1)
    BY <2>1, <2>2
  <2> HIDE DEF v
  <2>4. /\ t[1] \in PeerStates
        /\ \/ t[2] = "silence" /\ Silent(p.do[o], v, t[1])
           \/ t[2] = "agree" /\ Replied(p.do[o], v, t[1], 1)
           \/ t[2] = "refuse" /\ Replied(p.do[o], v, t[1], 0)
    BY SMTT(30), <1>1, <2>1, <2>3, Turns
  <2>5. PICK b \in {0, 1} :
          \/ p.out \o word(t[2]) = p.out /\ Silent(p.do[o], v, t[1])
          \/ /\ p.out \o word(t[2]) = Append(p.out, Word(Other("will"), o, b))
             /\ Replied(p.do[o], v, t[1], b)
    <3>1. CASE t[2] = "silence"
      BY <1>2, <2>4, <3>1 DEF Verbs
    <3>2. CASE t[2] = "agree"
      BY <1>2, <2>4, <3>2, Words DEF Verbs, Other
    <3>3. CASE t[2] = "refuse"
      BY <1>2, <2>4, <3>3, Words DEF Verbs, Other
    <3> QED BY <2>4, <3>1, <3>2, <3>3
  <2> DEFINE st == t[1]
             out == p.out \o word(t[2])
  <2>6. /\ out = p.out \/ out = Append(p.out, Word(Other("will"), o, b))
        /\ \/ Silent(p.do[o], v, st) /\ out = p.out
           \/ Replied(p.do[o], v, st, b) /\ out = Append(p.out, Word(Other("will"), o, b))
    BY <2>5
  <2>7. q = PeerChanged(p, "will", o, st, out) /\ st \in PeerStates
    <3>1. q = [p EXCEPT !.do[o] = st, !.out = p.out \o word(t[2])] /\ st \in PeerStates
          /\ out = p.out \o word(t[2])
      <4> HIDE DEF word
      <4> QED BY <2>2, <2>4 DEF Peers
    <3> HIDE DEF st, out, o, word
    <3>2. q = [p EXCEPT !.do[o] = st, !.out = out] /\ st \in PeerStates
      BY <3>1
    <3>3. q = [will |-> p.will, do |-> [p.do EXCEPT ![o] = st], out |-> out]
      BY <3>2 DEF Peers
    <3> QED BY <3>2, <3>3 DEF PeerChanged
  <2> HIDE DEF st, out, o
  <2>8. out \in Seq(Messages) /\ "will" \in Directions
    <3>1. Append(p.out, Word(Other("will"), o, b)) \in Seq(Messages)
      BY <1>1, AppendFacts, WordIsMessage
    <3> QED BY <1>1, <2>6, <3>1 DEF Directions
  <2>9. q \in Peers /\ PeerTurned(p, q, "will", o, st) /\ q.out = out
    <3>1. PeerChangedTo(p, q, "will", o, st, out)
      BY <1>1, <2>7, <2>8, PeerChangedIs
    <3> QED BY <3>1 DEF PeerChangedTo
  <2>10. Heard(p, q, "will", o, v, b, st)
    BY <2>6, <2>9 DEF Heard, State
  <2>11. "will" \in Directions
    BY DEF Directions
  <2> QED BY <1>1, <2>1, <2>7, <2>9, <2>10, <2>11
<1> QED BY <1>1, <1>3, <1>4, <1>5

\* The four requests make a client of a client.
LEMMA AskTypes ==
    ASSUME NEW s \in Clients, NEW o \in Options
    PROVE  /\ send_do(s, o, TRUE) \in Clients /\ send_dont(s, o, TRUE) \in Clients
           /\ send_will(s, o, TRUE) \in Clients /\ send_wont(s, o, TRUE) \in Clients
<1> DEFINE yes == TRUE
           no == FALSE
           a == send_do(s, o, TRUE)
           b == send_dont(s, o, TRUE)
           c == send_will(s, o, TRUE)
           d == send_wont(s, o, TRUE)
<1>1. yes \in BOOLEAN /\ no \in BOOLEAN
  OBVIOUS
<1>2. /\ a = s \/ ChangedTo(s, a, "do", o, Have(s, "do")[o], yes, Count(s, "do")[o] + 1,
                            Append(s.out, Word("do", o, Num(yes))))
      /\ c = s \/ ChangedTo(s, c, "will", o, Have(s, "will")[o], yes, Count(s, "will")[o] + 1,
                            Append(s.out, Word("will", o, Num(yes))))
  BY <1>1, Asks
<1>3. /\ b = s \/ ChangedTo(s, b, "do", o, Have(s, "do")[o], no, Count(s, "do")[o] + 1,
                            Append(s.out, Word("do", o, Num(no))))
      /\ d = s \/ ChangedTo(s, d, "will", o, Have(s, "will")[o], no, Count(s, "will")[o] + 1,
                            Append(s.out, Word("will", o, Num(no))))
  BY <1>1, Asks
<1> HIDE DEF yes, no, a, b, c, d
<1>4. a \in Clients /\ b \in Clients /\ c \in Clients /\ d \in Clients
  BY <1>2, <1>3 DEF ChangedTo
<1> QED BY <1>4 DEF a, b, c, d

\* A request of an option that the client accepts, or that has no response open,
\* or whose user is now hasty.
LEMMA AsksSides ==
    ASSUME NEW s \in Clients, NEW p, NEW h \in BOOLEAN, NEW h1 \in BOOLEAN, Sides(s, p, h), h => h1,
           NEW o \in Options
    PROVE  /\ Accepts("do", o) \/ h1 \/ s.ddr[o] = 0 =>
                Sides(send_do(s, o, TRUE), p, h1) /\ Sides(send_dont(s, o, TRUE), p, h1)
           /\ Accepts("will", o) \/ h1 \/ s.wwr[o] = 0 =>
                Sides(send_will(s, o, TRUE), p, h1) /\ Sides(send_wont(s, o, TRUE), p, h1)
<1> DEFINE yes == TRUE
           no == FALSE
           a == send_do(s, o, TRUE)
           b == send_dont(s, o, TRUE)
           c == send_will(s, o, TRUE)
           d == send_wont(s, o, TRUE)
<1>1. yes \in BOOLEAN /\ no \in BOOLEAN /\ "do" \in Directions /\ "will" \in Directions
  BY DEF Directions
<1>2. /\ \/ a = s
         \/ /\ yes # Want(s, "do")[o]
            /\ ChangedTo(s, a, "do", o, Have(s, "do")[o], yes, Count(s, "do")[o] + 1,
                         Append(s.out, Word("do", o, Num(yes))))
      /\ \/ c = s
         \/ /\ yes # Want(s, "will")[o]
            /\ ChangedTo(s, c, "will", o, Have(s, "will")[o], yes, Count(s, "will")[o] + 1,
                         Append(s.out, Word("will", o, Num(yes))))
  BY <1>1, Asks
<1>3. /\ \/ b = s
         \/ /\ no # Want(s, "do")[o]
            /\ ChangedTo(s, b, "do", o, Have(s, "do")[o], no, Count(s, "do")[o] + 1,
                         Append(s.out, Word("do", o, Num(no))))
      /\ \/ d = s
         \/ /\ no # Want(s, "will")[o]
            /\ ChangedTo(s, d, "will", o, Have(s, "will")[o], no, Count(s, "will")[o] + 1,
                         Append(s.out, Word("will", o, Num(no))))
  BY <1>1, Asks
<1> HIDE DEF yes, no, a, b, c, d
<1>4. ASSUME Accepts("do", o) \/ h1 \/ s.ddr[o] = 0
      PROVE  Sides(a, p, h1) /\ Sides(b, p, h1)
  <2>1. Accepts("do", o) \/ h1 \/ Count(s, "do")[o] = 0
    BY <1>4 DEF Count
  <2>2. Sides(a, p, h1)
    BY <1>1, <1>2, <2>1, RequestSides
  <2>3. Sides(b, p, h1)
    BY <1>1, <1>3, <2>1, RequestSides
  <2> QED BY <2>2, <2>3
<1>5. ASSUME Accepts("will", o) \/ h1 \/ s.wwr[o] = 0
      PROVE  Sides(c, p, h1) /\ Sides(d, p, h1)
  <2>1. Accepts("will", o) \/ h1 \/ Count(s, "will")[o] = 0
    BY <1>5 DEF Count
  <2>2. Sides(c, p, h1)
    BY <1>1, <1>2, <2>1, RequestSides
  <2>3. Sides(d, p, h1)
    BY <1>1, <1>3, <2>1, RequestSides
  <2> QED BY <2>2, <2>3
<1> QED BY <1>4, <1>5 DEF a, b, c, d

-----------------------------------------------------------------------------
(* A new connection.                                                        *)

\* On a new connection with no responses due, every option is as it should be.
LEMMA NewSides ==
    ASSUME NEW s, NEW h, s.do = No, s.wantdo = No, s.will = No, s.wantwill = No,
           s.ddr = Zero, s.wwr = Zero, s.out = <<>>
    PROVE  Sides(s, NewPeer, h)
<1> SUFFICES ASSUME NEW e \in Directions, NEW x \in Options \ {"TM"}
             PROVE  SideOf(s, NewPeer, e, x)
  BY DEF Sides
<1>1. /\ NewPeer.will = [o \in Options |-> "no"] /\ NewPeer.do = [o \in Options |-> "no"]
      /\ NewPeer.out = <<>>
  BY DEF NewPeer
<1>2. /\ Have(s, e)[x] = FALSE /\ Want(s, e)[x] = FALSE /\ Count(s, e)[x] = 0
      /\ State(NewPeer, e)[x] = "no"
  BY <1>1 DEF Have, Want, Count, State, No, Zero
<1>3. Side(Accepts(e, x), e, x, FALSE, FALSE, 0, "no", <<>>, <<>>)
  BY AcceptsBoolean, SideNew
<1> QED BY <1>1, <1>2, <1>3 DEF SideOf

\* A new connection's client and peer have their types.
LEMMA NewTypes ==
    /\ FirstMe \in Clients /\ NewPeer \in Peers
    /\ \A s \in Clients : init_telnet(s) \in Clients
<1>1. No \in [Options -> BOOLEAN] /\ Zero \in [Options -> Nat] /\ <<>> \in Seq(Messages)
  BY DEF No, Zero
<1>2. FirstMe \in Clients
  BY <1>1 DEF FirstMe, Clients
<1>3. NewPeer \in Peers
  BY <1>1 DEF NewPeer, Peers, PeerStates
<1>4. ASSUME NEW s \in Clients PROVE init_telnet(s) \in Clients
  <2>1. init_telnet(s) = [will |-> No, wantwill |-> No, do |-> No, wantdo |-> No, wwr |-> s.wwr,
                          ddr |-> s.ddr, flushout |-> s.flushout, out |-> <<>>]
    <3> DEFINE e == <<>>
    <3>1. init_telnet(s) = [s EXCEPT !.will = No, !.wantwill = No, !.do = No, !.wantdo = No, !.out = e]
      BY DEF init_telnet
    <3> HIDE DEF e
    <3>2. init_telnet(s) = [will |-> No, wantwill |-> No, do |-> No, wantdo |-> No, wwr |-> s.wwr,
                            ddr |-> s.ddr, flushout |-> s.flushout, out |-> e]
      BY ZenonT(60), <3>1, ClientShape DEF Clients
    <3> QED BY <3>2 DEF e
  <2> QED BY <1>1, <2>1 DEF Clients
<1> QED BY <1>2, <1>3, <1>4

\* A request for an option the client accepts, if it is one of those there are.
LEMMA AskDoSides ==
    ASSUME NEW s \in Clients, NEW p, NEW h \in BOOLEAN, NEW o, Accepts("do", o)
    PROVE  AskDo(s, o) \in Clients /\ (Sides(s, p, h) => Sides(AskDo(s, o), p, h))
<1>1. CASE o \in Options
  <2>1. AskDo(s, o) = send_do(s, o, TRUE)
    BY <1>1 DEF AskDo
  <2>2. send_do(s, o, TRUE) \in Clients
    BY <1>1, AskTypes
  <2>3. ASSUME Sides(s, p, h) PROVE Sides(send_do(s, o, TRUE), p, h)
    BY <1>1, <2>3, AsksSides
  <2> QED BY <2>1, <2>2, <2>3
<1>2. CASE o \notin Options
  BY <1>2 DEF AskDo
<1> QED BY <1>1, <1>2

\* The same of a WILL.
LEMMA AskWillSides ==
    ASSUME NEW s \in Clients, NEW p, NEW h \in BOOLEAN, NEW o, Accepts("will", o)
    PROVE  AskWill(s, o) \in Clients /\ (Sides(s, p, h) => Sides(AskWill(s, o), p, h))
<1>1. CASE o \in Options
  <2>1. AskWill(s, o) = send_will(s, o, TRUE)
    BY <1>1 DEF AskWill
  <2>2. send_will(s, o, TRUE) \in Clients
    BY <1>1, AskTypes
  <2>3. ASSUME Sides(s, p, h) PROVE Sides(send_will(s, o, TRUE), p, h)
    BY <1>1, <2>3, AsksSides
  <2> QED BY <2>1, <2>2, <2>3
<1>2. CASE o \notin Options
  BY <1>2 DEF AskWill
<1> QED BY <1>1, <1>2

\* What telnet() asks for first.
LEMMA OpeningSides ==
    ASSUME NEW s \in Clients, NEW p, NEW h \in BOOLEAN
    PROVE  Opening(s) \in Clients /\ (Sides(s, p, h) => Sides(Opening(s), p, h))
<1> DEFINE a == AskDo(s, "SGA")
           b == AskWill(a, "TTYPE")
           c == AskWill(b, "NAWS")
           d == AskWill(c, "TSPEED")
           e == AskWill(d, "LFLOW")
           f == AskWill(e, "LINEMODE")
           g == AskWill(f, "NEW_ENVIRON")
           g2 == AskDo(g, "STATUS")
           in == IF eight \in {1, 3} THEN AskDo(g2, "BINARY") ELSE g2
           all == IF eight \in {2, 3} THEN AskWill(in, "BINARY") ELSE in
<1>1. Opening(s) = all
  BY DEF Opening, tel_enter_binary
<1>2. /\ Accepts("do", "SGA") /\ Accepts("do", "STATUS") /\ Accepts("do", "BINARY")
      /\ Accepts("will", "TTYPE") /\ Accepts("will", "NAWS") /\ Accepts("will", "TSPEED")
      /\ Accepts("will", "LFLOW") /\ Accepts("will", "LINEMODE")
      /\ Accepts("will", "NEW_ENVIRON") /\ Accepts("will", "BINARY")
  BY DEF Accepts, AcceptWill, AcceptDo
<1>3. a \in Clients /\ (Sides(s, p, h) => Sides(a, p, h))
  BY <1>2, AskDoSides
<1> HIDE DEF a
<1>4. b \in Clients /\ (Sides(a, p, h) => Sides(b, p, h))
  BY <1>2, <1>3, AskWillSides
<1> HIDE DEF b
<1>5. c \in Clients /\ (Sides(b, p, h) => Sides(c, p, h))
  BY <1>2, <1>4, AskWillSides
<1> HIDE DEF c
<1>6. d \in Clients /\ (Sides(c, p, h) => Sides(d, p, h))
  BY <1>2, <1>5, AskWillSides
<1> HIDE DEF d
<1>7. e \in Clients /\ (Sides(d, p, h) => Sides(e, p, h))
  BY <1>2, <1>6, AskWillSides
<1> HIDE DEF e
<1>8. f \in Clients /\ (Sides(e, p, h) => Sides(f, p, h))
  BY <1>2, <1>7, AskWillSides
<1> HIDE DEF f
<1>9. g \in Clients /\ (Sides(f, p, h) => Sides(g, p, h))
  BY <1>2, <1>8, AskWillSides
<1> HIDE DEF g
<1>10. g2 \in Clients /\ (Sides(g, p, h) => Sides(g2, p, h))
  BY <1>2, <1>9, AskDoSides
<1> HIDE DEF g2
<1>11. in \in Clients /\ (Sides(g2, p, h) => Sides(in, p, h))
  BY <1>2, <1>10, AskDoSides
<1> HIDE DEF in
<1>12. all \in Clients /\ (Sides(in, p, h) => Sides(all, p, h))
  BY <1>2, <1>11, AskWillSides
<1> HIDE DEF all
<1> QED BY <1>1, <1>3, <1>4, <1>5, <1>6, <1>7, <1>8, <1>9, <1>10, <1>11, <1>12

-----------------------------------------------------------------------------
(* The invariant.                                                           *)

\* The inductive invariant: unless responses of an earlier connection are still
\* due, every option is in balance in both directions.  For an option the client
\* refuses, as long as the user was not hasty.
Negotiation ==
    /\ me \in Clients /\ peer \in Peers /\ hasty \in BOOLEAN /\ stale \in BOOLEAN
    /\ ~stale => Sides(me, peer, hasty)

\* What is taken from a queue of messages.
LEMMA HeadTail ==
    ASSUME NEW q \in Seq(Messages), q # <<>>
    PROVE  Head(q) \in Messages /\ Tail(q) \in Seq(Messages)
BY HeadTailProperties

\* The first connection, with and without telnet()'s opening requests.
LEMMA InitNegotiation == Init => Negotiation
<1> SUFFICES ASSUME Init PROVE Negotiation
  OBVIOUS
<1>1. /\ FirstMe.do = No /\ FirstMe.wantdo = No /\ FirstMe.will = No /\ FirstMe.wantwill = No
      /\ FirstMe.ddr = Zero /\ FirstMe.wwr = Zero /\ FirstMe.out = <<>>
  BY DEF FirstMe
<1>2. Sides(FirstMe, NewPeer, hasty)
  BY <1>1, NewSides
<1>3. FirstMe \in Clients /\ NewPeer \in Peers
  BY NewTypes
<1>4. hasty \in BOOLEAN /\ stale \in BOOLEAN /\ (me = FirstMe \/ me = Opening(FirstMe)) /\ peer = NewPeer
  BY DEF Init
<1>5. Opening(FirstMe) \in Clients /\ Sides(Opening(FirstMe), NewPeer, hasty)
  BY <1>2, <1>3, <1>4, OpeningSides
<1> QED BY <1>2, <1>3, <1>4, <1>5 DEF Negotiation

\* telrcv() hands a word to willoption(), wontoption(), dooption() or
\* dontoption().
LEMMA ReceiveNegotiation == Negotiation /\ Receive => Negotiation'
<1> SUFFICES ASSUME Negotiation, Receive PROVE Negotiation'
  OBVIOUS
<1>1. /\ me \in Clients /\ peer \in Peers /\ hasty \in BOOLEAN /\ stale \in BOOLEAN
      /\ hasty' = hasty /\ stale' = stale /\ (~stale => Sides(me, peer, hasty))
      /\ peer.out # <<>> /\ me' = Handler(me, Head(peer.out)) /\ peer' = [peer EXCEPT !.out = Tail(@)]
  BY DEF Negotiation, Receive
<1>2. peer.out \in Seq(Messages)
  BY <1>1 DEF Peers
<1>3. Head(peer.out) \in Messages /\ Tail(peer.out) \in Seq(Messages)
  BY <1>1, <1>2, HeadTail
<1>4. peer' = [will |-> peer.will, do |-> peer.do, out |-> Tail(peer.out)]
  BY <1>1 DEF Peers
<1>5. peer' \in Peers
  BY <1>1, <1>3, <1>4 DEF Peers
<1>6. peer'.out = Tail(peer.out) /\ peer'.will = peer.will /\ peer'.do = peer.do
  BY <1>4
<1>7. me' \in Clients
  BY <1>1, <1>3, HandlerTypes
<1>8. ~stale => Sides(me', peer', hasty)
  BY <1>1, <1>3, <1>6, HandlerSides
<1> QED BY <1>1, <1>5, <1>7, <1>8 DEF Negotiation

\* send_tncmd(): the user asks.
LEMMA RequestNegotiation ==
    ASSUME NEW verb \in Verbs, NEW o \in Options
    PROVE  Negotiation /\ send_tncmd(verb, o) => Negotiation'
<1> SUFFICES ASSUME Negotiation, send_tncmd(verb, o) PROVE Negotiation'
  OBVIOUS
<1> DEFINE n == IF verb \in {"DO", "DONT"} THEN me.ddr[o] ELSE me.wwr[o]
<1>1. /\ me \in Clients /\ peer \in Peers /\ hasty \in BOOLEAN /\ stale \in BOOLEAN
      /\ stale' = stale /\ (~stale => Sides(me, peer, hasty))
      /\ me' = Request(me, verb, o) /\ peer' = peer
      /\ hasty' = (hasty \/ n > 0)
  BY DEF Negotiation, send_tncmd
<1>2. /\ hasty' \in BOOLEAN /\ (hasty => hasty')
  BY <1>1
<1>3. n \in Nat /\ (hasty' \/ n = 0)
  <2>1. n \in Nat
    BY <1>1 DEF Clients
  <2> HIDE DEF n
  <2>2. n > 0 \/ n = 0
    BY <2>1
  <2>3. n > 0 => hasty'
    BY <1>1, Zenon
  <2> QED BY <2>1, <2>2, <2>3, Zenon
<1>4. /\ verb \in {"DO", "DONT"} => hasty' \/ me.ddr[o] = 0
      /\ verb \in {"WILL", "WONT"} => hasty' \/ me.wwr[o] = 0
  BY <1>3
<1>5. /\ verb = "DO" => me' = send_do(me, o, TRUE)
      /\ verb = "DONT" => me' = send_dont(me, o, TRUE)
      /\ verb = "WILL" => me' = send_will(me, o, TRUE)
      /\ verb = "WONT" => me' = send_wont(me, o, TRUE)
      /\ verb \in {"DO", "DONT", "WILL", "WONT"}
  BY <1>1 DEF Request, Verbs
<1>6. me' \in Clients
  BY <1>1, <1>5, AskTypes
<1>7. ~stale => Sides(me', peer, hasty')
  BY <1>1, <1>2, <1>4, <1>5, AsksSides
<1> QED BY <1>1, <1>2, <1>6, <1>7 DEF Negotiation

\* doflush(): DO TM goes out and nothing else changes.
LEMMA FlushNegotiation == Negotiation /\ doflush => Negotiation'
<1> SUFFICES ASSUME Negotiation, doflush PROVE Negotiation'
  OBVIOUS
<1>1. /\ me \in Clients /\ peer \in Peers /\ hasty \in BOOLEAN /\ stale \in BOOLEAN
      /\ hasty' = hasty /\ stale' = stale /\ (~stale => Sides(me, peer, hasty))
      /\ me' = Emit([me EXCEPT !.flushout = TRUE], "DO", "TM") /\ peer' = peer
  BY DEF Negotiation, doflush
<1>2. "TM" \in Options /\ "do" \in Directions
  BY OptionsAssumption DEF Directions
<1>3. me' = [will |-> me.will, wantwill |-> me.wantwill, wwr |-> me.wwr, do |-> me.do, wantdo |-> me.wantdo,
             ddr |-> me.ddr, flushout |-> TRUE, out |-> Append(me.out, <<"DO", "TM">>)]
  BY <1>1 DEF Clients, Emit
<1>4. Append(me.out, <<"DO", "TM">>) \in Seq(Messages)
  BY <1>1, <1>2, Sent DEF Verbs
<1>5. me' \in Clients
  <2> DEFINE q == Append(me.out, <<"DO", "TM">>)
             f == TRUE
  <2>1. q \in Seq(Messages) /\ f \in BOOLEAN
    BY <1>4
  <2>2. me' = [will |-> me.will, wantwill |-> me.wantwill, wwr |-> me.wwr, do |-> me.do, wantdo |-> me.wantdo,
               ddr |-> me.ddr, flushout |-> f, out |-> q]
    BY <1>3
  <2> HIDE DEF q, f
  <2>3. /\ me.will \in [Options -> BOOLEAN] /\ me.wantwill \in [Options -> BOOLEAN]
        /\ me.do \in [Options -> BOOLEAN] /\ me.wantdo \in [Options -> BOOLEAN]
        /\ me.wwr \in [Options -> Nat] /\ me.ddr \in [Options -> Nat]
    BY <1>1 DEF Clients
  <2> QED BY <2>1, <2>2, <2>3 DEF Clients
<1>6. /\ me'.out = Append(me.out, Word("do", "TM", 1)) /\ me'.will = me.will /\ me'.wantwill = me.wantwill
      /\ me'.wwr = me.wwr /\ me'.do = me.do /\ me'.wantdo = me.wantdo /\ me'.ddr = me.ddr
  BY <1>3, Words
<1>7. Aside(me, me', "do", "TM")
  BY <1>6 DEF Aside, Have, Want, Count
<1>8. ~stale => Sides(me', peer, hasty)
  BY <1>1, <1>2, <1>6, <1>7, MarkSides
<1> QED BY <1>1, <1>5, <1>8 DEF Negotiation

\* A connection ends and the next begins: the response counts stay, so all is
\* well only if they were zero.
LEMMA ByeNegotiation == Negotiation /\ bye => Negotiation'
<1> SUFFICES ASSUME Negotiation, bye PROVE Negotiation'
  OBVIOUS
<1> DEFINE s == init_telnet(me)
<1>1. /\ me \in Clients /\ hasty \in BOOLEAN /\ stale \in BOOLEAN
      /\ hasty' = hasty /\ (me' = s \/ me' = Opening(s)) /\ peer' = NewPeer
  BY DEF Negotiation, bye
<1>2. stale' \in BOOLEAN /\ (~stale' => me.ddr = Zero /\ me.wwr = Zero)
  BY DEF bye
<1>3. s \in Clients /\ NewPeer \in Peers
  BY <1>1, NewTypes
<1>4. /\ s.will = No /\ s.wantwill = No /\ s.do = No /\ s.wantdo = No /\ s.out = <<>>
      /\ s.ddr = me.ddr /\ s.wwr = me.wwr
  BY <1>1 DEF init_telnet, Clients
<1> HIDE DEF s
<1>5. ~stale' => Sides(s, NewPeer, hasty)
  BY <1>2, <1>4, NewSides
<1>6. Opening(s) \in Clients /\ (Sides(s, NewPeer, hasty) => Sides(Opening(s), NewPeer, hasty))
  BY <1>1, <1>3, OpeningSides
<1> QED BY <1>1, <1>2, <1>3, <1>5, <1>6 DEF Negotiation

\* The peer reads a word and may answer.
LEMMA PeerReceiveNegotiation == Negotiation /\ PeerReceive => Negotiation'
<1> SUFFICES ASSUME Negotiation, PeerReceive PROVE Negotiation'
  OBVIOUS
<1>1. /\ me \in Clients /\ peer \in Peers /\ hasty \in BOOLEAN /\ stale \in BOOLEAN
      /\ hasty' = hasty /\ stale' = stale /\ (~stale => Sides(me, peer, hasty))
      /\ me.out # <<>> /\ peer' \in PeerAnswers(peer, Head(me.out)) /\ me' = [me EXCEPT !.out = Tail(@)]
  BY DEF Negotiation, PeerReceive
<1>2. me.out \in Seq(Messages)
  BY <1>1 DEF Clients
<1>3. Head(me.out) \in Messages /\ Tail(me.out) \in Seq(Messages)
  BY <1>1, <1>2, HeadTail
<1>4. me' = [will |-> me.will, wantwill |-> me.wantwill, wwr |-> me.wwr, do |-> me.do, wantdo |-> me.wantdo,
             ddr |-> me.ddr, flushout |-> me.flushout, out |-> Tail(me.out)]
  BY <1>1 DEF Clients
<1>5. me' \in Clients
  BY <1>1, <1>3, <1>4 DEF Clients
<1>6. /\ me'.out = Tail(me.out) /\ me'.will = me.will /\ me'.wantwill = me.wantwill
      /\ me'.wwr = me.wwr /\ me'.do = me.do /\ me'.wantdo = me.wantdo /\ me'.ddr = me.ddr
  BY <1>4
<1>7. Unmoved(me, me')
  BY <1>6 DEF Have, Want, Count, Unmoved
<1>8. /\ peer' \in Peers
      /\ \E dir \in Directions, o \in Options, v \in {0, 1}, b \in {0, 1}, st \in PeerStates :
           Head(me.out) = Word(dir, o, v) /\ Heard(peer, peer', dir, o, v, b, st)
  BY <1>1, <1>3, Answers
<1>9. PICK dir \in Directions, o \in Options, v \in {0, 1}, b \in {0, 1}, st \in PeerStates :
        Head(me.out) = Word(dir, o, v) /\ Heard(peer, peer', dir, o, v, b, st)
  BY <1>8
<1>10. ~stale => Sides(me', peer', hasty)
  <2> SUFFICES ASSUME ~stale PROVE Sides(me', peer', hasty)
    OBVIOUS
  <2>1. /\ Sides(me, peer, hasty) /\ hasty \in BOOLEAN /\ me.out # <<>> /\ Head(me.out) = Word(dir, o, v)
        /\ me'.out = Tail(me.out) /\ Unmoved(me, me') /\ Heard(peer, peer', dir, o, v, b, st)
    BY <1>1, <1>6, <1>7, <1>9
  <2> QED BY <2>1, HearSides, Zenon
<1> QED BY <1>1, <1>5, <1>8, <1>10 DEF Negotiation

\* The peer makes a request of its own.
LEMMA OfferNegotiation ==
    ASSUME NEW o \in Options
    PROVE  Negotiation /\ PeerOffer(o) => Negotiation'
<1> SUFFICES ASSUME Negotiation, PeerOffer(o) PROVE Negotiation'
  OBVIOUS
<1>1. /\ me \in Clients /\ peer \in Peers /\ hasty \in BOOLEAN /\ stale \in BOOLEAN
      /\ hasty' = hasty /\ stale' = stale /\ (~stale => Sides(me, peer, hasty)) /\ me' = me
  BY DEF Negotiation, PeerOffer
<1>2. PICK dir \in Directions, b \in {0, 1}, st \in PeerStates :
        /\ \/ State(peer, dir)[o] = "no" /\ st = "wantyes" /\ b = 1
           \/ State(peer, dir)[o] = "yes" /\ st = "wantno" /\ b = 0
        /\ peer' = PeerChanged(peer, dir, o, st, Append(peer.out, Word(Other(dir), o, b)))
  <2>1. CASE peer.will[o] = "no" /\ peer' = Say([peer EXCEPT !.will[o] = "wantyes"], "WILL", o)
    <3>1. peer' = PeerChanged(peer, "do", o, "wantyes", Append(peer.out, Word(Other("do"), o, 1)))
      <4> DEFINE q == Append(peer.out, <<"WILL", o>>)
      <4>1. peer' = [[peer EXCEPT !.will[o] = "wantyes"] EXCEPT !.out = q]
        BY <1>1, <2>1 DEF Say, Peers
      <4>2. q = Append(peer.out, Word(Other("do"), o, 1))
        BY Words DEF Other
      <4> HIDE DEF q
      <4>3. peer' = [will |-> [peer.will EXCEPT ![o] = "wantyes"], do |-> peer.do,
                  out |-> q]
        BY <1>1, <4>1 DEF Peers
      <4> QED BY <4>2, <4>3 DEF PeerChanged
    <3> QED BY <2>1, <3>1 DEF State, Directions, PeerStates
  <2>2. CASE peer.will[o] = "yes" /\ peer' = Say([peer EXCEPT !.will[o] = "wantno"], "WONT", o)
    <3>1. peer' = PeerChanged(peer, "do", o, "wantno", Append(peer.out, Word(Other("do"), o, 0)))
      <4> DEFINE q == Append(peer.out, <<"WONT", o>>)
      <4>1. peer' = [[peer EXCEPT !.will[o] = "wantno"] EXCEPT !.out = q]
        BY <1>1, <2>2 DEF Say, Peers
      <4>2. q = Append(peer.out, Word(Other("do"), o, 0))
        BY Words DEF Other
      <4> HIDE DEF q
      <4>3. peer' = [will |-> [peer.will EXCEPT ![o] = "wantno"], do |-> peer.do,
                  out |-> q]
        BY <1>1, <4>1 DEF Peers
      <4> QED BY <4>2, <4>3 DEF PeerChanged
    <3> QED BY <2>2, <3>1 DEF State, Directions, PeerStates
  <2>3. CASE peer.do[o] = "no" /\ peer' = Say([peer EXCEPT !.do[o] = "wantyes"], "DO", o)
    <3>1. peer' = PeerChanged(peer, "will", o, "wantyes", Append(peer.out, Word(Other("will"), o, 1)))
      <4> DEFINE q == Append(peer.out, <<"DO", o>>)
      <4>1. peer' = [[peer EXCEPT !.do[o] = "wantyes"] EXCEPT !.out = q]
        BY <1>1, <2>3 DEF Say, Peers
      <4>2. q = Append(peer.out, Word(Other("will"), o, 1))
        BY Words DEF Other
      <4> HIDE DEF q
      <4>3. peer' = [will |-> peer.will, do |-> [peer.do EXCEPT ![o] = "wantyes"],
                  out |-> q]
        BY <1>1, <4>1 DEF Peers
      <4> QED BY <4>2, <4>3 DEF PeerChanged
    <3> QED BY <2>3, <3>1 DEF State, Directions, PeerStates
  <2>4. CASE peer.do[o] = "yes" /\ peer' = Say([peer EXCEPT !.do[o] = "wantno"], "DONT", o)
    <3>1. peer' = PeerChanged(peer, "will", o, "wantno", Append(peer.out, Word(Other("will"), o, 0)))
      <4> DEFINE q == Append(peer.out, <<"DONT", o>>)
      <4>1. peer' = [[peer EXCEPT !.do[o] = "wantno"] EXCEPT !.out = q]
        BY <1>1, <2>4 DEF Say, Peers
      <4>2. q = Append(peer.out, Word(Other("will"), o, 0))
        BY Words DEF Other
      <4> HIDE DEF q
      <4>3. peer' = [will |-> peer.will, do |-> [peer.do EXCEPT ![o] = "wantno"],
                  out |-> q]
        BY <1>1, <4>1 DEF Peers
      <4> QED BY <4>2, <4>3 DEF PeerChanged
    <3> QED BY <2>4, <3>1 DEF State, Directions, PeerStates
  <2> QED BY <2>1, <2>2, <2>3, <2>4 DEF PeerOffer
<1>3. Append(peer.out, Word(Other(dir), o, b)) \in Seq(Messages)
  <2>1. peer.out \in Seq(Messages)
    BY <1>1 DEF Peers
  <2> QED BY <2>1, AppendFacts, WordIsMessage
<1>4. PeerChangedTo(peer, peer', dir, o, st, Append(peer.out, Word(Other(dir), o, b)))
  BY <1>1, <1>2, <1>3, PeerChangedIs
<1>5. /\ peer' \in Peers /\ PeerTurned(peer, peer', dir, o, st)
      /\ peer'.out = Append(peer.out, Word(Other(dir), o, b))
  BY <1>4 DEF PeerChangedTo
<1>6. ~stale => Sides(me, peer', hasty)
  BY <1>1, <1>2, <1>5, OfferSides
<1> QED BY <1>1, <1>5, <1>6 DEF Negotiation

\* Every step keeps the invariant.
LEMMA NextNegotiation == Negotiation /\ [Next]_vars => Negotiation'
<1>1. Negotiation /\ UNCHANGED vars => Negotiation'
  BY DEF Negotiation, vars
<1>2. Negotiation /\ Next => Negotiation'
  BY ReceiveNegotiation, RequestNegotiation, FlushNegotiation, ByeNegotiation,
     PeerReceiveNegotiation, OfferNegotiation, Zenon DEF Next
<1> QED BY <1>1, <1>2

\* With nothing on its way, balance is agreement.
LEMMA NegotiationAgrees == Negotiation => Agree
<1> SUFFICES ASSUME Negotiation, Quiet, ~stale, NEW o \in Options \ {"TM"}
             PROVE  /\ (o \in AcceptWill \/ ~hasty) =>
                          peer.will[o] = InForce(me.wantdo[o], me.do[o])
                    /\ (o \in AcceptDo \/ ~hasty) =>
                          peer.do[o] = InForce(me.wantwill[o], me.will[o])
                    /\ o \in AcceptWill => me.wantdo[o] = me.do[o]
                    /\ o \in AcceptDo => me.wantwill[o] = me.will[o]
  BY DEF Agree
<1>1. /\ me \in Clients /\ Sides(me, peer, hasty) /\ me.out = <<>> /\ peer.out = <<>>
      /\ "do" \in Directions /\ "will" \in Directions
  BY DEF Negotiation, Quiet, Directions
<1>2. ASSUME NEW dir \in Directions, Accepts(dir, o) \/ ~hasty
      PROVE  /\ State(peer, dir)[o] = InForce(Want(me, dir)[o], Have(me, dir)[o])
             /\ Accepts(dir, o) => Want(me, dir)[o] = Have(me, dir)[o]
  <2>1. SideOf(me, peer, dir, o)
    BY <1>1, <1>2 DEF Sides
  <2>2. /\ Have(me, dir)[o] \in BOOLEAN /\ Want(me, dir)[o] \in BOOLEAN /\ Accepts(dir, o) \in BOOLEAN
    BY <1>1, Parts, AcceptsBoolean
  <2> QED BY <1>1, <2>1, <2>2, SideQuiet DEF SideOf
<1>3. /\ Accepts("do", o) = (o \in AcceptWill) /\ (o \in AcceptDo => Accepts("will", o))
      /\ State(peer, "do") = peer.will /\ State(peer, "will") = peer.do
      /\ Have(me, "do") = me.do /\ Have(me, "will") = me.will
      /\ Want(me, "do") = me.wantdo /\ Want(me, "will") = me.wantwill
  BY DEF Accepts, State, Have, Want
<1>4. /\ Accepts("do", o) \/ ~hasty => peer.will[o] = InForce(me.wantdo[o], me.do[o])
      /\ Accepts("do", o) => me.wantdo[o] = me.do[o]
  BY <1>1, <1>2, <1>3
<1>5. /\ Accepts("will", o) \/ ~hasty => peer.do[o] = InForce(me.wantwill[o], me.will[o])
      /\ Accepts("will", o) => me.wantwill[o] = me.will[o]
  BY <1>1, <1>2, <1>3
<1> QED BY <1>3, <1>4, <1>5

\* Whatever requests crossed and however many are open, once nothing is on its
\* way the client and its peer agree on every option (willoption, wontoption,
\* dooption, dontoption, telnet.c:316-568): for any set of options and any
\* number of requests, offers and connections.
THEOREM OptionsAgree == Spec => []Agree
<1>1. Init => Negotiation
  BY InitNegotiation
<1>2. Negotiation /\ [Next]_vars => Negotiation'
  BY NextNegotiation
<1>3. Negotiation => Agree
  BY NegotiationAgrees
<1> QED BY <1>1, <1>2, <1>3, PTL DEF Spec

=============================================================================
