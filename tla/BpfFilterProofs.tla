-------------------------- MODULE BpfFilterProofs --------------------------
(***************************************************************************)
(* What the assembled programs answer, for any call and any program that   *)
(* fits its jump distances.  The interpreter is a recursive function; it   *)
(* is well defined because every jump goes forward, and what a block of    *)
(* instructions does is shown by induction over its entries.               *)
(***************************************************************************)
EXTENDS BpfFilter, FiniteSetTheorems, SequenceTheorems, WellFoundedInduction, TLAPS

-----------------------------------------------------------------------------
(* Induction over an initial segment of the natural numbers, as a fact     *)
(* about a set of numbers.                                                 *)

\* A set of natural numbers that is not empty has a least element.
LEMMA LeastExists ==
    ASSUME NEW S \in SUBSET Nat, S # {}
    PROVE  \E i \in S : \A j \in S : i <= j
<1> DEFINE R == OpToRel(<, Nat)
<1>1. PICK i \in S : \A j \in S : ~(<<j, i>> \in R)
  <2>1. IsWellFoundedOn(R, Nat)
    BY NatLessThanWellFounded
  <2> HIDE DEF R
  <2> QED BY <2>1, WFMin
<1>2. ASSUME NEW j \in S PROVE i <= j
  <2>1. ~(j < i)
    BY <1>1 DEF OpToRel
  <2> QED BY <2>1
<1> QED BY <1>1, <1>2

\* What holds of 0 and of the successor of each number it holds of holds up to n.
LEMMA UpTo ==
    ASSUME NEW n \in Nat, NEW T, 0 \in T, \A i \in 0 .. n - 1 : i \in T => i + 1 \in T
    PROVE  0 .. n \subseteq T
<1> DEFINE S == (0 .. n) \ T
<1> SUFFICES ASSUME S # {} PROVE FALSE
  OBVIOUS
<1>1. PICK m \in S : \A k \in S : m <= k
  <2>1. S \in SUBSET Nat OBVIOUS
  <2> HIDE DEF S
  <2> QED BY <2>1, LeastExists
<1>2. m \in 0 .. n /\ m \notin T OBVIOUS
<1>3. m # 0 BY <1>2
<1>4. m - 1 \in 0 .. n - 1 BY <1>2, <1>3
<1>5. m - 1 \in T BY <1>1, <1>4
<1>6. (m - 1) + 1 \in T BY <1>4, <1>5
<1> QED BY <1>2, <1>6

-----------------------------------------------------------------------------
(* Programs and calls.                                                     *)

Ops == {"ldarch", "ldnr", "ldarg", "and", "jeq", "ret"}
Instrs == {i \in [op : Ops, k : Int, jt : 0..255, jf : 0..255] :
              i.op = "ldarg" => i.k \in 0..4}
SysCalls == [native : BOOLEAN, nr : Int, args : [0..4 -> Int]]

\* A block followed by r more instructions: no path leads past the last of them.
Fits(b, r) ==
    /\ b \in Seq(Instrs)
    /\ \A i \in 1..Len(b) :
         /\ b[i].op # "ret" => i + 1 <= Len(b) + r
         /\ b[i].op = "jeq" => /\ i + 1 + b[i].jt <= Len(b) + r
                               /\ i + 1 + b[i].jf <= Len(b) + r

\* A complete program: what the kernel's checker asks, and typed.
Runnable(p) == Len(p) > 0 /\ Fits(p, 0)

\* The part of a conjunction at one bit.
LEMMA BothType ==
    ASSUME NEW a \in Int, NEW b \in Int, NEW w \in Nat \ {0} PROVE Both(a, b, w) \in Nat
BY DEF Both

\* A conjunction is a natural number.
LEMMA BitAndType ==
    ASSUME NEW a \in Int, NEW b \in Int PROVE BitAnd(a, b) \in Nat
<1> DEFINE s == Both(a, b, 1) + Both(a, b, 2) + Both(a, b, 4) + Both(a, b, 8)
           t == s + Both(a, b, 16) + Both(a, b, 32) + Both(a, b, 64) + Both(a, b, 128)
           u == t + Both(a, b, 256) + Both(a, b, 512) + Both(a, b, 1024) + Both(a, b, 2048)
           v == u + Both(a, b, 4096) + Both(a, b, 8192) + Both(a, b, 16384) + Both(a, b, 32768)
           w == v + Both(a, b, 65536) + Both(a, b, 131072) + Both(a, b, 262144) + Both(a, b, 524288)
           x == w + Both(a, b, 1048576) + Both(a, b, 2097152) + Both(a, b, 4194304)
<1>1. s \in Nat
  <2>1. /\ Both(a, b, 1) \in Nat
        /\ Both(a, b, 2) \in Nat
        /\ Both(a, b, 4) \in Nat
        /\ Both(a, b, 8) \in Nat
    BY BothType
  <2> QED BY <2>1
<1>2. t \in Nat
  <2>1. /\ Both(a, b, 16) \in Nat
        /\ Both(a, b, 32) \in Nat
        /\ Both(a, b, 64) \in Nat
        /\ Both(a, b, 128) \in Nat
    BY BothType
  <2> HIDE DEF s
  <2> QED BY <2>1, <1>1
<1>3. u \in Nat
  <2>1. /\ Both(a, b, 256) \in Nat
        /\ Both(a, b, 512) \in Nat
        /\ Both(a, b, 1024) \in Nat
        /\ Both(a, b, 2048) \in Nat
    BY BothType
  <2> HIDE DEF t
  <2> QED BY <2>1, <1>2
<1>4. v \in Nat
  <2>1. /\ Both(a, b, 4096) \in Nat
        /\ Both(a, b, 8192) \in Nat
        /\ Both(a, b, 16384) \in Nat
        /\ Both(a, b, 32768) \in Nat
    BY BothType
  <2> HIDE DEF u
  <2> QED BY <2>1, <1>3
<1>5. w \in Nat
  <2>1. /\ Both(a, b, 65536) \in Nat
        /\ Both(a, b, 131072) \in Nat
        /\ Both(a, b, 262144) \in Nat
        /\ Both(a, b, 524288) \in Nat
    BY BothType
  <2> HIDE DEF v
  <2> QED BY <2>1, <1>4
<1>6. x \in Nat
  <2>1. /\ Both(a, b, 1048576) \in Nat
        /\ Both(a, b, 2097152) \in Nat
        /\ Both(a, b, 4194304) \in Nat
    BY BothType
  <2> HIDE DEF w
  <2> QED BY <2>1, <1>5
<1> QED BY <1>6 DEF BitAnd

\* An instruction that does not return leads forward, by one or along its jump.
LEMMA StepForward ==
    ASSUME NEW i \in Instrs, NEW d \in SysCalls, NEW pc \in Nat, NEW a \in Int,
           i.op # "ret"
    PROVE  \E n \in Nat, b \in Int :
              /\ Step(i, d, pc, a) = <<n, b>>
              /\ n > pc
              /\ i.op # "jeq" => n = pc + 1
              /\ i.op = "jeq" => n = pc + 1 + i.jt \/ n = pc + 1 + i.jf
<1>0. i.op \in Ops /\ i.k \in Int /\ i.jt \in 0..255 /\ i.jf \in 0..255
      /\ (i.op = "ldarg" => i.k \in 0..4)
  BY DEF Instrs
<1>1. d.nr \in Int /\ d.args \in [0..4 -> Int]
  BY DEF SysCalls
<1>2. CASE i.op = "ldarch"
  BY <1>2 DEF Step
<1>3. CASE i.op = "ldnr"
  BY <1>1, <1>3 DEF Step
<1>4. CASE i.op = "ldarg"
  BY <1>0, <1>1, <1>4 DEF Step
<1>5. CASE i.op = "and"
  BY <1>0, <1>5, BitAndType DEF Step
<1>6. CASE i.op = "jeq"
  BY SMTT(30), <1>0, <1>6 DEF Step
<1> QED BY <1>0, <1>2, <1>3, <1>4, <1>5, <1>6 DEF Ops

\* So the state after an instruction of a program is inside the program.
LEMMA StepInside ==
    ASSUME NEW p, Runnable(p), NEW d \in SysCalls, NEW pc \in 1..Len(p), NEW a \in Int,
           p[pc].op # "ret"
    PROVE  \E n \in (pc + 1)..Len(p), b \in Int : Step(p[pc], d, pc, a) = <<n, b>>
<1>1. p \in Seq(Instrs) /\ Len(p) \in Nat /\ p[pc] \in Instrs
  BY DEF Runnable, Fits
<1> DEFINE i == p[pc]
<1>2. /\ i.op # "ret" => pc + 1 <= Len(p) + 0
      /\ i.op = "jeq" => pc + 1 + i.jt <= Len(p) + 0 /\ pc + 1 + i.jf <= Len(p) + 0
  BY DEF Runnable, Fits
<1>3. i \in Instrs /\ i.op # "ret" /\ pc \in Nat
  BY <1>1
<1> HIDE DEF i
<1>4. PICK n \in Nat, b \in Int :
              /\ Step(i, d, pc, a) = <<n, b>>
              /\ n > pc
              /\ i.op # "jeq" => n = pc + 1
              /\ i.op = "jeq" => n = pc + 1 + i.jt \/ n = pc + 1 + i.jf
  BY <1>3, StepForward
<1>5. n \in (pc + 1)..Len(p)
  BY <1>1, <1>2, <1>3, <1>4
<1>6. Step(i, d, pc, a) = <<n, b>>
  BY <1>4
<1> QED BY <1>5, <1>6 DEF i

\* The interpreter is defined by its equation: a table that satisfies it from
\* some counter on is extended to the counter before.
LEMMA ExecDefined ==
    ASSUME NEW p, Runnable(p), NEW d \in SysCalls
    PROVE  \A pc \in 1..Len(p), a \in Int :
              Exec(p, d)[<<pc, a>>] =
                 IF p[pc].op = "ret" THEN p[pc].k
                                     ELSE Exec(p, d)[Step(p[pc], d, pc, a)]
<1> DEFINE L == Len(p)
           D == (1..L) \X Int
           Body(g, s) == IF p[s[1]].op = "ret" THEN p[s[1]].k
                                               ELSE g[Step(p[s[1]], d, s[1], s[2])]
           Ok(g) == g = [s \in D |-> Body(g, s)]
           From(g, n) == \A s \in D : s[1] > L - n => g[s] = Body(g, s)
           T == {n \in 0..L : \E g \in [D -> Int] : From(g, n)}
<1>0. L \in Nat /\ \A pc \in 1..L : p[pc] \in Instrs /\ p[pc].k \in Int
  BY DEF Runnable, Fits, Instrs
<1>1. ASSUME NEW g \in [D -> Int], NEW s \in D PROVE Body(g, s) \in Int
  <2>1. CASE p[s[1]].op = "ret"
    BY <1>0, <2>1
  <2>2. CASE p[s[1]].op # "ret"
    <3>1. s[1] \in 1..L /\ s[2] \in Int
      OBVIOUS
    <3>2. PICK n \in (s[1] + 1)..L, b \in Int : Step(p[s[1]], d, s[1], s[2]) = <<n, b>>
      BY ZenonT(60), <2>2, <3>1, StepInside
    <3>3. <<n, b>> \in D
      BY <1>0, <3>1, <3>2
    <3> QED BY <2>2, <3>2, <3>3
  <2> QED BY <2>1, <2>2
<1>2. 0 \in T
  <2> DEFINE g == [s \in D |-> 0]
  <2>1. g \in [D -> Int]
    OBVIOUS
  <2>2. From(g, 0)
    BY <1>0
  <2> HIDE DEF From, g, D
  <2> QED BY <1>0, <2>1, <2>2
<1>3. ASSUME NEW n \in 0..(L - 1), n \in T PROVE n + 1 \in T
  <2>1. PICK g \in [D -> Int] : From(g, n)
    BY <1>3
  <2> DEFINE f == [s \in D |-> IF s[1] = L - n THEN Body(g, s) ELSE g[s]]
  <2>2. f \in [D -> Int]
    <3> HIDE DEF Body, D
    <3> QED BY <1>1
  <2>3. ASSUME NEW s \in D, s[1] > L - (n + 1) PROVE f[s] = Body(f, s)
    <3>1. Body(f, s) = Body(g, s)
      <4>1. CASE p[s[1]].op = "ret"
        BY <4>1
      <4>2. CASE p[s[1]].op # "ret"
        <5>1. s[1] \in 1..L /\ s[2] \in Int
          OBVIOUS
        <5>2. PICK m \in (s[1] + 1)..L, b \in Int : Step(p[s[1]], d, s[1], s[2]) = <<m, b>>
          BY ZenonT(60), <4>2, <5>1, StepInside
        <5>3. <<m, b>> \in D /\ m # L - n
          BY SMTT(30), <1>0, <2>3, <5>1, <5>2
        <5>4. f[<<m, b>>] = g[<<m, b>>]
          <6> HIDE DEF Body, D
          <6> QED BY <5>3
        <5> QED BY <4>2, <5>2, <5>4
      <4> QED BY <4>1, <4>2
    <3>2. s[1] = L - n \/ s[1] > L - n
      BY SMTT(30), <1>0, <2>3
    <3>3. s[1] > L - n => g[s] = Body(g, s)
      BY <2>1
    <3>4. f[s] = IF s[1] = L - n THEN Body(g, s) ELSE g[s]
      <4> HIDE DEF Body, D
      <4> QED OBVIOUS
    <3> HIDE DEF Body, f
    <3> QED BY <3>1, <3>2, <3>3, <3>4
  <2>4. From(f, n + 1)
    BY <2>3
  <2> HIDE DEF From, f, D
  <2> QED BY <1>0, <2>2, <2>4
<1>4. PICK g \in [D -> Int] : From(g, L)
  <2>1. L \in T
    <3> HIDE DEF T
    <3>1. 0..L \subseteq T
      BY <1>0, <1>2, <1>3, UpTo
    <3> QED BY <1>0, <3>1
  <2> QED BY <2>1
<1>5. Ok(g)
  <2>1. \A s \in D : g[s] = Body(g, s)
    BY SMTT(30), <1>0, <1>4
  <2> HIDE DEF Body, D
  <2> QED BY <2>1
<1>6. Exec(p, d) = CHOOSE g2 : Ok(g2)
  BY DEF Exec
<1>7. Ok(Exec(p, d))
  <2> HIDE DEF Ok
  <2> QED BY <1>5, <1>6, Zenon
<1> DEFINE e == Exec(p, d)
<1>8. \A s \in D : e[s] = Body(e, s)
  <2> HIDE DEF Body, D, e
  <2> QED BY <1>7 DEF e
<1>9. ASSUME NEW pc \in 1..L, NEW a \in Int
      PROVE  e[<<pc, a>>] = IF p[pc].op = "ret" THEN p[pc].k
                                               ELSE e[Step(p[pc], d, pc, a)]
  <2>1. <<pc, a>> \in D
    OBVIOUS
  <2>2. e[<<pc, a>>] = Body(e, <<pc, a>>)
    <3> HIDE DEF Body, D, e
    <3> QED BY <1>8, <2>1
  <2> HIDE DEF e
  <2> QED BY <2>2
<1> QED BY <1>9

-----------------------------------------------------------------------------
(* One instruction.                                                        *)

\* The answer from counter pc and register a on.
From(p, d, pc, a) == Exec(p, d)[<<pc, a>>]

\* One instruction: an answer, or the state it leads to.
LEMMA OneStep ==
    ASSUME NEW p, Runnable(p), NEW d \in SysCalls, NEW pc \in 1..Len(p), NEW a \in Int
    PROVE  /\ p[pc].op = "ret" => From(p, d, pc, a) = p[pc].k
           /\ p[pc].op # "ret" =>
                From(p, d, pc, a) = Exec(p, d)[Step(p[pc], d, pc, a)]
<1>1. Exec(p, d)[<<pc, a>>] =
         IF p[pc].op = "ret" THEN p[pc].k ELSE Exec(p, d)[Step(p[pc], d, pc, a)]
  BY ExecDefined
<1> HIDE DEF Exec
<1> QED BY <1>1 DEF From

\* An answer ends the run.
LEMMA DoRet ==
    ASSUME NEW p, Runnable(p), NEW d \in SysCalls, NEW pc \in 1..Len(p), NEW a \in Int,
           NEW k, p[pc] = Insn("ret", k, 0, 0)
    PROVE  From(p, d, pc, a) = k
<1>1. p[pc].op = "ret" /\ p[pc].k = k
  BY DEF Insn
<1> QED BY <1>1, OneStep

\* Loading the architecture.
LEMMA DoArch ==
    ASSUME NEW p, Runnable(p), NEW d \in SysCalls, NEW pc \in 1..Len(p), NEW a \in Int,
           p[pc] = LD_ARCH
    PROVE  From(p, d, pc, a) = From(p, d, pc + 1, IF d.native THEN 1 ELSE 0)
<1>1. p[pc].op = "ldarch"
  BY DEF LD_ARCH, Insn
<1>2. Step(p[pc], d, pc, a) = <<pc + 1, IF d.native THEN 1 ELSE 0>>
  BY <1>1 DEF Step
<1> QED BY <1>1, <1>2, OneStep DEF From

\* Loading the number of the call.
LEMMA DoNr ==
    ASSUME NEW p, Runnable(p), NEW d \in SysCalls, NEW pc \in 1..Len(p), NEW a \in Int,
           p[pc] = LD_NR
    PROVE  From(p, d, pc, a) = From(p, d, pc + 1, d.nr)
<1>1. p[pc].op = "ldnr"
  BY DEF LD_NR, Insn
<1>2. Step(p[pc], d, pc, a) = <<pc + 1, d.nr>>
  BY <1>1 DEF Step
<1> QED BY <1>1, <1>2, OneStep DEF From

\* Loading an argument.
LEMMA DoArg ==
    ASSUME NEW p, Runnable(p), NEW d \in SysCalls, NEW pc \in 1..Len(p), NEW a \in Int,
           NEW n, p[pc] = LD_ARG(n)
    PROVE  From(p, d, pc, a) = From(p, d, pc + 1, d.args[n])
<1>1. p[pc].op = "ldarg" /\ p[pc].k = n
  BY DEF LD_ARG, Insn
<1>2. Step(p[pc], d, pc, a) = <<pc + 1, d.args[n]>>
  BY <1>1 DEF Step
<1> QED BY <1>1, <1>2, OneStep DEF From

\* Masking the register.
LEMMA DoAnd ==
    ASSUME NEW p, Runnable(p), NEW d \in SysCalls, NEW pc \in 1..Len(p), NEW a \in Int,
           NEW v, p[pc] = E_AND(v)
    PROVE  From(p, d, pc, a) = From(p, d, pc + 1, BitAnd(a, v))
<1>1. p[pc].op = "and" /\ p[pc].k = v
  BY DEF E_AND, Insn
<1>2. Step(p[pc], d, pc, a) = <<pc + 1, BitAnd(a, v)>>
  BY <1>1 DEF Step
<1> QED BY <1>1, <1>2, OneStep DEF From

\* The two ways of a jump.
LEMMA DoJeq ==
    ASSUME NEW p, Runnable(p), NEW d \in SysCalls, NEW pc \in 1..Len(p), NEW a \in Int,
           p[pc].op = "jeq"
    PROVE  /\ a = p[pc].k => From(p, d, pc, a) = From(p, d, pc + 1 + p[pc].jt, a)
           /\ a # p[pc].k => From(p, d, pc, a) = From(p, d, pc + 1 + p[pc].jf, a)
<1>1. Step(p[pc], d, pc, a) =
         <<IF a = p[pc].k THEN pc + 1 + p[pc].jt ELSE pc + 1 + p[pc].jf, a>>
  BY DEF Step
<1> QED BY <1>1, OneStep DEF From

\* The emitted instructions are instructions.
LEMMA InsnTypes ==
    /\ LD_ARCH \in Instrs /\ LD_NR \in Instrs
    /\ RET_ALLOW \in Instrs /\ RET_EPERM \in Instrs /\ RET_KILL \in Instrs
    /\ \A n \in 0..4 : LD_ARG(n) \in Instrs
    /\ \A v \in Int : E_AND(v) \in Instrs
    /\ \A v, t, f \in Int : E_JEQ(v, t, f) \in Instrs
<1>1. \A op \in Ops, k, t, f \in Int :
         (op = "ldarg" => k \in 0..4) => Insn(op, k, t, f) \in Instrs
  <2> TAKE op \in Ops, k, t, f \in Int
  <2>1. t % 256 \in 0..255 /\ f % 256 \in 0..255
    OBVIOUS
  <2> QED BY <2>1 DEF Insn, Instrs
<1>2. /\ \A n \in 0..4 : LD_ARG(n) \in Instrs
      /\ \A v \in Int : E_AND(v) \in Instrs
      /\ \A v, t, f \in Int : E_JEQ(v, t, f) \in Instrs
  BY <1>1 DEF LD_ARG, E_AND, E_JEQ, Ops
<1>3. /\ LD_ARCH \in Instrs /\ LD_NR \in Instrs
      /\ RET_ALLOW \in Instrs /\ RET_EPERM \in Instrs /\ RET_KILL \in Instrs
  BY <1>1 DEF LD_ARCH, LD_NR, RET_ALLOW, RET_EPERM, RET_KILL, ALLOW, EPERM, KILL, Ops
<1> QED BY <1>2, <1>3

-----------------------------------------------------------------------------
(* Blocks of a program.                                                    *)

\* The two parts of a joined program.
LEMMA Joined ==
    ASSUME NEW x \in Seq(Instrs), NEW y \in Seq(Instrs)
    PROVE  /\ x \o y \in Seq(Instrs) /\ Len(x \o y) = Len(x) + Len(y)
           /\ Len(x) \in Nat /\ Len(y) \in Nat
           /\ \A i \in 1..Len(x) : (x \o y)[i] = x[i]
           /\ \A i \in 1..Len(y) : (x \o y)[Len(x) + i] = y[i]
BY ConcatProperties, LenProperties

\* Block b stands in p after off instructions.
At(p, off, b) ==
    /\ off \in Nat /\ off + Len(b) <= Len(p)
    /\ \A i \in 1..Len(b) : p[off + i] = b[i]

\* Two blocks in a row are each at their place.
LEMMA AtConcat ==
    ASSUME NEW p, NEW off, NEW x \in Seq(Instrs), NEW y \in Seq(Instrs),
           At(p, off, x \o y), Len(p) \in Nat
    PROVE  At(p, off, x) /\ At(p, off + Len(x), y)
<1>1. /\ Len(x) \in Nat /\ Len(y) \in Nat /\ Len(x \o y) = Len(x) + Len(y)
      /\ \A i \in 1..Len(x) : (x \o y)[i] = x[i]
      /\ \A i \in 1..Len(y) : (x \o y)[Len(x) + i] = y[i]
  BY ConcatProperties, LenProperties
<1>2. /\ off \in Nat /\ off + (Len(x) + Len(y)) <= Len(p)
      /\ \A i \in 1..(Len(x) + Len(y)) : p[off + i] = (x \o y)[i]
  BY <1>1 DEF At
<1>3. At(p, off, x)
  BY <1>1, <1>2 DEF At
<1>4. ASSUME NEW i \in 1..Len(y) PROVE p[(off + Len(x)) + i] = y[i]
  <2>1. Len(x) + i \in 1..(Len(x) + Len(y)) /\ off + (Len(x) + i) = (off + Len(x)) + i
    BY <1>1, <1>2
  <2> QED BY <1>1, <1>2, <2>1
<1>5. At(p, off + Len(x), y)
  BY <1>1, <1>2, <1>4 DEF At
<1> QED BY <1>3, <1>5

\* A program is at its own beginning.
LEMMA AtSelf ==
    ASSUME NEW p \in Seq(Instrs) PROVE At(p, 0, p)
BY DEF At

\* The fields of an instruction.
LEMMA InstrFields ==
    ASSUME NEW i \in Instrs
    PROVE  /\ i.op \in Ops /\ i.k \in Int /\ i.jt \in Int /\ i.jf \in Int
           /\ i.jt >= 0 /\ i.jf >= 0
<1>1. i.op \in Ops /\ i.k \in Int /\ i.jt \in 0..255 /\ i.jf \in 0..255
  BY DEF Instrs
<1> QED BY <1>1

\* Jumps of a joined block stay inside when those of its parts do.
LEMMA FitsConcat ==
    ASSUME NEW x, NEW y, NEW r \in Nat, Fits(x, Len(y) + r), Fits(y, r)
    PROVE  Fits(x \o y, r)
<1>0. x \in Seq(Instrs) /\ y \in Seq(Instrs)
  BY DEF Fits
<1> DEFINE z == x \o y
<1>1. /\ z \in Seq(Instrs) /\ Len(x) \in Nat /\ Len(y) \in Nat
      /\ Len(z) = Len(x) + Len(y)
      /\ \A i \in 1..Len(x) : z[i] = x[i]
      /\ \A i \in 1..Len(y) : z[Len(x) + i] = y[i]
  BY <1>0, ConcatProperties, LenProperties
<1> HIDE DEF z
<1>2. ASSUME NEW i \in 1..Len(z)
      PROVE  /\ z[i].op # "ret" => i + 1 <= Len(z) + r
             /\ z[i].op = "jeq" => /\ i + 1 + z[i].jt <= Len(z) + r
                                   /\ i + 1 + z[i].jf <= Len(z) + r
  <2>1. CASE i \in 1..Len(x)
    <3>1. z[i] = x[i]
      BY <1>1, <2>1
    <3>2. /\ x[i].op # "ret" => i + 1 <= Len(x) + (Len(y) + r)
          /\ x[i].op = "jeq" => /\ i + 1 + x[i].jt <= Len(x) + (Len(y) + r)
                                /\ i + 1 + x[i].jf <= Len(x) + (Len(y) + r)
      BY <2>1 DEF Fits
    <3>3. Len(x) + (Len(y) + r) = Len(z) + r
      BY <1>1
    <3> QED BY <3>1, <3>2, <3>3
  <2>2. CASE i \notin 1..Len(x)
    <3> DEFINE j == i - Len(x)
    <3>1. j \in 1..Len(y) /\ i = Len(x) + j
      BY <1>1, <2>2
    <3>2. z[i] = y[j]
      BY <1>1, <3>1
    <3>3. y[j] \in Instrs
      BY <1>0, <3>1
    <3>4. y[j].jt \in Int /\ y[j].jf \in Int
      BY <3>3, InstrFields
    <3>5. /\ y[j].op # "ret" => j + 1 <= Len(y) + r
          /\ y[j].op = "jeq" => /\ j + 1 + y[j].jt <= Len(y) + r
                                /\ j + 1 + y[j].jf <= Len(y) + r
      BY <3>1 DEF Fits
    <3> DEFINE t == y[j].jt
               f == y[j].jf
               isj == y[j].op = "jeq"
               isr == y[j].op = "ret"
    <3>6. Len(z) + r = Len(x) + Len(y) + r /\ Len(x) \in Nat /\ Len(y) \in Nat
      BY <1>1
    <3>7. /\ i + 1 <= Len(z) + r \/ isr
          /\ isj => i + 1 + t <= Len(z) + r /\ i + 1 + f <= Len(z) + r
      <4>1. /\ isr \/ j + 1 <= Len(y) + r
            /\ isj => j + 1 + t <= Len(y) + r /\ j + 1 + f <= Len(y) + r
            /\ t \in Int /\ f \in Int
        BY <3>4, <3>5
      <4>2. j \in Int /\ i = Len(x) + j
        BY <1>1, <3>1
      <4> HIDE DEF j, t, f, isj, isr
      <4> QED BY <3>6, <4>1, <4>2
    <3> QED BY <3>2, <3>7
  <2> QED BY <2>1, <2>2
<1>3. Fits(z, r)
  BY <1>1, <1>2 DEF Fits
<1> QED BY <1>3 DEF z

\* A block fits wherever there is more room behind it.
LEMMA FitsMore ==
    ASSUME NEW b, NEW r \in Nat, NEW q \in Nat, r <= q, Fits(b, r)
    PROVE  Fits(b, q)
<1>0. b \in Seq(Instrs) /\ Len(b) \in Nat
  BY DEF Fits
<1>1. ASSUME NEW i \in 1..Len(b)
      PROVE  /\ b[i].op # "ret" => i + 1 <= Len(b) + q
             /\ b[i].op = "jeq" => /\ i + 1 + b[i].jt <= Len(b) + q
                                   /\ i + 1 + b[i].jf <= Len(b) + q
  <2>1. b[i] \in Instrs
    BY <1>0
  <2>2. b[i].jt \in Int /\ b[i].jf \in Int
    BY <2>1, InstrFields
  <2>3. /\ b[i].op # "ret" => i + 1 <= Len(b) + r
        /\ b[i].op = "jeq" => /\ i + 1 + b[i].jt <= Len(b) + r
                              /\ i + 1 + b[i].jf <= Len(b) + r
    BY DEF Fits
  <2> QED BY <1>0, <2>2, <2>3
<1> QED BY <1>0, <1>1 DEF Fits

-----------------------------------------------------------------------------
(* DENY(X) for every X of a sequence.                                      *)

\* A list of DENY is two instructions per call.
LEMMA DenyEachShape ==
    ASSUME NEW s \in Seq(Int)
    PROVE  /\ DenyEach(s) \in Seq(Instrs) /\ Len(DenyEach(s)) = 2 * Len(s)
           /\ \A i \in 1..Len(s) : /\ DenyEach(s)[2 * i - 1] = E_JEQ(s[i], 0, 1)
                                   /\ DenyEach(s)[2 * i] = RET_EPERM
<1> DEFINE n == Len(s)
           F(i) == IF i % 2 = 1 THEN E_JEQ(s[(i + 1) \div 2], 0, 1) ELSE RET_EPERM
           m == 2 * n
<1>0. n \in Nat /\ \A i \in 1..n : s[i] \in Int
  OBVIOUS
<1>1. DenyEach(s) = [i \in 1..m |-> F(i)]
  BY DEF DenyEach
<1>2. m \in Nat
  BY <1>0
<1>3. ASSUME NEW i \in 1..m PROVE F(i) \in Instrs
  <2>1. CASE i % 2 = 1
    <3>1. (i + 1) \div 2 \in 1..n
      BY <1>0, <2>1
    <3>2. s[(i + 1) \div 2] \in Int
      BY <1>0, <3>1
    <3>3. F(i) = E_JEQ(s[(i + 1) \div 2], 0, 1)
      BY <2>1
    <3> QED BY <3>2, <3>3, InsnTypes
  <2>2. CASE i % 2 # 1
    BY <2>2, InsnTypes
  <2> QED BY <2>1, <2>2
<1>4. DenyEach(s) \in Seq(Instrs) /\ Len(DenyEach(s)) = m
  <2> HIDE DEF F, m
  <2> QED BY <1>1, <1>2, <1>3
<1>5. ASSUME NEW i \in 1..n
      PROVE  /\ DenyEach(s)[2 * i - 1] = E_JEQ(s[i], 0, 1)
             /\ DenyEach(s)[2 * i] = RET_EPERM
  <2>1. /\ 2 * i - 1 \in 1..m /\ 2 * i \in 1..m /\ (2 * i - 1) % 2 = 1
        /\ (2 * i) % 2 = 0 /\ ((2 * i - 1) + 1) \div 2 = i
    BY <1>0
  <2>2. F(2 * i - 1) = E_JEQ(s[i], 0, 1) /\ F(2 * i) = RET_EPERM
    BY <2>1
  <2> HIDE DEF F, m
  <2> QED BY <1>1, <2>1, <2>2
<1> QED BY <1>4, <1>5

\* Its jumps stay inside.
LEMMA DenyEachFits ==
    ASSUME NEW s \in Seq(Int), NEW r \in Nat \ {0}
    PROVE  Fits(DenyEach(s), r)
<1> DEFINE b == DenyEach(s)
           n == Len(s)
<1>1. /\ b \in Seq(Instrs) /\ Len(b) = 2 * n /\ n \in Nat
      /\ \A i \in 1..n : b[2 * i - 1] = E_JEQ(s[i], 0, 1) /\ b[2 * i] = RET_EPERM
  BY DenyEachShape
<1> HIDE DEF b, n
<1>2. ASSUME NEW i \in 1..Len(b)
      PROVE  /\ b[i].op # "ret" => i + 1 <= Len(b) + r
             /\ b[i].op = "jeq" => /\ i + 1 + b[i].jt <= Len(b) + r
                                   /\ i + 1 + b[i].jf <= Len(b) + r
  <2>1. CASE i % 2 = 1
    <3>1. (i + 1) \div 2 \in 1..n /\ 2 * ((i + 1) \div 2) - 1 = i
      BY <1>1, <2>1
    <3>2. b[i] = E_JEQ(s[(i + 1) \div 2], 0, 1)
      BY <1>1, <3>1
    <3>3. b[i].jt = 0 /\ b[i].jf = 1
      BY <3>2 DEF E_JEQ, Insn
    <3>4. i + 1 <= Len(b)
      BY <1>1, <2>1
    <3> QED BY <1>1, <3>3, <3>4
  <2>2. CASE i % 2 = 0
    <3>1. i \div 2 \in 1..n /\ 2 * (i \div 2) = i
      BY <1>1, <2>2
    <3>2. b[i] = RET_EPERM
      BY <1>1, <3>1
    <3>3. b[i].op = "ret"
      BY <3>2 DEF RET_EPERM, Insn
    <3> QED BY <3>3
  <2> QED BY <1>1, <2>1, <2>2
<1>3. Fits(b, r)
  BY <1>1, <1>2 DEF Fits
<1> QED BY <1>3 DEF b

\* A listed number is refused; any other gets past the block, unchanged.
LEMMA DoDenyEach ==
    ASSUME NEW p, Runnable(p), NEW d \in SysCalls, NEW off \in Nat, NEW s \in Seq(Int),
           At(p, off, DenyEach(s)), NEW a \in Int
    PROVE  From(p, d, off + 1, a) =
              IF a \in Range(s) THEN EPERM ELSE From(p, d, off + 2 * Len(s) + 1, a)
<1> DEFINE n == Len(s)
           E(j) == From(p, d, off + 2 * j + 1, a)
           T == {j \in 0..n : (\A i \in 1..j : s[i] # a) => E(0) = E(j)}
<1>0. n \in Nat /\ off \in Nat /\ off + 2 * n <= Len(p) /\ Len(p) \in Nat
  BY DenyEachShape DEF At, Runnable, Fits
<1>1. ASSUME NEW i \in 1..n
      PROVE  /\ off + 2 * i - 1 \in 1..Len(p) /\ off + 2 * i \in 1..Len(p)
             /\ p[off + 2 * i - 1] = E_JEQ(s[i], 0, 1) /\ p[off + 2 * i] = RET_EPERM
  <2>1. 2 * i - 1 \in 1..Len(DenyEach(s)) /\ 2 * i \in 1..Len(DenyEach(s))
    BY <1>0, DenyEachShape
  <2>2. p[off + (2 * i - 1)] = DenyEach(s)[2 * i - 1]
        /\ p[off + 2 * i] = DenyEach(s)[2 * i]
    BY <2>1 DEF At
  <2>3. off + (2 * i - 1) = off + 2 * i - 1
    BY <1>0
  <2>4. DenyEach(s)[2 * i - 1] = E_JEQ(s[i], 0, 1) /\ DenyEach(s)[2 * i] = RET_EPERM
    BY DenyEachShape
  <2>5. off + 2 * i - 1 \in 1..Len(p) /\ off + 2 * i \in 1..Len(p)
    BY <1>0
  <2>6. p[off + 2 * i - 1] = E_JEQ(s[i], 0, 1)
    BY <2>2, <2>3, <2>4
  <2>7. p[off + 2 * i] = RET_EPERM
    BY <2>2, <2>4
  <2> QED BY <2>5, <2>6, <2>7
<1>2. ASSUME NEW i \in 1..n
      PROVE  From(p, d, off + 2 * i - 1, a) = IF a = s[i] THEN EPERM ELSE E(i)
  <2> DEFINE pc == off + 2 * i - 1
  <2>1. pc \in 1..Len(p) /\ p[pc] = E_JEQ(s[i], 0, 1)
    BY <1>1
  <2>2. p[pc].op = "jeq" /\ p[pc].k = s[i] /\ p[pc].jt = 0 /\ p[pc].jf = 1
    <3> HIDE DEF pc
    <3> QED BY <2>1 DEF E_JEQ, Insn
  <2>3. /\ a = s[i] => From(p, d, pc, a) = From(p, d, pc + 1, a)
        /\ a # s[i] => From(p, d, pc, a) = From(p, d, pc + 1 + 1, a)
    <3> HIDE DEF pc
    <3> QED BY SMTT(30), <2>1, <2>2, DoJeq
  <2>4. pc + 1 = off + 2 * i /\ pc + 1 + 1 = off + 2 * i + 1
    BY <1>0
  <2>5. From(p, d, off + 2 * i, a) = EPERM
    BY <1>1, DoRet DEF RET_EPERM
  <2> QED BY <2>3, <2>4, <2>5
<1>3. 0 \in T
  BY <1>0
<1>4. ASSUME NEW j \in 0..(n - 1), j \in T PROVE j + 1 \in T
  <2> SUFFICES ASSUME \A i \in 1..(j + 1) : s[i] # a PROVE E(0) = E(j + 1)
    BY <1>0
  <2>1. E(0) = E(j)
    BY <1>4
  <2>2. j + 1 \in 1..n /\ off + 2 * (j + 1) - 1 = off + 2 * j + 1
    BY <1>0
  <2>3. s[j + 1] # a
    BY <2>2
  <2>4. E(j) = IF a = s[j + 1] THEN EPERM ELSE E(j + 1)
    BY <1>2, <2>2
  <2> HIDE DEF E
  <2> QED BY <2>1, <2>3, <2>4
<1>5. \A j \in 0..n : (\A i \in 1..j : s[i] # a) => E(0) = E(j)
  <2>1. 0..n \subseteq T
    <3> HIDE DEF T
    <3> QED BY <1>0, <1>3, <1>4, UpTo
  <2> QED BY <2>1
<1>6. E(0) = From(p, d, off + 1, a)
  BY <1>0
<1>7. CASE a \in Range(s)
  <2> DEFINE S == {i \in 1..n : s[i] = a}
  <2>1. S # {}
    BY <1>7 DEF Range
  <2>2. PICK i \in S : \A j \in S : i <= j
    <3>1. S \in SUBSET Nat
      OBVIOUS
    <3> HIDE DEF S
    <3> QED BY <2>1, <3>1, LeastExists
  <2>3. \A j \in 1..(i - 1) : s[j] # a
    BY <2>2
  <2>4. E(0) = E(i - 1)
    <3>1. i - 1 \in 0..n
      OBVIOUS
    <3> HIDE DEF E
    <3> QED BY <1>5, <2>3, <3>1
  <2>5. off + 2 * (i - 1) + 1 = off + 2 * i - 1
    BY <1>0
  <2>6. E(i - 1) = EPERM
    BY <1>2, <2>2, <2>5
  <2> QED BY <1>6, <1>7, <2>4, <2>6
<1>8. CASE a \notin Range(s)
  <2>1. \A i \in 1..n : s[i] # a
    BY <1>8 DEF Range
  <2>2. E(0) = E(n)
    <3> HIDE DEF E
    <3> QED BY <1>0, <1>5, <2>1
  <2> QED BY <1>6, <1>8, <2>2
<1> QED BY <1>7, <1>8

\* Register a is refused if it is in s and goes on from next if it is not.
Denies(p, d, off, next, s, a) ==
    /\ a \in Range(s) => From(p, d, off + 1, a) = EPERM
    /\ a \notin Range(s) => From(p, d, off + 1, a) = From(p, d, next + 1, a)

\* It refuses the calls of the list and goes on with the others.
LEMMA DoDenyList ==
    ASSUME NEW p, Runnable(p), NEW d \in SysCalls, NEW off \in Nat, NEW s \in Seq(Int),
           NEW next \in Nat, next = off + 2 * Len(s),
           At(p, off, DenyEach(s)), NEW a \in Int
    PROVE  Denies(p, d, off, next, s, a)
<1>1. From(p, d, off + 1, a) =
         IF a \in Range(s) THEN EPERM ELSE From(p, d, off + 2 * Len(s) + 1, a)
  BY DoDenyEach
<1>2. off + 2 * Len(s) + 1 = next + 1
  OBVIOUS
<1> QED BY <1>1, <1>2 DEF Denies

-----------------------------------------------------------------------------
(* The read-only open of casper mode.                                      *)

WriteFlags == O_CREAT + O_TRUNC + O_APPEND + O_TMPFILE

\* The nine instructions of emit_openflags_check.
LEMMA OpenflagsShape ==
    ASSUME NEW nr \in Int, NEW argn \in 0..4
    PROVE  LET b == emit_openflags_check(nr, argn) IN
           /\ b \in Seq(Instrs) /\ Len(b) = 9
           /\ b[1] = E_JEQ(nr, 0, 8) /\ b[2] = LD_ARG(argn) /\ b[3] = E_AND(O_ACCMODE)
           /\ b[4] = E_JEQ(O_RDONLY, 0, 3) /\ b[5] = LD_ARG(argn)
           /\ b[6] = E_AND(WriteFlags)
           /\ b[7] = E_JEQ(0, 1, 0) /\ b[8] = RET_EPERM /\ b[9] = RET_ALLOW
<1>1. O_ACCMODE \in Int /\ O_RDONLY \in Int /\ WriteFlags \in Int
  BY DEF O_ACCMODE, O_RDONLY, WriteFlags, O_CREAT, O_TRUNC, O_APPEND, O_TMPFILE, O_DIRECTORY
<1> DEFINE i1 == E_JEQ(nr, 0, 8)
           i2 == LD_ARG(argn)
           i3 == E_AND(O_ACCMODE)
           i4 == E_JEQ(O_RDONLY, 0, 3)
           i6 == E_AND(WriteFlags)
           i7 == E_JEQ(0, 1, 0)
<1>2. i1 \in Instrs /\ i2 \in Instrs /\ i3 \in Instrs /\ i4 \in Instrs
      /\ i6 \in Instrs /\ i7 \in Instrs /\ RET_EPERM \in Instrs /\ RET_ALLOW \in Instrs
  BY <1>1, InsnTypes
<1>3. emit_openflags_check(nr, argn) =
         <<i1, i2, i3, i4, i2, i6, i7, RET_EPERM, RET_ALLOW>>
  BY DEF emit_openflags_check, WriteFlags
<1> HIDE DEF i1, i2, i3, i4, i6, i7
<1>4. LET b == emit_openflags_check(nr, argn) IN
      /\ b \in Seq(Instrs) /\ Len(b) = 9 /\ b[1] = i1 /\ b[2] = i2 /\ b[3] = i3 /\ b[4] = i4
      /\ b[5] = i2 /\ b[6] = i6 /\ b[7] = i7 /\ b[8] = RET_EPERM /\ b[9] = RET_ALLOW
  BY <1>2, <1>3
<1> QED BY <1>4 DEF i1, i2, i3, i4, i6, i7

\* Their jumps stay inside.
LEMMA OpenflagsFits ==
    ASSUME NEW nr \in Int, NEW argn \in 0..4, NEW r \in Nat \ {0}
    PROVE  Fits(emit_openflags_check(nr, argn), r)
<1> DEFINE b == emit_openflags_check(nr, argn)
<1>1. /\ b \in Seq(Instrs) /\ Len(b) = 9
      /\ b[1] = E_JEQ(nr, 0, 8) /\ b[2] = LD_ARG(argn) /\ b[3] = E_AND(O_ACCMODE)
      /\ b[4] = E_JEQ(O_RDONLY, 0, 3) /\ b[5] = LD_ARG(argn) /\ b[6] = E_AND(WriteFlags)
      /\ b[7] = E_JEQ(0, 1, 0) /\ b[8] = RET_EPERM /\ b[9] = RET_ALLOW
  BY OpenflagsShape
<1> HIDE DEF b
<1>2. /\ b[1].jt = 0 /\ b[1].jf = 8 /\ b[4].jt = 0 /\ b[4].jf = 3
      /\ b[7].jt = 1 /\ b[7].jf = 0
  BY <1>1 DEF E_JEQ, Insn
<1>3. /\ b[2].op # "jeq" /\ b[3].op # "jeq" /\ b[5].op # "jeq" /\ b[6].op # "jeq"
      /\ b[8].op = "ret" /\ b[9].op = "ret"
  BY <1>1 DEF LD_ARG, E_AND, RET_EPERM, RET_ALLOW, Insn
<1>4. ASSUME NEW i \in 1..Len(b)
      PROVE  /\ b[i].op # "ret" => i + 1 <= Len(b) + r
             /\ b[i].op = "jeq" => /\ i + 1 + b[i].jt <= Len(b) + r
                                   /\ i + 1 + b[i].jf <= Len(b) + r
  <2>1. i \in 1..9
    BY <1>1
  <2>2. CASE i = 1
    BY <1>1, <1>2, <2>2
  <2>3. CASE i = 4
    BY <1>1, <1>2, <2>3
  <2>4. CASE i = 7
    BY <1>1, <1>2, <2>4
  <2>5. CASE i \in {2, 3, 5, 6, 8, 9}
    BY <1>1, <1>3, <2>5
  <2> QED BY <2>1, <2>2, <2>3, <2>4, <2>5
<1>5. Fits(b, r)
  BY <1>1, <1>4 DEF Fits
<1> QED BY <1>5 DEF b

\* The call the block is for is refused unless its flags only read; any other gets
\* past the block.
LEMMA DoOpenflags ==
    ASSUME NEW p, Runnable(p), NEW d \in SysCalls, NEW off \in Nat, NEW nr \in Int,
           NEW argn \in 0..4, At(p, off, emit_openflags_check(nr, argn)), NEW a \in Int
    PROVE  /\ a # nr => From(p, d, off + 1, a) = From(p, d, off + 10, a)
           /\ a = nr => From(p, d, off + 1, a) =
                          IF /\ BitAnd(d.args[argn], O_ACCMODE) = 0
                             /\ BitAnd(d.args[argn], WriteFlags) = 0
                            THEN ALLOW ELSE EPERM
<1> DEFINE b == emit_openflags_check(nr, argn)
           v == d.args[argn]
<1>1. /\ Len(b) = 9
      /\ b[1] = E_JEQ(nr, 0, 8) /\ b[2] = LD_ARG(argn) /\ b[3] = E_AND(O_ACCMODE)
      /\ b[4] = E_JEQ(O_RDONLY, 0, 3) /\ b[5] = LD_ARG(argn) /\ b[6] = E_AND(WriteFlags)
      /\ b[7] = E_JEQ(0, 1, 0) /\ b[8] = RET_EPERM /\ b[9] = RET_ALLOW
  BY OpenflagsShape
<1>2. At(p, off, b) /\ Len(p) \in Nat
  BY DEF Runnable, Fits
<1>3. v \in Int /\ O_ACCMODE \in Int /\ WriteFlags \in Int
  BY DEF SysCalls, O_ACCMODE, WriteFlags, O_CREAT, O_TRUNC, O_APPEND, O_TMPFILE, O_DIRECTORY
<1> HIDE DEF b, v
<1>4. BitAnd(v, O_ACCMODE) \in Int /\ BitAnd(v, WriteFlags) \in Int
  <2>1. BitAnd(v, O_ACCMODE) \in Nat /\ BitAnd(v, WriteFlags) \in Nat
    BY <1>3, BitAndType
  <2> QED BY <2>1
<1>5. \A i \in 1..9 : p[off + i] = b[i]
  BY <1>1, <1>2 DEF At
<1>6. \A i \in 1..9 : off + i \in 1..Len(p)
  BY <1>1, <1>2 DEF At
<1>7. From(p, d, off + 9, BitAnd(v, WriteFlags)) = ALLOW
  <2>1. p[off + 9] = Insn("ret", ALLOW, 0, 0)
    BY <1>1, <1>5 DEF RET_ALLOW
  <2> QED BY <1>4, <1>6, <2>1, DoRet
<1>8. ASSUME NEW x \in Int PROVE From(p, d, off + 8, x) = EPERM
  <2>1. p[off + 8] = Insn("ret", EPERM, 0, 0)
    BY <1>1, <1>5 DEF RET_EPERM
  <2> QED BY <1>6, <2>1, DoRet
<1>9. From(p, d, off + 7, BitAnd(v, WriteFlags)) =
        IF BitAnd(v, WriteFlags) = 0 THEN ALLOW ELSE EPERM
  <2> DEFINE pc == off + 7
             x == BitAnd(v, WriteFlags)
  <2>1. p[pc].op = "jeq" /\ p[pc].k = 0 /\ p[pc].jt = 1 /\ p[pc].jf = 0
    BY <1>1, <1>5 DEF E_JEQ, Insn
  <2>2. pc \in 1..Len(p) /\ x \in Int
    BY <1>4, <1>6
  <2>3. pc + 1 = off + 8 /\ pc + 1 + 1 = off + 9
    OBVIOUS
  <2>4. /\ x = 0 => From(p, d, pc, x) = From(p, d, pc + 1 + 1, x)
        /\ x # 0 => From(p, d, pc, x) = From(p, d, pc + 1, x)
    <3> HIDE DEF pc, x
    <3> QED BY <2>1, <2>2, DoJeq
  <2> QED BY <1>4, <1>7, <1>8, <2>3, <2>4
<1>10. From(p, d, off + 5, BitAnd(v, O_ACCMODE)) = From(p, d, off + 7, BitAnd(v, WriteFlags))
  <2> DEFINE l == off + 5
             m == off + 6
  <2>1. l \in 1..Len(p) /\ m \in 1..Len(p)
    BY <1>6
  <2>2. p[l] = LD_ARG(argn) /\ p[m] = E_AND(WriteFlags)
    BY <1>1, <1>5
  <2>3. From(p, d, l, BitAnd(v, O_ACCMODE)) = From(p, d, l + 1, v)
    <3> HIDE DEF l, m
    <3> QED BY <1>4, <2>1, <2>2, DoArg DEF v
  <2>4. From(p, d, m, v) = From(p, d, m + 1, BitAnd(v, WriteFlags))
    <3> HIDE DEF l, m
    <3> QED BY <1>3, <2>1, <2>2, DoAnd
  <2>5. l + 1 = m /\ m + 1 = off + 7
    OBVIOUS
  <2> QED BY <2>3, <2>4, <2>5
<1>11. From(p, d, off + 2, a) = From(p, d, off + 4, BitAnd(v, O_ACCMODE))
  <2> DEFINE l == off + 2
             m == off + 3
  <2>1. l \in 1..Len(p) /\ m \in 1..Len(p)
    BY <1>6
  <2>2. p[l] = LD_ARG(argn) /\ p[m] = E_AND(O_ACCMODE)
    BY <1>1, <1>5
  <2>3. From(p, d, l, a) = From(p, d, l + 1, v)
    <3> HIDE DEF l, m
    <3> QED BY <1>4, <2>1, <2>2, DoArg DEF v
  <2>4. From(p, d, m, v) = From(p, d, m + 1, BitAnd(v, O_ACCMODE))
    <3> HIDE DEF l, m
    <3> QED BY <1>3, <2>1, <2>2, DoAnd
  <2>5. l + 1 = m /\ m + 1 = off + 4
    OBVIOUS
  <2> QED BY <2>3, <2>4, <2>5
<1>12. From(p, d, off + 4, BitAnd(v, O_ACCMODE)) =
         IF BitAnd(v, O_ACCMODE) = 0 THEN From(p, d, off + 5, BitAnd(v, O_ACCMODE)) ELSE EPERM
  <2> DEFINE pc == off + 4
             x == BitAnd(v, O_ACCMODE)
  <2>1. p[pc].op = "jeq" /\ p[pc].k = 0 /\ p[pc].jt = 0 /\ p[pc].jf = 3
    BY <1>1, <1>5 DEF E_JEQ, Insn, O_RDONLY
  <2>2. pc \in 1..Len(p) /\ x \in Int
    BY <1>4, <1>6
  <2>3. pc + 1 = off + 5 /\ pc + 1 + 3 = off + 8
    OBVIOUS
  <2>4. /\ x = 0 => From(p, d, pc, x) = From(p, d, pc + 1, x)
        /\ x # 0 => From(p, d, pc, x) = From(p, d, pc + 1 + 3, x)
    <3> HIDE DEF pc, x
    <3> QED BY SMTT(30), <2>1, <2>2, DoJeq
  <2> QED BY <1>4, <1>8, <2>3, <2>4
<1>13. /\ a = nr => From(p, d, off + 1, a) = From(p, d, off + 2, a)
       /\ a # nr => From(p, d, off + 1, a) = From(p, d, off + 10, a)
  <2> DEFINE pc == off + 1
  <2>1. p[pc].op = "jeq" /\ p[pc].k = nr /\ p[pc].jt = 0 /\ p[pc].jf = 8
    BY <1>1, <1>5 DEF E_JEQ, Insn
  <2>2. pc \in 1..Len(p)
    BY <1>6
  <2>3. pc + 1 = off + 2 /\ pc + 1 + 8 = off + 10
    OBVIOUS
  <2>4. /\ a = nr => From(p, d, pc, a) = From(p, d, pc + 1, a)
        /\ a # nr => From(p, d, pc, a) = From(p, d, pc + 1 + 8, a)
    <3> HIDE DEF pc
    <3> QED BY <2>1, <2>2, DoJeq
  <2> QED BY <2>3, <2>4
<1> QED
  <2> HIDE DEF v
  <2>1. a = nr => From(p, d, off + 1, a) =
                     IF BitAnd(v, O_ACCMODE) = 0 /\ BitAnd(v, WriteFlags) = 0
                       THEN ALLOW ELSE EPERM
    BY <1>9, <1>10, <1>11, <1>12, <1>13
  <2> QED BY <1>13, <2>1 DEF v

-----------------------------------------------------------------------------
(* The *at calls of full mode.                                             *)

\* The instructions of emit_lookup_check.
LEMMA LookupShape ==
    ASSUME NEW nr \in Int, NEW lookup \in Seq(Int)
    PROVE  LET b == emit_lookup_check(nr, lookup)
               n == Len(lookup)
           IN  /\ b \in Seq(Instrs) /\ Len(b) = n + 4
               /\ b[1] = E_JEQ(nr, 0, n + 3) /\ b[2] = LD_ARG(0)
               /\ \A j \in 1..n : b[2 + j] = E_JEQ(lookup[j], n - (j - 1), 0)
               /\ b[n + 3] = RET_EPERM /\ b[n + 4] = RET_ALLOW
<1> DEFINE n == Len(lookup)
           G(j) == E_JEQ(lookup[j], n - (j - 1), 0)
           x == <<E_JEQ(nr, 0, n + 3), LD_ARG(0)>>
           y == [j \in 1..n |-> G(j)]
           z == <<RET_EPERM, RET_ALLOW>>
<1>0. n \in Nat /\ \A j \in 1..n : lookup[j] \in Int
  OBVIOUS
<1>1. \A j \in 1..n : G(j) \in Instrs
  BY <1>0, InsnTypes
<1>2. y \in Seq(Instrs) /\ Len(y) = n /\ \A j \in 1..n : y[j] = G(j)
  <2> HIDE DEF G, n
  <2> QED BY <1>0, <1>1
<1>3. /\ x \in Seq(Instrs) /\ Len(x) = 2
      /\ x[1] = E_JEQ(nr, 0, n + 3) /\ x[2] = LD_ARG(0)
  <2>1. E_JEQ(nr, 0, n + 3) \in Instrs /\ LD_ARG(0) \in Instrs
    BY <1>0, InsnTypes
  <2> QED BY <2>1
<1>4. z \in Seq(Instrs) /\ Len(z) = 2 /\ z[1] = RET_EPERM /\ z[2] = RET_ALLOW
  BY InsnTypes
<1>5. emit_lookup_check(nr, lookup) = (x \o y) \o z
  BY DEF emit_lookup_check
<1> HIDE DEF x, y, z, G, n
<1> DEFINE w == x \o y
<1>6. /\ w \in Seq(Instrs) /\ Len(w) = n + 2
      /\ w[1] = x[1] /\ w[2] = x[2] /\ \A j \in 1..n : w[2 + j] = y[j]
  <2>1. /\ w \in Seq(Instrs) /\ Len(w) = Len(x) + Len(y)
        /\ \A i \in 1..Len(x) : w[i] = x[i]
        /\ \A i \in 1..Len(y) : w[Len(x) + i] = y[i]
    BY <1>2, <1>3, Joined
  <2> HIDE DEF w
  <2>2. Len(w) = n + 2 /\ 1 \in 1..Len(x) /\ 2 \in 1..Len(x)
    BY <1>0, <1>2, <1>3, <2>1
  <2> QED BY <1>2, <1>3, <2>1, <2>2
<1> HIDE DEF w
<1> DEFINE b == w \o z
<1>7. /\ b \in Seq(Instrs) /\ Len(b) = n + 4
      /\ \A i \in 1..(n + 2) : b[i] = w[i]
      /\ b[(n + 2) + 1] = z[1] /\ b[(n + 2) + 2] = z[2]
  <2>1. /\ b \in Seq(Instrs) /\ Len(b) = Len(w) + Len(z)
        /\ \A i \in 1..Len(w) : b[i] = w[i]
        /\ \A i \in 1..Len(z) : b[Len(w) + i] = z[i]
    BY <1>4, <1>6, Joined
  <2> HIDE DEF b
  <2>2. Len(b) = n + 4 /\ 1 \in 1..Len(z) /\ 2 \in 1..Len(z)
    BY <1>0, <1>4, <1>6, <2>1
  <2> QED BY <1>6, <2>1, <2>2
<1> HIDE DEF b
<1>8. 1 \in 1..(n + 2) /\ 2 \in 1..(n + 2) /\ (n + 2) + 1 = n + 3 /\ (n + 2) + 2 = n + 4
      /\ \A j \in 1..n : 2 + j \in 1..(n + 2)
  BY <1>0
<1>9. \A j \in 1..n : b[2 + j] = G(j)
  BY <1>2, <1>6, <1>7, <1>8
<1>10. b[1] = E_JEQ(nr, 0, n + 3) /\ b[2] = LD_ARG(0)
  BY <1>3, <1>6, <1>7, <1>8
<1>11. b[n + 3] = RET_EPERM /\ b[n + 4] = RET_ALLOW
  BY <1>4, <1>7, <1>8
<1>12. emit_lookup_check(nr, lookup) = b
  BY <1>5 DEF w, b
<1> QED BY <1>7, <1>9, <1>10, <1>11, <1>12 DEF G, n

\* Their jumps stay inside while the descriptors fit an 8-bit distance.
LEMMA LookupFits ==
    ASSUME NEW nr \in Int, NEW lookup \in Seq(Int), Len(lookup) + 3 < 256,
           NEW r \in Nat \ {0}
    PROVE  Fits(emit_lookup_check(nr, lookup), r)
<1> DEFINE b == emit_lookup_check(nr, lookup)
           n == Len(lookup)
<1>1. /\ b \in Seq(Instrs) /\ Len(b) = n + 4 /\ n \in Nat /\ n + 3 < 256
      /\ b[1] = E_JEQ(nr, 0, n + 3) /\ b[2] = LD_ARG(0)
      /\ \A j \in 1..n : b[2 + j] = E_JEQ(lookup[j], n - (j - 1), 0)
      /\ b[n + 3] = RET_EPERM /\ b[n + 4] = RET_ALLOW
  BY LookupShape
<1> HIDE DEF b, n
<1>0. n \in Nat /\ n + 3 < 256
  BY <1>1
<1>2. ASSUME NEW i \in 1..Len(b)
      PROVE  /\ b[i].op # "ret" => i + 1 <= Len(b) + r
             /\ b[i].op = "jeq" => /\ i + 1 + b[i].jt <= Len(b) + r
                                   /\ i + 1 + b[i].jf <= Len(b) + r
  <2>1. CASE i = 1
    <3>1. b[i].jt = 0 /\ b[i].jf = n + 3
      <4>1. (n + 3) % 256 = n + 3 /\ 0 % 256 = 0
        BY <1>0
      <4> QED BY <1>1, <2>1, <4>1 DEF E_JEQ, Insn
    <3> QED BY <1>1, <2>1, <3>1
  <2>2. CASE i = 2
    <3>1. b[i].op = "ldarg"
      BY <1>1, <2>2 DEF LD_ARG, Insn
    <3> QED BY <1>1, <2>2, <3>1
  <2>3. CASE i \in 3..(n + 2)
    <3> DEFINE j == i - 2
    <3>1. j \in 1..n /\ 2 + j = i /\ n - (j - 1) \in 0..255 /\ n - (j - 1) = n + 3 - i
      BY <1>1, <2>3
    <3>2. b[i] = E_JEQ(lookup[j], n - (j - 1), 0)
      BY <1>1, <3>1
    <3>3. b[i].jt = n - (j - 1) /\ b[i].jf = 0
      <4> DEFINE m == n - (j - 1)
      <4>0. m \in Int /\ 0 <= m /\ m < 256
        BY <1>0, <2>3
      <4>1. m % 256 = m /\ 0 % 256 = 0
        <5> HIDE DEF m
        <5> QED BY <4>0
      <4> HIDE DEF m, j
      <4> QED BY <3>2, <4>1 DEF m, E_JEQ, Insn
    <3> HIDE DEF j
    <3>4. b[i].jt = n + 3 - i
      BY <3>1, <3>3
    <3> QED BY SMTT(30), <1>1, <2>3, <3>3, <3>4
  <2>4. CASE i = n + 3 \/ i = n + 4
    BY <1>1, <2>4 DEF RET_ALLOW, RET_EPERM, Insn
  <2> QED BY <1>1, <2>1, <2>2, <2>3, <2>4
<1>3. Fits(b, r)
  BY <1>1, <1>2 DEF Fits
<1> QED BY <1>3 DEF b

\* The call the block is for passes through a listed descriptor only; any other call
\* gets past the block.
LEMMA DoLookup ==
    ASSUME NEW p, Runnable(p), NEW d \in SysCalls, NEW off \in Nat, NEW nr \in Int,
           NEW lookup \in Seq(Int), Len(lookup) + 3 < 256,
           At(p, off, emit_lookup_check(nr, lookup)), NEW a \in Int
    PROVE  /\ a # nr => From(p, d, off + 1, a) = From(p, d, off + Len(lookup) + 5, a)
           /\ a = nr => From(p, d, off + 1, a) =
                          IF d.args[0] \in Range(lookup) THEN ALLOW ELSE EPERM
<1> DEFINE b == emit_lookup_check(nr, lookup)
           n == Len(lookup)
           v == d.args[0]
           E(j) == From(p, d, off + 2 + j + 1, v)
           T == {j \in 0..n : (\A i \in 1..j : lookup[i] # v) => E(0) = E(j)}
<1>1. /\ Len(b) = n + 4 /\ n \in Nat /\ n + 3 < 256
      /\ b[1] = E_JEQ(nr, 0, n + 3) /\ b[2] = LD_ARG(0)
      /\ \A j \in 1..n : b[2 + j] = E_JEQ(lookup[j], n - (j - 1), 0)
      /\ b[n + 3] = RET_EPERM /\ b[n + 4] = RET_ALLOW
  BY LookupShape
<1>2. At(p, off, b) /\ Len(p) \in Nat
  BY DEF Runnable, Fits
<1>3. v \in Int
  BY DEF SysCalls
<1> HIDE DEF b, v, n
<1>0. n \in Nat /\ n + 3 < 256
  BY <1>1
<1>4. \A i \in 1..(n + 4) : p[off + i] = b[i]
  BY <1>1, <1>2 DEF At
<1>5. \A i \in 1..(n + 4) : off + i \in 1..Len(p)
  BY <1>1, <1>2 DEF At
<1>6. From(p, d, off + (n + 4), v) = ALLOW
  <2>1. n + 4 \in 1..(n + 4)
    BY <1>1
  <2>2. p[off + (n + 4)] = Insn("ret", ALLOW, 0, 0) /\ off + (n + 4) \in 1..Len(p)
    BY <1>1, <1>4, <1>5, <2>1 DEF RET_ALLOW
  <2> QED BY <1>3, <2>2, DoRet
<1>7. From(p, d, off + (n + 3), v) = EPERM
  <2>1. n + 3 \in 1..(n + 4)
    BY <1>1
  <2>2. p[off + (n + 3)] = Insn("ret", EPERM, 0, 0) /\ off + (n + 3) \in 1..Len(p)
    BY <1>1, <1>4, <1>5, <2>1 DEF RET_EPERM
  <2> QED BY <1>3, <2>2, DoRet
<1>8. ASSUME NEW j \in 1..n
      PROVE  /\ v = lookup[j] => E(j - 1) = ALLOW
             /\ v # lookup[j] => E(j - 1) = E(j)
  <2> DEFINE pc == off + (2 + j)
  <2>1. 2 + j \in 1..(n + 4) /\ n - (j - 1) \in 0..255 /\ 0 \in 0..255
    BY <1>1
  <2>2. pc \in 1..Len(p) /\ p[pc] = E_JEQ(lookup[j], n - (j - 1), 0)
    BY <1>1, <1>4, <1>5, <2>1
  <2> DEFINE m == n - (j - 1)
  <2>0. m \in Int /\ 0 <= m /\ m < 256
    BY <1>0
  <2>3. p[pc].op = "jeq" /\ p[pc].k = lookup[j] /\ p[pc].jt = m /\ p[pc].jf = 0
    <3>1. m % 256 = m /\ 0 % 256 = 0
      <4> HIDE DEF m
      <4> QED BY <2>0
    <3>2. p[pc] = E_JEQ(lookup[j], m, 0)
      BY <2>2
    <3> HIDE DEF pc, m
    <3> QED BY <3>1, <3>2 DEF E_JEQ, Insn
  <2>4. /\ v = lookup[j] => From(p, d, pc, v) = From(p, d, pc + 1 + m, v)
        /\ v # lookup[j] => From(p, d, pc, v) = From(p, d, pc + 1, v)
    <3>1. pc \in 1..Len(p)
      BY <2>2
    <3> HIDE DEF pc, m
    <3>2. /\ v = p[pc].k => From(p, d, pc, v) = From(p, d, pc + 1 + p[pc].jt, v)
          /\ v # p[pc].k => From(p, d, pc, v) = From(p, d, pc + 1 + p[pc].jf, v)
      BY SMTT(30), <1>3, <2>3, <3>1, DoJeq
    <3>3. pc + 1 + 0 = pc + 1
      BY <3>1
    <3> QED BY <2>0, <2>3, <3>2, <3>3
  <2>5. /\ pc + 1 + (n - (j - 1)) = off + (n + 4) /\ pc = off + 2 + (j - 1) + 1
        /\ pc + 1 = off + 2 + j + 1
    BY <1>1
  <2> QED BY <1>6, <2>4, <2>5
<1>9. 0 \in T
  BY <1>1
<1>10. ASSUME NEW j \in 0..(n - 1), j \in T PROVE j + 1 \in T
  <2> SUFFICES ASSUME \A i \in 1..(j + 1) : lookup[i] # v PROVE E(0) = E(j + 1)
    BY <1>1
  <2>1. E(0) = E(j)
    BY <1>10
  <2>2. j + 1 \in 1..n /\ (j + 1) - 1 = j
    BY <1>1
  <2>3. lookup[j + 1] # v
    BY <2>2
  <2>4. E((j + 1) - 1) = E(j + 1)
    BY <1>8, <2>2, <2>3
  <2> HIDE DEF E
  <2> QED BY <2>1, <2>2, <2>4
<1>11. \A j \in 0..n : (\A i \in 1..j : lookup[i] # v) => E(0) = E(j)
  <2>1. 0..n \subseteq T
    <3> HIDE DEF T
    <3> QED BY <1>1, <1>9, <1>10, UpTo
  <2> QED BY <2>1
<1>12. E(0) = IF v \in Range(lookup) THEN ALLOW ELSE EPERM
  <2>1. CASE v \in Range(lookup)
    <3> DEFINE S == {i \in 1..n : lookup[i] = v}
    <3>1. S # {}
      BY <2>1 DEF Range, n
    <3>2. PICK i \in S : \A j \in S : i <= j
      <4>1. S \in SUBSET Nat
        OBVIOUS
      <4> HIDE DEF S
      <4> QED BY <3>1, <4>1, LeastExists
    <3>3. \A j \in 1..(i - 1) : lookup[j] # v
      <4>1. i \in 1..n /\ \A j \in 1..n : lookup[j] = v => i <= j
        BY <3>2
      <4> HIDE DEF S
      <4> QED BY <1>0, <4>1
    <3>4. E(0) = E(i - 1)
      <4>1. i - 1 \in 0..n
        BY <1>1
      <4> HIDE DEF E
      <4> QED BY <1>11, <3>3, <4>1
    <3>5. i \in 1..n /\ lookup[i] = v
      BY <3>2
    <3>6. E(i - 1) = ALLOW
      <4> HIDE DEF E
      <4> QED BY <1>8, <3>5
    <3> HIDE DEF E
    <3> QED BY <2>1, <3>4, <3>6
  <2>2. CASE v \notin Range(lookup)
    <3>1. \A i \in 1..n : lookup[i] # v
      BY <2>2 DEF Range, n
    <3>2. E(0) = E(n)
      <4> HIDE DEF E
      <4> QED BY <1>1, <1>11, <3>1
    <3>3. off + 2 + n + 1 = off + (n + 3)
      BY <1>1
    <3> QED BY <1>7, <2>2, <3>2, <3>3
  <2> QED BY <2>1, <2>2
<1>13. From(p, d, off + 2, a) = E(0)
  <2> DEFINE pc == off + 2
  <2>1. 2 \in 1..(n + 4)
    BY <1>1
  <2>2. pc \in 1..Len(p) /\ p[pc] = LD_ARG(0)
    BY <1>1, <1>4, <1>5, <2>1
  <2>3. From(p, d, pc, a) = From(p, d, pc + 1, v)
    <3> HIDE DEF pc
    <3> QED BY <2>2, DoArg DEF v
  <2>4. pc + 1 = off + 2 + 0 + 1
    OBVIOUS
  <2> QED BY <2>3, <2>4
<1>14. /\ a = nr => From(p, d, off + 1, a) = From(p, d, off + 2, a)
       /\ a # nr => From(p, d, off + 1, a) = From(p, d, off + n + 5, a)
  <2> DEFINE pc == off + 1
  <2>1. 1 \in 1..(n + 4) /\ 0 \in 0..255 /\ n + 3 \in 0..255
    BY <1>1
  <2>2. pc \in 1..Len(p) /\ p[pc] = E_JEQ(nr, 0, n + 3)
    BY <1>1, <1>4, <1>5, <2>1
  <2>3. p[pc].op = "jeq" /\ p[pc].k = nr /\ p[pc].jt = 0 /\ p[pc].jf = n + 3
    <3>1. (n + 3) % 256 = n + 3 /\ 0 % 256 = 0
      BY <1>0
    <3> HIDE DEF pc
    <3> QED BY <2>2, <3>1 DEF E_JEQ, Insn
  <2>4. /\ a = nr => From(p, d, pc, a) = From(p, d, pc + 1, a)
        /\ a # nr => From(p, d, pc, a) = From(p, d, pc + 1 + (n + 3), a)
    <3> HIDE DEF pc
    <3> QED BY <1>3, <2>2, <2>3, DoJeq
  <2>5. pc + 1 = off + 2 /\ pc + 1 + (n + 3) = off + n + 5
    BY <1>1
  <2> QED BY <2>4, <2>5
<1> HIDE DEF E
<1> QED BY <1>12, <1>13, <1>14 DEF v, n

-----------------------------------------------------------------------------
(* The start of every program: the architecture, then the call number.     *)

Prologue == emit_arch_guard \o <<LD_NR>>

\* The four instructions every program starts with.
LEMMA PrologueShape ==
    /\ Prologue \in Seq(Instrs) /\ Len(Prologue) = 4
    /\ Prologue[1] = LD_ARCH /\ Prologue[2] = E_JEQ(1, 1, 0) /\ Prologue[3] = RET_KILL
    /\ Prologue[4] = LD_NR
<1> DEFINE i2 == E_JEQ(1, 1, 0)
<1>1. LD_ARCH \in Instrs /\ i2 \in Instrs /\ RET_KILL \in Instrs /\ LD_NR \in Instrs
  BY InsnTypes
<1>2. emit_arch_guard = <<LD_ARCH, i2, RET_KILL>>
  BY DEF emit_arch_guard
<1> HIDE DEF i2
<1>3. /\ Prologue \in Seq(Instrs) /\ Len(Prologue) = 4
      /\ Prologue[1] = LD_ARCH /\ Prologue[2] = i2 /\ Prologue[3] = RET_KILL /\ Prologue[4] = LD_NR
  BY <1>1, <1>2 DEF Prologue
<1> QED BY <1>3 DEF i2

\* Their jumps stay inside.
LEMMA PrologueFits ==
    ASSUME NEW r \in Nat \ {0} PROVE Fits(Prologue, r)
<1> DEFINE b == Prologue
<1>1. /\ b \in Seq(Instrs) /\ Len(b) = 4
      /\ b[1] = LD_ARCH /\ b[2] = E_JEQ(1, 1, 0) /\ b[3] = RET_KILL /\ b[4] = LD_NR
  BY PrologueShape
<1> HIDE DEF b
<1>2. /\ b[2].jt = 1 /\ b[2].jf = 0 /\ b[1].op # "jeq" /\ b[4].op # "jeq" /\ b[3].op = "ret"
  BY <1>1 DEF E_JEQ, Insn, LD_ARCH, RET_KILL, LD_NR
<1>3. ASSUME NEW i \in 1..Len(b)
      PROVE  /\ b[i].op # "ret" => i + 1 <= Len(b) + r
             /\ b[i].op = "jeq" => /\ i + 1 + b[i].jt <= Len(b) + r
                                   /\ i + 1 + b[i].jf <= Len(b) + r
  <2>1. CASE i = 2
    BY <1>1, <1>2, <2>1
  <2>2. CASE i \in {1, 3, 4}
    BY <1>1, <1>2, <2>2
  <2> QED BY <1>1, <2>1, <2>2
<1>4. Fits(b, r)
  BY <1>1, <1>3 DEF Fits
<1> QED BY <1>4 DEF b

\* A call of another architecture is killed, a native one goes on with its number.
LEMMA DoPrologue ==
    ASSUME NEW p, Runnable(p), NEW d \in SysCalls, At(p, 0, Prologue)
    PROVE  /\ ~d.native => Run(p, d) = KILL
           /\ d.native => Run(p, d) = From(p, d, 5, d.nr)
<1>1. /\ p[1] = LD_ARCH /\ p[2] = E_JEQ(1, 1, 0) /\ p[3] = RET_KILL /\ p[4] = LD_NR
  <2>1. \A i \in 1..4 : p[0 + i] = Prologue[i]
    BY PrologueShape DEF At
  <2>2. 0 + 1 = 1 /\ 0 + 2 = 2 /\ 0 + 3 = 3 /\ 0 + 4 = 4
    OBVIOUS
  <2> QED BY <2>1, <2>2, PrologueShape
<1>2. Len(p) \in Nat /\ 4 <= Len(p)
  BY PrologueShape DEF At, Runnable, Fits
<1>3. 1 \in 1..Len(p) /\ 2 \in 1..Len(p) /\ 3 \in 1..Len(p) /\ 4 \in 1..Len(p)
  BY <1>2
<1>4. p[2].op = "jeq" /\ p[2].k = 1 /\ p[2].jt = 1 /\ p[2].jf = 0
  BY <1>1 DEF E_JEQ, Insn
<1>5. Run(p, d) = From(p, d, 1, 0)
  BY DEF Run, From
<1>6. CASE ~d.native
  <2>1. From(p, d, 1, 0) = From(p, d, 1 + 1, 0)
    BY <1>1, <1>3, <1>6, DoArch
  <2>2. From(p, d, 2, 0) = From(p, d, 2 + 1 + 0, 0)
    BY <1>3, <1>4, DoJeq
  <2>3. From(p, d, 3, 0) = KILL
    BY <1>1, <1>3, DoRet DEF RET_KILL
  <2> QED BY <1>5, <1>6, <2>1, <2>2, <2>3
<1>7. CASE d.native
  <2>1. From(p, d, 1, 0) = From(p, d, 1 + 1, 1)
    BY <1>1, <1>3, <1>7, DoArch
  <2>2. From(p, d, 2, 1) = From(p, d, 2 + 1 + 1, 1)
    BY <1>3, <1>4, DoJeq
  <2>3. From(p, d, 4, 1) = From(p, d, 4 + 1, d.nr)
    BY <1>1, <1>3, DoNr
  <2> QED BY <1>5, <1>7, <2>1, <2>2, <2>3
<1> QED BY <1>6, <1>7

\* The end of most programs.
LEMMA DoneFits == Fits(<<RET_ALLOW>>, 0) /\ <<RET_ALLOW>> \in Seq(Instrs) /\ Len(<<RET_ALLOW>>) = 1
<1>1. RET_ALLOW \in Instrs /\ RET_ALLOW.op = "ret"
  BY InsnTypes DEF RET_ALLOW, Insn
<1> QED BY <1>1 DEF Fits

\* The last instruction allows.
LEMMA DoDone ==
    ASSUME NEW p, Runnable(p), NEW d \in SysCalls, NEW off \in Nat, At(p, off, <<RET_ALLOW>>),
           NEW a \in Int
    PROVE  From(p, d, off + 1, a) = ALLOW
<1>1. Len(p) \in Nat /\ off + 1 <= Len(p) /\ p[off + 1] = RET_ALLOW
  BY DEF At, Runnable, Fits
<1>2. off + 1 \in 1..Len(p)
  BY <1>1
<1> QED BY <1>1, <1>2, DoRet DEF RET_ALLOW

-----------------------------------------------------------------------------
(* The numbers of the calls.                                               *)

\* The lengths of the lists of call numbers.
LEMMA CallLists ==
    /\ PathMutation \in Seq(Int) /\ PathRead \in Seq(Int) /\ AlwaysDenied \in Seq(Int)
    /\ Len(PathMutation) = 33 /\ Len(PathRead) = 8 /\ Len(AlwaysDenied) = 32
BY DEF PathMutation, PathRead, AlwaysDenied

\* The calls that open or look up a path are on none of the other lists.
LEMMA OpensUnlisted ==
    ASSUME NEW nr \in {2, 257, 262, 332}
    PROVE  /\ nr \notin Range(PathMutation) /\ nr \notin Range(PathRead)
           /\ nr \notin Range(AlwaysDenied) /\ nr # 437 /\ nr # 85
<1>1. \A i \in 1..33 : PathMutation[i] # nr
  BY DEF PathMutation
<1>2. \A i \in 1..8 : PathRead[i] # nr
  BY DEF PathRead
<1>3. \A i \in 1..32 : AlwaysDenied[i] # nr
  BY DEF AlwaysDenied
<1>4. /\ DOMAIN PathMutation = 1..33 /\ DOMAIN PathRead = 1..8
      /\ DOMAIN AlwaysDenied = 1..32
  BY CallLists, LenProperties
<1> QED BY <1>1, <1>2, <1>3, <1>4 DEF Range

\* The two parts of a joined list of numbers.
LEMMA JoinedNumbers ==
    ASSUME NEW x \in Seq(Int), NEW y \in Seq(Int)
    PROVE  /\ x \o y \in Seq(Int) /\ Len(x \o y) = Len(x) + Len(y)
           /\ \A i \in 1..Len(x) : (x \o y)[i] = x[i]
           /\ \A i \in 1..Len(y) : (x \o y)[Len(x) + i] = y[i]
BY ConcatProperties, LenProperties

\* openat2, creat and the calls that change the file system.
Mutating == <<SYS_openat2, SYS_creat>> \o PathMutation

\* The calls that change the file system.
LEMMA MutatingShape ==
    /\ Mutating \in Seq(Int) /\ Len(Mutating) = 35
    /\ Range(Mutating) = {SYS_openat2, SYS_creat} \cup Range(PathMutation)
<1> DEFINE x == <<SYS_openat2, SYS_creat>>
<1>1. x \in Seq(Int) /\ Len(x) = 2 /\ x[1] = SYS_openat2 /\ x[2] = SYS_creat
  BY DEF SYS_openat2, SYS_creat
<1>2. Mutating = x \o PathMutation
  BY DEF Mutating
<1> HIDE DEF x
<1>3. /\ Mutating \in Seq(Int) /\ Len(Mutating) = 35
      /\ \A i \in 1..2 : Mutating[i] = x[i]
      /\ \A i \in 1..33 : Mutating[2 + i] = PathMutation[i]
  <2>1. PathMutation \in Seq(Int) /\ Len(PathMutation) = 33
    BY CallLists
  <2> DEFINE y == PathMutation
  <2> HIDE DEF y
  <2>2. y \in Seq(Int) /\ Len(y) = 33 /\ Mutating = x \o y
    BY <1>2, <2>1 DEF y
  <2>3. /\ x \o y \in Seq(Int) /\ Len(x \o y) = Len(x) + Len(y)
        /\ \A i \in 1..Len(x) : (x \o y)[i] = x[i]
        /\ \A i \in 1..Len(y) : (x \o y)[Len(x) + i] = y[i]
    BY <1>1, <2>2, JoinedNumbers
  <2>4. Len(x) = 2 /\ Len(y) = 33
    BY <1>1, <2>2
  <2>5. /\ Mutating \in Seq(Int) /\ Len(Mutating) = 35
        /\ \A i \in 1..2 : Mutating[i] = x[i]
        /\ \A i \in 1..33 : Mutating[2 + i] = y[i]
    <3>1. \A i \in 1..2 : (x \o y)[i] = x[i]
      BY <2>3, <2>4
    <3>2. \A i \in 1..33 : (x \o y)[2 + i] = y[i]
      BY <2>3, <2>4
    <3>3. Len(x \o y) = 35 /\ x \o y \in Seq(Int)
      BY <2>3, <2>4
    <3>4. Mutating = x \o y
      BY <2>2
    <3> HIDE DEF Mutating
    <3> QED BY <3>1, <3>2, <3>3, <3>4
  <2> QED BY <2>5 DEF y
<1>4. DOMAIN Mutating = 1..35 /\ DOMAIN PathMutation = 1..33
  BY <1>3, CallLists, LenProperties
<1>5. Range(Mutating) \subseteq {SYS_openat2, SYS_creat} \cup Range(PathMutation)
  <2> SUFFICES ASSUME NEW i \in 1..35
               PROVE  Mutating[i] \in {SYS_openat2, SYS_creat} \cup Range(PathMutation)
    BY <1>4 DEF Range
  <2>1. CASE i \in 1..2
    <3>1. Mutating[i] = x[i]
      BY <1>3, <2>1
    <3>2. i = 1 \/ i = 2
      BY <2>1
    <3> QED BY <1>1, <3>1, <3>2
  <2>2. CASE i \notin 1..2
    <3>1. i - 2 \in 1..33 /\ 2 + (i - 2) = i
      BY <2>2
    <3>2. Mutating[i] = PathMutation[i - 2]
      BY <1>3, <3>1
    <3> QED BY <1>4, <3>1, <3>2 DEF Range
  <2> QED BY <2>1, <2>2
<1>6. {SYS_openat2, SYS_creat} \cup Range(PathMutation) \subseteq Range(Mutating)
  <2>1. SYS_openat2 = Mutating[1] /\ SYS_creat = Mutating[2]
    BY <1>1, <1>3
  <2>2. ASSUME NEW i \in 1..33 PROVE PathMutation[i] \in Range(Mutating)
    <3>1. PathMutation[i] = Mutating[2 + i]
      BY <1>3
    <3>2. 2 + i \in 1..35
      OBVIOUS
    <3> QED BY <1>4, <3>1, <3>2 DEF Range
  <2>3. Mutating[1] \in Range(Mutating) /\ Mutating[2] \in Range(Mutating)
    BY <1>4 DEF Range
  <2>4. Range(PathMutation) \subseteq Range(Mutating)
    BY <1>4, <2>2 DEF Range
  <2> QED BY <2>1, <2>3, <2>4
<1> QED BY <1>3, <1>5, <1>6

\* DENY of a single call.
LEMMA SingleList ==
    ASSUME NEW nr \in Int
    PROVE  <<nr>> \in Seq(Int) /\ Len(<<nr>>) = 1 /\ Range(<<nr>>) = {nr}
BY DEF Range

-----------------------------------------------------------------------------
(* LookupOrDeny.                                                           *)

\* Without descriptors the lookup check is a refusal; its jumps stay inside.
LEMMA LookupOrDenyFits ==
    ASSUME NEW nr \in Int, NEW lookup \in Seq(Int), Len(lookup) + 3 < 256
    PROVE  /\ LookupOrDeny(nr, lookup) \in Seq(Instrs)
           /\ Len(LookupOrDeny(nr, lookup)) \in 0..(Len(lookup) + 4)
           /\ \A r \in Nat \ {0} : Fits(LookupOrDeny(nr, lookup), r)
<1>0. Len(lookup) \in Nat
  OBVIOUS
<1>1. CASE Len(lookup) > 0
  <2>1. LookupOrDeny(nr, lookup) = emit_lookup_check(nr, lookup)
    BY <1>1 DEF LookupOrDeny
  <2>2. /\ emit_lookup_check(nr, lookup) \in Seq(Instrs)
        /\ Len(emit_lookup_check(nr, lookup)) = Len(lookup) + 4
    BY LookupShape
  <2>3. \A r \in Nat \ {0} : Fits(emit_lookup_check(nr, lookup), r)
    BY LookupFits
  <2>4. Len(emit_lookup_check(nr, lookup)) \in 0..(Len(lookup) + 4)
    BY <1>0, <2>2
  <2> QED BY <2>1, <2>2, <2>3, <2>4
<1>2. CASE ~(Len(lookup) > 0)
  <2>1. LookupOrDeny(nr, lookup) = DenyEach(<<nr>>)
    BY <1>2 DEF LookupOrDeny
  <2>2. DenyEach(<<nr>>) \in Seq(Instrs) /\ Len(DenyEach(<<nr>>)) = 2 * 1
    BY SingleList, DenyEachShape
  <2>3. \A r \in Nat \ {0} : Fits(DenyEach(<<nr>>), r)
    BY SingleList, DenyEachFits
  <2>4. Len(DenyEach(<<nr>>)) \in 0..(Len(lookup) + 4)
    <3>1. 2 * 1 \in 0..(Len(lookup) + 4)
      BY <1>0
    <3> QED BY <2>2, <3>1
  <2> QED BY <2>1, <2>2, <2>3, <2>4
<1> QED BY <1>1, <1>2

\* It lets its call pass through the listed descriptors only.
LEMMA DoLookupOrDeny ==
    ASSUME NEW p, Runnable(p), NEW d \in SysCalls, NEW off \in Nat, NEW nr \in Int,
           NEW lookup \in Seq(Int), Len(lookup) + 3 < 256,
           At(p, off, LookupOrDeny(nr, lookup)), NEW a \in Int
    PROVE  /\ a # nr => From(p, d, off + 1, a) =
                           From(p, d, (off + Len(LookupOrDeny(nr, lookup))) + 1, a)
           /\ a = nr => From(p, d, off + 1, a) =
                           IF d.args[0] \in Range(lookup) THEN ALLOW ELSE EPERM
<1>0. Len(lookup) \in Nat
  OBVIOUS
<1>1. CASE Len(lookup) > 0
  <2>1. LookupOrDeny(nr, lookup) = emit_lookup_check(nr, lookup)
    BY <1>1 DEF LookupOrDeny
  <2>2. Len(emit_lookup_check(nr, lookup)) = Len(lookup) + 4
    BY LookupShape
  <2>3. /\ a # nr => From(p, d, off + 1, a) = From(p, d, off + Len(lookup) + 5, a)
        /\ a = nr => From(p, d, off + 1, a) =
                       IF d.args[0] \in Range(lookup) THEN ALLOW ELSE EPERM
    BY <2>1, DoLookup
  <2>4. (off + (Len(lookup) + 4)) + 1 = off + Len(lookup) + 5
    BY <1>0
  <2> QED BY <2>1, <2>2, <2>3, <2>4
<1>2. CASE ~(Len(lookup) > 0)
  <2>1. LookupOrDeny(nr, lookup) = DenyEach(<<nr>>)
    BY <1>2 DEF LookupOrDeny
  <2>2. Len(DenyEach(<<nr>>)) = 2 * 1
    BY SingleList, DenyEachShape
  <2>3. From(p, d, off + 1, a) =
           IF a \in Range(<<nr>>) THEN EPERM ELSE From(p, d, off + 2 * Len(<<nr>>) + 1, a)
    <3> DEFINE s == <<nr>>
    <3>1. s \in Seq(Int) /\ At(p, off, DenyEach(s))
      BY <2>1
    <3> HIDE DEF s
    <3>2. From(p, d, off + 1, a) =
             IF a \in Range(s) THEN EPERM ELSE From(p, d, off + 2 * Len(s) + 1, a)
      BY <3>1, DoDenyEach
    <3> QED BY <3>2 DEF s
  <2>4. off + 2 * Len(<<nr>>) + 1 = (off + 2) + 1
    BY SingleList
  <2>5. Range(lookup) = {}
    BY <1>0, <1>2 DEF Range
  <2> QED BY <2>1, <2>2, <2>3, <2>4, <2>5, SingleList
<1> QED BY <1>1, <1>2

-----------------------------------------------------------------------------
(* Blocks that fit wherever an instruction follows.                        *)

Block(b) == b \in Seq(Instrs) /\ \A r \in Nat \ {0} : Fits(b, r)

\* Nothing is a block.
LEMMA EmptyBlock == Block(<< >>) /\ Len(<< >>) = 0
BY DEF Block, Fits

\* Two blocks in a row are a block.
LEMMA BlockConcat ==
    ASSUME NEW x, NEW y, Block(x), Block(y)
    PROVE  Block(x \o y) /\ Len(x \o y) = Len(x) + Len(y)
<1>1. x \in Seq(Instrs) /\ y \in Seq(Instrs)
  BY DEF Block
<1>2. /\ x \o y \in Seq(Instrs) /\ Len(x \o y) = Len(x) + Len(y)
      /\ Len(x) \in Nat /\ Len(y) \in Nat
  BY <1>1, Joined
<1>3. ASSUME NEW r \in Nat \ {0} PROVE Fits(x \o y, r)
  <2>1. Len(y) + r \in Nat \ {0} /\ r \in Nat
    BY <1>2
  <2>2. Fits(x, Len(y) + r)
    BY <2>1 DEF Block
  <2>3. Fits(y, r)
    BY DEF Block
  <2> QED BY <2>1, <2>2, <2>3, FitsConcat
<1> QED BY <1>2, <1>3 DEF Block

\* A block and an end are a program.
LEMMA BlockEnds ==
    ASSUME NEW x, NEW z, Block(x), Fits(z, 0), Len(z) > 0
    PROVE  Runnable(x \o z)
<1>1. x \in Seq(Instrs) /\ z \in Seq(Instrs)
  BY DEF Block, Fits
<1>2. /\ Len(x \o z) = Len(x) + Len(z) /\ Len(x) \in Nat /\ Len(z) \in Nat
  BY <1>1, Joined
<1>3. Len(z) + 0 \in Nat \ {0} /\ 0 \in Nat
  BY <1>2
<1>4. Fits(x, Len(z) + 0)
  BY <1>3 DEF Block
<1>5. Fits(x \o z, 0)
  BY <1>3, <1>4, FitsConcat
<1> QED BY <1>2, <1>5 DEF Runnable

\* The start of a program is a block.
LEMMA PrologueBlock == Block(Prologue)
BY PrologueShape, PrologueFits DEF Block

\* So is a list of refusals.
LEMMA DenyBlock ==
    ASSUME NEW s \in Seq(Int) PROVE Block(DenyEach(s)) /\ Len(DenyEach(s)) = 2 * Len(s)
BY DenyEachShape, DenyEachFits DEF Block

-----------------------------------------------------------------------------
(* The namespace program.                                                  *)

Opening(mode, lookup) ==
    CASE mode = MODE_CASPER ->
           emit_openflags_check(SYS_open, 1) \o emit_openflags_check(SYS_openat, 2)
      [] mode = MODE_FULL ->
           DenyEach(<<SYS_open>>)
             \o LookupOrDeny(SYS_openat, lookup)
             \o LookupOrDeny(SYS_newfstatat, lookup)
             \o LookupOrDeny(SYS_statx, lookup)
      [] mode = MODE_PATHS -> << >>
Changing(mode) == IF mode # MODE_PATHS THEN DenyEach(Mutating) ELSE << >>
Reading(mode)  == IF mode = MODE_FULL THEN DenyEach(PathRead) ELSE << >>

\* The namespace program is its parts in a row.
LEMMA NamespaceIs ==
    ASSUME NEW mode, NEW lookup
    PROVE  install_namespace_filter(mode, lookup) =
              Prologue \o Opening(mode, lookup) \o Changing(mode) \o Reading(mode)
                \o DenyEach(AlwaysDenied) \o <<RET_ALLOW>>
BY DEF install_namespace_filter, Prologue, Opening, Changing, Reading, Mutating

\* The modes and the numbers of the opening calls are different.
LEMMA ModesDiffer ==
    /\ MODE_FULL # MODE_CASPER /\ MODE_FULL # MODE_PATHS /\ MODE_CASPER # MODE_PATHS
    /\ SYS_open = 2 /\ SYS_openat = 257 /\ SYS_newfstatat = 262 /\ SYS_statx = 332
    /\ SYS_openat2 = 437 /\ SYS_creat = 85
BY DEF MODE_FULL, MODE_CASPER, MODE_PATHS, SYS_open, SYS_openat, SYS_newfstatat,
       SYS_statx, SYS_openat2, SYS_creat

\* The flag check of casper mode is a block.
LEMMA OpenflagsBlock ==
    ASSUME NEW nr \in Int, NEW argn \in 0..4
    PROVE  Block(emit_openflags_check(nr, argn)) /\ Len(emit_openflags_check(nr, argn)) = 9
BY OpenflagsShape, OpenflagsFits DEF Block

\* So is the lookup check of full mode.
LEMMA LookupBlock ==
    ASSUME NEW nr \in Int, NEW lookup \in Seq(Int), Len(lookup) + 3 < 256
    PROVE  /\ Block(LookupOrDeny(nr, lookup))
           /\ Len(LookupOrDeny(nr, lookup)) \in 0..(Len(lookup) + 4)
BY LookupOrDenyFits DEF Block

\* So is all that a mode says of opening.
LEMMA OpeningBlock ==
    ASSUME NEW mode \in Modes, NEW lookup \in Seq(Int), Len(lookup) + 3 < 256
    PROVE  /\ Block(Opening(mode, lookup))
           /\ Len(Opening(mode, lookup)) \in 0..(3 * Len(lookup) + 18)
<1>0. Len(lookup) \in Nat
  OBVIOUS
<1>1. CASE mode = MODE_CASPER
  <2> DEFINE x == emit_openflags_check(SYS_open, 1)
             y == emit_openflags_check(SYS_openat, 2)
  <2>1. Block(x) /\ Block(y) /\ Len(x) = 9 /\ Len(y) = 9
    BY OpenflagsBlock, ModesDiffer
  <2>2. Opening(mode, lookup) = x \o y
    BY <1>1, ModesDiffer DEF Opening
  <2> HIDE DEF x, y
  <2>3. Block(x \o y) /\ Len(x \o y) = 9 + 9
    BY <2>1, BlockConcat
  <2>4. 9 + 9 \in 0..(3 * Len(lookup) + 18)
    BY <1>0
  <2> QED BY <2>2, <2>3, <2>4
<1>2. CASE mode = MODE_FULL
  <2> DEFINE w == DenyEach(<<SYS_open>>)
             x == LookupOrDeny(SYS_openat, lookup)
             y == LookupOrDeny(SYS_newfstatat, lookup)
             z == LookupOrDeny(SYS_statx, lookup)
             n == Len(lookup)
  <2>1. Block(w) /\ Len(w) = 2
    <3>1. <<SYS_open>> \in Seq(Int) /\ Len(<<SYS_open>>) = 1
      BY ModesDiffer, SingleList
    <3>2. Block(w) /\ Len(w) = 2 * 1
      BY <3>1, DenyBlock
    <3> QED BY <3>2
  <2>2. /\ Block(x) /\ Len(x) \in 0..(n + 4) /\ Block(y) /\ Len(y) \in 0..(n + 4)
        /\ Block(z) /\ Len(z) \in 0..(n + 4)
    BY LookupBlock, ModesDiffer
  <2>3. Opening(mode, lookup) = ((w \o x) \o y) \o z
    BY <1>2, ModesDiffer DEF Opening
  <2>4. n \in Nat
    BY <1>0
  <2> HIDE DEF w, x, y, z, n
  <2>5. Block(w \o x) /\ Len(w \o x) = Len(w) + Len(x)
    BY <2>1, <2>2, BlockConcat
  <2>6. Block((w \o x) \o y) /\ Len((w \o x) \o y) = (Len(w) + Len(x)) + Len(y)
    BY <2>2, <2>5, BlockConcat
  <2>7. Block(((w \o x) \o y) \o z)
        /\ Len(((w \o x) \o y) \o z) = ((Len(w) + Len(x)) + Len(y)) + Len(z)
    BY <2>2, <2>6, BlockConcat
  <2>8. ((Len(w) + Len(x)) + Len(y)) + Len(z) \in 0..(3 * n + 18)
    BY <2>1, <2>2, <2>4
  <2> QED BY <2>3, <2>7, <2>8 DEF n
<1>3. CASE mode = MODE_PATHS
  <2>1. Opening(mode, lookup) = << >>
    BY <1>3, ModesDiffer DEF Opening
  <2>2. 0 \in 0..(3 * Len(lookup) + 18)
    BY <1>0
  <2> QED BY <2>1, <2>2, EmptyBlock
<1> QED BY <1>1, <1>2, <1>3 DEF Modes

\* So is what it says of changing and reading paths.
LEMMA ChangingBlock ==
    ASSUME NEW mode
    PROVE  /\ Block(Changing(mode)) /\ Len(Changing(mode)) \in 0..70
           /\ Block(Reading(mode)) /\ Len(Reading(mode)) \in 0..16
<1>1. Block(DenyEach(Mutating)) /\ Len(DenyEach(Mutating)) = 2 * 35
  BY MutatingShape, DenyBlock
<1>2. Block(DenyEach(PathRead)) /\ Len(DenyEach(PathRead)) = 2 * 8
  BY CallLists, DenyBlock
<1>3. 2 * 35 \in 0..70 /\ 0 \in 0..70 /\ 2 * 8 \in 0..16 /\ 0 \in 0..16
  OBVIOUS
<1> QED BY <1>1, <1>2, <1>3, EmptyBlock DEF Changing, Reading

\* Where the parts of the program are.
LEMMA NamespaceParts ==
    ASSUME NEW mode \in Modes, NEW lookup \in Seq(Int), Len(lookup) + 3 < 256
    PROVE  LET p  == install_namespace_filter(mode, lookup)
               o2 == 4 + Len(Opening(mode, lookup))
               o3 == o2 + Len(Changing(mode))
               o4 == o3 + Len(Reading(mode))
           IN  /\ Runnable(p) /\ Len(p) <= 3 * Len(lookup) + 173
               /\ o2 \in Nat /\ o3 \in Nat /\ o4 \in Nat
               /\ At(p, 0, Prologue) /\ At(p, 4, Opening(mode, lookup))
               /\ At(p, o2, Changing(mode)) /\ At(p, o3, Reading(mode))
               /\ At(p, o4, DenyEach(AlwaysDenied)) /\ At(p, o4 + 64, <<RET_ALLOW>>)
<1> DEFINE h == Prologue
           a == Opening(mode, lookup)
           b == Changing(mode)
           c == Reading(mode)
           e == DenyEach(AlwaysDenied)
           z == <<RET_ALLOW>>
           n == Len(lookup)
           p == install_namespace_filter(mode, lookup)
<1>1. /\ Block(h) /\ Block(a) /\ Block(b) /\ Block(c) /\ Block(e) /\ Fits(z, 0)
      /\ Len(h) = 4 /\ Len(a) \in 0..(3 * n + 18) /\ Len(b) \in 0..70 /\ Len(c) \in 0..16
      /\ Len(e) = 64 /\ Len(z) = 1 /\ n \in Nat
  <2>1. Block(h) /\ Len(h) = 4
    BY PrologueBlock, PrologueShape
  <2>2. Block(a) /\ Len(a) \in 0..(3 * n + 18)
    BY OpeningBlock
  <2>3. Block(b) /\ Block(c) /\ Len(b) \in 0..70 /\ Len(c) \in 0..16
    BY ChangingBlock
  <2>4. Block(e) /\ Len(e) = 2 * 32
    BY CallLists, DenyBlock
  <2>5. 2 * 32 = 64 /\ n \in Nat
    OBVIOUS
  <2>6. Fits(z, 0) /\ Len(z) = 1
    BY DoneFits
  <2> HIDE DEF h, a, b, c, e, z, n
  <2> QED BY <2>1, <2>2, <2>3, <2>4, <2>5, <2>6
<1>2. p = ((((h \o a) \o b) \o c) \o e) \o z
  BY NamespaceIs
<1> HIDE DEF h, a, b, c, e, z, n, p
<1> DEFINE ha == h \o a
           hb == ha \o b
           hc == hb \o c
           he == hc \o e
<1>3. Block(ha) /\ Len(ha) = 4 + Len(a)
  <2>1. Block(h) /\ Block(a) /\ Len(h) = 4
    BY <1>1
  <2>2. Block(ha) /\ Len(ha) = Len(h) + Len(a)
    BY <2>1, BlockConcat
  <2> QED BY <2>1, <2>2
<1> HIDE DEF ha
<1>4. Block(hb) /\ Len(hb) = (4 + Len(a)) + Len(b)
  BY <1>1, <1>3, BlockConcat
<1> HIDE DEF hb
<1>5. Block(hc) /\ Len(hc) = ((4 + Len(a)) + Len(b)) + Len(c)
  BY SMTT(30), <1>1, <1>4, BlockConcat
<1> HIDE DEF hc
<1>6. Block(he) /\ Len(he) = (((4 + Len(a)) + Len(b)) + Len(c)) + 64
  <2>1. Block(hc) /\ Block(e) /\ Len(e) = 64
    BY <1>1, <1>5
  <2>2. Block(he) /\ Len(he) = Len(hc) + Len(e)
    BY <2>1, BlockConcat
  <2> QED BY <1>5, <2>1, <2>2
<1> HIDE DEF he
<1>7. p = he \o z
  BY <1>2 DEF he, hc, hb, ha
<1>8. Runnable(p)
  <2>1. Len(z) > 0 /\ Fits(z, 0)
    BY <1>1
  <2> QED BY <1>6, <1>7, <2>1, BlockEnds
<1>9. /\ h \in Seq(Instrs) /\ a \in Seq(Instrs) /\ b \in Seq(Instrs) /\ c \in Seq(Instrs)
      /\ e \in Seq(Instrs) /\ z \in Seq(Instrs) /\ ha \in Seq(Instrs) /\ hb \in Seq(Instrs)
      /\ hc \in Seq(Instrs) /\ he \in Seq(Instrs) /\ p \in Seq(Instrs) /\ Len(p) \in Nat
  BY <1>1, <1>3, <1>4, <1>5, <1>6, <1>8 DEF Block, Fits, Runnable
<1>10. At(p, 0, he) /\ At(p, 0 + Len(he), z)
  BY <1>7, <1>9, AtSelf, AtConcat
<1>11. At(p, 0, hc) /\ At(p, 0 + Len(hc), e)
  BY <1>9, <1>10, AtConcat DEF he
<1>12. At(p, 0, hb) /\ At(p, 0 + Len(hb), c)
  BY <1>9, <1>11, AtConcat DEF hc
<1>13. At(p, 0, ha) /\ At(p, 0 + Len(ha), b)
  BY <1>9, <1>12, AtConcat DEF hb
<1>14. At(p, 0, h) /\ At(p, 0 + Len(h), a)
  BY <1>9, <1>13, AtConcat DEF ha
<1> DEFINE o2 == 4 + Len(a)
           o3 == o2 + Len(b)
           o4 == o3 + Len(c)
<1>15. /\ 0 + Len(h) = 4 /\ 0 + Len(ha) = o2 /\ 0 + Len(hb) = o3 /\ 0 + Len(hc) = o4
       /\ 0 + Len(he) = o4 + 64 /\ o2 \in Nat /\ o3 \in Nat /\ o4 \in Nat
  BY <1>1, <1>3, <1>4, <1>5, <1>6
<1>16. Len(p) <= 3 * n + 173
  <2>1. Len(p) = Len(he) + Len(z)
    BY <1>7, <1>9, Joined
  <2> DEFINE la == Len(a)
             lb == Len(b)
             lc == Len(c)
             lp == Len(p)
  <2>2. /\ la \in 0..(3 * n + 18) /\ lb \in 0..70 /\ lc \in 0..16 /\ n \in Nat
        /\ lp = (((4 + la) + lb) + lc) + 64 + 1
    BY <1>1, <1>6, <2>1
  <2> HIDE DEF la, lb, lc, lp
  <2>3. lp <= 3 * n + 173
    BY <2>2
  <2> QED BY <2>3 DEF lp
<1> HIDE DEF o2, o3, o4
<1>17. /\ Runnable(p) /\ Len(p) <= 3 * n + 173
       /\ o2 \in Nat /\ o3 \in Nat /\ o4 \in Nat
       /\ At(p, 0, h) /\ At(p, 4, a) /\ At(p, o2, b) /\ At(p, o3, c) /\ At(p, o4, e)
       /\ At(p, o4 + 64, z)
  BY <1>8, <1>10, <1>11, <1>12, <1>13, <1>14, <1>15, <1>16
<1> QED BY <1>17 DEF h, a, b, c, e, z, n, p, o2, o3, o4

\* The lists at the end of the program.
Listed(mode, nr) ==
    \/ nr \in Range(AlwaysDenied)
    \/ mode # MODE_PATHS /\ nr \in Range(Mutating)
    \/ mode = MODE_FULL /\ nr \in Range(PathRead)

\* The lists of a mode refuse what they name and allow the rest.
LEMMA DoLists ==
    ASSUME NEW p, Runnable(p), NEW d \in SysCalls, NEW mode, NEW o2 \in Nat,
           NEW o3 \in Nat, NEW o4 \in Nat, o3 = o2 + Len(Changing(mode)),
           o4 = o3 + Len(Reading(mode)),
           At(p, o2, Changing(mode)), At(p, o3, Reading(mode)),
           At(p, o4, DenyEach(AlwaysDenied)), At(p, o4 + 64, <<RET_ALLOW>>), NEW a \in Int
    PROVE  From(p, d, o2 + 1, a) = IF Listed(mode, a) THEN EPERM ELSE ALLOW
<1> DEFINE o5 == o4 + 64
<1>0. o5 \in Nat
  OBVIOUS
<1>1. From(p, d, o5 + 1, a) = ALLOW
  <2> HIDE DEF o5
  <2> QED BY <1>0, DoDone DEF o5
<1>2. /\ a \in Range(AlwaysDenied) => From(p, d, o4 + 1, a) = EPERM
      /\ a \notin Range(AlwaysDenied) => From(p, d, o4 + 1, a) = ALLOW
  <2> DEFINE s == AlwaysDenied
  <2>1. s \in Seq(Int) /\ Len(s) = 32 /\ At(p, o4, DenyEach(s))
    BY CallLists
  <2>2. o5 = o4 + 2 * Len(s)
    <3> HIDE DEF s
    <3> QED BY <2>1
  <2> HIDE DEF s, o5
  <2>3. Denies(p, d, o4, o5, s, a)
    BY <1>0, <2>1, <2>2, DoDenyList
  <2> QED BY <1>1, <2>3 DEF s, Denies
<1>3. /\ mode = MODE_FULL /\ a \in Range(PathRead) => From(p, d, o3 + 1, a) = EPERM
      /\ ~(mode = MODE_FULL /\ a \in Range(PathRead)) =>
            From(p, d, o3 + 1, a) = From(p, d, o4 + 1, a)
  <2>1. CASE mode = MODE_FULL
    <3> DEFINE s == PathRead
    <3>1. s \in Seq(Int) /\ Len(s) = 8
      BY CallLists
    <3>2. Reading(mode) = DenyEach(s)
      BY <2>1 DEF Reading
    <3> HIDE DEF s
    <3>3. Len(Reading(mode)) = 2 * Len(s)
      BY <3>1, <3>2, DenyBlock
    <3>4. o4 = o3 + 2 * Len(s) /\ At(p, o3, DenyEach(s))
      BY <3>2, <3>3
    <3>5. Denies(p, d, o3, o4, s, a)
      BY <3>1, <3>4, DoDenyList
    <3> QED BY <2>1, <3>5 DEF s, Denies
  <2>2. CASE mode # MODE_FULL
    <3>1. o4 = o3
      BY <2>2, EmptyBlock DEF Reading
    <3> QED BY <2>2, <3>1
  <2> QED BY <2>1, <2>2
<1>4. /\ mode # MODE_PATHS /\ a \in Range(Mutating) => From(p, d, o2 + 1, a) = EPERM
      /\ ~(mode # MODE_PATHS /\ a \in Range(Mutating)) =>
            From(p, d, o2 + 1, a) = From(p, d, o3 + 1, a)
  <2>1. CASE mode # MODE_PATHS
    <3> DEFINE s == Mutating
    <3>1. s \in Seq(Int) /\ Len(s) = 35
      BY MutatingShape
    <3>2. Changing(mode) = DenyEach(s)
      BY <2>1 DEF Changing
    <3> HIDE DEF s
    <3>3. Len(Changing(mode)) = 2 * Len(s)
      BY <3>1, <3>2, DenyBlock
    <3>4. o3 = o2 + 2 * Len(s) /\ At(p, o2, DenyEach(s))
      BY <3>2, <3>3
    <3>5. Denies(p, d, o2, o3, s, a)
      BY <3>1, <3>4, DoDenyList
    <3> QED BY <2>1, <3>5 DEF s, Denies
  <2>2. CASE mode = MODE_PATHS
    <3>1. o3 = o2
      BY <2>2, EmptyBlock DEF Changing
    <3> QED BY <2>2, <3>1
  <2> QED BY <2>1, <2>2
<1> HIDE DEF o5
<1> QED BY <1>2, <1>3, <1>4 DEF Listed

\* Flags that neither write nor create.
ReadsOnly(flags) == BitAnd(flags, O_ACCMODE) = 0 /\ BitAnd(flags, WriteFlags) = 0

\* The opens a mode refuses, and the ones it passes without looking further.
OpenRefused(mode, lookup, d) ==
    \/ /\ mode = MODE_CASPER
       /\ \/ d.nr = SYS_open /\ ~ReadsOnly(d.args[1])
          \/ d.nr = SYS_openat /\ ~ReadsOnly(d.args[2])
    \/ /\ mode = MODE_FULL
       /\ \/ d.nr = SYS_open
          \/ /\ d.nr \in {SYS_openat, SYS_newfstatat, SYS_statx}
             /\ d.args[0] \notin Range(lookup)
OpenPassed(mode, lookup, d) ==
    \/ /\ mode = MODE_CASPER
       /\ \/ d.nr = SYS_open /\ ReadsOnly(d.args[1])
          \/ d.nr = SYS_openat /\ ReadsOnly(d.args[2])
    \/ /\ mode = MODE_FULL
       /\ d.nr \in {SYS_openat, SYS_newfstatat, SYS_statx}
       /\ d.args[0] \in Range(lookup)

\* What the block of call nr does at off.
Opens(p, d, off, nr, argn, a) ==
    /\ a # nr => From(p, d, off + 1, a) = From(p, d, off + 10, a)
    /\ a = nr => From(p, d, off + 1, a) = IF ReadsOnly(d.args[argn]) THEN ALLOW ELSE EPERM

\* A flag check passes opens that only read.
LEMMA DoOpens ==
    ASSUME NEW p, Runnable(p), NEW d \in SysCalls, NEW off \in Nat, NEW nr \in Int,
           NEW argn \in 0..4, At(p, off, emit_openflags_check(nr, argn)), NEW a \in Int
    PROVE  Opens(p, d, off, nr, argn, a)
BY DoOpenflags DEF Opens, ReadsOnly

\* What the opening part decides, and what it leaves to the lists.
LEMMA DoOpening ==
    ASSUME NEW p, Runnable(p), NEW d \in SysCalls, NEW mode \in Modes,
           NEW lookup \in Seq(Int), Len(lookup) + 3 < 256, At(p, 4, Opening(mode, lookup))
    PROVE  From(p, d, 5, d.nr) =
              IF OpenRefused(mode, lookup, d) THEN EPERM
              ELSE IF OpenPassed(mode, lookup, d) THEN ALLOW
              ELSE From(p, d, (4 + Len(Opening(mode, lookup))) + 1, d.nr)
<1> DEFINE a == d.nr
<1>0. a \in Int /\ Len(p) \in Nat
  BY DEF SysCalls, Runnable, Fits
<1>1. CASE mode = MODE_CASPER
  <2> DEFINE x == emit_openflags_check(SYS_open, 1)
             y == emit_openflags_check(SYS_openat, 2)
  <2>1. Block(x) /\ Block(y) /\ Len(x) = 9 /\ Len(y) = 9
    BY OpenflagsBlock, ModesDiffer
  <2>2. Opening(mode, lookup) = x \o y
    BY <1>1, ModesDiffer DEF Opening
  <2>3. At(p, 4, x) /\ At(p, 4 + Len(x), y) /\ Len(x \o y) = Len(x) + Len(y)
    <3> HIDE DEF x, y
    <3>1. x \in Seq(Instrs) /\ y \in Seq(Instrs)
      BY <2>1 DEF Block
    <3> QED BY <1>0, <2>2, <3>1, AtConcat, Joined
  <2>4. /\ a # SYS_open => From(p, d, 4 + 1, a) = From(p, d, 4 + 10, a)
        /\ a = SYS_open => From(p, d, 4 + 1, a) =
                             IF ReadsOnly(d.args[1]) THEN ALLOW ELSE EPERM
    <3>1. SYS_open \in Int /\ 1 \in 0..4 /\ 4 \in Nat
      BY ModesDiffer
    <3> HIDE DEF a
    <3> QED BY <1>0, <2>3, <3>1, DoOpenflags DEF ReadsOnly
  <2>5. /\ a # SYS_openat => From(p, d, 13 + 1, a) = From(p, d, 13 + 10, a)
        /\ a = SYS_openat => From(p, d, 13 + 1, a) =
                               IF ReadsOnly(d.args[2]) THEN ALLOW ELSE EPERM
    <3>1. SYS_openat \in Int /\ 2 \in 0..4 /\ 13 \in Nat /\ 4 + 9 = 13
      BY ModesDiffer
    <3> DEFINE o == 13
               v == SYS_openat
               g == 2
    <3>2. At(p, o, emit_openflags_check(v, g)) /\ o \in Nat /\ v \in Int /\ g \in 0..4
      BY <2>1, <2>3, <3>1
    <3> HIDE DEF a, o, v, g, y
    <3>3. Opens(p, d, o, v, g, a)
      BY <1>0, <3>2, DoOpens
    <3> QED BY <3>3 DEF o, v, g, Opens
  <2>6. 4 + 1 = 5 /\ 4 + 10 = 13 + 1 /\ 13 + 10 = (4 + (9 + 9)) + 1
    OBVIOUS
  <2>7. Len(Opening(mode, lookup)) = 9 + 9
    BY <2>1, <2>2, <2>3
  <2>8. SYS_open # SYS_openat
    BY ModesDiffer
  <2> HIDE DEF a, x, y
  <2>9. /\ OpenRefused(mode, lookup, d) <=>
             \/ a = SYS_open /\ ~ReadsOnly(d.args[1])
             \/ a = SYS_openat /\ ~ReadsOnly(d.args[2])
        /\ OpenPassed(mode, lookup, d) <=>
             \/ a = SYS_open /\ ReadsOnly(d.args[1])
             \/ a = SYS_openat /\ ReadsOnly(d.args[2])
    BY <1>1, ModesDiffer DEF OpenRefused, OpenPassed, a
  <2> QED BY <2>4, <2>5, <2>6, <2>7, <2>8, <2>9 DEF a
<1>2. CASE mode = MODE_FULL
  <2> DEFINE w == DenyEach(<<SYS_open>>)
             x == LookupOrDeny(SYS_openat, lookup)
             y == LookupOrDeny(SYS_newfstatat, lookup)
             z == LookupOrDeny(SYS_statx, lookup)
             In == d.args[0] \in Range(lookup)
  <2>1. /\ w \in Seq(Instrs) /\ Len(w) = 2
        /\ x \in Seq(Instrs) /\ y \in Seq(Instrs) /\ z \in Seq(Instrs)
    <3>1. <<SYS_open>> \in Seq(Int) /\ Len(<<SYS_open>>) = 1
      BY ModesDiffer, SingleList
    <3>2. Block(w) /\ Len(w) = 2 * 1
      BY <3>1, DenyBlock
    <3>3. Block(x) /\ Block(y) /\ Block(z)
      BY LookupBlock, ModesDiffer
    <3> HIDE DEF w, x, y, z
    <3> QED BY <3>2, <3>3 DEF Block
  <2>2. Opening(mode, lookup) = ((w \o x) \o y) \o z
    BY <1>2, ModesDiffer DEF Opening
  <2> DEFINE o5 == 6 + Len(x)
             o6 == o5 + Len(y)
             o7 == o6 + Len(z)
  <2>3. /\ At(p, 4, w) /\ At(p, 6, x) /\ At(p, o5, y) /\ At(p, o6, z)
        /\ o5 \in Nat /\ o6 \in Nat /\ o7 \in Nat
        /\ o7 = 4 + Len(Opening(mode, lookup))
    <3> HIDE DEF w, x, y, z
    <3> DEFINE wx == w \o x
               wy == wx \o y
    <3>1. wx \in Seq(Instrs) /\ Len(wx) = Len(w) + Len(x)
      BY <2>1, Joined
    <3>2. wx \in Seq(Instrs) /\ wy \in Seq(Instrs) /\ Len(wy) = Len(wx) + Len(y)
      <4> HIDE DEF wx
      <4> QED BY <2>1, <3>1, Joined
    <3>3. Len(wy \o z) = Len(wy) + Len(z) /\ At(p, 4, wy \o z)
      <4> HIDE DEF wy
      <4> QED BY <2>1, <2>2, <3>2, Joined DEF wy
    <3>4. At(p, 4, wy) /\ At(p, 4 + Len(wy), z)
      <4> HIDE DEF wy
      <4> QED BY <1>0, <2>1, <3>2, <3>3, AtConcat
    <3>5. At(p, 4, wx) /\ At(p, 4 + Len(wx), y)
      <4> HIDE DEF wx
      <4> QED BY <1>0, <2>1, <3>2, <3>4, AtConcat
    <3>6. At(p, 4, w) /\ At(p, 4 + Len(w), x)
      BY <1>0, <2>1, <3>5, AtConcat
    <3>7. Len(w) = 2 /\ Len(x) \in Nat /\ Len(y) \in Nat /\ Len(z) \in Nat
      BY <2>1
    <3>8. Len(Opening(mode, lookup)) = Len(wy) + Len(z)
      BY <2>2, <3>3
    <3> HIDE DEF wx, wy
    <3>9. /\ 4 + Len(w) = 6 /\ 4 + Len(wx) = o5 /\ 4 + Len(wy) = o6
          /\ o7 = 4 + Len(Opening(mode, lookup)) /\ o5 \in Nat /\ o6 \in Nat /\ o7 \in Nat
      <4> DEFINE lw == Len(w)
                 lx == Len(x)
                 ly == Len(y)
                 lz == Len(z)
                 l1 == Len(wx)
                 l2 == Len(wy)
                 l3 == Len(Opening(mode, lookup))
      <4>1. /\ lw = 2 /\ lx \in Nat /\ ly \in Nat /\ lz \in Nat
            /\ l1 = lw + lx /\ l2 = l1 + ly /\ l3 = l2 + lz
        BY <3>1, <3>2, <3>7, <3>8
      <4>2. o5 = 6 + lx /\ o6 = o5 + ly /\ o7 = o6 + lz
        OBVIOUS
      <4> HIDE DEF lw, lx, ly, lz, l1, l2, l3, o5, o6, o7
      <4>3. /\ 4 + lw = 6 /\ 4 + l1 = o5 /\ 4 + l2 = o6 /\ o7 = 4 + l3
            /\ o5 \in Nat /\ o6 \in Nat /\ o7 \in Nat
        BY <4>1, <4>2
      <4> QED BY <4>3 DEF lw, l1, l2, l3
    <3> HIDE DEF o5, o6, o7
    <3> QED BY <3>4, <3>5, <3>6, <3>9
  <2>4. From(p, d, 4 + 1, a) = IF a = SYS_open THEN EPERM ELSE From(p, d, 6 + 1, a)
    <3> DEFINE s == <<SYS_open>>
    <3>1. s \in Seq(Int) /\ Len(s) = 1 /\ Range(s) = {SYS_open}
      BY ModesDiffer, SingleList
    <3> DEFINE o == 4
               q == 6
    <3>2. At(p, o, DenyEach(s)) /\ o \in Nat /\ q \in Nat
      BY <2>3
    <3>3. q = o + 2 * Len(s)
      <4> HIDE DEF s
      <4> QED BY <3>1
    <3> HIDE DEF s, a, o, q
    <3>4. Denies(p, d, o, q, s, a)
      BY <1>0, <3>1, <3>2, <3>3, DoDenyList
    <3> QED BY <3>1, <3>4 DEF o, q, Denies
  <2>5. /\ a # SYS_openat => From(p, d, 6 + 1, a) = From(p, d, o5 + 1, a)
        /\ a = SYS_openat => From(p, d, 6 + 1, a) = IF In THEN ALLOW ELSE EPERM
    <3> DEFINE o == 6
    <3>1. SYS_openat \in Int /\ o \in Nat /\ At(p, o, x) /\ o5 = o + Len(x)
      BY <2>3, ModesDiffer
    <3> HIDE DEF a, o, o5
    <3>2. /\ a # SYS_openat => From(p, d, o + 1, a) = From(p, d, (o + Len(x)) + 1, a)
          /\ a = SYS_openat => From(p, d, o + 1, a) = IF In THEN ALLOW ELSE EPERM
      BY <1>0, <3>1, DoLookupOrDeny
    <3> QED BY <3>1, <3>2 DEF o
  <2>6. /\ a # SYS_newfstatat => From(p, d, o5 + 1, a) = From(p, d, o6 + 1, a)
        /\ a = SYS_newfstatat => From(p, d, o5 + 1, a) = IF In THEN ALLOW ELSE EPERM
    <3>1. SYS_newfstatat \in Int /\ o5 \in Nat /\ At(p, o5, y) /\ o6 = o5 + Len(y)
      BY <2>3, ModesDiffer
    <3> HIDE DEF a, o5, o6, o7
    <3>2. /\ a # SYS_newfstatat => From(p, d, o5 + 1, a) = From(p, d, (o5 + Len(y)) + 1, a)
          /\ a = SYS_newfstatat => From(p, d, o5 + 1, a) = IF In THEN ALLOW ELSE EPERM
      BY <1>0, <3>1, DoLookupOrDeny
    <3> QED BY <3>1, <3>2
  <2>7. /\ a # SYS_statx => From(p, d, o6 + 1, a) = From(p, d, o7 + 1, a)
        /\ a = SYS_statx => From(p, d, o6 + 1, a) = IF In THEN ALLOW ELSE EPERM
    <3>1. SYS_statx \in Int /\ o6 \in Nat /\ At(p, o6, z) /\ o7 = o6 + Len(z)
      BY <2>3, ModesDiffer
    <3> HIDE DEF a, o5, o6, o7
    <3>2. /\ a # SYS_statx => From(p, d, o6 + 1, a) = From(p, d, (o6 + Len(z)) + 1, a)
          /\ a = SYS_statx => From(p, d, o6 + 1, a) = IF In THEN ALLOW ELSE EPERM
      BY <1>0, <3>1, DoLookupOrDeny
    <3> QED BY <3>1, <3>2
  <2>8. /\ OpenRefused(mode, lookup, d) <=>
             a = SYS_open \/ (a \in {SYS_openat, SYS_newfstatat, SYS_statx} /\ ~In)
        /\ OpenPassed(mode, lookup, d) <=>
             a \in {SYS_openat, SYS_newfstatat, SYS_statx} /\ In
    BY <1>2, ModesDiffer DEF OpenRefused, OpenPassed
  <2>9. /\ SYS_open \notin {SYS_openat, SYS_newfstatat, SYS_statx}
        /\ SYS_openat # SYS_newfstatat /\ SYS_openat # SYS_statx
        /\ SYS_newfstatat # SYS_statx /\ 4 + 1 = 5
    BY ModesDiffer
  <2>10. o7 = 4 + Len(Opening(mode, lookup))
    BY <2>3
  <2> HIDE DEF w, x, y, z, In, o5, o6, o7, a
  <2> QED BY <2>4, <2>5, <2>6, <2>7, <2>8, <2>9, <2>10 DEF a
<1>3. CASE mode = MODE_PATHS
  <2>1. Len(Opening(mode, lookup)) = 0
    BY <1>3, ModesDiffer, EmptyBlock DEF Opening
  <2>2. (4 + 0) + 1 = 5
    OBVIOUS
  <2>3. ~OpenRefused(mode, lookup, d) /\ ~OpenPassed(mode, lookup, d)
    BY <1>3, ModesDiffer DEF OpenRefused, OpenPassed
  <2> QED BY <2>1, <2>2, <2>3
<1> QED BY <1>1, <1>2, <1>3 DEF Modes

\* The calls install_namespace_filter refuses.
NamespaceRefuses(mode, lookup, d) ==
    Listed(mode, d.nr) \/ OpenRefused(mode, lookup, d)

\* The program is one the kernel accepts, and its answer to every call.
LEMMA NamespaceAnswer ==
    ASSUME NEW mode \in Modes, NEW lookup \in Seq(Int), Len(lookup) + 3 < 256,
           NEW d \in SysCalls
    PROVE  LET p == install_namespace_filter(mode, lookup) IN
           /\ Runnable(p) /\ Len(p) <= 3 * Len(lookup) + 173
           /\ ~d.native => Run(p, d) = KILL
           /\ d.native => Run(p, d) = IF NamespaceRefuses(mode, lookup, d) THEN EPERM ELSE ALLOW
<1> DEFINE p == install_namespace_filter(mode, lookup)
           o2 == 4 + Len(Opening(mode, lookup))
           o3 == o2 + Len(Changing(mode))
           o4 == o3 + Len(Reading(mode))
<1>1. /\ Runnable(p) /\ Len(p) <= 3 * Len(lookup) + 173
      /\ o2 \in Nat /\ o3 \in Nat /\ o4 \in Nat
      /\ At(p, 0, Prologue) /\ At(p, 4, Opening(mode, lookup))
      /\ At(p, o2, Changing(mode)) /\ At(p, o3, Reading(mode))
      /\ At(p, o4, DenyEach(AlwaysDenied)) /\ At(p, o4 + 64, <<RET_ALLOW>>)
  BY NamespaceParts
<1>2. d.nr \in Int
  BY DEF SysCalls
<1> HIDE DEF p
<1>3. /\ ~d.native => Run(p, d) = KILL
      /\ d.native => Run(p, d) = From(p, d, 5, d.nr)
  BY <1>1, DoPrologue
<1>4. From(p, d, 5, d.nr) =
         IF OpenRefused(mode, lookup, d) THEN EPERM
         ELSE IF OpenPassed(mode, lookup, d) THEN ALLOW ELSE From(p, d, o2 + 1, d.nr)
  BY <1>1, DoOpening
<1>5. From(p, d, o2 + 1, d.nr) = IF Listed(mode, d.nr) THEN EPERM ELSE ALLOW
  <2>1. o3 = o2 + Len(Changing(mode)) /\ o4 = o3 + Len(Reading(mode))
    OBVIOUS
  <2> HIDE DEF o2, o3, o4
  <2> QED BY <1>1, <1>2, <2>1, DoLists
<1>6. OpenPassed(mode, lookup, d) => ~Listed(mode, d.nr)
  <2> SUFFICES ASSUME OpenPassed(mode, lookup, d) PROVE ~Listed(mode, d.nr)
    OBVIOUS
  <2>1. d.nr \in {2, 257, 262, 332}
    BY ModesDiffer DEF OpenPassed
  <2>2. /\ d.nr \notin Range(PathMutation) /\ d.nr \notin Range(PathRead)
        /\ d.nr \notin Range(AlwaysDenied) /\ d.nr # 437 /\ d.nr # 85
    BY <2>1, OpensUnlisted
  <2>3. d.nr \notin Range(Mutating)
    BY <2>2, MutatingShape, ModesDiffer
  <2> QED BY <2>2, <2>3 DEF Listed
<1>7. /\ Runnable(p) /\ Len(p) <= 3 * Len(lookup) + 173
      /\ ~d.native => Run(p, d) = KILL
      /\ d.native => Run(p, d) = IF NamespaceRefuses(mode, lookup, d) THEN EPERM ELSE ALLOW
  <2> HIDE DEF o2, o3, o4
  <2> QED BY <1>1, <1>3, <1>4, <1>5, <1>6 DEF NamespaceRefuses
<1> QED BY <1>7 DEF p

-----------------------------------------------------------------------------
(* The rights programs of install_entry_chunk.                             *)

DenyEnts == [nr : Int, argn : 0..4, fd : Int]

\* The entries without the two answers.
EntryBody(ents) == DenyEntries(ents, LAMBDA e : 3 * (Len(ents) - (e - 1)) - 2)

\* The fields of an entry.
LEMMA EntryFields ==
    ASSUME NEW e \in DenyEnts PROVE e.nr \in Int /\ e.argn \in 0..4 /\ e.fd \in Int
BY DEF DenyEnts

\* The three instructions of each entry of a rights program.
LEMMA EntryBodyShape ==
    ASSUME NEW ents \in Seq(DenyEnts)
    PROVE  LET b == EntryBody(ents)
               n == Len(ents)
           IN  /\ b \in Seq(Instrs) /\ Len(b) = 3 * n
               /\ \A e \in 1..n : /\ b[3 * e - 2] = E_JEQ(ents[e].nr, 0, 2)
                                  /\ b[3 * e - 1] = LD_ARG(ents[e].argn)
                                  /\ b[3 * e] = E_JEQ(ents[e].fd, 3 * (n - (e - 1)) - 2, 0)
<1> DEFINE n == Len(ents)
           m == 3 * n
           G(e) == 3 * (n - (e - 1)) - 2
           F(i) == CASE i % 3 = 1 -> E_JEQ(ents[((i - 1) \div 3) + 1].nr, 0, 2)
                     [] i % 3 = 2 -> LD_ARG(ents[((i - 1) \div 3) + 1].argn)
                     [] i % 3 = 0 -> E_JEQ(ents[((i - 1) \div 3) + 1].fd,
                                           G(((i - 1) \div 3) + 1), 0)
           b == EntryBody(ents)
<1>0. n \in Nat /\ m \in Nat /\ \A e \in 1..n : ents[e] \in DenyEnts
  OBVIOUS
<1>1. b = [i \in 1..m |-> F(i)]
  BY DEF EntryBody, DenyEntries
<1>2. ASSUME NEW i \in 1..m PROVE F(i) \in Instrs
  <2> DEFINE e == ((i - 1) \div 3) + 1
  <2>0. n \in Nat
    BY <1>0
  <2>1. e \in 1..n /\ i % 3 \in {0, 1, 2}
    <3> HIDE DEF n
    <3> QED BY <2>0
  <2>2. ents[e] \in DenyEnts
    BY <1>0, <2>1
  <2>3. ents[e].nr \in Int /\ ents[e].argn \in 0..4 /\ ents[e].fd \in Int
    BY <2>2, EntryFields
  <2>4. G(e) \in Int
    BY <2>0, <2>1
  <2>5. /\ E_JEQ(ents[e].nr, 0, 2) \in Instrs /\ LD_ARG(ents[e].argn) \in Instrs
        /\ E_JEQ(ents[e].fd, G(e), 0) \in Instrs
    BY <2>3, <2>4, InsnTypes
  <2> HIDE DEF e, G, n
  <2> QED BY <2>1, <2>5 DEF e
<1>3. b \in Seq(Instrs) /\ Len(b) = m /\ \A i \in 1..m : b[i] = F(i)
  <2> HIDE DEF F, m, b
  <2> QED BY <1>0, <1>1, <1>2
<1>4. ASSUME NEW e \in 1..n
      PROVE  /\ b[3 * e - 2] = E_JEQ(ents[e].nr, 0, 2)
             /\ b[3 * e - 1] = LD_ARG(ents[e].argn)
             /\ b[3 * e] = E_JEQ(ents[e].fd, G(e), 0)
  <2>0. n \in Nat
    BY <1>0
  <2>1. /\ 3 * e - 2 \in 1..m /\ (3 * e - 2) % 3 = 1 /\ (((3 * e - 2) - 1) \div 3) + 1 = e
    <3> HIDE DEF n
    <3> QED BY <2>0
  <2>2. /\ 3 * e - 1 \in 1..m /\ (3 * e - 1) % 3 = 2 /\ (((3 * e - 1) - 1) \div 3) + 1 = e
    <3> HIDE DEF n
    <3> QED BY <2>0
  <2>3. /\ 3 * e \in 1..m /\ (3 * e) % 3 = 0 /\ (((3 * e) - 1) \div 3) + 1 = e
    <3> HIDE DEF n
    <3> QED BY <2>0
  <2> HIDE DEF m, b, G
  <2>4. b[3 * e - 2] = E_JEQ(ents[e].nr, 0, 2)
    <3> DEFINE i == 3 * e - 2
               g == ((i - 1) \div 3) + 1
    <3>1. i \in 1..m /\ i % 3 = 1 /\ g = e
      BY <2>1
    <3>2. b[i] = F(i)
      <4> HIDE DEF F, i
      <4> QED BY <1>3, <3>1
    <3> HIDE DEF i
    <3>3. F(i) = E_JEQ(ents[e].nr, 0, 2)
      <4> HIDE DEF g
      <4> QED BY <3>1 DEF g
    <3> QED BY <3>2, <3>3 DEF i
  <2>5. b[3 * e - 1] = LD_ARG(ents[e].argn)
    <3> DEFINE i == 3 * e - 1
               g == ((i - 1) \div 3) + 1
    <3>1. i \in 1..m /\ i % 3 = 2 /\ g = e
      BY <2>2
    <3>2. b[i] = F(i)
      <4> HIDE DEF F, i
      <4> QED BY <1>3, <3>1
    <3> HIDE DEF i
    <3>3. F(i) = LD_ARG(ents[e].argn)
      <4> HIDE DEF g
      <4> QED BY <3>1 DEF g
    <3> QED BY <3>2, <3>3 DEF i
  <2>6. b[3 * e] = E_JEQ(ents[e].fd, G(e), 0)
    <3> DEFINE i == 3 * e
               g == ((i - 1) \div 3) + 1
    <3>1. i \in 1..m /\ i % 3 = 0 /\ g = e
      BY <2>3
    <3>2. b[i] = F(i)
      <4> HIDE DEF F, i
      <4> QED BY <1>3, <3>1
    <3> HIDE DEF i
    <3>3. F(i) = E_JEQ(ents[e].fd, G(e), 0)
      <4> HIDE DEF g
      <4> QED BY <3>1 DEF g
    <3> QED BY <3>2, <3>3 DEF i
  <2> QED BY <2>4, <2>5, <2>6
<1>5. /\ b \in Seq(Instrs) /\ Len(b) = 3 * n
      /\ \A e \in 1..n : /\ b[3 * e - 2] = E_JEQ(ents[e].nr, 0, 2)
                         /\ b[3 * e - 1] = LD_ARG(ents[e].argn)
                         /\ b[3 * e] = E_JEQ(ents[e].fd, G(e), 0)
  BY <1>3, <1>4
<1> HIDE DEF b
<1> QED BY <1>5 DEF b

\* The fields of the three instructions of entry e at counters q - 2 .. q.
LEMMA EntryInsns ==
    ASSUME NEW nr, NEW argn, NEW fd, NEW m \in Int, 0 <= m, m < 256, NEW x, NEW y, NEW z,
           x = E_JEQ(nr, 0, 2), y = LD_ARG(argn), z = E_JEQ(fd, m, 0)
    PROVE  /\ x.op = "jeq" /\ x.k = nr /\ x.jt = 0 /\ x.jf = 2
           /\ y.op = "ldarg"
           /\ z.op = "jeq" /\ z.k = fd /\ z.jt = m /\ z.jf = 0
<1>1. m % 256 = m
  OBVIOUS
<1> QED BY <1>1 DEF E_JEQ, LD_ARG, Insn

\* Their jumps stay inside while the entries fit an 8-bit distance.
LEMMA EntryBodyFits ==
    ASSUME NEW ents \in Seq(DenyEnts), 3 * Len(ents) - 2 < 256
    PROVE  Fits(EntryBody(ents), 2)
<1> DEFINE b == EntryBody(ents)
           n == Len(ents)
<1>1. /\ b \in Seq(Instrs) /\ Len(b) = 3 * n
      /\ \A e \in 1..n : /\ b[3 * e - 2] = E_JEQ(ents[e].nr, 0, 2)
                         /\ b[3 * e - 1] = LD_ARG(ents[e].argn)
                         /\ b[3 * e] = E_JEQ(ents[e].fd, 3 * (n - (e - 1)) - 2, 0)
  BY EntryBodyShape
<1>0. n \in Nat /\ 3 * n - 2 < 256
  OBVIOUS
<1> HIDE DEF b, n
<1>2. ASSUME NEW i \in 1..Len(b)
      PROVE  /\ b[i].op # "ret" => i + 1 <= Len(b) + 2
             /\ b[i].op = "jeq" => /\ i + 1 + b[i].jt <= Len(b) + 2
                                   /\ i + 1 + b[i].jf <= Len(b) + 2
  <2> DEFINE e == ((i - 1) \div 3) + 1
             m == 3 * (n - (e - 1)) - 2
             l == Len(b)
  <2>0. l = 3 * n /\ i \in 1..l
    BY <1>1
  <2>1. e \in 1..n /\ i \in {3 * e - 2, 3 * e - 1, 3 * e}
    <3> HIDE DEF l
    <3> QED BY <1>0, <2>0
  <2>2. /\ b[3 * e - 2] = E_JEQ(ents[e].nr, 0, 2)
        /\ b[3 * e - 1] = LD_ARG(ents[e].argn)
        /\ b[3 * e] = E_JEQ(ents[e].fd, m, 0)
    <3> HIDE DEF e
    <3> QED BY <1>1, <2>1
  <2> HIDE DEF e
  <2>3. m \in Int /\ 0 <= m /\ m < 256 /\ 3 * e + 1 + m = l + 2 /\ 3 * e <= l /\ e >= 1
    <3> HIDE DEF l
    <3> QED BY <1>0, <2>0, <2>1
  <2> HIDE DEF m
  <2>4. /\ b[3 * e - 2].op = "jeq" /\ b[3 * e - 2].jt = 0 /\ b[3 * e - 2].jf = 2
        /\ b[3 * e - 1].op = "ldarg"
        /\ b[3 * e].op = "jeq" /\ b[3 * e].jt = m /\ b[3 * e].jf = 0
    BY SMTT(30), <2>2, <2>3, EntryInsns
  <2>5. e \in Int
    BY <1>0, <2>1
  <2>6. CASE i = 3 * e - 2
    <3>1. b[i].jt = 0 /\ b[i].jf = 2
      BY <2>4, <2>6
    <3>2. i + 1 <= l + 2 /\ i + 1 + 0 <= l + 2 /\ i + 1 + 2 <= l + 2
      <4> HIDE DEF l
      <4> QED BY <2>0, <2>3, <2>5, <2>6, <1>0
    <3> QED BY <3>1, <3>2
  <2>7. CASE i = 3 * e - 1
    <3>1. b[i].op # "jeq"
      BY <2>4, <2>7
    <3>2. i + 1 <= l + 2
      <4> HIDE DEF l
      <4> QED BY <2>0, <2>3, <2>5, <2>7, <1>0
    <3> QED BY <3>1, <3>2
  <2>8. CASE i = 3 * e
    <3>1. b[i].jt = m /\ b[i].jf = 0
      BY <2>4, <2>8
    <3>2. i + 1 <= l + 2 /\ i + 1 + m <= l + 2 /\ i + 1 + 0 <= l + 2
      <4> HIDE DEF l
      <4> QED BY <2>0, <2>3, <2>5, <2>8, <1>0
    <3> QED BY <3>1, <3>2
  <2> QED BY <2>1, <2>6, <2>7, <2>8
<1>3. Fits(b, 2)
  BY <1>1, <1>2 DEF Fits
<1> QED BY <1>3 DEF b

\* The two answers at the end.
LEMMA AnswersFit ==
    LET z == <<RET_ALLOW, RET_EPERM>>
    IN  Fits(z, 0) /\ z \in Seq(Instrs) /\ Len(z) = 2 /\ z[1] = RET_ALLOW /\ z[2] = RET_EPERM
<1>1. /\ RET_ALLOW \in Instrs /\ RET_ALLOW.op = "ret"
      /\ RET_EPERM \in Instrs /\ RET_EPERM.op = "ret"
  BY InsnTypes DEF RET_ALLOW, RET_EPERM, Insn
<1> QED BY <1>1 DEF Fits

\* The parts of a rights program.
LEMMA ChunkParts ==
    ASSUME NEW ents \in Seq(DenyEnts), 3 * Len(ents) - 2 < 256
    PROVE  LET p == install_entry_chunk(ents)
               n == Len(ents)
           IN  /\ Runnable(p) /\ Len(p) = 3 * n + 6 /\ At(p, 0, Prologue)
               /\ \A e \in 1..n :
                    /\ p[4 + 3 * e - 2] = E_JEQ(ents[e].nr, 0, 2)
                    /\ p[4 + 3 * e - 1] = LD_ARG(ents[e].argn)
                    /\ p[4 + 3 * e] = E_JEQ(ents[e].fd, 3 * (n - (e - 1)) - 2, 0)
               /\ p[4 + 3 * n + 1] = RET_ALLOW /\ p[4 + 3 * n + 2] = RET_EPERM
<1> DEFINE n == Len(ents)
           h == Prologue
           b == EntryBody(ents)
           z == <<RET_ALLOW, RET_EPERM>>
           p == install_entry_chunk(ents)
           G(e) == 3 * (n - (e - 1)) - 2
<1>0. n \in Nat
  OBVIOUS
<1>1. /\ b \in Seq(Instrs) /\ Len(b) = 3 * n
      /\ \A e \in 1..n : /\ b[3 * e - 2] = E_JEQ(ents[e].nr, 0, 2)
                         /\ b[3 * e - 1] = LD_ARG(ents[e].argn)
                         /\ b[3 * e] = E_JEQ(ents[e].fd, G(e), 0)
  BY EntryBodyShape
<1>2. Fits(b, 2)
  BY EntryBodyFits
<1>3. /\ Fits(z, 0) /\ z \in Seq(Instrs) /\ Len(z) = 2 /\ z[1] = RET_ALLOW /\ z[2] = RET_EPERM
  BY AnswersFit
<1>4. p = h \o (b \o z)
  BY DEF install_entry_chunk, emit_fd_deny, EntryBody, Prologue
<1>5. h \in Seq(Instrs) /\ Len(h) = 4 /\ Block(h)
  BY PrologueShape, PrologueBlock
<1> HIDE DEF h, b, z, p, n, G
<1> DEFINE t == b \o z
<1>6. /\ t \in Seq(Instrs) /\ Len(t) = Len(b) + Len(z)
      /\ \A i \in 1..Len(b) : t[i] = b[i]
      /\ \A i \in 1..Len(z) : t[Len(b) + i] = z[i]
  BY <1>1, <1>3, Joined
<1>7. Fits(t, 0)
  <2>1. Len(z) + 0 = 2 /\ 0 \in Nat
    BY <1>3
  <2>2. Fits(b, Len(z) + 0)
    BY <1>2, <2>1
  <2> QED BY <1>3, <2>1, <2>2, FitsConcat
<1> HIDE DEF t
<1>8. Len(t) = 3 * n + 2
  BY <1>0, <1>1, <1>3, <1>6
<1>9. Runnable(p)
  <2>1. Len(t) > 0
    BY <1>0, <1>8
  <2> QED BY <1>4, <1>5, <1>7, <2>1, BlockEnds DEF t
<1>10. /\ p \in Seq(Instrs) /\ Len(p) = Len(h) + Len(t)
       /\ \A i \in 1..Len(t) : p[Len(h) + i] = t[i]
  BY <1>4, <1>5, <1>6, Joined DEF t
<1>11. Len(p) = 3 * n + 6
  BY <1>0, <1>5, <1>8, <1>10
<1>12. At(p, 0, h)
  <2>1. p = h \o t
    BY <1>4 DEF t
  <2>2. p \in Seq(Instrs) /\ Len(p) \in Nat
    BY <1>10
  <2>3. At(p, 0, p)
    BY <2>2, AtSelf
  <2> QED BY <1>5, <1>6, <2>1, <2>2, <2>3, AtConcat
<1>13. ASSUME NEW i \in 1..(3 * n) PROVE p[4 + i] = b[i]
  <2>1. i \in 1..Len(t) /\ i \in 1..Len(b)
    BY <1>0, <1>1, <1>8
  <2> QED BY <1>5, <1>6, <1>10, <2>1
<1>14. ASSUME NEW e \in 1..n
       PROVE  /\ p[4 + 3 * e - 2] = E_JEQ(ents[e].nr, 0, 2)
              /\ p[4 + 3 * e - 1] = LD_ARG(ents[e].argn)
              /\ p[4 + 3 * e] = E_JEQ(ents[e].fd, G(e), 0)
  <2>1. /\ 3 * e - 2 \in 1..(3 * n) /\ 3 * e - 1 \in 1..(3 * n) /\ 3 * e \in 1..(3 * n)
        /\ 4 + (3 * e - 2) = 4 + 3 * e - 2 /\ 4 + (3 * e - 1) = 4 + 3 * e - 1
    BY <1>0
  <2>2. /\ p[4 + (3 * e - 2)] = b[3 * e - 2] /\ p[4 + (3 * e - 1)] = b[3 * e - 1]
        /\ p[4 + 3 * e] = b[3 * e]
    BY <1>13, <2>1
  <2> QED BY <1>1, <2>1, <2>2
<1>15. p[4 + 3 * n + 1] = RET_ALLOW /\ p[4 + 3 * n + 2] = RET_EPERM
  <2> DEFINE m == 3 * n
  <2>1. m \in Nat /\ Len(b) = m /\ Len(t) = m + 2
    BY <1>0, <1>1, <1>8
  <2> HIDE DEF m
  <2>2. /\ 1 \in 1..Len(z) /\ 2 \in 1..Len(z) /\ m + 1 \in 1..Len(t) /\ m + 2 \in 1..Len(t)
        /\ 4 + (m + 1) = 4 + m + 1 /\ 4 + (m + 2) = 4 + m + 2
    BY <1>3, <2>1
  <2>3. t[m + 1] = RET_ALLOW /\ t[m + 2] = RET_EPERM
    BY <1>3, <1>6, <2>1, <2>2
  <2>4. p[4 + (m + 1)] = t[m + 1] /\ p[4 + (m + 2)] = t[m + 2]
    BY <1>5, <1>10, <2>2
  <2> QED BY <2>2, <2>3, <2>4 DEF m
<1>16. /\ Runnable(p) /\ Len(p) = 3 * n + 6 /\ At(p, 0, h)
       /\ \A e \in 1..n :
                    /\ p[4 + 3 * e - 2] = E_JEQ(ents[e].nr, 0, 2)
                    /\ p[4 + 3 * e - 1] = LD_ARG(ents[e].argn)
                    /\ p[4 + 3 * e] = E_JEQ(ents[e].fd, G(e), 0)
       /\ p[4 + 3 * n + 1] = RET_ALLOW /\ p[4 + 3 * n + 2] = RET_EPERM
  BY <1>9, <1>11, <1>12, <1>14, <1>15
<1> QED BY <1>16 DEF p, n, h, G

\* The answer of a rights program behind its first j entries.
After(ents, d, j, a) == From(install_entry_chunk(ents), d, 4 + 3 * j + 1, a)

\* The bound on the entries: the first jump to the shared RET_EPERM is the longest.
Chunk(ents) == ents \in Seq(DenyEnts) /\ 3 * Len(ents) - 2 < 256

\* The argument entry e looks at.
EntryArg(d, e) == d.args[e.argn]

\* One entry: not its call, its call on its fd, and its call on another fd, after which
\* the register holds that fd.
LEMMA DoEntry ==
    ASSUME NEW ents, Chunk(ents), NEW d \in SysCalls, NEW e \in 1..Len(ents), NEW a \in Int
    PROVE  /\ EntryArg(d, ents[e]) \in Int
           /\ a # ents[e].nr => After(ents, d, e - 1, a) = After(ents, d, e, a)
           /\ a = ents[e].nr /\ EntryArg(d, ents[e]) = ents[e].fd =>
                After(ents, d, e - 1, a) = EPERM
           /\ a = ents[e].nr /\ EntryArg(d, ents[e]) # ents[e].fd =>
                After(ents, d, e - 1, a) = After(ents, d, e, EntryArg(d, ents[e]))
<1> DEFINE n == Len(ents)
           p == install_entry_chunk(ents)
           v == EntryArg(d, ents[e])
           nr == ents[e].nr
           fd == ents[e].fd
           g == ents[e].argn
           m == 3 * (n - (e - 1)) - 2
           x == 4 + 3 * e - 2
           y == 4 + 3 * e - 1
           z == 4 + 3 * e
           w == 4 + 3 * n + 2
<1>0. ents \in Seq(DenyEnts) /\ 3 * n - 2 < 256 /\ n \in Nat /\ e \in 1..n
  BY DEF Chunk
<1>1. /\ Runnable(p) /\ Len(p) = 3 * n + 6
      /\ \A i \in 1..n : /\ p[4 + 3 * i - 2] = E_JEQ(ents[i].nr, 0, 2)
                         /\ p[4 + 3 * i - 1] = LD_ARG(ents[i].argn)
                         /\ p[4 + 3 * i] = E_JEQ(ents[i].fd, 3 * (n - (i - 1)) - 2, 0)
      /\ p[w] = RET_EPERM
  BY <1>0, ChunkParts
<1>2. p[x] = E_JEQ(nr, 0, 2) /\ p[y] = LD_ARG(g) /\ p[z] = E_JEQ(fd, m, 0)
  <2> HIDE DEF p
  <2> QED BY <1>1
<1>3. ents[e] \in DenyEnts
  BY <1>0
<1>4. nr \in Int /\ g \in 0..4 /\ fd \in Int
  BY <1>3, EntryFields
<1>5. v = d.args[g] /\ v \in Int
  <2>1. d.args \in [0..4 -> Int]
    BY DEF SysCalls
  <2> HIDE DEF g
  <2> QED BY <1>4, <2>1 DEF EntryArg, g
<1>6. /\ m \in Int /\ 0 <= m /\ m < 256 /\ z + 1 + m = w
      /\ x + 1 + 0 = y /\ y + 1 = z /\ x + 1 + 2 = z + 1 /\ z + 1 + 0 = z + 1
      /\ 4 + 3 * (e - 1) + 1 = x
      /\ x \in 1..(3 * n + 6) /\ y \in 1..(3 * n + 6) /\ z \in 1..(3 * n + 6)
      /\ w \in 1..(3 * n + 6)
  <2> HIDE DEF n
  <2> QED BY <1>0
<1>7. After(ents, d, e - 1, a) = From(p, d, x, a)
  BY <1>6 DEF After
<1>8. \A u : After(ents, d, e, u) = From(p, d, z + 1, u)
  BY DEF After
<1> HIDE DEF n, p, v, nr, fd, g, m, x, y, z, w
<1>9. /\ p[x].op = "jeq" /\ p[x].k = nr /\ p[x].jt = 0 /\ p[x].jf = 2
      /\ p[z].op = "jeq" /\ p[z].k = fd /\ p[z].jt = m /\ p[z].jf = 0
  BY <1>2, <1>6, EntryInsns
<1>10. x \in 1..Len(p) /\ y \in 1..Len(p) /\ z \in 1..Len(p) /\ w \in 1..Len(p)
  BY <1>1, <1>6
<1>11. /\ a = nr => From(p, d, x, a) = From(p, d, x + 1 + 0, a)
       /\ a # nr => From(p, d, x, a) = From(p, d, x + 1 + 2, a)
  BY SMTT(30), <1>1, <1>9, <1>10, DoJeq
<1>12. From(p, d, y, a) = From(p, d, y + 1, v)
  BY <1>1, <1>2, <1>5, <1>10, DoArg
<1>13. /\ v = fd => From(p, d, z, v) = From(p, d, z + 1 + m, v)
       /\ v # fd => From(p, d, z, v) = From(p, d, z + 1 + 0, v)
  <2>1. /\ v = p[z].k => From(p, d, z, v) = From(p, d, z + 1 + p[z].jt, v)
        /\ v # p[z].k => From(p, d, z, v) = From(p, d, z + 1 + p[z].jf, v)
    BY ZenonT(60), <1>1, <1>5, <1>9, <1>10, DoJeq
  <2> QED BY <1>9, <2>1
<1>14. From(p, d, w, v) = EPERM
  BY <1>1, <1>5, <1>10, DoRet DEF RET_EPERM
<1>15. /\ v \in Int
       /\ a # nr => After(ents, d, e - 1, a) = After(ents, d, e, a)
       /\ a = nr /\ v = fd => After(ents, d, e - 1, a) = EPERM
       /\ a = nr /\ v # fd => After(ents, d, e - 1, a) = After(ents, d, e, v)
  <2>1. a # nr => From(p, d, x, a) = From(p, d, z + 1, a)
    BY <1>6, <1>11
  <2>2. a = nr => From(p, d, x, a) = From(p, d, z, v)
    BY <1>6, <1>11, <1>12
  <2>3. v = fd => From(p, d, z, v) = EPERM
    BY <1>6, <1>13, <1>14
  <2>4. v # fd => From(p, d, z, v) = From(p, d, z + 1, v)
    BY <1>6, <1>13
  <2> QED BY <1>5, <1>7, <1>8, <2>1, <2>2, <2>3, <2>4
<1> QED BY <1>15 DEF v, nr, fd

\* The beginning and the end of a rights program.
LEMMA DoEnds ==
    ASSUME NEW ents, Chunk(ents), NEW d \in SysCalls
    PROVE  LET p == install_entry_chunk(ents) IN
           /\ Runnable(p) /\ Len(p) = 3 * Len(ents) + 6
           /\ ~d.native => Run(p, d) = KILL
           /\ d.native => Run(p, d) = After(ents, d, 0, d.nr)
           /\ \A a \in Int : After(ents, d, Len(ents), a) = ALLOW
<1> DEFINE n == Len(ents)
           p == install_entry_chunk(ents)
           w == 4 + 3 * n + 1
<1>0. ents \in Seq(DenyEnts) /\ 3 * n - 2 < 256 /\ n \in Nat
  BY DEF Chunk
<1>1. /\ Runnable(p) /\ Len(p) = 3 * n + 6 /\ At(p, 0, Prologue) /\ p[w] = RET_ALLOW
  BY <1>0, ChunkParts
<1>2. \A a : After(ents, d, n, a) = From(p, d, w, a)
  BY DEF After
<1>3. After(ents, d, 0, d.nr) = From(p, d, 5, d.nr)
  <2>1. 4 + 3 * 0 + 1 = 5
    OBVIOUS
  <2> QED BY <2>1 DEF After
<1> HIDE DEF p
<1>4. /\ ~d.native => Run(p, d) = KILL
      /\ d.native => Run(p, d) = From(p, d, 5, d.nr)
  BY <1>1, DoPrologue
<1>5. w \in 1..Len(p)
  <2> HIDE DEF n
  <2> QED BY <1>0, <1>1
<1> HIDE DEF n, w
<1>6. \A a \in Int : From(p, d, w, a) = ALLOW
  BY <1>1, <1>5, DoRet DEF RET_ALLOW
<1>7. /\ Runnable(p) /\ Len(p) = 3 * n + 6
      /\ ~d.native => Run(p, d) = KILL
      /\ d.native => Run(p, d) = After(ents, d, 0, d.nr)
      /\ \A a \in Int : After(ents, d, n, a) = ALLOW
  BY <1>1, <1>2, <1>3, <1>4, <1>6
<1> QED BY <1>7 DEF p, n

\* The register still holds a behind entries that are all for other calls.
LEMMA PassEntries ==
    ASSUME NEW ents, Chunk(ents), NEW d \in SysCalls, NEW a \in Int, NEW j \in 0..Len(ents),
           \A i \in 1..j : ents[i].nr # a
    PROVE  After(ents, d, 0, a) = After(ents, d, j, a)
<1> DEFINE n == Len(ents)
           E(k) == After(ents, d, k, a)
           T == {k \in 0..n : (\A i \in 1..k : ents[i].nr # a) => E(0) = E(k)}
<1>0. n \in Nat
  BY DEF Chunk
<1>1. 0 \in T
  BY <1>0
<1>2. ASSUME NEW k \in 0..(n - 1), k \in T PROVE k + 1 \in T
  <2> SUFFICES ASSUME \A i \in 1..(k + 1) : ents[i].nr # a PROVE E(0) = E(k + 1)
    BY <1>0
  <2>1. E(0) = E(k)
    BY <1>2
  <2> DEFINE q == k + 1
  <2>2. q \in 1..n /\ q - 1 = k /\ q \in 1..(k + 1)
    BY <1>0
  <2>3. ents[q].nr # a
    BY <2>2
  <2> HIDE DEF q
  <2>4. E(q - 1) = E(q)
    BY <2>2, <2>3, DoEntry
  <2> HIDE DEF E
  <2> QED BY <2>1, <2>2, <2>4 DEF q
<1>3. 0..n \subseteq T
  <2> HIDE DEF T
  <2> QED BY <1>0, <1>1, <1>2, UpTo
<1> QED BY <1>3

\* A call no entry is for passes.
LEMMA ChunkPasses ==
    ASSUME NEW ents, Chunk(ents), NEW d \in SysCalls, d.native,
           \A i \in 1..Len(ents) : ents[i].nr # d.nr
    PROVE  Run(install_entry_chunk(ents), d) = ALLOW
<1> DEFINE n == Len(ents)
<1>0. d.nr \in Int /\ n \in 0..n
  BY DEF SysCalls, Chunk
<1>1. Run(install_entry_chunk(ents), d) = After(ents, d, 0, d.nr)
  BY DoEnds
<1>2. After(ents, d, n, d.nr) = ALLOW
  BY <1>0, DoEnds
<1>3. After(ents, d, 0, d.nr) = After(ents, d, n, d.nr)
  BY <1>0, PassEntries
<1> QED BY <1>1, <1>2, <1>3

\* The first entry for a call decides if its descriptor is the call's.
LEMMA ChunkDenies ==
    ASSUME NEW ents, Chunk(ents), NEW d \in SysCalls, d.native, NEW e \in 1..Len(ents),
           \A i \in 1..(e - 1) : ents[i].nr # d.nr,
           ents[e].nr = d.nr, EntryArg(d, ents[e]) = ents[e].fd
    PROVE  Run(install_entry_chunk(ents), d) = EPERM
<1>0. d.nr \in Int /\ e - 1 \in 0..Len(ents)
  BY DEF SysCalls, Chunk
<1>1. Run(install_entry_chunk(ents), d) = After(ents, d, 0, d.nr)
  BY DoEnds
<1>2. After(ents, d, 0, d.nr) = After(ents, d, e - 1, d.nr)
  BY <1>0, PassEntries
<1>3. After(ents, d, e - 1, d.nr) = EPERM
  BY <1>0, DoEntry
<1> QED BY <1>1, <1>2, <1>3

\* Behind any entry, with any register, the answer is one of two.
LEMMA ChunkAnswers ==
    ASSUME NEW ents, Chunk(ents), NEW d \in SysCalls
    PROVE  Run(install_entry_chunk(ents), d) \in {ALLOW, EPERM, KILL}
<1> DEFINE n == Len(ents)
           T == {k \in 0..n : \A a \in Int : After(ents, d, n - k, a) \in {ALLOW, EPERM}}
<1>0. n \in Nat /\ d.nr \in Int /\ d.native \in BOOLEAN
  BY DEF Chunk, SysCalls
<1>1. 0 \in T
  <2>1. n - 0 = n
    BY <1>0
  <2>2. \A a \in Int : After(ents, d, n, a) = ALLOW
    BY DoEnds
  <2> QED BY <1>0, <2>1, <2>2
<1>2. ASSUME NEW k \in 0..(n - 1), k \in T PROVE k + 1 \in T
  <2> SUFFICES ASSUME NEW a \in Int PROVE After(ents, d, n - (k + 1), a) \in {ALLOW, EPERM}
    BY <1>0
  <2> DEFINE e == n - k
  <2>1. e \in 1..n /\ e - 1 = n - (k + 1)
    BY <1>0
  <2>2. \A b \in Int : After(ents, d, e, b) \in {ALLOW, EPERM}
    BY <1>2
  <2> HIDE DEF e
  <2>3. /\ EntryArg(d, ents[e]) \in Int
        /\ a # ents[e].nr => After(ents, d, e - 1, a) = After(ents, d, e, a)
        /\ a = ents[e].nr /\ EntryArg(d, ents[e]) = ents[e].fd =>
             After(ents, d, e - 1, a) = EPERM
        /\ a = ents[e].nr /\ EntryArg(d, ents[e]) # ents[e].fd =>
             After(ents, d, e - 1, a) = After(ents, d, e, EntryArg(d, ents[e]))
    BY <2>1, DoEntry
  <2>4. After(ents, d, e - 1, a) \in {ALLOW, EPERM}
    BY <2>2, <2>3
  <2> QED BY <2>1, <2>4
<1>3. 0..n \subseteq T
  <2> HIDE DEF T
  <2> QED BY <1>0, <1>1, <1>2, UpTo
<1>4. n \in 0..n /\ n - n = 0
  BY <1>0
<1>5. After(ents, d, 0, d.nr) \in {ALLOW, EPERM}
  BY <1>0, <1>3, <1>4
<1> QED BY <1>0, <1>5, DoEnds

\* A program for one descriptor, its mmap entry last if it has one.
Single(ents, f) ==
    \A i \in 1..Len(ents) : /\ ents[i].fd = f /\ ents[i].argn = FdArg(ents[i].nr)
                            /\ ents[i].nr = 9 => i = Len(ents)

\* A number that is neither the descriptor nor mmap's passes every entry.
LEMMA SinglePasses ==
    ASSUME NEW ents, Chunk(ents), NEW d \in SysCalls, NEW f, Single(ents, f),
           d.args[0] # f, d.args[0] # 9, NEW j \in 0..Len(ents)
    PROVE  After(ents, d, j, d.args[0]) = ALLOW
<1> DEFINE n == Len(ents)
           v == d.args[0]
           T == {k \in 0..n : After(ents, d, n - k, v) = ALLOW}
<1>0. n \in Nat /\ v \in Int
  BY DEF Chunk, SysCalls
<1>1. 0 \in T
  <2>1. n - 0 = n
    BY <1>0
  <2> QED BY <1>0, <2>1, DoEnds
<1>2. ASSUME NEW k \in 0..(n - 1), k \in T PROVE k + 1 \in T
  <2> DEFINE e == n - k
  <2>1. e \in 1..n /\ e - 1 = n - (k + 1) /\ k + 1 \in 0..n
    BY <1>0
  <2>2. After(ents, d, e, v) = ALLOW
    BY <1>2
  <2> HIDE DEF e
  <2>3. ents[e].fd = f /\ ents[e].argn = FdArg(ents[e].nr)
    BY <2>1 DEF Single
  <2>4. v = ents[e].nr => EntryArg(d, ents[e]) = v
    BY <2>3 DEF FdArg, EntryArg
  <2>5. /\ v # ents[e].nr => After(ents, d, e - 1, v) = After(ents, d, e, v)
        /\ v = ents[e].nr /\ EntryArg(d, ents[e]) # ents[e].fd =>
             After(ents, d, e - 1, v) = After(ents, d, e, EntryArg(d, ents[e]))
    <3> HIDE DEF v
    <3> QED BY <1>0, <2>1, DoEntry
  <2>6. After(ents, d, e - 1, v) = ALLOW
    BY <2>2, <2>3, <2>4, <2>5
  <2> QED BY <2>1, <2>6
<1>3. 0..n \subseteq T
  <2> HIDE DEF T
  <2> QED BY <1>0, <1>1, <1>2, UpTo
<1>4. n - j \in 0..n /\ n - (n - j) = j
  BY <1>0
<1> QED BY <1>3, <1>4

\* Such a program refuses the calls it has an entry for, and no other.
LEMMA SingleExact ==
    ASSUME NEW ents, Chunk(ents), NEW d \in SysCalls, d.native, NEW f, Single(ents, f)
    PROVE  LET denied == \E i \in 1..Len(ents) :
                            ents[i].nr = d.nr /\ EntryArg(d, ents[i]) = ents[i].fd
           IN  /\ denied => Run(install_entry_chunk(ents), d) = EPERM
               /\ ~denied /\ d.args[0] # 9 => Run(install_entry_chunk(ents), d) = ALLOW
<1> DEFINE n == Len(ents)
           S == {i \in 1..n : ents[i].nr = d.nr}
           Hit(i) == EntryArg(d, ents[i]) = ents[i].fd
           r == Run(install_entry_chunk(ents), d)
<1>0. n \in Nat /\ d.nr \in Int
  BY DEF Chunk, SysCalls
<1>1. CASE S = {}
  <2>1. r = ALLOW
    BY <1>1, ChunkPasses
  <2> QED BY <1>1, <2>1
<1>2. CASE S # {}
  <2>1. PICK e \in S : \A j \in S : e <= j
    <3>1. S \in SUBSET Nat
      OBVIOUS
    <3> HIDE DEF S
    <3> QED BY <1>2, <3>1, LeastExists
  <2>2. e \in 1..n /\ ents[e].nr = d.nr /\ \A i \in 1..(e - 1) : ents[i].nr # d.nr
    BY <2>1
  <2>3. ents[e].fd = f /\ ents[e].argn = FdArg(d.nr)
    BY <2>2 DEF Single
  <2>4. \A i \in S : ents[i].fd = f /\ ents[i].argn = FdArg(d.nr)
    BY DEF Single
  <2>5. \A i \in S : Hit(i) <=> Hit(e)
    <3> HIDE DEF S
    <3> QED BY <2>3, <2>4 DEF EntryArg
  <2>6. CASE Hit(e)
    <3>1. r = EPERM
      BY <2>2, <2>6, ChunkDenies
    <3> QED BY <2>2, <2>6, <3>1
  <2>7. CASE ~Hit(e) /\ d.args[0] # 9
    <3>1. r = After(ents, d, 0, d.nr)
      BY DoEnds
    <3>2. e - 1 \in 0..n
      BY <1>0, <2>2
    <3>3. After(ents, d, 0, d.nr) = After(ents, d, e - 1, d.nr)
      BY <1>0, <2>2, <3>2, PassEntries
    <3>4. After(ents, d, e - 1, d.nr) = After(ents, d, e, EntryArg(d, ents[e]))
      BY <1>0, <2>2, <2>7, DoEntry
    <3>5. CASE d.nr = 9
      <4>1. e = n
        BY <2>2, <3>5 DEF Single
      <4>2. EntryArg(d, ents[e]) \in Int
        BY <1>0, <2>2, DoEntry
      <4>3. After(ents, d, e, EntryArg(d, ents[e])) = ALLOW
        BY <4>1, <4>2, DoEnds
      <4> QED BY <2>5, <2>7, <3>1, <3>3, <3>4, <4>3
    <3>6. CASE d.nr # 9
      <4>1. EntryArg(d, ents[e]) = d.args[0] /\ d.args[0] # f
        BY <2>3, <2>7, <3>6 DEF FdArg, EntryArg
      <4>2. e \in 0..n
        BY <1>0, <2>2
      <4>3. After(ents, d, e, d.args[0]) = ALLOW
        BY <2>7, <4>1, <4>2, SinglePasses
      <4> QED BY <2>5, <2>7, <3>1, <3>3, <3>4, <4>1, <4>3
    <3> QED BY <3>5, <3>6
  <2>8. CASE ~Hit(e) /\ d.args[0] = 9
    BY <2>5, <2>8
  <2> QED BY <2>6, <2>7, <2>8
<1> QED BY <1>1, <1>2

-----------------------------------------------------------------------------
(* The allowlists of install_arg1_limits.                                  *)

ArgBlks == [fd : Int, list : Seq(Int)]

\* The blocks of the k-th descriptor on, and one block before the rest.
ArgFrom(blocks) == ArgBlocksFrom(blocks, LAMBDA rest : 1 + Len(rest))
OwnBlock(blk, r) ==
    LET n == Len(blk.list) IN
    <<LD_ARG(0), E_JEQ(blk.fd, 0, n + 2), LD_ARG(1)>>
      \o [j \in 1..n |-> E_JEQ(blk.list[j], (n - j) + (1 + r), 0)] \o <<RET_EPERM>>

\* The fields of a block.
LEMMA BlkFields ==
    ASSUME NEW b \in ArgBlks
    PROVE  b.fd \in Int /\ b.list \in Seq(Int) /\ Len(b.list) \in Nat
           /\ \A j \in 1..Len(b.list) : b.list[j] \in Int
<1>1. b.fd \in Int /\ b.list \in Seq(Int)
  BY DEF ArgBlks
<1> QED BY <1>1

\* The instructions of one fd's block.
LEMMA OwnShape ==
    ASSUME NEW blk \in ArgBlks, NEW r \in Nat
    PROVE  LET b == OwnBlock(blk, r)
               n == Len(blk.list)
           IN  /\ b \in Seq(Instrs) /\ Len(b) = n + 4
               /\ b[1] = LD_ARG(0) /\ b[2] = E_JEQ(blk.fd, 0, n + 2) /\ b[3] = LD_ARG(1)
               /\ \A j \in 1..n : b[3 + j] = E_JEQ(blk.list[j], (n - j) + (1 + r), 0)
               /\ b[n + 4] = RET_EPERM
<1> DEFINE n == Len(blk.list)
           i2 == E_JEQ(blk.fd, 0, n + 2)
           G(j) == E_JEQ(blk.list[j], (n - j) + (1 + r), 0)
           x == <<LD_ARG(0), i2, LD_ARG(1)>>
           y == [j \in 1..n |-> G(j)]
           z == <<RET_EPERM>>
<1>0. n \in Nat /\ blk.fd \in Int /\ \A j \in 1..n : blk.list[j] \in Int
  BY BlkFields
<1>1. \A j \in 1..n : G(j) \in Instrs
  <2> TAKE j \in 1..n
  <2> DEFINE v == blk.list[j]
             m == (n - j) + (1 + r)
  <2>1. v \in Int /\ m \in Int /\ 0 \in Int
    BY <1>0
  <2> HIDE DEF v, m
  <2>2. E_JEQ(v, m, 0) \in Instrs
    BY <2>1, InsnTypes
  <2> QED BY <2>2 DEF v, m
<1>2. y \in Seq(Instrs) /\ Len(y) = n /\ \A j \in 1..n : y[j] = G(j)
  <2> HIDE DEF G, n
  <2> QED BY <1>0, <1>1
<1>3. x \in Seq(Instrs) /\ Len(x) = 3 /\ x[1] = LD_ARG(0) /\ x[2] = i2 /\ x[3] = LD_ARG(1)
  <2>1. i2 \in Instrs /\ LD_ARG(0) \in Instrs /\ LD_ARG(1) \in Instrs
    BY <1>0, InsnTypes
  <2> HIDE DEF i2
  <2> QED BY <2>1
<1>4. z \in Seq(Instrs) /\ Len(z) = 1 /\ z[1] = RET_EPERM
  BY InsnTypes
<1>5. OwnBlock(blk, r) = (x \o y) \o z
  BY DEF OwnBlock
<1> HIDE DEF x, y, z, G, n, i2
<1> DEFINE w == x \o y
<1>6. /\ w \in Seq(Instrs) /\ Len(w) = n + 3
      /\ w[1] = x[1] /\ w[2] = x[2] /\ w[3] = x[3] /\ \A j \in 1..n : w[3 + j] = y[j]
  <2>1. /\ w \in Seq(Instrs) /\ Len(w) = Len(x) + Len(y)
        /\ \A i \in 1..Len(x) : w[i] = x[i]
        /\ \A i \in 1..Len(y) : w[Len(x) + i] = y[i]
    BY <1>2, <1>3, Joined
  <2> HIDE DEF w
  <2>2. Len(w) = n + 3 /\ 1 \in 1..Len(x) /\ 2 \in 1..Len(x) /\ 3 \in 1..Len(x)
    BY <1>0, <1>2, <1>3, <2>1
  <2> QED BY <1>2, <1>3, <2>1, <2>2
<1> HIDE DEF w
<1> DEFINE b == w \o z
<1>7. /\ b \in Seq(Instrs) /\ Len(b) = n + 4
      /\ \A i \in 1..(n + 3) : b[i] = w[i]
      /\ b[(n + 3) + 1] = z[1]
  <2>1. /\ b \in Seq(Instrs) /\ Len(b) = Len(w) + Len(z)
        /\ \A i \in 1..Len(w) : b[i] = w[i]
        /\ \A i \in 1..Len(z) : b[Len(w) + i] = z[i]
    BY <1>4, <1>6, Joined
  <2> HIDE DEF b
  <2>2. Len(b) = n + 4 /\ 1 \in 1..Len(z)
    BY <1>0, <1>4, <1>6, <2>1
  <2> QED BY <1>6, <2>1, <2>2
<1> HIDE DEF b
<1>8. /\ 1 \in 1..(n + 3) /\ 2 \in 1..(n + 3) /\ 3 \in 1..(n + 3) /\ (n + 3) + 1 = n + 4
      /\ \A j \in 1..n : 3 + j \in 1..(n + 3)
  BY <1>0
<1>9. \A j \in 1..n : b[3 + j] = G(j)
  BY <1>2, <1>6, <1>7, <1>8
<1>10. b[1] = LD_ARG(0) /\ b[2] = i2 /\ b[3] = LD_ARG(1)
  BY <1>3, <1>6, <1>7, <1>8
<1>11. b[n + 4] = RET_EPERM
  BY <1>4, <1>7, <1>8
<1>12. OwnBlock(blk, r) = b
  BY <1>5 DEF w, b
<1> QED BY <1>7, <1>9, <1>10, <1>11, <1>12 DEF G, n, i2

\* The recursion from the last block to the first.
LEMMA ArgFromDefined ==
    ASSUME NEW blocks \in Seq(ArgBlks)
    PROVE  LET f == ArgFrom(blocks)
               n == Len(blocks)
           IN  /\ f[n + 1] = << >>
               /\ \A k \in 1..(n + 1) : f[k] \in Seq(Instrs)
               /\ \A k \in 1..n : f[k] = OwnBlock(blocks[k], Len(f[k + 1])) \o f[k + 1]
<1> DEFINE n == Len(blocks)
           D == 1..(n + 1)
           Body(g, k) == IF k > n THEN << >>
                                  ELSE OwnBlock(blocks[k], Len(g[k + 1])) \o g[k + 1]
           Ok(g) == g = [k \in D |-> Body(g, k)]
           Upon(g, m) == \A k \in D : k > n + 1 - m => g[k] = Body(g, k)
           T == {m \in 0..(n + 1) : \E g \in [D -> Seq(Instrs)] : Upon(g, m)}
<1>0. n \in Nat /\ \A k \in 1..n : blocks[k] \in ArgBlks
  OBVIOUS
<1>1. ASSUME NEW g \in [D -> Seq(Instrs)], NEW k \in D PROVE Body(g, k) \in Seq(Instrs)
  <2>1. CASE k > n
    BY <2>1
  <2>2. CASE ~(k > n)
    <3>1. k \in 1..n /\ k + 1 \in D
      BY <1>0, <2>2
    <3>2. g[k + 1] \in Seq(Instrs) /\ blocks[k] \in ArgBlks
      BY <1>0, <3>1
    <3>3. Len(g[k + 1]) \in Nat
      BY <3>2
    <3>4. OwnBlock(blocks[k], Len(g[k + 1])) \in Seq(Instrs)
      BY <3>2, <3>3, OwnShape
    <3>5. OwnBlock(blocks[k], Len(g[k + 1])) \o g[k + 1] \in Seq(Instrs)
      BY <3>2, <3>4, Joined
    <3> QED BY <2>2, <3>5
  <2> QED BY <2>1, <2>2
<1>2. 0 \in T
  <2> DEFINE g == [k \in D |-> << >>]
  <2>1. g \in [D -> Seq(Instrs)]
    OBVIOUS
  <2>2. Upon(g, 0)
    BY <1>0
  <2> HIDE DEF Upon, g, D
  <2> QED BY <1>0, <2>1, <2>2
<1>3. ASSUME NEW m \in 0..((n + 1) - 1), m \in T PROVE m + 1 \in T
  <2>1. PICK g \in [D -> Seq(Instrs)] : Upon(g, m)
    BY <1>3
  <2> DEFINE c == n + 1 - m
             f == [k \in D |-> IF k = c THEN Body(g, k) ELSE g[k]]
  <2>2. f \in [D -> Seq(Instrs)]
    <3> HIDE DEF Body, D, c
    <3> QED BY <1>1
  <2>3. ASSUME NEW k \in D, k > n + 1 - (m + 1) PROVE f[k] = Body(f, k)
    <3>1. Body(f, k) = Body(g, k)
      <4>1. CASE k > n
        BY <4>1
      <4>2. CASE ~(k > n)
        <5>1. k + 1 \in D /\ k + 1 # c
          BY <1>0, <2>3, <4>2
        <5>2. f[k + 1] = g[k + 1]
          <6> HIDE DEF Body, D, c
          <6> QED BY <5>1
        <5> HIDE DEF f
        <5> QED BY <4>2, <5>2
      <4> QED BY <4>1, <4>2
    <3>2. k = c \/ k > n + 1 - m
      BY SMTT(30), <1>0, <2>3
    <3>3. k > n + 1 - m => g[k] = Body(g, k)
      BY <2>1
    <3>4. f[k] = IF k = c THEN Body(g, k) ELSE g[k]
      <4> HIDE DEF Body, D, c
      <4> QED OBVIOUS
    <3> HIDE DEF Body, f
    <3> QED BY <3>1, <3>2, <3>3, <3>4
  <2>4. Upon(f, m + 1)
    BY <2>3
  <2>5. m + 1 \in 0..(n + 1)
    BY <1>0
  <2> HIDE DEF Upon, f, D
  <2> QED BY <1>0, <2>2, <2>4, <2>5
<1>4. PICK g \in [D -> Seq(Instrs)] : Upon(g, n + 1)
  <2>1. n + 1 \in T
    <3> DEFINE q == n + 1
    <3>1. q \in Nat
      BY <1>0
    <3>2. \A i \in 0..(q - 1) : i \in T => i + 1 \in T
      BY <1>3
    <3> HIDE DEF T, q
    <3>3. 0..q \subseteq T
      BY <1>2, <3>1, <3>2, UpTo
    <3> QED BY <3>1, <3>3 DEF q
  <2> QED BY <2>1
<1>5. Ok(g)
  <2>1. ASSUME NEW k \in D PROVE g[k] = Body(g, k)
    <3>1. k > n + 1 - (n + 1)
      BY <1>0
    <3> HIDE DEF Body, D
    <3> QED BY <1>4, <3>1
  <2> HIDE DEF Body, D
  <2> QED BY <2>1
<1>6. ArgFrom(blocks) = CHOOSE g2 : Ok(g2)
  BY DEF ArgFrom, ArgBlocksFrom, OwnBlock
<1>7. Ok(ArgFrom(blocks))
  <2> HIDE DEF Ok
  <2> QED BY <1>5, <1>6, Zenon
<1> DEFINE e == ArgFrom(blocks)
<1>8. \A k \in D : e[k] = Body(e, k)
  <2> HIDE DEF Body, D, e
  <2> QED BY <1>7 DEF e
<1>9. n + 1 \in D /\ \A k \in 1..n : k \in D /\ ~(k > n)
  BY <1>0
<1>10. e[n + 1] = << >>
  <2>1. n + 1 > n
    BY <1>0
  <2> HIDE DEF e
  <2> QED BY <1>8, <1>9, <2>1
<1>11. \A k \in 1..n : e[k] = OwnBlock(blocks[k], Len(e[k + 1])) \o e[k + 1]
  <2> HIDE DEF e
  <2> QED BY <1>8, <1>9
<1>12. \A k \in D : e[k] \in Seq(Instrs)
  <2>1. e = [k \in D |-> Body(e, k)]
    <3> HIDE DEF e, D, Body
    <3> QED BY <1>7 DEF e
  <2> DEFINE U == {m \in 0..n : e[n + 1 - m] \in Seq(Instrs)}
  <2>2. 0 \in U
    <3>1. n + 1 - 0 = n + 1 /\ 0 \in 0..n /\ << >> \in Seq(Instrs)
      BY <1>0
    <3> HIDE DEF e, n
    <3> QED BY <1>10, <3>1
  <2>3. ASSUME NEW m \in 0..(n - 1), m \in U PROVE m + 1 \in U
    <3> DEFINE k == n + 1 - (m + 1)
    <3>1. k \in 1..n /\ k + 1 = n + 1 - m /\ m + 1 \in 0..n
      BY <1>0
    <3> HIDE DEF e
    <3>2. e[k + 1] \in Seq(Instrs)
      BY <2>3, <3>1
    <3>3. e[k] = OwnBlock(blocks[k], Len(e[k + 1])) \o e[k + 1] /\ blocks[k] \in ArgBlks
      <4> HIDE DEF k
      <4> QED BY <1>0, <1>11, <3>1
    <3> HIDE DEF k
    <3>4. Len(e[k + 1]) \in Nat
      BY <3>2
    <3>5. OwnBlock(blocks[k], Len(e[k + 1])) \in Seq(Instrs)
      BY <3>3, <3>4, OwnShape
    <3>6. e[k] \in Seq(Instrs)
      BY <3>2, <3>3, <3>5, Joined
    <3> QED BY <3>1, <3>6 DEF k
  <2>4. 0..n \subseteq U
    <3> HIDE DEF U
    <3> QED BY <1>0, <2>2, <2>3, UpTo
  <2>5. ASSUME NEW k \in D PROVE e[k] \in Seq(Instrs)
    <3>1. n + 1 - k \in 0..n /\ n + 1 - (n + 1 - k) = k
      BY <1>0
    <3> HIDE DEF e
    <3> QED BY <2>4, <3>1
  <2> QED BY <2>5
<1> QED BY <1>10, <1>11, <1>12

\* Their jumps stay inside while the distance to the answer fits 8 bits.
LEMMA OwnFits ==
    ASSUME NEW blk \in ArgBlks, NEW r \in Nat, Len(blk.list) + 4 + r < 256
    PROVE  Fits(OwnBlock(blk, r), r + 1)
<1> DEFINE b == OwnBlock(blk, r)
           n == Len(blk.list)
           G(j) == (n - j) + (1 + r)
<1>0. n \in Nat /\ n + 4 + r < 256
  BY BlkFields
<1>1. /\ b \in Seq(Instrs) /\ Len(b) = n + 4
      /\ b[1] = LD_ARG(0) /\ b[2] = E_JEQ(blk.fd, 0, n + 2) /\ b[3] = LD_ARG(1)
      /\ \A j \in 1..n : b[3 + j] = E_JEQ(blk.list[j], G(j), 0)
      /\ b[n + 4] = RET_EPERM
  BY OwnShape
<1> HIDE DEF b, n
<1>2. ASSUME NEW i \in 1..Len(b)
      PROVE  /\ b[i].op # "ret" => i + 1 <= Len(b) + (r + 1)
             /\ b[i].op = "jeq" => /\ i + 1 + b[i].jt <= Len(b) + (r + 1)
                                   /\ i + 1 + b[i].jf <= Len(b) + (r + 1)
  <2>0. i \in 1..(n + 4) /\ Len(b) = n + 4
    BY <1>1
  <2>1. CASE i = 1 \/ i = 3
    <3>1. b[i].op = "ldarg"
      BY <1>1, <2>1 DEF LD_ARG, Insn
    <3>2. i + 1 <= Len(b) + (r + 1)
      BY <1>0, <2>0, <2>1
    <3> QED BY <3>1, <3>2
  <2>2. CASE i = 2
    <3> DEFINE m == n + 2
    <3>1. m \in 0..255 /\ 0 \in 0..255
      BY <1>0
    <3> HIDE DEF m
    <3>2. b[i].jt = 0 /\ b[i].jf = m
      <4>1. m % 256 = m /\ 0 % 256 = 0
        BY <3>1
      <4>2. b[i] = E_JEQ(blk.fd, 0, m)
        BY <1>1, <2>2 DEF m
      <4> QED BY <4>1, <4>2 DEF E_JEQ, Insn
    <3>3. i + 1 + 0 <= Len(b) + (r + 1) /\ i + 1 + m <= Len(b) + (r + 1)
      BY <1>0, <2>0, <2>2 DEF m
    <3>4. i + 1 <= Len(b) + (r + 1)
      BY <1>0, <2>0, <2>2
    <3> QED BY <3>2, <3>3, <3>4
  <2>3. CASE i \in 4..(n + 3)
    <3> DEFINE j == i - 3
               m == G(j)
    <3>1. j \in 1..n /\ 3 + j = i /\ m \in 0..255 /\ 0 \in 0..255 /\ i + 1 + m = n + 4 + (r + 1)
      BY <1>0, <2>3
    <3>2. b[3 + j] = E_JEQ(blk.list[j], m, 0)
      <4> HIDE DEF j
      <4> QED BY <1>1, <3>1
    <3> HIDE DEF j, m
    <3>3. b[i].jt = m /\ b[i].jf = 0
      <4>1. m % 256 = m /\ 0 % 256 = 0
        BY <3>1
      <4> QED BY <3>1, <3>2, <4>1 DEF E_JEQ, Insn
    <3>4. i + 1 + 0 <= n + 4 + (r + 1) /\ i + 1 <= n + 4 + (r + 1)
      BY <1>0, <2>3
    <3>5. i + 1 + m <= n + 4 + (r + 1)
      BY <1>0, <3>1
    <3> QED BY <2>0, <3>3, <3>4, <3>5
  <2>4. CASE i = n + 4
    <3>1. b[i].op = "ret"
      BY <1>1, <2>4 DEF RET_EPERM, Insn
    <3> QED BY <3>1
  <2>5. i \in {1, 2, 3} \/ i \in 4..(n + 3) \/ i = n + 4
    BY <1>0, <2>0
  <2> QED BY <2>1, <2>2, <2>3, <2>4, <2>5
<1>3. Fits(b, r + 1)
  BY <1>1, <1>2 DEF Fits
<1> QED BY <1>3 DEF b

\* A block for the call's descriptor decides, by argument 1; another is passed.
OwnDecides(p, d, off, blk, a) ==
    /\ blk.fd # d.args[0] =>
          From(p, d, off + 1, a) = From(p, d, (off + (Len(blk.list) + 4)) + 1, d.args[0])
    /\ blk.fd = d.args[0] /\ d.args[1] \in Range(blk.list) => From(p, d, off + 1, a) = ALLOW
    /\ blk.fd = d.args[0] /\ d.args[1] \notin Range(blk.list) =>
          From(p, d, off + 1, a) = EPERM

\* A block decides for its fd and passes the others on.
LEMMA DoOwn ==
    ASSUME NEW p, Runnable(p), NEW d \in SysCalls, NEW off \in Nat, NEW blk \in ArgBlks,
           NEW r \in Nat, Len(blk.list) + 4 + r < 256, At(p, off, OwnBlock(blk, r)),
           At(p, (off + (Len(blk.list) + 4)) + r, <<RET_ALLOW>>), NEW a \in Int
    PROVE  OwnDecides(p, d, off, blk, a)
<1> DEFINE b == OwnBlock(blk, r)
           list == blk.list
           n == Len(list)
           fd == blk.fd
           v == d.args[0]
           c == d.args[1]
           G(j) == (n - j) + (1 + r)
           x1 == off + 1
           x2 == off + 2
           x3 == off + 3
           xe == off + (n + 4)
           xa == ((off + (n + 4)) + r) + 1
           E(j) == From(p, d, (x3 + j) + 1, c)
           T == {j \in 0..n : (\A i \in 1..j : list[i] # c) => E(0) = E(j)}
<1>0. n \in Nat /\ n + 4 + r < 256 /\ fd \in Int /\ \A j \in 1..n : list[j] \in Int
  BY BlkFields
<1>a. v \in Int /\ c \in Int
  BY DEF SysCalls
<1>b. n \in Nat /\ n + 4 + r < 256
  BY <1>0
<1>1. /\ Len(b) = n + 4
      /\ b[1] = LD_ARG(0) /\ b[2] = E_JEQ(fd, 0, n + 2) /\ b[3] = LD_ARG(1)
      /\ \A j \in 1..n : b[3 + j] = E_JEQ(list[j], G(j), 0)
      /\ b[n + 4] = RET_EPERM
  BY OwnShape
<1>2. At(p, off, b) /\ Len(p) \in Nat
  BY DEF Runnable, Fits
<1>3. xa \in 1..Len(p) /\ p[xa] = RET_ALLOW
  <2> DEFINE o == (off + (n + 4)) + r
             s == <<RET_ALLOW>>
  <2>1. o \in Nat /\ Len(s) = 1 /\ s[1] = RET_ALLOW
    BY <1>0
  <2>2. At(p, o, s)
    OBVIOUS
  <2> HIDE DEF o, s, n
  <2>3. o + 1 <= Len(p) /\ p[o + 1] = RET_ALLOW
    BY <1>2, <2>1, <2>2 DEF At
  <2>4. o + 1 \in 1..Len(p)
    BY <1>2, <2>1, <2>3
  <2> QED BY <2>3, <2>4 DEF o
<1> HIDE DEF b
<1>4. off + (n + 4) <= Len(p) /\ \A i \in 1..(n + 4) : p[off + i] = b[i]
  BY <1>1, <1>2 DEF At
<1>5. /\ x1 \in 1..Len(p) /\ x2 \in 1..Len(p) /\ x3 \in 1..Len(p) /\ xe \in 1..Len(p)
      /\ p[x1] = LD_ARG(0) /\ p[x2] = E_JEQ(fd, 0, n + 2) /\ p[x3] = LD_ARG(1)
      /\ p[xe] = RET_EPERM
  <2>1. 1 \in 1..(n + 4) /\ 2 \in 1..(n + 4) /\ 3 \in 1..(n + 4) /\ n + 4 \in 1..(n + 4)
    BY <1>0
  <2>2. p[x1] = b[1] /\ p[x2] = b[2] /\ p[x3] = b[3] /\ p[xe] = b[n + 4]
    BY <1>4, <2>1
  <2>3. x1 \in 1..Len(p) /\ x2 \in 1..Len(p) /\ x3 \in 1..Len(p) /\ xe \in 1..Len(p)
    <3> HIDE DEF n
    <3> QED BY <1>0, <1>2, <1>4
  <2> QED BY <1>1, <2>2, <2>3
<1>6. ASSUME NEW j \in 1..n
      PROVE  x3 + j \in 1..Len(p) /\ p[x3 + j] = E_JEQ(list[j], G(j), 0)
  <2>1. 3 + j \in 1..(n + 4) /\ off + (3 + j) = x3 + j
    BY <1>0
  <2>2. p[off + (3 + j)] = b[3 + j]
    BY <1>4, <2>1
  <2>3. x3 + j \in 1..Len(p)
    <3> HIDE DEF n
    <3> QED BY <1>0, <1>2, <1>4
  <2> QED BY <1>1, <2>1, <2>2, <2>3
<1>7. From(p, d, x1, a) = From(p, d, x2, v)
  <2>1. x1 + 1 = x2
    OBVIOUS
  <2>2. From(p, d, x1, a) = From(p, d, x1 + 1, v)
    <3>1. x1 \in 1..Len(p) /\ p[x1] = LD_ARG(0)
      BY <1>5
    <3>2. From(p, d, x1, a) = From(p, d, x1 + 1, d.args[0])
      <4> HIDE DEF x1, v, n, list, fd, T, E, xe, xa, x2, x3
      <4> QED BY <3>1, DoArg
    <3> QED BY <3>2
  <2> QED BY <2>1, <2>2
<1>8. /\ fd # v => From(p, d, x2, v) = From(p, d, (off + (n + 4)) + 1, v)
      /\ fd = v => From(p, d, x2, v) = From(p, d, x3, v)
  <2> DEFINE m == n + 2
  <2>1. m \in 0..255 /\ 0 \in 0..255 /\ x2 + 1 + m = (off + (n + 4)) + 1 /\ x2 + 1 + 0 = x3
    <3> HIDE DEF n
    <3> QED BY <1>b
  <2>2. p[x2] = E_JEQ(fd, 0, m)
    BY <1>5
  <2> HIDE DEF m, x2, x3, n
  <2>3. p[x2].op = "jeq" /\ p[x2].k = fd /\ p[x2].jt = 0 /\ p[x2].jf = m
    <3>1. m % 256 = m /\ 0 % 256 = 0
      BY SMTT(30), <2>1
    <3> QED BY <2>2, <3>1 DEF E_JEQ, Insn
  <2>4. /\ v = p[x2].k => From(p, d, x2, v) = From(p, d, x2 + 1 + p[x2].jt, v)
        /\ v # p[x2].k => From(p, d, x2, v) = From(p, d, x2 + 1 + p[x2].jf, v)
    <3>1. x2 \in 1..Len(p) /\ p[x2].op = "jeq" /\ v \in Int
      BY <1>a, <1>5, <2>3
    <3> HIDE DEF v, fd
    <3> QED BY <3>1, DoJeq
  <2> QED BY <2>1, <2>3, <2>4
<1>9. From(p, d, x3, v) = E(0)
  <2>1. x3 + 1 = (x3 + 0) + 1
    OBVIOUS
  <2>2. From(p, d, x3, v) = From(p, d, x3 + 1, c)
    <3>1. x3 \in 1..Len(p) /\ p[x3] = LD_ARG(1) /\ v \in Int
      BY <1>a, <1>5
    <3>2. From(p, d, x3, v) = From(p, d, x3 + 1, d.args[1])
      <4> HIDE DEF x3, v, n, list, fd, T, E, xe, xa, x1, x2
      <4> QED BY <3>1, DoArg
    <3> QED BY <3>2
  <2> QED BY <2>1, <2>2
<1>10. E(n) = EPERM
  <2>1. (x3 + n) + 1 = xe
    <3> HIDE DEF n
    <3> QED BY <1>b
  <2>2. From(p, d, xe, c) = EPERM
    <3>1. xe \in 1..Len(p) /\ p[xe] = RET_EPERM /\ c \in Int
      BY <1>a, <1>5
    <3> HIDE DEF xe, c, n, list, fd, v, T, E, xa, x1, x2, x3
    <3>2. p[xe] = Insn("ret", EPERM, 0, 0)
      BY <3>1 DEF RET_EPERM
    <3> QED BY <3>1, <3>2, DoRet
  <2> QED BY <2>1, <2>2
<1>11. From(p, d, xa, c) = ALLOW
  <2>1. xa \in 1..Len(p) /\ p[xa] = RET_ALLOW /\ c \in Int
    BY <1>a, <1>3
  <2> HIDE DEF xa, c, n, list, fd, v, T, E, xe, x1, x2, x3
  <2>2. p[xa] = Insn("ret", ALLOW, 0, 0)
    BY <2>1 DEF RET_ALLOW
  <2> QED BY <2>1, <2>2, DoRet
<1>12. ASSUME NEW j \in 1..n
       PROVE  /\ c = list[j] => E(j - 1) = ALLOW
              /\ c # list[j] => E(j - 1) = E(j)
  <2> DEFINE q == x3 + j
             m == G(j)
  <2>1. m \in 0..255 /\ 0 \in 0..255 /\ q + 1 + m = xa /\ q + 1 + 0 = (x3 + j) + 1
        /\ (x3 + (j - 1)) + 1 = q
    <3> HIDE DEF n
    <3> QED BY <1>b
  <2>2. p[q] = E_JEQ(list[j], m, 0) /\ q \in 1..Len(p)
    BY <1>6
  <2> HIDE DEF q, m, xa, x3, n, list
  <2>3. p[q].op = "jeq" /\ p[q].k = list[j] /\ p[q].jt = m /\ p[q].jf = 0
    <3>1. m % 256 = m /\ 0 % 256 = 0
      BY SMTT(30), <2>1
    <3> QED BY <2>2, <3>1 DEF E_JEQ, Insn
  <2>4. /\ c = p[q].k => From(p, d, q, c) = From(p, d, q + 1 + p[q].jt, c)
        /\ c # p[q].k => From(p, d, q, c) = From(p, d, q + 1 + p[q].jf, c)
    BY SMTT(30), <1>a, <2>2, <2>3, DoJeq
  <2> QED BY <1>11, <2>1, <2>3, <2>4
<1>13. 0 \in T
  BY <1>0
<1>14. ASSUME NEW j \in 0..(n - 1), j \in T PROVE j + 1 \in T
  <2> SUFFICES ASSUME \A i \in 1..(j + 1) : list[i] # c PROVE E(0) = E(j + 1)
    <3> HIDE DEF E, n, list, c
    <3> QED BY <1>b
  <2>1. E(0) = E(j)
    BY <1>14
  <2> DEFINE q == j + 1
  <2>2. q \in 1..n /\ q - 1 = j /\ q \in 1..(j + 1)
    <3> HIDE DEF n
    <3> QED BY <1>b
  <2>3. list[q] # c
    BY <2>2
  <2> HIDE DEF q
  <2>4. E(q - 1) = E(q)
    <3> HIDE DEF E
    <3> QED BY <1>12, <2>2, <2>3
  <2> HIDE DEF E
  <2> QED BY <2>1, <2>2, <2>4 DEF q
<1>15. \A j \in 0..n : (\A i \in 1..j : list[i] # c) => E(0) = E(j)
  <2>1. 0..n \subseteq T
    <3> HIDE DEF T
    <3> QED BY <1>0, <1>13, <1>14, UpTo
  <2> QED BY <2>1
<1>16. c \in Range(list) => E(0) = ALLOW
  <2> SUFFICES ASSUME c \in Range(list) PROVE E(0) = ALLOW
    OBVIOUS
  <2> DEFINE S == {i \in 1..n : list[i] = c}
  <2>1. S # {}
    <3>1. list \in Seq(Int)
      BY BlkFields
    <3> HIDE DEF list, c
    <3> QED BY <3>1 DEF Range
  <2>2. PICK i \in S : \A j \in S : i <= j
    <3>1. S \in SUBSET Nat
      OBVIOUS
    <3> HIDE DEF S
    <3> QED BY <2>1, <3>1, LeastExists
  <2>3. i \in 1..n /\ list[i] = c /\ i - 1 \in 0..n /\ \A j \in 1..(i - 1) : list[j] # c
    BY <1>0, <2>2
  <2> HIDE DEF E, S
  <2> QED BY SMTT(30), <1>12, <1>15, <2>3
<1>17. c \notin Range(list) => E(0) = EPERM
  <2> SUFFICES ASSUME c \notin Range(list) PROVE E(0) = EPERM
    OBVIOUS
  <2>1. \A i \in 1..n : list[i] # c
    BY DEF Range
  <2>2. n \in 0..n
    BY <1>0
  <2> HIDE DEF E
  <2> QED BY <1>10, <1>15, <2>1, <2>2
<1> HIDE DEF E
<1>18. /\ fd # v => From(p, d, x1, a) = From(p, d, (off + (n + 4)) + 1, v)
       /\ fd = v /\ c \in Range(list) => From(p, d, x1, a) = ALLOW
       /\ fd = v /\ c \notin Range(list) => From(p, d, x1, a) = EPERM
  BY <1>7, <1>8, <1>9, <1>16, <1>17
<1> QED BY <1>18 DEF OwnDecides

\* The blocks from k on stay inside.
LEMMA ArgFromFits ==
    ASSUME NEW blocks \in Seq(ArgBlks), NEW k \in 1..(Len(blocks) + 1),
           Len(ArgFrom(blocks)[k]) < 256
    PROVE  Fits(ArgFrom(blocks)[k], 1)
<1> DEFINE f == ArgFrom(blocks)
           n == Len(blocks)
           T == {m \in 0..n : Len(f[n + 1 - m]) < 256 => Fits(f[n + 1 - m], 1)}
<1>0. n \in Nat /\ \A i \in 1..n : blocks[i] \in ArgBlks
  OBVIOUS
<1>1. /\ f[n + 1] = << >>
      /\ \A i \in 1..(n + 1) : f[i] \in Seq(Instrs)
      /\ \A i \in 1..n : f[i] = OwnBlock(blocks[i], Len(f[i + 1])) \o f[i + 1]
  BY ArgFromDefined
<1>2. Len(f[k]) < 256
  OBVIOUS
<1> HIDE DEF f
<1>3. 0 \in T
  <2>1. n + 1 - 0 = n + 1 /\ 0 \in 0..n
    BY <1>0
  <2>2. Fits(<< >>, 1)
    BY DEF Fits
  <2> QED BY <1>1, <2>1, <2>2
<1>4. ASSUME NEW m \in 0..(n - 1), m \in T PROVE m + 1 \in T
  <2> DEFINE i == n + 1 - (m + 1)
             r == f[i + 1]
             b == OwnBlock(blocks[i], Len(r))
  <2>1. i \in 1..n /\ i + 1 = n + 1 - m /\ m + 1 \in 0..n /\ i + 1 \in 1..(n + 1)
    BY <1>0
  <2>2. Len(r) < 256 => Fits(r, 1)
    BY <1>4, <2>1
  <2> HIDE DEF i
  <2>3. r \in Seq(Instrs) /\ f[i] = b \o r /\ blocks[i] \in ArgBlks
    BY <1>0, <1>1, <2>1
  <2> HIDE DEF r
  <2>4. Len(r) \in Nat
    BY <2>3
  <2>5. b \in Seq(Instrs) /\ Len(b) = Len(blocks[i].list) + 4 /\ Len(blocks[i].list) \in Nat
    BY <2>3, <2>4, OwnShape, BlkFields
  <2>6. Len(f[i]) = Len(b) + Len(r)
    <3> HIDE DEF b
    <3>1. Len(b \o r) = Len(b) + Len(r)
      BY <2>3, <2>5, Joined
    <3> QED BY <2>3, <3>1
  <2>7. ASSUME Len(f[i]) < 256 PROVE Fits(f[i], 1)
    <3> DEFINE l == Len(blocks[i].list)
               q == Len(r)
    <3>1. l \in Nat /\ q \in Nat /\ (l + 4) + q < 256
      BY <2>4, <2>5, <2>6, <2>7
    <3>2. l + 4 + q < 256 /\ q < 256
      <4> HIDE DEF l, q
      <4> QED BY <3>1
    <3>3. Fits(r, 1)
      BY <2>2, <3>2
    <3>4. Fits(b, Len(r) + 1)
      BY <2>3, <2>4, <3>2, OwnFits
    <3> HIDE DEF b
    <3>5. Fits(b \o r, 1)
      BY <3>3, <3>4, FitsConcat
    <3> QED BY <2>3, <3>5
  <2> QED BY <2>1, <2>7 DEF i
<1>5. 0..n \subseteq T
  <2> HIDE DEF T
  <2> QED BY <1>0, <1>3, <1>4, UpTo
<1>6. n + 1 - k \in 0..n /\ n + 1 - (n + 1 - k) = k
  BY <1>0
<1>7. Fits(f[k], 1)
  BY <1>2, <1>5, <1>6
<1> QED BY <1>7 DEF f

\* The call passes the allowlist of blk.
Grants(blk, d) == blk.fd = d.args[0] => d.args[1] \in Range(blk.list)

\* No descriptor has two blocks.
Distinct(blocks) ==
    \A i, j \in 1..Len(blocks) : blocks[i].fd = blocks[j].fd => i = j

\* The blocks from the k-th on let the call pass if each of them does.
Judges(p, d, off, a, blocks, k) ==
    /\ (\A i \in k..Len(blocks) : Grants(blocks[i], d)) => From(p, d, off + 1, a) = ALLOW
    /\ (\E i \in k..Len(blocks) : ~Grants(blocks[i], d)) => From(p, d, off + 1, a) = EPERM

\* Block b stands in p, with the shared RET_ALLOW behind it.
Placed(p, off, b) ==
    /\ off \in Nat /\ Len(b) < 256
    /\ At(p, off, b) /\ At(p, off + Len(b), <<RET_ALLOW>>)

\* Together they allow what each of them grants.
LEMMA DoArgBlocks ==
    ASSUME NEW p, Runnable(p), NEW d \in SysCalls, NEW blocks \in Seq(ArgBlks),
           Distinct(blocks), NEW off \in Nat, Placed(p, off, ArgFrom(blocks)[1]), NEW a \in Int
    PROVE  Judges(p, d, off, a, blocks, 1)
<1> DEFINE f == ArgFrom(blocks)
           n == Len(blocks)
           T == {m \in 0..n : \A o \in Nat, x \in Int :
                    Placed(p, o, f[n + 1 - m]) => Judges(p, d, o, x, blocks, n + 1 - m)}
<1>0. n \in Nat /\ \A i \in 1..n : blocks[i] \in ArgBlks
  OBVIOUS
<1>1. /\ f[n + 1] = << >>
      /\ \A i \in 1..(n + 1) : f[i] \in Seq(Instrs)
      /\ \A i \in 1..n : f[i] = OwnBlock(blocks[i], Len(f[i + 1])) \o f[i + 1]
  BY ArgFromDefined
<1>2. Placed(p, off, f[1]) /\ Len(p) \in Nat
  BY DEF Runnable, Fits
<1>a. d.args[0] \in Int
  BY DEF SysCalls
<1> HIDE DEF f
<1>3. 0 \in T
  <2>1. n + 1 - 0 = n + 1 /\ 0 \in 0..n /\ (n + 1)..n = {}
    BY <1>0
  <2>2. ASSUME NEW o \in Nat, NEW x \in Int, Placed(p, o, << >>)
        PROVE  Judges(p, d, o, x, blocks, n + 1)
    <3>1. o + Len(<< >>) = o /\ At(p, o + Len(<< >>), <<RET_ALLOW>>)
      BY <2>2 DEF Placed
    <3>2. At(p, o, <<RET_ALLOW>>)
      BY <3>1
    <3>3. From(p, d, o + 1, x) = ALLOW
      BY <3>2, DoDone
    <3> QED BY <2>1, <3>3 DEF Judges
  <2> HIDE DEF n
  <2> QED BY <1>1, <2>1, <2>2
<1>4. ASSUME NEW m \in 0..(n - 1), m \in T PROVE m + 1 \in T
  <2> DEFINE i == n + 1 - (m + 1)
             r == f[i + 1]
             blk == blocks[i]
             b == OwnBlock(blk, Len(r))
             l == Len(blk.list)
  <2>1. i \in 1..n /\ i + 1 = n + 1 - m /\ m + 1 \in 0..n /\ i + 1 \in 1..(n + 1)
    BY <1>0
  <2>2. \A o \in Nat, x \in Int : Placed(p, o, r) => Judges(p, d, o, x, blocks, i + 1)
    BY <1>4, <2>1
  <2> HIDE DEF i
  <2>3. r \in Seq(Instrs) /\ f[i] = b \o r /\ blk \in ArgBlks
    BY <1>0, <1>1, <2>1
  <2> HIDE DEF r
  <2>4. Len(r) \in Nat
    BY <2>3
  <2> HIDE DEF blk
  <2>5. b \in Seq(Instrs) /\ Len(b) = l + 4 /\ l \in Nat
    BY <2>3, <2>4, OwnShape, BlkFields
  <2>6. Len(b \o r) = Len(b) + Len(r)
    <3> HIDE DEF b
    <3> QED BY <2>3, <2>5, Joined
  <2>7. ASSUME NEW o \in Nat, NEW x \in Int, Placed(p, o, b \o r)
        PROVE  Judges(p, d, o, x, blocks, i)
    <3> DEFINE q == Len(r)
               o2 == o + (l + 4)
    <3>0. o2 \in Nat /\ q \in Nat /\ l \in Nat
      BY <2>4, <2>5
    <3>1. (l + 4) + q < 256 /\ o + ((l + 4) + q) = o2 + q
      <4>1. (l + 4) + q < 256
        BY <2>5, <2>6, <2>7 DEF Placed
      <4> HIDE DEF l, q
      <4> QED BY <3>0, <4>1
    <3>2. l + 4 + q < 256 /\ q < 256
      <4> HIDE DEF l, q
      <4> QED BY <3>0, <3>1
    <3>3. At(p, o, b \o r) /\ At(p, o + Len(b \o r), <<RET_ALLOW>>)
      BY <2>7 DEF Placed
    <3>4. At(p, o, b) /\ At(p, o + Len(b), r)
      <4> HIDE DEF b
      <4> QED BY <1>2, <2>3, <2>5, <3>3, AtConcat
    <3>5. At(p, o2, r) /\ At(p, o2 + q, <<RET_ALLOW>>)
      <4>1. o + Len(b) = o2
        BY <2>5
      <4>2. Len(b \o r) = (l + 4) + q
        BY <2>5, <2>6
      <4> HIDE DEF b, o2
      <4> QED BY <3>1, <3>3, <3>4, <4>1, <4>2
    <3>6. OwnDecides(p, d, o, blk, x)
      <4>1. At(p, (o + (Len(blk.list) + 4)) + q, <<RET_ALLOW>>)
        BY <3>5
      <4>2. At(p, o, OwnBlock(blk, q)) /\ Len(blk.list) + 4 + q < 256
        BY <3>2, <3>4
      <4> HIDE DEF q, l
      <4> QED BY <2>3, <3>0, <4>1, <4>2, DoOwn
    <3>7. Placed(p, o2, r)
      BY <3>0, <3>2, <3>5 DEF Placed
    <3>8. Judges(p, d, o2, d.args[0], blocks, i + 1)
      <4> HIDE DEF o2
      <4> QED BY <1>a, <2>2, <3>0, <3>7
    <3>9. CASE blk.fd # d.args[0]
      <4>1. From(p, d, o + 1, x) = From(p, d, o2 + 1, d.args[0]) /\ Grants(blk, d)
        BY <3>6, <3>9 DEF OwnDecides, Grants
      <4>2. \A j \in i..n : j = i \/ j \in (i + 1)..n
        BY <1>0, <2>1
      <4>3. \A j \in (i + 1)..n : j \in i..n
        BY <1>0, <2>1
      <4> HIDE DEF o2, n
      <4>4. (\A j \in i..n : Grants(blocks[j], d)) => From(p, d, o + 1, x) = ALLOW
        BY <3>8, <4>1, <4>3 DEF Judges, n
      <4>5. (\E j \in i..n : ~Grants(blocks[j], d)) => From(p, d, o + 1, x) = EPERM
        BY <3>8, <4>1, <4>2 DEF Judges, n, blk
      <4> QED BY <4>4, <4>5 DEF Judges, n
    <3>10. CASE blk.fd = d.args[0]
      <4>1. \A j \in i..n : j # i => blocks[j].fd # d.args[0]
        BY <1>0, <2>1, <3>10 DEF Distinct, blk
      <4>2. \A j \in i..n : j # i => Grants(blocks[j], d)
        BY <4>1 DEF Grants
      <4>3. i \in i..n
        BY <1>0, <2>1
      <4>4. /\ Grants(blk, d) => From(p, d, o + 1, x) = ALLOW
            /\ ~Grants(blk, d) => From(p, d, o + 1, x) = EPERM
        BY <3>6, <3>10 DEF OwnDecides, Grants
      <4> QED BY <4>2, <4>3, <4>4 DEF Judges, blk
    <3> QED BY <3>9, <3>10
  <2> QED BY <2>1, <2>3, <2>7 DEF i
<1>5. 0..n \subseteq T
  <2> HIDE DEF T
  <2> QED BY <1>0, <1>3, <1>4, UpTo
<1>6. n \in 0..n /\ n + 1 - n = 1
  BY <1>0
<1> QED BY <1>2, <1>5, <1>6

\* The program: its parts, its length and its answer.
LEMMA ArgIs ==
    ASSUME NEW nr \in Int, NEW blocks \in Seq(ArgBlks)
    PROVE  LET f == ArgFrom(blocks)[1] IN
           /\ f \in Seq(Instrs) /\ Arg1Blocks(blocks) = f
           /\ install_arg1_limits(nr, blocks) =
                ((Prologue \o <<E_JEQ(nr, 0, Len(f))>>) \o f) \o <<RET_ALLOW>>
<1> DEFINE f == ArgFrom(blocks)[1]
           e == E_JEQ(nr, 0, Len(f))
           g == E_JEQ(1, 1, 0)
<1>1. f \in Seq(Instrs)
  <2>1. 1 \in 1..(Len(blocks) + 1)
    OBVIOUS
  <2> QED BY <2>1, ArgFromDefined
<1>2. Arg1Blocks(blocks) = f
  BY DEF Arg1Blocks, ArgFrom
<1> HIDE DEF f
<1>3. emit_arch_guard \o <<LD_NR, e>> = Prologue \o <<e>>
  <2> HIDE DEF e, g
  <2>1. <<LD_ARCH, g, RET_KILL>> \o <<LD_NR, e>>
          = (<<LD_ARCH, g, RET_KILL>> \o <<LD_NR>>) \o <<e>>
    OBVIOUS
  <2> QED BY <2>1 DEF emit_arch_guard, Prologue, g
<1>4. install_arg1_limits(nr, blocks) = ((Prologue \o <<e>>) \o f) \o <<RET_ALLOW>>
  BY <1>2, <1>3 DEF install_arg1_limits
<1> QED BY <1>1, <1>2, <1>4 DEF f

\* The length of an allowlist program.
LEMMA ArgLength ==
    ASSUME NEW nr \in Int, NEW blocks \in Seq(ArgBlks)
    PROVE  /\ Len(Arg1Blocks(blocks)) \in Nat
           /\ Len(install_arg1_limits(nr, blocks)) = Len(Arg1Blocks(blocks)) + 6
<1> DEFINE f == Arg1Blocks(blocks)
           l == Len(f)
           e == E_JEQ(nr, 0, l)
           p == install_arg1_limits(nr, blocks)
           j == <<e>>
           z == <<RET_ALLOW>>
<1>1. f \in Seq(Instrs) /\ p = ((Prologue \o j) \o f) \o z
  BY ArgIs
<1>2. l \in Nat
  <2> HIDE DEF f
  <2> QED BY <1>1
<1>3. e \in Instrs
  <2> HIDE DEF l
  <2> QED BY <1>2, InsnTypes
<1>4. j \in Seq(Instrs) /\ Len(j) = 1
  <2> HIDE DEF e
  <2> QED BY <1>3
<1>5. z \in Seq(Instrs) /\ Len(z) = 1
  BY DoneFits
<1> HIDE DEF f, l, p, j, z
<1>6. Prologue \o j \in Seq(Instrs) /\ Len(Prologue \o j) = 5
  <2>1. Prologue \in Seq(Instrs) /\ Len(Prologue) = 4
    BY PrologueShape
  <2>2. Prologue \o j \in Seq(Instrs) /\ Len(Prologue \o j) = Len(Prologue) + Len(j)
    BY <1>4, <2>1, Joined
  <2> QED BY <1>4, <2>1, <2>2
<1>7. (Prologue \o j) \o f \in Seq(Instrs) /\ Len((Prologue \o j) \o f) = 5 + Len(f)
  BY <1>1, <1>6, Joined
<1>8. Len(p) = (5 + Len(f)) + 1
  <2> DEFINE q == (Prologue \o j) \o f
  <2>1. q \in Seq(Instrs) /\ Len(q) = 5 + Len(f) /\ p = q \o z
    BY <1>1, <1>7
  <2> HIDE DEF q
  <2>2. Len(p) = Len(q) + Len(z)
    BY <1>5, <2>1, Joined
  <2> QED BY <1>5, <2>1, <2>2
<1>9. Len(p) = l + 6
  BY <1>2, <1>8 DEF l
<1> QED BY <1>2, <1>9 DEF l, f, p

\* Its parts are where install_arg1_limits puts them.
LEMMA ArgParts ==
    ASSUME NEW nr \in Int, NEW blocks \in Seq(ArgBlks), Len(Arg1Blocks(blocks)) < 256
    PROVE  LET p == install_arg1_limits(nr, blocks)
               f == ArgFrom(blocks)[1]
           IN  /\ Runnable(p) /\ Len(p) = Len(f) + 6 /\ At(p, 0, Prologue)
               /\ p[5] = E_JEQ(nr, 0, Len(f)) /\ Placed(p, 5, f)
<1> DEFINE f == ArgFrom(blocks)[1]
           l == Len(f)
           h == Prologue
           j == <<E_JEQ(nr, 0, l)>>
           z == <<RET_ALLOW>>
           p == install_arg1_limits(nr, blocks)
<1>0. f \in Seq(Instrs) /\ l \in Nat /\ l < 256 /\ Arg1Blocks(blocks) = f
  <2>1. f \in Seq(Instrs) /\ Arg1Blocks(blocks) = f
    BY ArgIs
  <2> HIDE DEF f
  <2> QED BY <2>1
<1>1. Fits(f, 1)
  <2>1. 1 \in 1..(Len(blocks) + 1)
    OBVIOUS
  <2> QED BY <1>0, <2>1, ArgFromFits
<1>2. p = ((h \o j) \o f) \o z
  BY ArgIs
<1>3. h \in Seq(Instrs) /\ Len(h) = 4 /\ Block(h)
  BY PrologueShape, PrologueBlock
<1>4. z \in Seq(Instrs) /\ Len(z) = 1 /\ Fits(z, 0)
  BY DoneFits
<1>5. j \in Seq(Instrs) /\ Len(j) = 1 /\ j[1] = E_JEQ(nr, 0, l) /\ Fits(j, l + 1)
  <2> DEFINE e == E_JEQ(nr, 0, l)
  <2>1. e \in Instrs
    <3> HIDE DEF l
    <3> QED BY <1>0, InsnTypes
  <2>2. e.jt = 0 /\ e.jf = l
    <3>1. l % 256 = l /\ 0 % 256 = 0
      <4> HIDE DEF l
      <4> QED BY <1>0
    <3> HIDE DEF l
    <3> QED BY <3>1 DEF E_JEQ, Insn
  <2> HIDE DEF e, l
  <2>3. <<e>> \in Seq(Instrs) /\ Len(<<e>>) = 1 /\ <<e>>[1] = e
    BY <2>1
  <2>4. Fits(<<e>>, l + 1)
    BY <1>0, <2>2, <2>3 DEF Fits
  <2> QED BY <2>3, <2>4 DEF e
<1> HIDE DEF f, h, j, z, p
<1> DEFINE hj == h \o j
           hf == hj \o f
<1>6. /\ hj \in Seq(Instrs) /\ Len(hj) = 5 /\ hj[5] = E_JEQ(nr, 0, l) /\ Fits(hj, l + 1)
  <2>1. /\ hj \in Seq(Instrs) /\ Len(hj) = Len(h) + Len(j)
        /\ \A i \in 1..Len(j) : hj[Len(h) + i] = j[i]
    BY <1>3, <1>5, Joined
  <2>2. Len(j) + (l + 1) \in Nat \ {0} /\ l + 1 \in Nat /\ 1 \in 1..Len(j) /\ Len(h) + 1 = 5
        /\ Len(h) + Len(j) = 5
    BY <1>0, <1>3, <1>5
  <2>3. Fits(h, Len(j) + (l + 1))
    BY <1>3, <2>2 DEF Block
  <2>4. Fits(hj, l + 1)
    BY <1>5, <2>2, <2>3, FitsConcat
  <2> HIDE DEF hj
  <2> QED BY <1>5, <2>1, <2>2, <2>4
<1> HIDE DEF hj
<1>7. hf \in Seq(Instrs) /\ Len(hf) = 5 + l /\ hf[5] = hj[5] /\ Fits(hf, 1)
  <2>1. /\ hf \in Seq(Instrs) /\ Len(hf) = Len(hj) + Len(f)
        /\ \A i \in 1..Len(hj) : hf[i] = hj[i]
    BY <1>0, <1>6, Joined
  <2>2. Fits(hf, 1)
    BY <1>0, <1>1, <1>6, FitsConcat
  <2>3. 5 \in 1..Len(hj)
    BY <1>6
  <2> HIDE DEF hf
  <2> QED BY <1>6, <2>1, <2>2, <2>3
<1> HIDE DEF hf
<1>8. p = hf \o z
  BY <1>2 DEF hf, hj
<1>9. p \in Seq(Instrs) /\ Len(p) = Len(hf) + Len(z) /\ p[5] = hf[5] /\ Fits(p, 0)
  <2>1. /\ p \in Seq(Instrs) /\ Len(p) = Len(hf) + Len(z)
        /\ \A i \in 1..Len(hf) : p[i] = hf[i]
    BY <1>4, <1>7, <1>8, Joined
  <2>2. Len(z) + 0 = 1 /\ 0 \in Nat /\ 5 \in 1..Len(hf)
    BY <1>0, <1>4, <1>7
  <2>3. Fits(hf, Len(z) + 0)
    BY <1>7, <2>2
  <2>4. Fits(p, 0)
    BY <1>4, <1>8, <2>2, <2>3, FitsConcat
  <2> QED BY <2>1, <2>2, <2>4
<1>10. Len(p) = l + 6
  <2> HIDE DEF l
  <2> QED BY <1>0, <1>4, <1>7, <1>9
<1>11. Runnable(p)
  <2> HIDE DEF l
  <2> QED BY <1>0, <1>9, <1>10 DEF Runnable
<1>12. At(p, 0, hf) /\ At(p, 0 + Len(hf), z)
  <2>1. At(p, 0, p) /\ Len(p) \in Nat
    BY <1>9, AtSelf
  <2> QED BY <1>4, <1>7, <1>8, <2>1, AtConcat
<1>13. At(p, 0, hj) /\ At(p, 0 + Len(hj), f)
  <2>1. Len(p) \in Nat
    BY <1>9
  <2> QED BY <1>0, <1>6, <1>12, <2>1, AtConcat DEF hf
<1>14. At(p, 0, h)
  <2>1. Len(p) \in Nat
    BY <1>9
  <2> QED BY <1>3, <1>5, <1>13, <2>1, AtConcat DEF hj
<1>15. 0 + Len(hj) = 5 /\ 0 + Len(hf) = 5 + l
  BY <1>0, <1>6, <1>7
<1>16. Placed(p, 5, f)
  BY <1>0, <1>12, <1>13, <1>15 DEF Placed, l, z
<1> QED BY <1>6, <1>7, <1>9, <1>10, <1>11, <1>14, <1>16 DEF p, f, h, l

\* What an allowlist program answers to every call.
LEMMA ArgAnswer ==
    ASSUME NEW nr \in Int, NEW blocks \in Seq(ArgBlks), Distinct(blocks),
           Len(Arg1Blocks(blocks)) < 256, NEW d \in SysCalls
    PROVE  LET p == install_arg1_limits(nr, blocks)
               all == \A i \in 1..Len(blocks) : Grants(blocks[i], d)
           IN  /\ Runnable(p)
               /\ ~d.native => Run(p, d) = KILL
               /\ d.native /\ (d.nr # nr \/ all) => Run(p, d) = ALLOW
               /\ d.native /\ ~(d.nr # nr \/ all) => Run(p, d) = EPERM
<1> DEFINE p == install_arg1_limits(nr, blocks)
           f == ArgFrom(blocks)[1]
           l == Len(f)
           all == \A i \in 1..Len(blocks) : Grants(blocks[i], d)
           a == d.nr
<1>1. /\ Runnable(p) /\ Len(p) = l + 6 /\ At(p, 0, Prologue)
      /\ p[5] = E_JEQ(nr, 0, l) /\ Placed(p, 5, f)
  BY ArgParts
<1>2. a \in Int
  BY DEF SysCalls
<1> HIDE DEF p
<1>3. /\ ~d.native => Run(p, d) = KILL
      /\ d.native => Run(p, d) = From(p, d, 5, a)
  BY <1>1, DoPrologue
<1>4. Judges(p, d, 5, a, blocks, 1)
  <2> DEFINE o == 5
  <2>1. o \in Nat /\ Placed(p, o, f)
    BY <1>1
  <2> HIDE DEF o, a
  <2>2. Judges(p, d, o, a, blocks, 1)
    BY <1>1, <1>2, <2>1, DoArgBlocks
  <2> QED BY <2>2 DEF o
<1>5. /\ all => From(p, d, 5 + 1, a) = ALLOW
      /\ ~all => From(p, d, 5 + 1, a) = EPERM
  BY <1>4 DEF Judges
<1> HIDE DEF f
<1>6. l \in Nat /\ l < 256 /\ From(p, d, (5 + l) + 1, a) = ALLOW
  <2>1. l < 256 /\ At(p, 5 + l, <<RET_ALLOW>>) /\ Len(p) \in Nat
    BY <1>1 DEF Placed, Runnable, Fits
  <2>2. 5 + l \in Nat
    BY <2>1 DEF At
  <2>3. l \in Nat
    BY <1>1, <2>1 DEF Placed, At
  <2> DEFINE o == 5 + l
  <2> HIDE DEF o
  <2>4. From(p, d, o + 1, a) = ALLOW
    BY <1>1, <1>2, <2>1, <2>2, DoDone DEF o
  <2> QED BY <2>1, <2>3, <2>4 DEF o
<1> HIDE DEF l, a, all
<1>7. /\ a = nr => From(p, d, 5, a) = From(p, d, 5 + 1 + 0, a)
      /\ a # nr => From(p, d, 5, a) = From(p, d, 5 + 1 + l, a)
  <2>1. l % 256 = l /\ 0 % 256 = 0
    BY <1>6
  <2>2. p[5].op = "jeq" /\ p[5].k = nr /\ p[5].jt = 0 /\ p[5].jf = l
    BY <1>1, <2>1 DEF E_JEQ, Insn
  <2>3. 5 \in 1..Len(p)
    BY <1>1, <1>6
  <2> DEFINE o == 5
  <2>4. o \in 1..Len(p) /\ p[o].op = "jeq"
    BY <2>2, <2>3
  <2> HIDE DEF o
  <2>5. /\ a = p[o].k => From(p, d, o, a) = From(p, d, o + 1 + p[o].jt, a)
        /\ a # p[o].k => From(p, d, o, a) = From(p, d, o + 1 + p[o].jf, a)
    BY <1>1, <1>2, <2>4, DoJeq
  <2> QED BY <2>2, <2>5 DEF o
<1>8. 5 + 1 + 0 = 5 + 1 /\ 5 + 1 + l = (5 + l) + 1
  BY <1>6
<1>9. /\ Runnable(p)
      /\ ~d.native => Run(p, d) = KILL
      /\ d.native /\ (a # nr \/ all) => Run(p, d) = ALLOW
      /\ d.native /\ ~(a # nr \/ all) => Run(p, d) = EPERM
  BY <1>1, <1>3, <1>5, <1>6, <1>7, <1>8
<1> QED BY <1>9 DEF p, a, all

-----------------------------------------------------------------------------
(* The entries one descriptor contributes to a rights program.             *)

\* The numbers of each class.
LEMMA ClassSeqs ==
    /\ ClassCalls["RD"] = <<0, 19, 17, 295, 327>>
    /\ ClassCalls["WR"] = <<1, 20, 18, 296, 328>>
    /\ ClassCalls["SEEK"] = <<8>> /\ ClassCalls["TRUNC"] = <<77>>
    /\ ClassCalls["FSYNC"] = <<74, 75>> /\ ClassCalls["SHUT"] = <<48>>
    /\ ClassCalls["MMAP"] = <<9>>
BY DEF ClassCalls

\* The numbers of each class.
LEMMA ClassRanges ==
    /\ Range(ClassCalls["RD"]) = {0, 19, 17, 295, 327}
    /\ Range(ClassCalls["WR"]) = {1, 20, 18, 296, 328}
    /\ Range(ClassCalls["SEEK"]) = {8} /\ Range(ClassCalls["TRUNC"]) = {77}
    /\ Range(ClassCalls["FSYNC"]) = {74, 75} /\ Range(ClassCalls["SHUT"]) = {48}
    /\ Range(ClassCalls["MMAP"]) = {9}
<1>1. Range(<<0, 19, 17, 295, 327>>) = {0, 19, 17, 295, 327}
  BY DEF Range
<1>2. Range(<<1, 20, 18, 296, 328>>) = {1, 20, 18, 296, 328}
  BY DEF Range
<1>3. \A x : Range(<<x>>) = {x}
  BY DEF Range
<1>4. Range(<<74, 75>>) = {74, 75}
  BY DEF Range
<1> QED BY <1>1, <1>2, <1>3, <1>4, ClassSeqs

\* A class has one to five calls.
LEMMA ClassSizes ==
    ASSUME NEW c \in Classes
    PROVE  ClassCalls[c] \in Seq(Int) /\ Len(ClassCalls[c]) \in 1..5
<1>1. /\ <<0, 19, 17, 295, 327>> \in Seq(Int) /\ Len(<<0, 19, 17, 295, 327>>) = 5
      /\ <<1, 20, 18, 296, 328>> \in Seq(Int) /\ Len(<<1, 20, 18, 296, 328>>) = 5
      /\ \A x \in Int : <<x>> \in Seq(Int) /\ Len(<<x>>) = 1
      /\ <<74, 75>> \in Seq(Int) /\ Len(<<74, 75>>) = 2
  OBVIOUS
<1>2. /\ <<8>> \in Seq(Int) /\ Len(<<8>>) = 1 /\ <<77>> \in Seq(Int) /\ Len(<<77>>) = 1
      /\ <<48>> \in Seq(Int) /\ Len(<<48>>) = 1 /\ <<9>> \in Seq(Int) /\ Len(<<9>>) = 1
  BY <1>1
<1>3. /\ ClassCalls["RD"] \in Seq(Int) /\ Len(ClassCalls["RD"]) = 5
      /\ ClassCalls["WR"] \in Seq(Int) /\ Len(ClassCalls["WR"]) = 5
      /\ ClassCalls["SEEK"] \in Seq(Int) /\ Len(ClassCalls["SEEK"]) = 1
      /\ ClassCalls["TRUNC"] \in Seq(Int) /\ Len(ClassCalls["TRUNC"]) = 1
      /\ ClassCalls["FSYNC"] \in Seq(Int) /\ Len(ClassCalls["FSYNC"]) = 2
      /\ ClassCalls["SHUT"] \in Seq(Int) /\ Len(ClassCalls["SHUT"]) = 1
      /\ ClassCalls["MMAP"] \in Seq(Int) /\ Len(ClassCalls["MMAP"]) = 1
  BY <1>1, <1>2, ClassSeqs
<1>4. ClassCalls[c] \in Seq(Int) /\ Len(ClassCalls[c]) \in {1, 2, 5}
  BY <1>3 DEF Classes
<1>5. {1, 2, 5} \subseteq 1..5
  OBVIOUS
<1> QED BY <1>4, <1>5

\* A call is in one class, mmap's number is in MMAP alone, and the calls the other
\* programs are for are in none.
LEMMA ClassesApart ==
    ASSUME NEW c \in Classes, NEW nr \in Range(ClassCalls[c])
    PROVE  /\ nr \in Int /\ nr # SYS_ioctl /\ nr # SYS_fcntl /\ nr # SYS_openat
           /\ nr = 9 => c = "MMAP"
           /\ \A k \in Classes : nr \in Range(ClassCalls[k]) => k = c
<1>1. CASE c = "RD"
  BY <1>1, ClassRanges DEF Classes, SYS_ioctl, SYS_fcntl, SYS_openat
<1>2. CASE c = "WR"
  BY <1>2, ClassRanges DEF Classes, SYS_ioctl, SYS_fcntl, SYS_openat
<1>3. CASE c = "SEEK"
  BY <1>3, ClassRanges DEF Classes, SYS_ioctl, SYS_fcntl, SYS_openat
<1>4. CASE c = "TRUNC"
  BY <1>4, ClassRanges DEF Classes, SYS_ioctl, SYS_fcntl, SYS_openat
<1>5. CASE c = "FSYNC"
  BY <1>5, ClassRanges DEF Classes, SYS_ioctl, SYS_fcntl, SYS_openat
<1>6. CASE c = "SHUT"
  BY <1>6, ClassRanges DEF Classes, SYS_ioctl, SYS_fcntl, SYS_openat
<1>7. CASE c = "MMAP"
  BY <1>7, ClassRanges DEF Classes, SYS_ioctl, SYS_fcntl, SYS_openat
<1> QED BY <1>1, <1>2, <1>3, <1>4, <1>5, <1>6, <1>7 DEF Classes

\* The entry of call nr on descriptor fd.
EntryOf(fd, nr) == [nr |-> nr, argn |-> FdArg(nr), fd |-> fd]

\* Sequence s holds the entries of the denied classes among C, and nothing else.
Built(s, fd, deny, C) ==
    /\ s \in Seq(DenyEnts)
    /\ \A i \in 1..Len(s) : \E c \in C \cap deny : \E nr \in Range(ClassCalls[c]) :
          s[i] = EntryOf(fd, nr)
    /\ \A c \in C \cap deny : \A nr \in Range(ClassCalls[c]) :
          \E i \in 1..Len(s) : s[i] = EntryOf(fd, nr)

\* An entry of an fd is an entry.
LEMMA EntryOfType ==
    ASSUME NEW fd \in Int, NEW nr \in Int
    PROVE  EntryOf(fd, nr) \in DenyEnts
BY DEF EntryOf, DenyEnts, FdArg

\* The entries of one class.
LEMMA ClassBuilt ==
    ASSUME NEW fd \in Int, NEW deny, NEW c \in Classes
    PROVE  /\ Built(ClassEntries(fd, deny, c), fd, deny, {c})
           /\ Len(ClassEntries(fd, deny, c)) \in 0..Len(ClassCalls[c])
<1> DEFINE q == ClassCalls[c]
           n == Len(q)
           F(i) == EntryOf(fd, q[i])
           s == ClassEntries(fd, deny, c)
<1>0. q \in Seq(Int) /\ n \in Nat /\ \A i \in 1..n : q[i] \in Int
  BY ClassSizes
<1>1. CASE c \in deny
  <2>1. s = [i \in 1..n |-> F(i)]
    BY <1>1 DEF ClassEntries, EntryOf
  <2>2. \A i \in 1..n : F(i) \in DenyEnts
    BY <1>0, EntryOfType
  <2>3. s \in Seq(DenyEnts) /\ Len(s) = n /\ \A i \in 1..n : s[i] = F(i)
    <3> HIDE DEF F, s, n
    <3> QED BY <1>0, <2>1, <2>2
  <2>4. /\ \A i \in 1..n : q[i] \in Range(q)
        /\ \A nr \in Range(q) : \E i \in 1..n : q[i] = nr
    <3> HIDE DEF q
    <3> QED BY <1>0 DEF Range
  <2>5. {c} \cap deny = {c}
    BY <1>1
  <2> HIDE DEF s, q
  <2>6. Built(s, fd, deny, {c})
    BY SMTT(30), <2>3, <2>4, <2>5 DEF Built, q
  <2>7. n \in 0..n
    BY <1>0
  <2> QED BY <2>3, <2>6, <2>7 DEF s, q
<1>2. CASE c \notin deny
  <2>1. s = << >>
    BY <1>2 DEF ClassEntries
  <2>2. {c} \cap deny = {}
    BY <1>2
  <2>3. << >> \in Seq(DenyEnts) /\ Len(<< >>) = 0 /\ 0 \in 0..n
    BY <1>0
  <2> HIDE DEF s, q
  <2> QED BY <2>1, <2>2, <2>3 DEF Built, s, q
<1> QED BY <1>1, <1>2

\* The entries of two sets of classes in a row.
LEMMA BuiltConcat ==
    ASSUME NEW x, NEW y, NEW fd, NEW deny, NEW C, NEW D,
           Built(x, fd, deny, C), Built(y, fd, deny, D)
    PROVE  Built(x \o y, fd, deny, C \cup D) /\ Len(x \o y) = Len(x) + Len(y)
<1> DEFINE z == x \o y
<1>0. x \in Seq(DenyEnts) /\ y \in Seq(DenyEnts) /\ Len(x) \in Nat /\ Len(y) \in Nat
  BY DEF Built
<1>1. /\ z \in Seq(DenyEnts) /\ Len(z) = Len(x) + Len(y)
      /\ \A i \in 1..Len(x) : z[i] = x[i]
      /\ \A i \in 1..Len(y) : z[Len(x) + i] = y[i]
  BY <1>0, ConcatProperties, LenProperties
<1> HIDE DEF z
<1>2. ASSUME NEW i \in 1..Len(z)
      PROVE  \E c \in (C \cup D) \cap deny : \E nr \in Range(ClassCalls[c]) :
                z[i] = EntryOf(fd, nr)
  <2>1. CASE i <= Len(x)
    <3>1. i \in 1..Len(x) /\ z[i] = x[i]
      BY <1>0, <1>1, <2>1
    <3> QED BY <3>1 DEF Built
  <2>2. CASE ~(i <= Len(x))
    <3>1. i - Len(x) \in 1..Len(y) /\ Len(x) + (i - Len(x)) = i
      BY <1>0, <1>1, <2>2
    <3>2. z[i] = y[i - Len(x)]
      BY <1>1, <3>1
    <3> QED BY <3>1, <3>2 DEF Built
  <2> QED BY <2>1, <2>2
<1>3. ASSUME NEW c \in (C \cup D) \cap deny, NEW nr \in Range(ClassCalls[c])
      PROVE  \E i \in 1..Len(z) : z[i] = EntryOf(fd, nr)
  <2>1. CASE c \in C
    <3>1. PICK i \in 1..Len(x) : x[i] = EntryOf(fd, nr)
      BY <2>1 DEF Built
    <3>2. i \in 1..Len(z) /\ z[i] = x[i]
      BY <1>0, <1>1
    <3> QED BY <3>1, <3>2
  <2>2. CASE c \in D
    <3>1. PICK i \in 1..Len(y) : y[i] = EntryOf(fd, nr)
      BY <2>2 DEF Built
    <3>2. Len(x) + i \in 1..Len(z) /\ z[Len(x) + i] = y[i]
      BY <1>0, <1>1
    <3> QED BY <3>1, <3>2
  <2> QED BY <2>1, <2>2
<1> QED BY <1>1, <1>2, <1>3 DEF Built, z

\* The entries of one descriptor: one for each call of each denied class, at most 16,
\* and mmap's last.
LEMMA FdEntriesBuilt ==
    ASSUME NEW fd \in Int, NEW deny
    PROVE  LET s == FdEntries(fd, deny) IN
           /\ Built(s, fd, deny, Classes)
           /\ Len(s) \in 0..16
           /\ \A i \in 1..Len(s) : s[i].nr = 9 => i = Len(s)
<1> DEFINE a == ClassEntries(fd, deny, "RD")
           b == ClassEntries(fd, deny, "WR")
           c == ClassEntries(fd, deny, "SEEK")
           d == ClassEntries(fd, deny, "TRUNC")
           e == ClassEntries(fd, deny, "FSYNC")
           f == ClassEntries(fd, deny, "SHUT")
           g == ClassEntries(fd, deny, "MMAP")
           s == FdEntries(fd, deny)
<1>1. /\ Built(a, fd, deny, {"RD"}) /\ Len(a) \in 0..5
      /\ Built(b, fd, deny, {"WR"}) /\ Len(b) \in 0..5
      /\ Built(c, fd, deny, {"SEEK"}) /\ Len(c) \in 0..1
      /\ Built(d, fd, deny, {"TRUNC"}) /\ Len(d) \in 0..1
      /\ Built(e, fd, deny, {"FSYNC"}) /\ Len(e) \in 0..2
      /\ Built(f, fd, deny, {"SHUT"}) /\ Len(f) \in 0..1
      /\ Built(g, fd, deny, {"MMAP"}) /\ Len(g) \in 0..1
  <2>1. /\ "RD" \in Classes /\ "WR" \in Classes /\ "SEEK" \in Classes /\ "TRUNC" \in Classes
        /\ "FSYNC" \in Classes /\ "SHUT" \in Classes /\ "MMAP" \in Classes
    BY DEF Classes
  <2>2. /\ Len(<<0, 19, 17, 295, 327>>) = 5 /\ Len(<<1, 20, 18, 296, 328>>) = 5
        /\ \A x : Len(<<x>>) = 1
        /\ Len(<<74, 75>>) = 2
    OBVIOUS
  <2>3. /\ Len(ClassCalls["RD"]) = 5 /\ Len(ClassCalls["WR"]) = 5 /\ Len(ClassCalls["SEEK"]) = 1
        /\ Len(ClassCalls["TRUNC"]) = 1 /\ Len(ClassCalls["FSYNC"]) = 2
        /\ Len(ClassCalls["SHUT"]) = 1 /\ Len(ClassCalls["MMAP"]) = 1
    BY <2>2, ClassSeqs
  <2> QED BY <2>1, <2>3, ClassBuilt
<1>2. s = (((((a \o b) \o c) \o d) \o e) \o f) \o g
  BY DEF FdEntries
<1> HIDE DEF a, b, c, d, e, f, g, s
<1> DEFINE ab == a \o b
           ac == ab \o c
           ad == ac \o d
           ae == ad \o e
           af == ae \o f
<1>3. Built(ab, fd, deny, {"RD"} \cup {"WR"}) /\ Len(ab) = Len(a) + Len(b)
  BY <1>1, BuiltConcat
<1> HIDE DEF ab
<1>4. Built(ac, fd, deny, ({"RD"} \cup {"WR"}) \cup {"SEEK"}) /\ Len(ac) = Len(ab) + Len(c)
  BY <1>1, <1>3, BuiltConcat
<1> HIDE DEF ac
<1>5. /\ Built(ad, fd, deny, (({"RD"} \cup {"WR"}) \cup {"SEEK"}) \cup {"TRUNC"})
      /\ Len(ad) = Len(ac) + Len(d)
  BY <1>1, <1>4, BuiltConcat
<1> HIDE DEF ad
<1>6. /\ Built(ae, fd, deny, ((({"RD"} \cup {"WR"}) \cup {"SEEK"}) \cup {"TRUNC"}) \cup {"FSYNC"})
      /\ Len(ae) = Len(ad) + Len(e)
  BY <1>1, <1>5, BuiltConcat
<1> HIDE DEF ae
<1> DEFINE Most == {"RD", "WR", "SEEK", "TRUNC", "FSYNC", "SHUT"}
<1>7. /\ Built(af, fd, deny, Most) /\ Len(af) = Len(ae) + Len(f)
  <2>1. Most = (((({"RD"} \cup {"WR"}) \cup {"SEEK"}) \cup {"TRUNC"}) \cup {"FSYNC"}) \cup {"SHUT"}
    OBVIOUS
  <2> HIDE DEF Most
  <2> QED BY <1>1, <1>6, <2>1, BuiltConcat
<1> HIDE DEF af
<1>8. /\ Built(af \o g, fd, deny, Most \cup {"MMAP"}) /\ Len(af \o g) = Len(af) + Len(g)
  <2> HIDE DEF Most
  <2> QED BY <1>1, <1>7, BuiltConcat
<1>9. s = af \o g /\ Most \cup {"MMAP"} = Classes
  BY <1>2 DEF ab, ac, ad, ae, af, Classes
<1> DEFINE la == Len(a)
           lb == Len(b)
           lc == Len(c)
           ld == Len(d)
           le == Len(e)
           lf == Len(f)
           lg == Len(g)
           m1 == Len(ab)
           m2 == Len(ac)
           m3 == Len(ad)
           m4 == Len(ae)
           m5 == Len(af)
           ls == Len(s)
<1>10. ls \in 0..16 /\ ls = m5 + lg /\ m5 \in Nat /\ lg \in 0..1
  <2>1. /\ la \in 0..5 /\ lb \in 0..5 /\ lc \in 0..1 /\ ld \in 0..1
        /\ le \in 0..2 /\ lf \in 0..1 /\ lg \in 0..1
    BY <1>1
  <2>2. /\ m1 = la + lb /\ m2 = m1 + lc /\ m3 = m2 + ld /\ m4 = m3 + le /\ m5 = m4 + lf
        /\ ls = m5 + lg
    BY <1>3, <1>4, <1>5, <1>6, <1>7, <1>8, <1>9
  <2> HIDE DEF la, lb, lc, ld, le, lf, lg, m1, m2, m3, m4, m5, ls
  <2>3. m3 \in 0..12
    BY <2>1, <2>2
  <2>4. m5 \in 0..15
    BY <2>1, <2>2, <2>3
  <2> QED BY <2>1, <2>2, <2>4
<1>11. ASSUME NEW i \in 1..Len(s), s[i].nr = 9 PROVE i = Len(s)
  <2>1. i \in 1..ls
    OBVIOUS
  <2>2. CASE i <= Len(af)
    <3>1. i \in 1..Len(af) /\ af \in Seq(DenyEnts) /\ g \in Seq(DenyEnts)
      BY <1>1, <1>7, <1>10, <2>2 DEF Built
    <3>2. s[i] = af[i]
      BY <1>9, <3>1, ConcatProperties, LenProperties
    <3>3. PICK k \in Most \cap deny : \E nr \in Range(ClassCalls[k]) : af[i] = EntryOf(fd, nr)
      BY <1>7, <3>1 DEF Built
    <3>4. PICK nr \in Range(ClassCalls[k]) : af[i] = EntryOf(fd, nr)
      BY <3>3
    <3>5. nr = 9
      BY <1>11, <3>2, <3>4 DEF EntryOf
    <3>6. k \in Classes /\ k # "MMAP"
      BY DEF Classes
    <3> HIDE DEF Most
    <3> QED BY <3>4, <3>5, <3>6, ClassesApart
  <2>3. CASE ~(i <= Len(af))
    <3>1. ~(i <= m5)
      BY <2>3
    <3>2. i = ls
      <4> HIDE DEF m5, ls, lg
      <4> QED BY <1>10, <2>1, <3>1
    <3> QED BY <3>2
  <2> QED BY <2>2, <2>3
<1> QED BY <1>8, <1>9, <1>10, <1>11 DEF s

-----------------------------------------------------------------------------
(* Sequences put together from sequences and sets.                         *)

\* The two parts of a joined sequence.
LEMMA JoinedSeqs ==
    ASSUME NEW S, NEW x \in Seq(S), NEW y \in Seq(S)
    PROVE  /\ x \o y \in Seq(S) /\ Len(x \o y) = Len(x) + Len(y)
           /\ Len(x) \in Nat /\ Len(y) \in Nat
           /\ \A i \in 1..Len(x) : (x \o y)[i] = x[i]
           /\ \A i \in 1..Len(y) : (x \o y)[Len(x) + i] = y[i]
BY ConcatProperties, LenProperties

\* The sequences up to the m-th, one after the other.
FlattenUpTo(seqs) ==
    LET flatten[i \in 1..Len(seqs)] ==
        IF i = 1 THEN seqs[i] ELSE flatten[i-1] \o seqs[i]
    IN flatten

\* FlattenSeq adds one sequence at a time.
LEMMA FlattenDefined ==
    ASSUME NEW S, NEW seqs \in Seq(Seq(S)), Len(seqs) > 0
    PROVE  LET f == FlattenUpTo(seqs)
               n == Len(seqs)
           IN  /\ FlattenSeq(seqs) = f[n] /\ f[1] = seqs[1]
               /\ \A k \in 1..(n - 1) : f[k + 1] = f[k] \o seqs[k + 1]
<1> DEFINE n == Len(seqs)
           D == 1..n
           Body(g, k) == IF k = 1 THEN seqs[k] ELSE g[k - 1] \o seqs[k]
           Ok(g) == g = [k \in D |-> Body(g, k)]
           Upon(g, m) == \A k \in D : k <= m => g[k] = Body(g, k)
           T == {m \in 0..n : \E g \in [D -> Seq(S)] : Upon(g, m)}
<1>0. n \in Nat /\ n > 0 /\ \A k \in D : seqs[k] \in Seq(S)
  OBVIOUS
<1>1. ASSUME NEW g \in [D -> Seq(S)], NEW k \in D PROVE Body(g, k) \in Seq(S)
  <2>1. CASE k = 1
    BY <1>0, <2>1
  <2>2. CASE k # 1
    <3>1. k - 1 \in D
      BY <1>0, <2>2
    <3>2. g[k - 1] \in Seq(S) /\ seqs[k] \in Seq(S)
      BY <1>0, <3>1
    <3>3. g[k - 1] \o seqs[k] \in Seq(S)
      BY <3>2, JoinedSeqs
    <3> QED BY <2>2, <3>3
  <2> QED BY <2>1, <2>2
<1>2. 0 \in T
  <2> DEFINE g == [k \in D |-> << >>]
  <2>1. g \in [D -> Seq(S)]
    OBVIOUS
  <2>2. Upon(g, 0)
    BY <1>0
  <2> HIDE DEF Upon, g, D
  <2> QED BY <1>0, <2>1, <2>2
<1>3. ASSUME NEW m \in 0..(n - 1), m \in T PROVE m + 1 \in T
  <2>1. PICK g \in [D -> Seq(S)] : Upon(g, m)
    BY <1>3
  <2> DEFINE c == m + 1
             f == [k \in D |-> IF k = c THEN Body(g, k) ELSE g[k]]
  <2>2. f \in [D -> Seq(S)]
    <3> HIDE DEF Body, D, c
    <3> QED BY <1>1
  <2>3. ASSUME NEW k \in D, k <= m + 1 PROVE f[k] = Body(f, k)
    <3>1. Body(f, k) = Body(g, k)
      <4>1. CASE k = 1
        BY <4>1
      <4>2. CASE k # 1
        <5>1. k - 1 \in D /\ k - 1 # c
          BY <1>0, <2>3, <4>2
        <5>2. f[k - 1] = g[k - 1]
          <6> HIDE DEF Body, D, c
          <6> QED BY <5>1
        <5> HIDE DEF f
        <5> QED BY <4>2, <5>2
      <4> QED BY <4>1, <4>2
    <3>2. k = c \/ k <= m
      BY <1>0, <2>3
    <3>3. k <= m => g[k] = Body(g, k)
      BY <2>1
    <3>4. f[k] = IF k = c THEN Body(g, k) ELSE g[k]
      <4> HIDE DEF Body, D, c
      <4> QED OBVIOUS
    <3> HIDE DEF Body, f
    <3> QED BY <3>1, <3>2, <3>3, <3>4
  <2>4. Upon(f, m + 1)
    BY <2>3
  <2>5. m + 1 \in 0..n
    BY <1>0
  <2> HIDE DEF Upon, f, D
  <2> QED BY <1>0, <2>2, <2>4, <2>5
<1>4. PICK g \in [D -> Seq(S)] : Upon(g, n)
  <2>1. n \in T
    <3> HIDE DEF T
    <3>1. 0..n \subseteq T
      BY <1>0, <1>2, <1>3, UpTo
    <3> QED BY <1>0, <3>1
  <2> QED BY <2>1
<1>5. Ok(g)
  <2>1. ASSUME NEW k \in D PROVE g[k] = Body(g, k)
    <3>1. k <= n
      BY <1>0
    <3> HIDE DEF Body, D
    <3> QED BY <1>4, <3>1
  <2> HIDE DEF Body, D
  <2> QED BY <2>1
<1>6. FlattenUpTo(seqs) = CHOOSE g2 : Ok(g2)
  BY DEF FlattenUpTo
<1>7. Ok(FlattenUpTo(seqs))
  <2> HIDE DEF Ok
  <2> QED BY <1>5, <1>6, Zenon
<1> DEFINE e == FlattenUpTo(seqs)
<1>8. \A k \in D : e[k] = Body(e, k)
  <2> HIDE DEF Body, D, e
  <2> QED BY <1>7 DEF e
<1>9. FlattenSeq(seqs) = e[n]
  <2>1. Len(seqs) # 0
    BY <1>0
  <2> QED BY <2>1 DEF FlattenSeq, FlattenUpTo
<1>10. e[1] = seqs[1]
  <2>1. 1 \in D
    BY <1>0
  <2> HIDE DEF e
  <2> QED BY <1>8, <2>1
<1>11. ASSUME NEW k \in 1..(n - 1) PROVE e[k + 1] = e[k] \o seqs[k + 1]
  <2>1. k + 1 \in D /\ k + 1 # 1 /\ (k + 1) - 1 = k
    BY <1>0
  <2>2. e[k + 1] = Body(e, k + 1)
    BY <1>8, <2>1
  <2> HIDE DEF e, D
  <2> QED BY <2>1, <2>2
<1> HIDE DEF e
<1> QED BY <1>9, <1>10, <1>11 DEF e

\* Every element of flat comes from one of the first m sequences, in their order, and
\* every element of these is there; a sequence of one element gives one.
Origin(flat, org, seqs, m) ==
    /\ org \in [1..Len(flat) -> 1..m]
    /\ \A j \in 1..Len(flat) : \E k \in 1..Len(seqs[org[j]]) : flat[j] = seqs[org[j]][k]
    /\ \A i \in 1..m : \A k \in 1..Len(seqs[i]) :
          \E j \in 1..Len(flat) : org[j] = i /\ flat[j] = seqs[i][k]
    /\ \A j, k \in 1..Len(flat) : j <= k => org[j] <= org[k]
    /\ \A j, k \in 1..Len(flat) : org[j] = org[k] /\ Len(seqs[org[j]]) <= 1 => j = k

\* Adding one more sequence keeps track of where elements come from.
LEMMA OriginConcat ==
    ASSUME NEW S, NEW seqs \in Seq(Seq(S)), NEW m \in Nat, m + 1 \in 1..Len(seqs),
           NEW flat \in Seq(S), NEW org, Origin(flat, org, seqs, m)
    PROVE  \E new : Origin(flat \o seqs[m + 1], new, seqs, m + 1)
<1> DEFINE q == m + 1
           s == seqs[q]
           l == Len(flat)
           z == flat \o s
           new == [j \in 1..Len(z) |-> IF j <= l THEN org[j] ELSE q]
<1>0. s \in Seq(S) /\ l \in Nat /\ Len(s) \in Nat /\ q \in Nat
  OBVIOUS
<1>1. /\ z \in Seq(S) /\ Len(z) = l + Len(s)
      /\ \A i \in 1..l : z[i] = flat[i]
      /\ \A i \in 1..Len(s) : z[l + i] = s[i]
  BY SMTT(30), <1>0, JoinedSeqs
<1>2. /\ org \in [1..l -> 1..m]
      /\ \A j \in 1..l : \E k \in 1..Len(seqs[org[j]]) : flat[j] = seqs[org[j]][k]
      /\ \A i \in 1..m : \A k \in 1..Len(seqs[i]) :
            \E j \in 1..l : org[j] = i /\ flat[j] = seqs[i][k]
      /\ \A j, k \in 1..l : j <= k => org[j] <= org[k]
      /\ \A j, k \in 1..l : org[j] = org[k] /\ Len(seqs[org[j]]) <= 1 => j = k
  BY DEF Origin
<1> HIDE DEF z, l, s
<1>3. ASSUME NEW j \in 1..Len(z)
      PROVE  \/ j \in 1..l /\ new[j] = org[j] /\ z[j] = flat[j] /\ org[j] \in 1..m
             \/ /\ j - l \in 1..Len(s) /\ l + (j - l) = j /\ new[j] = q /\ z[j] = s[j - l]
                /\ ~(j <= l)
  <2>1. CASE j <= l
    <3>1. j \in 1..l
      BY <1>0, <2>1
    <3> QED BY <1>1, <1>2, <2>1, <3>1
  <2>2. CASE ~(j <= l)
    <3>1. j - l \in 1..Len(s) /\ l + (j - l) = j
      BY <1>0, <1>1, <2>2
    <3>2. z[l + (j - l)] = s[j - l]
      BY <1>1, <3>1
    <3> QED BY <2>2, <3>1, <3>2
  <2> QED BY <2>1, <2>2
<1>4. q \in 1..q /\ \A i \in 1..m : i \in 1..q /\ i <= q
  BY <1>0
<1>5. new \in [1..Len(z) -> 1..q]
  <2>1. \A j \in 1..Len(z) : new[j] \in 1..q
    <3> HIDE DEF new, q
    <3> QED BY <1>3, <1>4
  <2>2. new = [j \in 1..Len(z) |-> new[j]]
    OBVIOUS
  <2> HIDE DEF new, q
  <2> QED BY <2>1, <2>2
<1>6. ASSUME NEW j \in 1..Len(z)
      PROVE  \E k \in 1..Len(seqs[new[j]]) : z[j] = seqs[new[j]][k]
  <2>1. CASE j \in 1..l /\ new[j] = org[j] /\ z[j] = flat[j]
    <3> HIDE DEF new, q
    <3>1. \E k \in 1..Len(seqs[org[j]]) : flat[j] = seqs[org[j]][k]
      BY <1>2, <2>1
    <3> QED BY <2>1, <3>1
  <2>2. CASE j - l \in 1..Len(s) /\ new[j] = q /\ z[j] = s[j - l]
    <3> HIDE DEF new
    <3>1. seqs[new[j]] = s
      BY <2>2 DEF s
    <3> QED BY <2>2, <3>1
  <2> HIDE DEF new, q
  <2> QED BY <1>3, <2>1, <2>2
<1>7. ASSUME NEW i \in 1..q, NEW k \in 1..Len(seqs[i])
      PROVE  \E j \in 1..Len(z) : new[j] = i /\ z[j] = seqs[i][k]
  <2>1. CASE i \in 1..m
    <3>1. PICK j \in 1..l : org[j] = i /\ flat[j] = seqs[i][k]
      BY <1>2, <2>1
    <3>2. j \in 1..Len(z) /\ j <= l
      BY <1>0, <1>1
    <3>3. new[j] = org[j] /\ z[j] = flat[j]
      BY <1>1, <3>2
    <3> QED BY <3>1, <3>2, <3>3
  <2>2. CASE i = q
    <3>1. k \in 1..Len(s)
      BY <2>2 DEF s
    <3>2. l + k \in 1..Len(z) /\ ~(l + k <= l)
      BY <1>0, <1>1, <3>1
    <3>3. new[l + k] = q /\ z[l + k] = s[k]
      BY <1>1, <3>1, <3>2
    <3> QED BY <2>2, <3>2, <3>3 DEF s
  <2>3. i \in 1..m \/ i = q
    BY <1>0
  <2> HIDE DEF new, q
  <2> QED BY <2>1, <2>2, <2>3
<1>8. ASSUME NEW j \in 1..Len(z), NEW k \in 1..Len(z), j <= k PROVE new[j] <= new[k]
  <2>1. CASE k \in 1..l
    <3>1. j \in 1..l /\ j <= l /\ k <= l
      BY <1>0, <1>8, <2>1
    <3>2. new[j] = org[j] /\ new[k] = org[k]
      BY <3>1
    <3> QED BY <1>2, <1>8, <2>1, <3>1, <3>2
  <2>2. CASE ~(k \in 1..l)
    <3>1. new[k] = q
      BY <1>3, <2>2
    <3>2. new[j] \in 1..q
      BY <1>3, <1>4
    <3> HIDE DEF new
    <3> QED BY <1>0, <3>1, <3>2
  <2> QED BY <2>1, <2>2
<1>9. ASSUME NEW j \in 1..Len(z), NEW k \in 1..Len(z), new[j] = new[k],
             Len(seqs[new[j]]) <= 1
      PROVE  j = k
  <2>1. q \notin 1..m
    BY <1>0
  <2>2. CASE j \in 1..l /\ k \in 1..l
    <3>1. j <= l /\ k <= l
      BY <1>0, <2>2
    <3>2. new[j] = org[j] /\ new[k] = org[k]
      BY <3>1
    <3> HIDE DEF new
    <3> QED BY ZenonT(60), <1>2, <1>9, <2>2, <3>2
  <2>3. CASE ~(j \in 1..l) /\ ~(k \in 1..l)
    <3> HIDE DEF new, q
    <3>1. /\ new[j] = q /\ j - l \in 1..Len(s) /\ l + (j - l) = j
          /\ k - l \in 1..Len(s) /\ l + (k - l) = k
      BY <1>3, <2>3
    <3>2. Len(s) <= 1
      BY <1>9, <3>1 DEF s
    <3> QED BY <1>0, <3>1, <3>2
  <2>4. j \in 1..l <=> k \in 1..l
    <3>1. ASSUME NEW i \in 1..Len(z) PROVE i \in 1..l <=> new[i] # q
      <4> HIDE DEF new, q
      <4>1. i \in 1..l => i <= l
        BY <1>0
      <4> QED BY <1>3, <2>1, <4>1
    <3> HIDE DEF new, q
    <3> QED BY <1>9, <3>1
  <2> QED BY <2>2, <2>3, <2>4
<1>10. Origin(z, new, seqs, q)
  <2> HIDE DEF new, q
  <2> QED BY <1>5, <1>6, <1>7, <1>8, <1>9 DEF Origin
<1> QED BY <1>10 DEF z, s

\* Every element of a flattened sequence comes from one of its sequences.
LEMMA FlattenOrigin ==
    ASSUME NEW S, NEW seqs \in Seq(Seq(S))
    PROVE  /\ FlattenSeq(seqs) \in Seq(S)
           /\ \E org : Origin(FlattenSeq(seqs), org, seqs, Len(seqs))
<1> DEFINE n == Len(seqs)
<1>0. n \in Nat /\ \A k \in 1..n : seqs[k] \in Seq(S)
  OBVIOUS
<1>1. CASE n = 0
  <2>1. seqs = << >> /\ FlattenSeq(seqs) = << >>
    BY <1>1 DEF FlattenSeq
  <2> DEFINE org == [j \in 1..0 |-> 0]
  <2>2. 1..0 = {} /\ Len(<< >>) = 0 /\ << >> \in Seq(S)
    OBVIOUS
  <2>3. Origin(<< >>, org, seqs, 0)
    BY <2>2 DEF Origin
  <2> QED BY <1>1, <2>1, <2>2, <2>3
<1>2. CASE n # 0
  <2> DEFINE f == FlattenUpTo(seqs)
             P(m) == f[m + 1] \in Seq(S) /\ \E org : Origin(f[m + 1], org, seqs, m + 1)
             T == {m \in 0..(n - 1) : P(m)}
             h == n - 1
  <2>0. n > 0 /\ h \in Nat
    BY <1>0, <1>2
  <2>1. /\ FlattenSeq(seqs) = f[n] /\ f[1] = seqs[1]
        /\ \A k \in 1..(n - 1) : f[k + 1] = f[k] \o seqs[k + 1]
    BY <2>0, FlattenDefined
  <2> HIDE DEF f
  <2>2. 0 \in T
    <3>1. 0 \in 0..(n - 1) /\ 0 + 1 = 1 /\ 1 \in 1..n /\ 1..1 = {1}
      BY <2>0
    <3>2. f[1] \in Seq(S)
      BY <1>0, <2>1, <3>1
    <3> DEFINE w == seqs[1]
               org == [j \in 1..Len(w) |-> 1]
    <3>3. Origin(w, org, seqs, 1)
      <4>1. \A j, k \in 1..Len(w) : Len(w) <= 1 => j = k
        <5>1. Len(w) \in Nat
          BY <2>1, <3>2
        <5> QED BY <5>1
      <4>2. \A j \in 1..Len(w) : org[j] = 1
        OBVIOUS
      <4>3. org \in [1..Len(w) -> 1..1]
        BY <3>1
      <4>4. seqs[1] = w
        OBVIOUS
      <4> HIDE DEF org, w
      <4>5. \A j \in 1..Len(w) : \E k \in 1..Len(seqs[org[j]]) : w[j] = seqs[org[j]][k]
        BY <4>2, <4>4
      <4>6. ASSUME NEW i \in 1..1, NEW k \in 1..Len(seqs[i])
            PROVE  \E j \in 1..Len(w) : org[j] = i /\ w[j] = seqs[i][k]
        <5>1. i = 1
          BY <3>1
        <5> QED BY <4>2, <4>4, <5>1
      <4>7. \A j, k \in 1..Len(w) : j <= k => org[j] <= org[k]
        BY <4>2
      <4>8. \A j, k \in 1..Len(w) : org[j] = org[k] /\ Len(seqs[org[j]]) <= 1 => j = k
        BY <4>1, <4>2, <4>4
      <4> QED BY <4>3, <4>5, <4>6, <4>7, <4>8 DEF Origin
    <3>4. P(0)
      BY <2>1, <3>1, <3>2, <3>3
    <3> QED BY <3>1, <3>4
  <2>3. ASSUME NEW m \in 0..(h - 1), m \in T PROVE m + 1 \in T
    <3> DEFINE q == m + 1
    <3>1. q \in Nat /\ q + 1 \in 1..Len(seqs) /\ q \in 1..(n - 1) /\ q \in 0..(n - 1)
      BY <2>0
    <3>2. f[q] \in Seq(S)
      BY <2>3
    <3>3. PICK org : Origin(f[q], org, seqs, q)
      BY <2>3
    <3>4. f[q + 1] = f[q] \o seqs[q + 1] /\ seqs[q + 1] \in Seq(S)
      <4> HIDE DEF q
      <4> QED BY <1>0, <2>1, <3>1
    <3> HIDE DEF q
    <3>5. f[q + 1] \in Seq(S)
      BY <3>2, <3>4, JoinedSeqs
    <3>6. \E new : Origin(f[q] \o seqs[q + 1], new, seqs, q + 1)
      BY <3>1, <3>2, <3>3, OriginConcat
    <3>7. P(q)
      BY <3>4, <3>5, <3>6
    <3> HIDE DEF P
    <3> QED BY <3>1, <3>7 DEF q
  <2>4. 0..h \subseteq T
    <3> HIDE DEF T, h
    <3> QED BY <2>0, <2>2, <2>3, UpTo
  <2>5. h \in T /\ h + 1 = n
    <3>1. h \in 0..h /\ h + 1 = n
      BY <2>0
    <3> HIDE DEF T, h
    <3> QED BY <2>4, <3>1
  <2>6. P(h)
    <3> HIDE DEF P
    <3> QED BY <2>5
  <2> QED BY <2>1, <2>5, <2>6
<1> QED BY <1>1, <1>2

\* The elements of a finite set, each once.
LEMMA SetAsSeq ==
    ASSUME NEW S, IsFiniteSet(S)
    PROVE  SetToSeq(S) \in Seq(S) /\ Range(SetToSeq(S)) = S
<1> DEFINE n == Cardinality(S)
           Ok(f) == f \in [1..n -> S] /\ IsInjective(f)
           g == SetToSeq(S)
<1>1. n \in Nat /\ ExistsBijection(1..n, S)
  BY FS_CardinalityType, FS_NatBijection
<1>2. \E f : Ok(f)
  BY <1>1 DEF ExistsBijection, Bijection, Injection, IsInjective
<1>3. g = CHOOSE f : f \in [1..n -> S] /\ IsInjective(f)
  BY DEF SetToSeq
<1>4. Ok(g)
  <2> HIDE DEF g, Ok
  <2>1. g = CHOOSE f : Ok(f)
    BY <1>3 DEF Ok
  <2> QED BY <1>2, <2>1, Zenon
<1> HIDE DEF g
<1>5. g \in Injection(1..n, S)
  BY <1>4 DEF Injection
<1>6. IsFiniteSet(1..n) /\ Cardinality(1..n) = n
  BY <1>1, FS_Interval
<1>7. g \in Surjection(1..n, S)
  BY <1>5, <1>6, FS_Injection
<1>8. g \in Seq(S) /\ DOMAIN g = 1..n
  BY <1>1, <1>4
<1>9. Range(g) = S
  BY <1>7, <1>8 DEF Surjection, Range
<1> QED BY <1>8, <1>9 DEF g

-----------------------------------------------------------------------------
(* The flag masks of emit_openflags_check.                                 *)

\* A conjunction is zero when each bit is, and only then.
LEMMA BitAndZero ==
    ASSUME NEW x \in Int, NEW y \in Int
    PROVE  /\ BitAnd(x, y) = 0 =>
                \A w \in {1, 2, 64, 512, 1024, 65536, 4194304} : Both(x, y, w) = 0
           /\ x = 0 => BitAnd(x, y) = 0
<1> DEFINE B(w) == Both(x, y, w)
<1>1. \A w \in Nat \ {0} : B(w) \in Nat
  BY BothType
<1>2. BitAnd(x, y) =
         B(1) + B(2) + B(4) + B(8) + B(16) + B(32) + B(64) + B(128) + B(256) + B(512)
           + B(1024) + B(2048) + B(4096) + B(8192) + B(16384) + B(32768) + B(65536)
           + B(131072) + B(262144) + B(524288) + B(1048576) + B(2097152) + B(4194304)
  BY DEF BitAnd
<1>3. x = 0 => \A w \in Nat \ {0} : B(w) = 0
  BY DEF Both
<1> HIDE DEF B
<1>4. /\ B(1) \in Nat /\ B(2) \in Nat /\ B(4) \in Nat /\ B(8) \in Nat /\ B(16) \in Nat
      /\ B(32) \in Nat /\ B(64) \in Nat /\ B(128) \in Nat /\ B(256) \in Nat
      /\ B(512) \in Nat /\ B(1024) \in Nat /\ B(2048) \in Nat /\ B(4096) \in Nat
      /\ B(8192) \in Nat /\ B(16384) \in Nat /\ B(32768) \in Nat /\ B(65536) \in Nat
      /\ B(131072) \in Nat /\ B(262144) \in Nat /\ B(524288) \in Nat
      /\ B(1048576) \in Nat /\ B(2097152) \in Nat /\ B(4194304) \in Nat
  BY <1>1
<1>5. BitAnd(x, y) = 0 =>
        /\ B(1) = 0 /\ B(2) = 0 /\ B(64) = 0 /\ B(512) = 0 /\ B(1024) = 0 /\ B(65536) = 0
        /\ B(4194304) = 0
  <2> DEFINE b1 == B(1)
             b2 == B(2)
             b4 == B(4)
             b8 == B(8)
             b16 == B(16)
             b32 == B(32)
             b64 == B(64)
             b128 == B(128)
             b256 == B(256)
             b512 == B(512)
             b1024 == B(1024)
             b2048 == B(2048)
             b4096 == B(4096)
             b8192 == B(8192)
             b16384 == B(16384)
             b32768 == B(32768)
             b65536 == B(65536)
             b131072 == B(131072)
             b262144 == B(262144)
             b524288 == B(524288)
             b1048576 == B(1048576)
             b2097152 == B(2097152)
             b4194304 == B(4194304)
             s == BitAnd(x, y)
  <2>1. /\ b1 \in Nat
        /\ b2 \in Nat
        /\ b4 \in Nat
        /\ b8 \in Nat
        /\ b16 \in Nat
        /\ b32 \in Nat
        /\ b64 \in Nat
        /\ b128 \in Nat
        /\ b256 \in Nat
        /\ b512 \in Nat
        /\ b1024 \in Nat
        /\ b2048 \in Nat
        /\ b4096 \in Nat
        /\ b8192 \in Nat
        /\ b16384 \in Nat
        /\ b32768 \in Nat
        /\ b65536 \in Nat
        /\ b131072 \in Nat
        /\ b262144 \in Nat
        /\ b524288 \in Nat
        /\ b1048576 \in Nat
        /\ b2097152 \in Nat
        /\ b4194304 \in Nat
    BY <1>4
  <2>2. s = b1 + b2 + b4 + b8 + b16 + b32 + b64 + b128 + b256 + b512
             + b1024 + b2048 + b4096 + b8192 + b16384 + b32768 + b65536 + b131072 + b262144 + b524288 + b1048576 + b2097152 + b4194304
    BY <1>2
  <2> HIDE DEF b1, b2, b4, b8, b16, b32, b64, b128, b256, b512, b1024, b2048, b4096, b8192, b16384, b32768, b65536, b131072, b262144, b524288, b1048576, b2097152, b4194304, s
  <2>3. s = 0 => b1 = 0 /\ b2 = 0 /\ b64 = 0 /\ b512 = 0 /\ b1024 = 0 /\ b65536 = 0 /\ b4194304 = 0
    BY <2>1, <2>2
  <2> QED BY <2>3 DEF s, b1, b2, b64, b512, b1024, b65536, b4194304
<1>6. x = 0 => BitAnd(x, y) = 0
  <2> SUFFICES ASSUME x = 0 PROVE BitAnd(x, y) = 0
    OBVIOUS
  <2>1. /\ B(1) = 0 /\ B(2) = 0 /\ B(4) = 0 /\ B(8) = 0 /\ B(16) = 0
        /\ B(32) = 0 /\ B(64) = 0 /\ B(128) = 0 /\ B(256) = 0
        /\ B(512) = 0 /\ B(1024) = 0 /\ B(2048) = 0 /\ B(4096) = 0
        /\ B(8192) = 0 /\ B(16384) = 0 /\ B(32768) = 0 /\ B(65536) = 0
        /\ B(131072) = 0 /\ B(262144) = 0 /\ B(524288) = 0
        /\ B(1048576) = 0 /\ B(2097152) = 0 /\ B(4194304) = 0
    BY <1>3
  <2> QED BY <1>2, <2>1
<1> QED BY <1>5, <1>6 DEF B
=============================================================================
