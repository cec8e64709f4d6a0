--------------------------- MODULE RegStackProofs ---------------------------
(***************************************************************************)
(* What stack_reg_life_analysis finds, for every function: the registers   *)
(* that live at the start of each block, and no others as long as it has   *)
(* not gone on with the wrong block after a restart.                       *)
(***************************************************************************)
EXTENDS RegStack, DataLemmas

(* Registers that anything is said about. *)
Used(p) ==
    (UNION {UNION {Src(p.blocks[b].ins[j]) : j \in DOMAIN p.blocks[b].ins} : b \in DOMAIN p.blocks})
    \union (UNION {ReturnRegs(p, b) : b \in DOMAIN p.blocks})

LiveIns(p, b, out) == LiveAfter(p.blocks[b].ins, 0, out)

(* The notes do not change what an instruction reads and sets. *)
SameInsns(s, t) ==
    /\ IsInsns(s) /\ IsInsns(t) /\ Len(s) = Len(t)
    /\ \A j \in DOMAIN s : s[j].in = t[j].in /\ s[j].out = t[j].out /\ s[j].clob = t[j].clob

LifeType ==
    /\ prog \in Programs
    /\ blk \in 0..Len(prog.blocks)
    /\ stack_in \in [Blocks -> SUBSET Used(prog)]
    /\ out_set \in [Blocks -> SUBSET Used(prog)]
    /\ DOMAIN insns = Blocks
    /\ \A b \in Blocks : SameInsns(insns[b], prog.blocks[b].ins)

(* Blocks behind the current one are done with: what lives at their start  *)
(* has been computed from what lives at their end now, and has got to the  *)
(* ends of all blocks before them.                                         *)
Computed == \A b \in Blocks : b > blk => stack_in[b] = LiveIns(prog, b, out_set[b])
Reported ==
    \A b \in Blocks : b > blk =>
       /\ \A ref \in LabelRefs(prog, b) : stack_in[b] \subseteq out_set[ref]
       /\ DropsIn(prog, b) => stack_in[b] \subseteq out_set[b - 1]
Returned == \A b \in Blocks : ReturnRegs(prog, b) \subseteq out_set[b]

NoMore ==
    \A b \in Blocks : /\ stack_in[b] \subseteq TrueLife(prog)[b]
                      /\ out_set[b] \subseteq LifeOut(prog, TrueLives(prog), b)

Found ==
    /\ \A b \in Blocks : TrueLife(prog)[b] \subseteq stack_in[b]
    /\ "stale" \notin odd => stack_in = TrueLife(prog)

LifeInv ==
    /\ phase \in {"life", "zero_init", "convert", "run", "done", "aborted"}
    /\ phase = "life" => /\ LifeType /\ Computed /\ Reported /\ Returned
                         /\ "stale" \notin odd => NoMore
    /\ phase = "zero_init" => "stale" \in odd
    /\ phase \in {"convert", "run", "done"} => Found

-----------------------------------------------------------------------------
(* Life in a block *)

IsLive(f, ins, out) ==
  f = [n \in 0..Len(ins) |-> IF n = 0 THEN out ELSE LifeBefore(ins[Len(ins) + 1 - n], f[n - 1])]

LEMMA LiveExists ==
  ASSUME NEW ins, Len(ins) \in Nat, NEW out
  PROVE  \E f : IsLive(f, ins, out)
<1> DEFINE N == Len(ins)
           U == out \union UNION {Src(ins[j]) : j \in 1..N}
           step == [k \in 1..N |-> [s \in SUBSET U |-> LifeBefore(ins[N + 1 - k], s)]]
<1>1. \A k \in 1..N : \A s \in SUBSET U : LifeBefore(ins[N + 1 - k], s) \in SUBSET U
  <2> SUFFICES ASSUME NEW k \in 1..N, NEW s \in SUBSET U
               PROVE  LifeBefore(ins[N + 1 - k], s) \in SUBSET U
    OBVIOUS
  <2>1. N + 1 - k \in 1..N
    OBVIOUS
  <2>2. PICK m \in 1..N : m = N + 1 - k
    BY <2>1
  <2>3. Src(ins[m]) \subseteq U
    OBVIOUS
  <2> QED
    BY <2>2, <2>3 DEF LifeBefore
<1>2. step \in [1..N -> [SUBSET U -> SUBSET U]]
  BY <1>1
<1>3. out \in SUBSET U
  OBVIOUS
<1>4. \A k \in 1..N : \A s \in SUBSET U : step[k][s] = LifeBefore(ins[N + 1 - k], s)
  OBVIOUS
<1>0. N \in Nat /\ N = Len(ins)
  OBVIOUS
<1> HIDE DEF step, U, N
<1> DEFINE D == SUBSET U
<1>5. PICK f \in [0..N -> D] : f[0] = out /\ \A k \in 1..N : f[k] = step[k][f[k - 1]]
  <2>1. step \in [1..N -> [D -> D]] /\ out \in D
    BY <1>2, <1>3
  <2> HIDE DEF D
  <2>2. Iterates(D, N, out, step)
    BY <1>0, <2>1, StepsExist
  <2> QED
    BY <2>2 DEF Iterates
<1>6. ASSUME NEW n \in 0..N
      PROVE  f[n] = IF n = 0 THEN out ELSE LifeBefore(ins[N + 1 - n], f[n - 1])
  <2>1. CASE n = 0
    BY <1>5, <2>1
  <2>2. CASE n # 0
    <3>1. n \in 1..N /\ n - 1 \in 0..N
      BY <1>0, <2>2
    <3>2. f[n - 1] \in SUBSET U
      BY <3>1
    <3> QED
      BY <1>4, <1>5, <2>2, <3>1, <3>2
  <2> QED
    BY <2>1, <2>2
<1>7. f = [n \in 0..N |-> IF n = 0 THEN out ELSE LifeBefore(ins[N + 1 - n], f[n - 1])]
  BY <1>6
<1>8. IsLive(f, ins, out)
  BY <1>0, <1>7 DEF IsLive
<1> QED
  BY <1>8

\* LiveAfter from one instruction to the one before.
LiveSteps(ins, out) ==
  /\ LiveAfter(ins, Len(ins), out) = out
  /\ \A j \in 0..(Len(ins) - 1) :
        LiveAfter(ins, j, out) = LifeBefore(ins[j + 1], LiveAfter(ins, j + 1, out))

LEMMA LiveStep ==
  ASSUME NEW ins, Len(ins) \in Nat, NEW out
  PROVE  LiveSteps(ins, out)
<1> DEFINE f == CHOOSE g : IsLive(g, ins, out)
<1>1. IsLive(f, ins, out)
  BY LiveExists
<1>2. \A j : LiveAfter(ins, j, out) = f[Len(ins) - j]
  BY DEF LiveAfter, IsLive
<1> HIDE DEF f
<1>3. PICK N \in Nat : N = Len(ins)
  OBVIOUS
<1>4. \A n \in 0..N : f[n] = IF n = 0 THEN out ELSE LifeBefore(ins[N + 1 - n], f[n - 1])
  BY <1>1, <1>3 DEF IsLive
<1>5. LiveAfter(ins, N, out) = out
  <2>1. N - N = 0 /\ 0 \in 0..N
    OBVIOUS
  <2> QED
    BY <1>2, <1>3, <1>4, <2>1
<1>6. ASSUME NEW j \in 0..(N - 1)
      PROVE  LiveAfter(ins, j, out) = LifeBefore(ins[j + 1], LiveAfter(ins, j + 1, out))
  <2>1. N - j \in 0..N /\ N - j # 0 /\ N + 1 - (N - j) = j + 1 /\ (N - j) - 1 = N - (j + 1)
    OBVIOUS
  <2>2. f[N - j] = LifeBefore(ins[N + 1 - (N - j)], f[(N - j) - 1])
    BY <1>4, <2>1
  <2>3. f[N - j] = LifeBefore(ins[j + 1], f[N - (j + 1)])
    BY <2>1, <2>2
  <2> QED
    BY <1>2, <1>3, <2>3
<1> QED
  BY <1>3, <1>5, <1>6 DEF LiveSteps

\* From the end of a block to its start.
LEMMA Downwards ==
  ASSUME NEW N \in Nat, NEW S \in SUBSET (0..N), N \in S,
         \A j \in 0..(N - 1) : j + 1 \in S => j \in S
  PROVE  S = 0..N
<1> DEFINE T == {n \in Nat : n <= N => N - n \in S}
<1>1. 0 \in T
  OBVIOUS
<1>2. \A n \in T : n + 1 \in T
  <2> SUFFICES ASSUME NEW n \in T, n + 1 <= N  PROVE N - (n + 1) \in S
    OBVIOUS
  <2>1. n \in Nat /\ N - n \in S /\ N - (n + 1) \in 0..(N - 1) /\ (N - (n + 1)) + 1 = N - n
    OBVIOUS
  <2>2. PICK j \in 0..(N - 1) : j = N - (n + 1) /\ j + 1 = N - n
    BY <2>1
  <2> QED
    BY <2>1, <2>2
<1>3. T = Nat
  <2>1. T \in SUBSET Nat
    OBVIOUS
  <2> HIDE DEF T
  <2> QED
    BY <1>1, <1>2, <2>1, SetInduction
<1>4. ASSUME NEW j \in 0..N  PROVE j \in S
  <2>1. N - j \in Nat
    OBVIOUS
  <2>2. N - (N - j) \in S
    <3>1. N - j \in {n \in Nat : n <= N => N - n \in S}
      BY <1>3, <2>1
    <3> QED
      BY <3>1
  <2>3. N - (N - j) = j
    OBVIOUS
  <2> QED
    BY <2>2, <2>3
<1> QED
  BY <1>4

\* Whether a register lives depends on whether it does at the block's end.
LEMMA LiveMonotone ==
  ASSUME NEW ins, Len(ins) \in Nat, NEW out, NEW more, NEW r, r \in out => r \in more,
         NEW j \in 0..Len(ins)
  PROVE  r \in LiveAfter(ins, j, out) => r \in LiveAfter(ins, j, more)
<1>1. PICK N \in Nat : N = Len(ins)
  OBVIOUS
<1> DEFINE S == {k \in 0..N : r \in LiveAfter(ins, k, out) => r \in LiveAfter(ins, k, more)}
<1>2. LiveSteps(ins, out) /\ LiveSteps(ins, more)
  BY LiveStep
<1>3. N \in S
  BY <1>1, <1>2 DEF LiveSteps
<1>4. ASSUME NEW k \in 0..(N - 1), k + 1 \in S  PROVE k \in S
  <2>1. LiveAfter(ins, k, out) = LifeBefore(ins[k + 1], LiveAfter(ins, k + 1, out))
    BY <1>1, <1>2 DEF LiveSteps
  <2>2. LiveAfter(ins, k, more) = LifeBefore(ins[k + 1], LiveAfter(ins, k + 1, more))
    BY <1>1, <1>2 DEF LiveSteps
  <2>3. r \in LiveAfter(ins, k + 1, out) => r \in LiveAfter(ins, k + 1, more)
    BY <1>4
  <2>4. k \in 0..N
    OBVIOUS
  <2> QED
    BY <2>1, <2>2, <2>3, <2>4 DEF LifeBefore
<1>5. S = 0..N
  <2>1. S \in SUBSET (0..N)
    OBVIOUS
  <2> HIDE DEF S
  <2> QED
    BY <1>3, <1>4, <2>1, Downwards
<1> QED
  BY <1>1, <1>5

\* It depends on what the instructions read and set.
LEMMA LiveSame ==
  ASSUME NEW s, NEW t, SameInsns(s, t), NEW out, NEW j \in 0..Len(s)
  PROVE  LiveAfter(s, j, out) = LiveAfter(t, j, out)
<1>1. PICK N \in Nat : N = Len(s) /\ N = Len(t) /\ DOMAIN s = 1..N
  BY DEF SameInsns, IsInsns
<1> DEFINE S == {k \in 0..N : LiveAfter(s, k, out) = LiveAfter(t, k, out)}
<1>2. LiveSteps(s, out) /\ LiveSteps(t, out)
  BY <1>1, LiveStep
<1>3. N \in S
  BY <1>1, <1>2 DEF LiveSteps
<1>4. ASSUME NEW k \in 0..(N - 1), k + 1 \in S  PROVE k \in S
  <2>1. LiveAfter(s, k, out) = LifeBefore(s[k + 1], LiveAfter(s, k + 1, out))
    BY <1>1, <1>2 DEF LiveSteps
  <2>2. LiveAfter(t, k, out) = LifeBefore(t[k + 1], LiveAfter(t, k + 1, out))
    BY <1>1, <1>2 DEF LiveSteps
  <2>3. LiveAfter(s, k + 1, out) = LiveAfter(t, k + 1, out)
    BY <1>4
  <2>4. k \in 0..N /\ k + 1 \in DOMAIN s
    BY <1>1
  <2>5. s[k + 1].in = t[k + 1].in /\ s[k + 1].out = t[k + 1].out
    BY <2>4 DEF SameInsns
  <2>6. \A set : LifeBefore(s[k + 1], set) = LifeBefore(t[k + 1], set)
    BY <2>5 DEF LifeBefore, Src, Dest
  <2> QED
    BY <2>1, <2>2, <2>3, <2>4, <2>6
<1>5. S = 0..N
  <2>1. S \in SUBSET (0..N)
    OBVIOUS
  <2> HIDE DEF S
  <2> QED
    BY <1>3, <1>4, <2>1, Downwards
<1> QED
  BY <1>1, <1>5

\* Only registers that are used, or live at the end, live.
LEMMA LiveWithin ==
  ASSUME NEW ins, Len(ins) \in Nat, NEW U, NEW out \in SUBSET U,
         \A k \in 1..Len(ins) : Src(ins[k]) \subseteq U, NEW j \in 0..Len(ins)
  PROVE  LiveAfter(ins, j, out) \in SUBSET U
<1>1. PICK N \in Nat : N = Len(ins)
  OBVIOUS
<1> DEFINE S == {k \in 0..N : LiveAfter(ins, k, out) \in SUBSET U}
<1>2. LiveSteps(ins, out)
  BY LiveStep
<1>3. N \in S
  BY <1>1, <1>2 DEF LiveSteps
<1>4. ASSUME NEW k \in 0..(N - 1), k + 1 \in S  PROVE k \in S
  <2>1. LiveAfter(ins, k, out) = LifeBefore(ins[k + 1], LiveAfter(ins, k + 1, out))
    BY <1>1, <1>2 DEF LiveSteps
  <2>2. LiveAfter(ins, k + 1, out) \in SUBSET U
    BY <1>4
  <2>3. k \in 0..N /\ k + 1 \in 1..N
    OBVIOUS
  <2>4. Src(ins[k + 1]) \subseteq U
    BY <1>1, <2>3
  <2> QED
    BY <2>1, <2>2, <2>3, <2>4 DEF LifeBefore
<1>5. S = 0..N
  <2>1. S \in SUBSET (0..N)
    OBVIOUS
  <2> HIDE DEF S
  <2> QED
    BY <1>3, <1>4, <2>1, Downwards
<1> QED
  BY <1>1, <1>5
-----------------------------------------------------------------------------
(* Life by its definition *)

Places(p) == (DOMAIN p.blocks) \X Used(p)

\* The shape of a function.
Shape(p) ==
  /\ Len(p.blocks) \in Nat \ {0} /\ DOMAIN p.blocks = 1..Len(p.blocks)
  /\ \A b \in DOMAIN p.blocks : IsInsns(p.blocks[b].ins)

LEMMA HasShape ==
  ASSUME NEW p \in Programs
  PROVE  Shape(p)
BY ProgramsAssumption DEF WellFormed, Shape

LEMMA UsedHere ==
  ASSUME NEW p, NEW b \in DOMAIN p.blocks
  PROVE  /\ ReturnRegs(p, b) \subseteq Used(p)
         /\ \A j \in DOMAIN p.blocks[b].ins : Src(p.blocks[b].ins[j]) \subseteq Used(p)
<1> DEFINE I(c) == UNION {Src(p.blocks[c].ins[j]) : j \in DOMAIN p.blocks[c].ins}
           Ins == UNION {I(c) : c \in DOMAIN p.blocks}
           Rets == UNION {ReturnRegs(p, c) : c \in DOMAIN p.blocks}
<1>0. Used(p) = Ins \union Rets
  BY DEF Used
<1>3. ASSUME NEW j \in DOMAIN p.blocks[b].ins  PROVE Src(p.blocks[b].ins[j]) \subseteq I(b)
  OBVIOUS
<1>4. ReturnRegs(p, b) \subseteq Rets
  OBVIOUS
<1>5. I(b) \subseteq Ins
  <2> HIDE DEF I
  <2> QED
    OBVIOUS
<1> HIDE DEF I, Ins, Rets
<1>1. ReturnRegs(p, b) \subseteq Used(p)
  BY <1>0, <1>4
<1>2. ASSUME NEW j \in DOMAIN p.blocks[b].ins  PROVE Src(p.blocks[b].ins[j]) \subseteq Used(p)
  BY <1>0, <1>3, <1>5
<1> QED
  BY <1>1, <1>2

LEMMA LiveInsWithin ==
  ASSUME NEW p \in Programs, NEW b \in DOMAIN p.blocks, NEW out \in SUBSET Used(p)
  PROVE  LiveIns(p, b, out) \in SUBSET Used(p)
<1>1. PICK ins : ins = p.blocks[b].ins
  OBVIOUS
<1>2. Len(ins) \in Nat /\ DOMAIN ins = 1..Len(ins)
  BY <1>1, HasShape DEF Shape, IsInsns
<1>3. \A k \in 1..Len(ins) : Src(ins[k]) \subseteq Used(p)
  BY <1>1, <1>2, UsedHere
<1>4. 0 \in 0..Len(ins)
  BY <1>2
<1>5. LiveAfter(ins, 0, out) \in SUBSET Used(p)
  BY <1>2, <1>3, <1>4, LiveWithin
<1> QED
  BY <1>1, <1>5 DEF LiveIns

LEMMA LiveInsMonotone ==
  ASSUME NEW p \in Programs, NEW b \in DOMAIN p.blocks, NEW out, NEW more, NEW r,
         r \in out => r \in more
  PROVE  r \in LiveIns(p, b, out) => r \in LiveIns(p, b, more)
<1>1. PICK ins : ins = p.blocks[b].ins
  OBVIOUS
<1>2. Len(ins) \in Nat
  BY <1>1, HasShape DEF Shape, IsInsns
<1>3. 0 \in 0..Len(ins)
  BY <1>2
<1>4. r \in LiveAfter(ins, 0, out) => r \in LiveAfter(ins, 0, more)
  BY <1>2, <1>3, LiveMonotone
<1> QED
  BY <1>1, <1>4 DEF LiveIns

LEMMA LifeOutIs ==
  ASSUME NEW p, NEW lives \in SUBSET Places(p), NEW b, NEW r
  PROVE  r \in LifeOut(p, lives, b)
           <=> (r \in ReturnRegs(p, b) \/ \E s \in Successors(p, b) : <<s, r>> \in lives)
<1>1. \A y \in lives : y = <<y[1], y[2]>>
  BY DEF Places
<1>2. r \in {x[2] : x \in {y \in lives : y[1] \in Successors(p, b)}}
        <=> \E s \in Successors(p, b) : <<s, r>> \in lives
  <2>1. ASSUME NEW x \in lives, x[1] \in Successors(p, b), r = x[2]
        PROVE  \E s \in Successors(p, b) : <<s, r>> \in lives
    BY <1>1, <2>1
  <2>2. ASSUME NEW s \in Successors(p, b), <<s, r>> \in lives
        PROVE  r \in {x[2] : x \in {y \in lives : y[1] \in Successors(p, b)}}
    <3>1. <<s, r>>[1] = s /\ <<s, r>>[2] = r
      OBVIOUS
    <3>2. <<s, r>> \in {y \in lives : y[1] \in Successors(p, b)}
      BY <2>2, <3>1
    <3> QED
      BY <3>1, <3>2
  <2> QED
    BY <2>1, <2>2
<1> QED
  BY <1>2 DEF LifeOut

LEMMA LifeOutWithin ==
  ASSUME NEW p, NEW lives \in SUBSET Places(p), NEW b \in DOMAIN p.blocks
  PROVE  LifeOut(p, lives, b) \in SUBSET Used(p)
<1> SUFFICES ASSUME NEW r \in LifeOut(p, lives, b)  PROVE r \in Used(p)
  OBVIOUS
<1>1. r \in ReturnRegs(p, b) \/ \E s \in Successors(p, b) : <<s, r>> \in lives
  BY LifeOutIs
<1>2. ASSUME NEW s, <<s, r>> \in lives  PROVE r \in Used(p)
  BY <1>2 DEF Places
<1> QED
  BY <1>1, <1>2, UsedHere

LEMMA RoundIs ==
  ASSUME NEW p, NEW lives, NEW b, NEW r
  PROVE  <<b, r>> \in OneMoreBlock(p, lives)
           <=> (b \in DOMAIN p.blocks /\ r \in LiveIns(p, b, LifeOut(p, lives, b)))
<1> DEFINE L(c) == LiveIns(p, c, LifeOut(p, lives, c))
<1>1. OneMoreBlock(p, lives) = UNION {{<<c, q>> : q \in L(c)} : c \in DOMAIN p.blocks}
  BY DEF OneMoreBlock, LiveIns
<1> HIDE DEF L
<1>2. ASSUME NEW c \in DOMAIN p.blocks, NEW q \in L(c), <<b, r>> = <<c, q>>
      PROVE  b \in DOMAIN p.blocks /\ r \in L(b)
  BY <1>2
<1>3. ASSUME b \in DOMAIN p.blocks, r \in L(b)
      PROVE  <<b, r>> \in UNION {{<<c, q>> : q \in L(c)} : c \in DOMAIN p.blocks}
  BY <1>3
<1> QED
  BY <1>1, <1>2, <1>3 DEF L

LEMMA RoundType ==
  ASSUME NEW p \in Programs, NEW lives \in SUBSET Places(p)
  PROVE  OneMoreBlock(p, lives) \in SUBSET Places(p)
<1> DEFINE L(c) == LiveIns(p, c, LifeOut(p, lives, c))
<1>1. OneMoreBlock(p, lives) = UNION {{<<c, q>> : q \in L(c)} : c \in DOMAIN p.blocks}
  BY DEF OneMoreBlock, LiveIns
<1>2. \A c \in DOMAIN p.blocks : L(c) \in SUBSET Used(p)
  BY LifeOutWithin, LiveInsWithin
<1> HIDE DEF L
<1> QED
  BY <1>1, <1>2 DEF Places

\* A way for one register does not depend on the other registers.
LEMMA RoundMonotone ==
  ASSUME NEW p \in Programs, NEW X \in SUBSET Places(p), NEW Y \in SUBSET Places(p), NEW r,
         \A b : <<b, r>> \in X => <<b, r>> \in Y
  PROVE  \A b : <<b, r>> \in OneMoreBlock(p, X) => <<b, r>> \in OneMoreBlock(p, Y)
<1> SUFFICES ASSUME NEW b, <<b, r>> \in OneMoreBlock(p, X)
             PROVE  <<b, r>> \in OneMoreBlock(p, Y)
  OBVIOUS
<1>1. b \in DOMAIN p.blocks /\ r \in LiveIns(p, b, LifeOut(p, X, b))
  BY RoundIs
<1>2. r \in LifeOut(p, X, b) => r \in LifeOut(p, Y, b)
  BY LifeOutIs
<1>3. r \in LiveIns(p, b, LifeOut(p, Y, b))
  BY <1>1, <1>2, LiveInsMonotone
<1> QED
  BY <1>1, <1>3, RoundIs

IsLives(f, p) ==
  f = [n \in 0..Len(p.blocks) |-> IF n = 0 THEN {} ELSE OneMoreBlock(p, f[n - 1])]

LEMMA LivesExists ==
  ASSUME NEW p \in Programs
  PROVE  \E f : IsLives(f, p)
<1> DEFINE N == Len(p.blocks)
           D == SUBSET Places(p)
           step == [k \in 1..N |-> [s \in D |-> OneMoreBlock(p, s)]]
<1>1. \A s \in D : OneMoreBlock(p, s) \in D
  BY RoundType
<1>2. step \in [1..N -> [D -> D]] /\ {} \in D
  BY <1>1
<1>3. \A k \in 1..N : \A s \in D : step[k][s] = OneMoreBlock(p, s)
  OBVIOUS
<1>4. N \in Nat /\ N = Len(p.blocks)
  BY HasShape DEF Shape
<1> HIDE DEF step, D, N
<1>5. Iterates(D, N, {}, step)
  BY <1>2, <1>4, StepsExist
<1>6. PICK f \in [0..N -> D] : f[0] = {} /\ \A k \in 1..N : f[k] = step[k][f[k - 1]]
  BY <1>5 DEF Iterates
<1>7. ASSUME NEW n \in 0..N
      PROVE  f[n] = IF n = 0 THEN {} ELSE OneMoreBlock(p, f[n - 1])
  <2>1. CASE n = 0
    BY <1>6, <2>1
  <2>2. CASE n # 0
    <3>1. n \in 1..N /\ n - 1 \in 0..N
      BY <1>4, <2>2
    <3>2. f[n - 1] \in D
      BY <3>1
    <3> QED
      BY <1>3, <1>6, <2>2, <3>1, <3>2
  <2> QED
    BY <2>1, <2>2
<1>8. f = [n \in 0..N |-> IF n = 0 THEN {} ELSE OneMoreBlock(p, f[n - 1])]
  BY <1>7
<1>9. IsLives(f, p)
  BY <1>4, <1>8 DEF IsLives
<1> QED
  BY <1>9

\* The rounds TrueLives takes, one for each block.
Rounds(f, p) ==
  /\ f[0] = {} /\ TrueLives(p) = f[Len(p.blocks)]
  /\ \A n \in 0..Len(p.blocks) : f[n] \in SUBSET Places(p)
  /\ \A n \in 1..Len(p.blocks) : f[n] = OneMoreBlock(p, f[n - 1])

LEMMA RoundsExist ==
  ASSUME NEW p \in Programs
  PROVE  \E f : Rounds(f, p)
<1> DEFINE f == CHOOSE g : IsLives(g, p)
<1>1. IsLives(f, p)
  BY LivesExists
<1>2. TrueLives(p) = f[Len(p.blocks)]
  BY DEF TrueLives, IsLives
<1> HIDE DEF f
<1>3. PICK N \in Nat : N = Len(p.blocks)
  BY HasShape DEF Shape
<1>4. \A n \in 0..N : f[n] = IF n = 0 THEN {} ELSE OneMoreBlock(p, f[n - 1])
  BY <1>1, <1>3 DEF IsLives
<1>5. f[0] = {}
  BY <1>4
<1>6. \A n \in 1..N : f[n] = OneMoreBlock(p, f[n - 1])
  BY <1>4
<1> DEFINE T == {n \in Nat : n <= N => f[n] \in SUBSET Places(p)}
<1>7. 0 \in T
  BY <1>5
<1>8. ASSUME NEW n \in T  PROVE n + 1 \in T
  <2> SUFFICES ASSUME n + 1 <= N  PROVE f[n + 1] \in SUBSET Places(p)
    OBVIOUS
  <2>1. n \in Nat /\ f[n] \in SUBSET Places(p) /\ n + 1 \in 1..N /\ (n + 1) - 1 = n
    OBVIOUS
  <2>2. f[n + 1] = OneMoreBlock(p, f[n])
    BY <1>6, <2>1
  <2> QED
    BY <2>1, <2>2, RoundType
<1>9. T = Nat
  <2>1. T \in SUBSET Nat
    OBVIOUS
  <2> HIDE DEF T
  <2> QED
    BY <1>7, <1>8, <2>1, SetInduction
<1>10. \A n \in 0..N : f[n] \in SUBSET Places(p)
  <2> SUFFICES ASSUME NEW n \in 0..N  PROVE f[n] \in SUBSET Places(p)
    OBVIOUS
  <2>1. n \in {m \in Nat : m <= N => f[m] \in SUBSET Places(p)}
    BY <1>9
  <2> QED
    BY <2>1
<1> QED
  BY <1>2, <1>3, <1>5, <1>6, <1>10 DEF Rounds

\* A set of places that is closed holds all places where registers live.
LEMMA LivesLeast ==
  ASSUME NEW p \in Programs, NEW S \in SUBSET Places(p), OneMoreBlock(p, S) \subseteq S
  PROVE  TrueLives(p) \subseteq S
<1>1. PICK f : Rounds(f, p)
  BY RoundsExist
<1>2. PICK N \in Nat : N = Len(p.blocks)
  BY HasShape DEF Shape
<1> DEFINE T == {n \in Nat : n <= N => f[n] \subseteq S}
<1>3. 0 \in T
  BY <1>1 DEF Rounds
<1>4. ASSUME NEW n \in T  PROVE n + 1 \in T
  <2> SUFFICES ASSUME n + 1 <= N  PROVE f[n + 1] \subseteq S
    OBVIOUS
  <2>1. n \in Nat /\ f[n] \subseteq S /\ n + 1 \in 1..N /\ (n + 1) - 1 = n /\ n \in 0..N
    OBVIOUS
  <2>2. f[n + 1] = OneMoreBlock(p, f[n]) /\ f[n] \in SUBSET Places(p)
    BY <1>1, <1>2, <2>1 DEF Rounds
  <2>3. OneMoreBlock(p, f[n]) \in SUBSET Places(p)
    BY <2>2, RoundType
  <2> SUFFICES ASSUME NEW x \in OneMoreBlock(p, f[n])  PROVE x \in S
    BY <2>2
  <2>4. PICK b, r : x = <<b, r>>
    BY <2>3 DEF Places
  <2>5. \A c : <<c, r>> \in f[n] => <<c, r>> \in S
    BY <2>1
  <2>6. \A c : <<c, r>> \in OneMoreBlock(p, f[n]) => <<c, r>> \in OneMoreBlock(p, S)
    BY <2>2, <2>5, RoundMonotone
  <2> QED
    BY <2>4, <2>6
<1>5. T = Nat
  <2>1. T \in SUBSET Nat
    OBVIOUS
  <2> HIDE DEF T
  <2> QED
    BY <1>3, <1>4, <2>1, SetInduction
<1>6. N \in {n \in Nat : n <= N => f[n] \subseteq S}
  BY <1>5
<1> QED
  BY <1>1, <1>2, <1>6 DEF Rounds
\* The blocks r lives at the start of.
Where(p, r, X) == {b \in DOMAIN p.blocks : <<b, r>> \in X}

\* r is not found in another block any more.
Settled(p, r, X) == \A b : <<b, r>> \in OneMoreBlock(p, X) => <<b, r>> \in X

LEMMA RoundsGrow ==
  ASSUME NEW p \in Programs, NEW f, Rounds(f, p), NEW r, NEW n \in 0..Len(p.blocks)
  PROVE  \A b : <<b, r>> \in f[n] => <<b, r>> \in OneMoreBlock(p, f[n])
<1>1. PICK N \in Nat : N = Len(p.blocks)
  BY HasShape DEF Shape
<1> DEFINE G(k) == \A b : <<b, r>> \in f[k] => <<b, r>> \in OneMoreBlock(p, f[k])
           T == {k \in Nat : k <= N => G(k)}
<1>2. 0 \in T
  BY DEF Rounds
<1>3. ASSUME NEW k \in T  PROVE k + 1 \in T
  <2> SUFFICES ASSUME k + 1 <= N  PROVE G(k + 1)
    OBVIOUS
  <2>1. k \in Nat /\ G(k) /\ k + 1 \in 1..N /\ (k + 1) - 1 = k /\ k \in 0..N /\ k + 1 \in 0..N
    OBVIOUS
  <2>2. f[k + 1] = OneMoreBlock(p, f[k]) /\ f[k] \in SUBSET Places(p) /\ f[k + 1] \in SUBSET Places(p)
    BY <1>1, <2>1 DEF Rounds
  <2>3. \A b : <<b, r>> \in f[k] => <<b, r>> \in f[k + 1]
    BY <2>1, <2>2
  <2>4. \A b : <<b, r>> \in OneMoreBlock(p, f[k]) => <<b, r>> \in OneMoreBlock(p, f[k + 1])
    BY <2>2, <2>3, RoundMonotone
  <2> QED
    BY <2>2, <2>4
<1>4. T = Nat
  <2>1. T \in SUBSET Nat
    OBVIOUS
  <2> HIDE DEF T
  <2> QED
    BY <1>2, <1>3, <2>1, SetInduction
<1>5. n \in {k \in Nat : k <= N => G(k)}
  BY <1>1, <1>4
<1> QED
  BY <1>1, <1>5

\* A round that finds r in no new block is followed only by such rounds, and
\* there are no more blocks to find it in than rounds.
LEMMA RoundsSettle ==
  ASSUME NEW p \in Programs, NEW f, Rounds(f, p), NEW r
  PROVE  Settled(p, r, f[Len(p.blocks)])
<1>1. PICK N \in Nat : N = Len(p.blocks) /\ DOMAIN p.blocks = 1..N
  BY HasShape DEF Shape
<1>2. IsFiniteSet(1..N) /\ Cardinality(1..N) = N
  BY FS_Interval
<1>3. \A X : Where(p, r, X) \in SUBSET (1..N)
  BY <1>1 DEF Where
<1>4. \A X : /\ IsFiniteSet(Where(p, r, X)) /\ Cardinality(Where(p, r, X)) \in Nat
             /\ Cardinality(Where(p, r, X)) <= N
             /\ Cardinality(Where(p, r, X)) = N => Where(p, r, X) = 1..N
  BY <1>2, <1>3, FS_Subset, FS_CardinalityType
<1> DEFINE P(k) == Settled(p, r, f[k]) \/ Cardinality(Where(p, r, f[k])) >= k
           T == {k \in Nat : k <= N => P(k)}
<1>5. 0 \in T
  BY <1>4
<1>6. ASSUME NEW k \in T  PROVE k + 1 \in T
  <2> SUFFICES ASSUME k + 1 <= N  PROVE P(k + 1)
    OBVIOUS
  <2>1. k \in Nat /\ P(k) /\ k + 1 \in 1..N /\ (k + 1) - 1 = k /\ k \in 0..N /\ k + 1 \in 0..N
    OBVIOUS
  <2>2. f[k + 1] = OneMoreBlock(p, f[k]) /\ f[k] \in SUBSET Places(p) /\ f[k + 1] \in SUBSET Places(p)
    BY <1>1, <2>1 DEF Rounds
  <2>3. \A b : <<b, r>> \in f[k] => <<b, r>> \in f[k + 1]
    BY <1>1, <2>1, <2>2, RoundsGrow
  <2>4. CASE Settled(p, r, f[k])
    <3>1. \A b : <<b, r>> \in f[k + 1] => <<b, r>> \in f[k]
      BY <2>2, <2>4 DEF Settled
    <3>2. \A b : <<b, r>> \in OneMoreBlock(p, f[k + 1]) => <<b, r>> \in OneMoreBlock(p, f[k])
      BY <2>2, <3>1, RoundMonotone
    <3> QED
      BY <2>2, <3>2 DEF Settled
  <2>5. CASE ~ Settled(p, r, f[k])
    <3>1. PICK b : <<b, r>> \in f[k + 1] /\ <<b, r>> \notin f[k]
      BY <2>2, <2>5 DEF Settled
    <3>2. PICK old, new : old = Where(p, r, f[k]) /\ new = Where(p, r, f[k + 1])
      OBVIOUS
    <3>3. b \in DOMAIN p.blocks
      BY <2>2, <3>1 DEF Places
    <3>4. old \union {b} \subseteq new /\ b \notin old
      BY <2>3, <3>1, <3>2, <3>3 DEF Where
    <3>5. IsFiniteSet(old) /\ IsFiniteSet(new) /\ Cardinality(old) \in Nat /\ Cardinality(new) \in Nat
      BY <1>4, <3>2
    <3>6. Cardinality(old \union {b}) = Cardinality(old) + 1
      BY <3>4, <3>5, FS_AddElement
    <3>7. Cardinality(old \union {b}) <= Cardinality(new)
      BY <3>4, <3>5, FS_Subset
    <3>8. Cardinality(old) >= k
      BY <2>1, <2>5, <3>2
    <3>9. Cardinality(new) >= k + 1
      BY <2>1, <3>5, <3>6, <3>7, <3>8
    <3> QED
      BY <3>2, <3>9
  <2> QED
    BY <2>4, <2>5
<1>7. T = Nat
  <2>1. T \in SUBSET Nat
    OBVIOUS
  <2> HIDE DEF T
  <2> QED
    BY <1>5, <1>6, <2>1, SetInduction
<1>8. P(N)
  <2>1. N \in {k \in Nat : k <= N => P(k)}
    BY <1>7
  <2> QED
    BY <2>1
<1>9. CASE Cardinality(Where(p, r, f[N])) >= N
  <2>1. Cardinality(Where(p, r, f[N])) = N
    BY <1>4, <1>9
  <2>2. Where(p, r, f[N]) = 1..N
    BY <1>4, <2>1
  <2>3. \A b : <<b, r>> \in OneMoreBlock(p, f[N]) => b \in 1..N
    BY <1>1, RoundIs
  <2> QED
    BY <1>1, <2>2, <2>3 DEF Settled, Where
<1> QED
  BY <1>1, <1>8, <1>9

\* What TrueLives computes is closed: no way is longer than it goes.
LEMMA LivesClosed ==
  ASSUME NEW p \in Programs
  PROVE  TrueLives(p) \in SUBSET Places(p) /\ OneMoreBlock(p, TrueLives(p)) \subseteq TrueLives(p)
<1>1. PICK f : Rounds(f, p)
  BY RoundsExist
<1>2. Len(p.blocks) \in 0..Len(p.blocks)
  BY HasShape DEF Shape
<1>3. TrueLives(p) = f[Len(p.blocks)] /\ TrueLives(p) \in SUBSET Places(p)
  BY <1>1, <1>2 DEF Rounds
<1>4. OneMoreBlock(p, TrueLives(p)) \in SUBSET Places(p)
  BY <1>3, RoundType
<1>5. ASSUME NEW x \in OneMoreBlock(p, TrueLives(p))  PROVE x \in TrueLives(p)
  <2>1. PICK b, r : x = <<b, r>>
    BY <1>4 DEF Places
  <2>2. Settled(p, r, f[Len(p.blocks)])
    BY <1>1, RoundsSettle
  <2> QED
    BY <1>3, <2>1, <2>2 DEF Settled
<1> QED
  BY <1>3, <1>5

LEMMA TrueLifeIs ==
  ASSUME NEW p \in Programs
  PROVE  /\ TrueLife(p) = [b \in DOMAIN p.blocks |-> TrueLife(p)[b]]
         /\ \A b \in DOMAIN p.blocks : \A r : r \in TrueLife(p)[b] <=> <<b, r>> \in TrueLives(p)
<1>1. PICK lives : lives = TrueLives(p) /\ lives \in SUBSET Places(p)
  BY LivesClosed
<1>2. TrueLife(p) = [b \in DOMAIN p.blocks |-> {x[2] : x \in {y \in lives : y[1] = b}}]
  BY <1>1 DEF TrueLife
<1>3. ASSUME NEW b \in DOMAIN p.blocks, NEW r
      PROVE  r \in {x[2] : x \in {y \in lives : y[1] = b}} <=> <<b, r>> \in lives
  <2>1. \A y \in lives : y = <<y[1], y[2]>>
    BY <1>1 DEF Places
  <2>2. <<b, r>>[1] = b /\ <<b, r>>[2] = r
    OBVIOUS
  <2> QED
    BY <2>1, <2>2
<1> QED
  BY <1>1, <1>2, <1>3

\* What lives in front of a block when its successors' life is exact.
LEMMA TrueLifeOfOut ==
  ASSUME NEW p \in Programs, NEW b \in DOMAIN p.blocks, NEW out,
         out \subseteq LifeOut(p, TrueLives(p), b)
  PROVE  LiveIns(p, b, out) \subseteq TrueLife(p)[b]
<1> SUFFICES ASSUME NEW r \in LiveIns(p, b, out)  PROVE r \in TrueLife(p)[b]
  OBVIOUS
<1>1. r \in LiveIns(p, b, LifeOut(p, TrueLives(p), b))
  BY LiveInsMonotone
<1>2. <<b, r>> \in OneMoreBlock(p, TrueLives(p))
  BY <1>1, RoundIs
<1> QED
  BY <1>2, LivesClosed, TrueLifeIs

\* What lives at the start of a block lives at the end of those before it.
LEMMA TrueLifeToOut ==
  ASSUME NEW p \in Programs, NEW b \in DOMAIN p.blocks, NEW c, b \in Successors(p, c)
  PROVE  TrueLife(p)[b] \subseteq LifeOut(p, TrueLives(p), c)
<1> SUFFICES ASSUME NEW r \in TrueLife(p)[b]  PROVE r \in LifeOut(p, TrueLives(p), c)
  OBVIOUS
<1>1. <<b, r>> \in TrueLives(p) /\ TrueLives(p) \in SUBSET Places(p)
  BY TrueLifeIs, LivesClosed
<1> QED
  BY <1>1, LifeOutIs

\* Nothing lives at the start of a function, nor where it is destroyed.
LEMMA NothingToInit ==
  ASSUME NEW p \in Programs
  PROVE  /\ TrueLife(p)[1] = {}
         /\ \A b \in DOMAIN p.blocks : \A j \in DOMAIN p.blocks[b].ins :
               InitSet(p.blocks[b].ins[j],
                       LiveAfter(p.blocks[b].ins, j, LifeOut(p, TrueLives(p), b))) = {}
<1>1. \A x \in TrueLives(p) : x[1] # 1
  BY ProgramsAssumption DEF WellFormed
<1>2. 1 \in DOMAIN p.blocks
  BY HasShape DEF Shape
<1>3. ASSUME NEW r \in TrueLife(p)[1]  PROVE FALSE
  <2>1. <<1, r>> \in TrueLives(p)
    BY <1>2, TrueLifeIs
  <2>2. <<1, r>>[1] = 1
    OBVIOUS
  <2> QED
    BY <1>1, <2>1, <2>2
<1>4. \A b \in DOMAIN p.blocks : \A j \in DOMAIN p.blocks[b].ins :
               InitSet(p.blocks[b].ins[j],
                       LiveAfter(p.blocks[b].ins, j, LifeOut(p, TrueLives(p), b))) = {}
  BY ProgramsAssumption DEF WellFormed
<1> QED
  BY <1>3, <1>4
-----------------------------------------------------------------------------
(* The loop over the references of a label *)

Lives(p) == [DOMAIN p.blocks -> SUBSET Used(p)]
LoopStates(p) ==
  [blk : DOMAIN p.blocks, out : Lives(p), restart : BOOLEAN, stale : BOOLEAN]

Widened(c, ref, in) == [c.out EXCEPT ![ref] = @ \union in[c.blk]]
Late(c, ref, in) == c.stale \/ (c.restart /\ ~ in[c.blk] \subseteq c.out[ref])

LoopState(c, b, o, r, t) == c.blk = b /\ c.out = o /\ c.restart = r /\ c.stale = t

LEMMA UpdateLoop ==
  ASSUME NEW p, NEW c \in LoopStates(p), NEW w \in Lives(p), NEW l \in BOOLEAN,
         NEW b \in DOMAIN p.blocks, NEW r \in BOOLEAN
  PROVE  /\ [c EXCEPT !.out = w, !.stale = l] \in LoopStates(p)
         /\ LoopState([c EXCEPT !.out = w, !.stale = l], c.blk, w, c.restart, l)
         /\ [c EXCEPT !.blk = b, !.restart = r] \in LoopStates(p)
         /\ LoopState([c EXCEPT !.blk = b, !.restart = r], b, c.out, r, c.stale)
<1>1. [c EXCEPT !.out = w, !.stale = l] \in LoopStates(p)
  BY DEF LoopStates
<1>2. LoopState([c EXCEPT !.out = w, !.stale = l], c.blk, w, c.restart, l)
  BY Zenon DEF LoopStates, LoopState
<1>3. [c EXCEPT !.blk = b, !.restart = r] \in LoopStates(p)
  BY DEF LoopStates
<1>4. LoopState([c EXCEPT !.blk = b, !.restart = r], b, c.out, r, c.stale)
  BY Zenon DEF LoopStates, LoopState
<1> QED
  BY <1>1, <1>2, <1>3, <1>4

\* The three ways through the body of the loop.
Propagated(p, c, ref, in) ==
  /\ Propagate(c, ref, in) \in LoopStates(p)
  /\ ref < c.blk =>
       LoopState(Propagate(c, ref, in), c.blk, Widened(c, ref, in), c.restart, Late(c, ref, in))
  /\ ~ (ref < c.blk) /\ in[c.blk] \subseteq c.out[ref] => Propagate(c, ref, in) = c
  /\ ~ (ref < c.blk) /\ ~ (in[c.blk] \subseteq c.out[ref]) =>
       LoopState(Propagate(c, ref, in), ref, Widened(c, ref, in), TRUE, Late(c, ref, in))

LEMMA PropagateIs ==
  ASSUME NEW p, NEW c \in LoopStates(p), NEW ref \in DOMAIN p.blocks, NEW in \in Lives(p)
  PROVE  Propagated(p, c, ref, in)
<1> DEFINE w == Widened(c, ref, in)
           l == Late(c, ref, in)
           d == [c EXCEPT !.out[ref] = @ \union in[c.blk],
                          !.stale = @ \/ (c.restart /\ ~ in[c.blk] \subseteq c.out[ref])]
           e == [d EXCEPT !.blk = ref, !.restart = TRUE]
<1>1. c.blk \in DOMAIN p.blocks /\ c.out \in Lives(p) /\ c.restart \in BOOLEAN /\ c.stale \in BOOLEAN
  BY DEF LoopStates
<1>2. w \in Lives(p)
  <2>1. in[c.blk] \in SUBSET Used(p) /\ c.out[ref] \in SUBSET Used(p)
    BY <1>1 DEF Lives
  <2>2. (c.out[ref] \union in[c.blk]) \in SUBSET Used(p)
    BY <2>1
  <2> QED
    BY <1>1, <2>2, Zenon DEF Widened, Lives
<1>3. l \in BOOLEAN
  BY <1>1, Zenon DEF Late
<1>4. d = [c EXCEPT !.out = w, !.stale = l]
  BY DEF Widened, Late
<1>6. Propagate(c, ref, in) =
        IF ref < c.blk THEN d ELSE IF in[c.blk] \subseteq c.out[ref] THEN c ELSE e
  BY DEF Propagate
<1> HIDE DEF w, l, d
<1>7. d \in LoopStates(p) /\ LoopState(d, c.blk, w, c.restart, l)
  BY <1>2, <1>3, <1>4, UpdateLoop
<1>8. e \in LoopStates(p) /\ LoopState(e, ref, d.out, TRUE, d.stale)
  BY <1>2, <1>3, <1>7, UpdateLoop
<1> HIDE DEF e
<1>9. LoopState(e, ref, w, TRUE, l)
  BY <1>7, <1>8, Zenon DEF LoopState
<1>10. Propagate(c, ref, in) \in LoopStates(p)
  BY <1>6, <1>7, <1>8, Zenon
<1> QED
  BY <1>6, <1>7, <1>9, <1>10, Zenon DEF w, l, Propagated

IsOver(f, b, in) ==
  f = [n \in 0..Len(prog.blocks) |->
         IF n = 0 THEN [blk |-> b, out |-> out_set, restart |-> FALSE, stale |-> FALSE]
         ELSE IF Len(prog.blocks) + 1 - n \in LabelRefs(prog, b)
              THEN Propagate(f[n - 1], Len(prog.blocks) + 1 - n, in)
         ELSE f[n - 1]]

LEMMA OverExists ==
  ASSUME prog \in Programs, NEW b \in Blocks, out_set \in Lives(prog), NEW in \in Lives(prog)
  PROVE  \E f : IsOver(f, b, in)
<1> DEFINE N == Len(prog.blocks)
           D == LoopStates(prog)
           first == [blk |-> b, out |-> out_set, restart |-> FALSE, stale |-> FALSE]
           Refs == LabelRefs(prog, b)
           Body(k, c) == IF N + 1 - k \in Refs THEN Propagate(c, N + 1 - k, in) ELSE c
           step == [k \in 1..N |-> [c \in D |-> Body(k, c)]]
<1>1. N \in Nat /\ N = Len(prog.blocks) /\ Blocks = 1..N
  BY HasShape DEF Shape, Blocks
<1>2. first \in D
  BY Zenon DEF LoopStates, Blocks
<1>3. Refs \subseteq Blocks
  BY DEF LabelRefs, Blocks
<1>4. ASSUME NEW k \in 1..N, NEW c \in D  PROVE Body(k, c) \in D
  <2>1. N + 1 - k \in Refs => N + 1 - k \in DOMAIN prog.blocks
    BY <1>3 DEF Blocks
  <2> HIDE DEF Refs, N
  <2> QED
    BY <2>1, PropagateIs DEF Propagated
<1> HIDE DEF N, D, first, Refs, Body
<1>5. step \in [1..N -> [D -> D]]
  BY <1>4
<1>6. \A k \in 1..N : \A c \in D : step[k][c] = Body(k, c)
  OBVIOUS
<1> HIDE DEF step
<1>7. Iterates(D, N, first, step)
  BY <1>1, <1>2, <1>5, StepsExist
<1>8. PICK f \in [0..N -> D] : f[0] = first /\ \A k \in 1..N : f[k] = step[k][f[k - 1]]
  BY <1>7 DEF Iterates
<1>9. ASSUME NEW n \in 0..N
      PROVE  f[n] = IF n = 0 THEN first ELSE Body(n, f[n - 1])
  <2>1. CASE n = 0
    BY <1>8, <2>1
  <2>2. CASE n # 0
    <3>1. n \in 1..N /\ n - 1 \in 0..N
      BY <1>1, <2>2
    <3>2. f[n - 1] \in D
      BY <3>1
    <3> QED
      BY <1>6, <1>8, <2>2, <3>1, <3>2
  <2> QED
    BY <2>1, <2>2
<1>10. f = [n \in 0..N |-> IF n = 0 THEN first ELSE Body(n, f[n - 1])]
  BY <1>9
<1>11. IsOver(f, b, in)
  BY <1>10, Zenon DEF IsOver, N, first, Refs, Body
<1> QED
  BY <1>11
\* The loop has looked at the references behind block m.  Going back to a
\* block it passes no other, and until then leaves later blocks alone.
LoopGrows(c) == \A x \in Blocks : out_set[x] \subseteq c.out[x]
LoopGoesOn(c, b, in, m) ==
  /\ c.blk = b /\ c.stale = FALSE
  /\ \A x \in Blocks : x >= b => c.out[x] = out_set[x]
  /\ \A ref \in LabelRefs(prog, b) : ref > m => in[b] \subseteq c.out[ref]
LoopGoesBack(c, b, m) ==
  /\ c.blk >= b /\ c.blk > m
  /\ \A x \in Blocks : x > c.blk => c.out[x] = out_set[x]
LoopAdds(c, b, in) ==
  \A x \in Blocks : \A r \in c.out[x] :
     r \in out_set[x] \/ (x \in LabelRefs(prog, b) /\ r \in in[b])
LoopInv(c, b, in, m) ==
  /\ c \in LoopStates(prog)
  /\ LoopGrows(c)
  /\ c.restart = FALSE => LoopGoesOn(c, b, in, m)
  /\ c.restart = TRUE => LoopGoesBack(c, b, m)
  /\ c.stale = FALSE => LoopAdds(c, b, in)

LEMMA WidenedIs ==
  ASSUME NEW p, NEW c \in LoopStates(p), NEW ref \in DOMAIN p.blocks, NEW in
  PROVE  /\ Widened(c, ref, in)[ref] = c.out[ref] \union in[c.blk]
         /\ \A x \in DOMAIN p.blocks : x # ref => Widened(c, ref, in)[x] = c.out[x]
<1>1. c.out \in Lives(p)
  BY DEF LoopStates
<1> QED
  BY <1>1 DEF Widened, Lives

LEMMA LoopBody ==
  ASSUME prog \in Programs, NEW b \in Blocks, out_set \in Lives(prog), NEW in \in Lives(prog),
         NEW m \in Blocks, NEW c, LoopInv(c, b, in, m), m \in LabelRefs(prog, b)
  PROVE  LoopInv(Propagate(c, m, in), b, in, m - 1)
<1>0. PICK N \in Nat : Blocks = 1..N /\ DOMAIN prog.blocks = 1..N
  BY HasShape DEF Shape, Blocks
<1>1. /\ c \in LoopStates(prog) /\ LoopGrows(c)
      /\ c.restart \in BOOLEAN /\ c.stale \in BOOLEAN /\ c.blk \in 1..N
  BY <1>0, Zenon DEF LoopInv, LoopStates
<1>2. Propagated(prog, c, m, in)
  BY <1>1, PropagateIs DEF Blocks
<1>3. PICK d : d = Propagate(c, m, in)
  OBVIOUS
<1>4. d \in LoopStates(prog)
  BY <1>2, <1>3 DEF Propagated
<1>5. PICK w : w = Widened(c, m, in)
  OBVIOUS
<1>6. w[m] = c.out[m] \union in[c.blk] /\ \A x \in 1..N : x # m => w[x] = c.out[x]
  <2>1. m \in DOMAIN prog.blocks
    BY <1>0
  <2>2. /\ Widened(c, m, in)[m] = c.out[m] \union in[c.blk]
        /\ \A x \in DOMAIN prog.blocks : x # m => Widened(c, m, in)[x] = c.out[x]
    BY <1>1, <2>1, WidenedIs
  <2> QED
    BY <1>0, <1>5, <2>2
<1>7. d.out = w => LoopGrows(d)
  BY <1>0, <1>1, <1>6 DEF LoopGrows
<1>8. CASE c.restart = TRUE
  <2>1. LoopGoesBack(c, b, m)
    BY <1>8 DEF LoopInv
  <2>2. m < c.blk
    BY <1>0, <1>1, <2>1 DEF LoopGoesBack
  <2>3. LoopState(d, c.blk, w, c.restart, Late(c, m, in))
    BY <1>2, <1>3, <1>5, <2>2 DEF Propagated
  <2>4. d.blk = c.blk /\ d.out = w /\ d.restart = TRUE /\ d.stale = Late(c, m, in)
    BY <1>8, <2>3, Zenon DEF LoopState
  <2>5. LoopGoesBack(d, b, m - 1)
    <3>1. d.blk >= b /\ d.blk > m - 1
      BY <1>0, <1>1, <2>1, <2>4 DEF LoopGoesBack
    <3>2. ASSUME NEW x \in Blocks, x > d.blk  PROVE d.out[x] = out_set[x]
      <4>1. x > c.blk /\ x # m
        BY <1>0, <1>1, <2>2, <2>4, <3>2
      <4> QED
        BY <1>0, <1>6, <2>1, <2>4, <4>1 DEF LoopGoesBack
    <3> QED
      BY <3>1, <3>2 DEF LoopGoesBack
  <2>6. ASSUME d.stale = FALSE  PROVE LoopAdds(d, b, in)
    <3>1. c.stale = FALSE /\ in[c.blk] \subseteq c.out[m]
      BY <1>1, <1>8, <2>4, <2>6, Zenon DEF Late
    <3>2. LoopAdds(c, b, in)
      BY <3>1 DEF LoopInv
    <3>3. \A x \in 1..N : w[x] = c.out[x]
      BY <1>0, <1>6, <3>1
    <3> QED
      BY <1>0, <2>4, <3>2, <3>3 DEF LoopAdds
  <2>7. ~ (d.restart = FALSE)
    BY <2>4
  <2> QED
    BY <1>3, <1>4, <1>7, <2>4, <2>5, <2>6, <2>7 DEF LoopInv
<1>9. CASE c.restart = FALSE
  <2>1. LoopGoesOn(c, b, in, m) /\ c.stale = FALSE /\ c.blk = b
    BY <1>9 DEF LoopInv, LoopGoesOn
  <2>2. LoopAdds(c, b, in)
    BY <2>1 DEF LoopInv
  <2>3. Late(c, m, in) = FALSE
    BY <1>9, <2>1, Zenon DEF Late
  <2>4. d.out = w => LoopAdds(d, b, in)
    <3> SUFFICES ASSUME d.out = w, NEW x \in Blocks, NEW r \in w[x]
                 PROVE  r \in out_set[x] \/ (x \in LabelRefs(prog, b) /\ r \in in[b])
      BY DEF LoopAdds
    <3>1. CASE x = m
      BY <1>6, <2>1, <2>2, <3>1 DEF LoopAdds
    <3>2. CASE x # m
      BY <1>0, <1>6, <2>2, <3>2 DEF LoopAdds
    <3> QED
      BY <3>1, <3>2
  <2>5. CASE m < b
    <3>1. LoopState(d, c.blk, w, c.restart, Late(c, m, in))
      BY <1>2, <1>3, <1>5, <2>1, <2>5 DEF Propagated
    <3>2. d.blk = b /\ d.out = w /\ d.restart = FALSE /\ d.stale = FALSE
      BY <1>9, <2>1, <2>3, <3>1, Zenon DEF LoopState
    <3>3. ASSUME NEW x \in Blocks, x >= b  PROVE d.out[x] = out_set[x]
      <4>1. x # m
        BY <1>0, <2>5, <3>3
      <4> QED
        BY <1>0, <1>6, <2>1, <3>2, <3>3, <4>1 DEF LoopGoesOn
    <3>4. ASSUME NEW ref \in LabelRefs(prog, b), ref > m - 1  PROVE in[b] \subseteq d.out[ref]
      <4>1. ref \in 1..N
        BY <1>0 DEF LabelRefs
      <4>2. CASE ref = m
        BY <1>6, <2>1, <3>2, <4>2
      <4>3. CASE ref # m
        <5>1. ref > m
          BY <1>0, <3>4, <4>1, <4>3
        <5> QED
          BY <1>6, <2>1, <3>2, <4>1, <4>3, <5>1 DEF LoopGoesOn
      <4> QED
        BY <4>2, <4>3
    <3>5. LoopGoesOn(d, b, in, m - 1)
      BY <3>2, <3>3, <3>4 DEF LoopGoesOn
    <3>6. ~ (d.restart = TRUE)
      BY <3>2
    <3> QED
      BY <1>3, <1>4, <1>7, <2>4, <3>2, <3>5, <3>6 DEF LoopInv
  <2>6. CASE ~ (m < b) /\ in[b] \subseteq c.out[m]
    <3>1. d = c
      BY <1>2, <1>3, <2>1, <2>6 DEF Propagated
    <3>2. ASSUME NEW ref \in LabelRefs(prog, b), ref > m - 1  PROVE in[b] \subseteq c.out[ref]
      <4>1. ref \in 1..N
        BY <1>0 DEF LabelRefs
      <4>2. ref = m \/ ref > m
        BY <1>0, <3>2, <4>1
      <4> QED
        BY <2>1, <2>6, <4>2 DEF LoopGoesOn
    <3>3. LoopGoesOn(c, b, in, m - 1)
      BY <2>1, <3>2 DEF LoopGoesOn
    <3>4. ~ (c.restart = TRUE)
      BY <1>9
    <3> QED
      BY <1>1, <1>3, <2>2, <3>1, <3>3, <3>4 DEF LoopInv
  <2>7. CASE ~ (m < b) /\ ~ (in[b] \subseteq c.out[m])
    <3>1. LoopState(d, m, w, TRUE, Late(c, m, in))
      BY <1>2, <1>3, <1>5, <2>1, <2>7 DEF Propagated
    <3>2. d.blk = m /\ d.out = w /\ d.restart = TRUE /\ d.stale = FALSE
      BY <2>3, <3>1, Zenon DEF LoopState
    <3>3. d.blk >= b /\ d.blk > m - 1
      BY <1>0, <2>7, <3>2
    <3>4. ASSUME NEW x \in Blocks, x > d.blk  PROVE d.out[x] = out_set[x]
      <4>1. x # m /\ x >= b
        BY <1>0, <2>7, <3>2, <3>4
      <4> QED
        BY <1>0, <1>6, <2>1, <3>2, <4>1 DEF LoopGoesOn
    <3>5. LoopGoesBack(d, b, m - 1)
      BY <3>3, <3>4 DEF LoopGoesBack
    <3>6. ~ (d.restart = FALSE)
      BY <3>2
    <3> QED
      BY <1>3, <1>4, <1>7, <2>4, <3>2, <3>5, <3>6 DEF LoopInv
  <2> QED
    BY <2>5, <2>6, <2>7
<1> QED
  BY <1>1, <1>8, <1>9

LEMMA LoopSkips ==
  ASSUME prog \in Programs, NEW b \in Blocks, NEW in, NEW m \in Blocks, NEW c,
         LoopInv(c, b, in, m), m \notin LabelRefs(prog, b)
  PROVE  LoopInv(c, b, in, m - 1)
<1>0. PICK N \in Nat : Blocks = 1..N /\ DOMAIN prog.blocks = 1..N
  BY HasShape DEF Shape, Blocks
<1>1. c \in LoopStates(prog) /\ c.blk \in 1..N
  BY <1>0 DEF LoopInv, LoopStates
<1>2. LoopGoesOn(c, b, in, m) => LoopGoesOn(c, b, in, m - 1)
  <2> SUFFICES ASSUME LoopGoesOn(c, b, in, m), NEW ref \in LabelRefs(prog, b), ref > m - 1
               PROVE  in[b] \subseteq c.out[ref]
    BY DEF LoopGoesOn
  <2>1. ref \in 1..N /\ ref # m
    BY <1>0 DEF LabelRefs
  <2>2. ref > m
    BY <1>0, <2>1
  <2> QED
    BY <2>2 DEF LoopGoesOn
<1>3. LoopGoesBack(c, b, m) => LoopGoesBack(c, b, m - 1)
  BY <1>0, <1>1 DEF LoopGoesBack
<1> QED
  BY <1>2, <1>3 DEF LoopInv

\* What the loop has done at its end.
LEMMA OverRefsIs ==
  ASSUME prog \in Programs, NEW b \in Blocks, out_set \in Lives(prog), NEW in \in Lives(prog)
  PROVE  LoopInv(OverRefs(b, in), b, in, 0)
<1> DEFINE f == CHOOSE g : IsOver(g, b, in)
<1>1. IsOver(f, b, in)
  BY OverExists
<1>2. OverRefs(b, in) = f[Len(prog.blocks)]
  BY DEF OverRefs, IsOver
<1> HIDE DEF f
<1>3. PICK N \in Nat : N = Len(prog.blocks) /\ Blocks = 1..N
  BY HasShape DEF Shape, Blocks
<1> DEFINE first == [blk |-> b, out |-> out_set, restart |-> FALSE, stale |-> FALSE]
<1>4. \A n \in 0..N : f[n] = IF n = 0 THEN first
                             ELSE IF N + 1 - n \in LabelRefs(prog, b)
                                  THEN Propagate(f[n - 1], N + 1 - n, in) ELSE f[n - 1]
  BY <1>1, <1>3 DEF IsOver
<1>5. LoopInv(first, b, in, N)
  <2>1. first \in LoopStates(prog)
    BY Zenon DEF LoopStates, Blocks
  <2>2. first.blk = b /\ first.out = out_set /\ first.restart = FALSE /\ first.stale = FALSE
    BY Zenon
  <2> HIDE DEF first
  <2>3. LoopGrows(first) /\ LoopAdds(first, b, in)
    BY <2>2 DEF LoopGrows, LoopAdds
  <2>4. \A ref \in LabelRefs(prog, b) : ~ (ref > N)
    BY <1>3 DEF LabelRefs, Blocks
  <2>5. LoopGoesOn(first, b, in, N)
    BY <2>2, <2>4 DEF LoopGoesOn
  <2>6. ~ (first.restart = TRUE)
    BY <2>2
  <2> QED
    BY <2>1, <2>3, <2>5, <2>6 DEF LoopInv
<1> HIDE DEF first
<1> DEFINE T == {n \in Nat : n <= N => LoopInv(f[n], b, in, N - n)}
<1>6. 0 \in T
  <2>1. f[0] = first /\ N - 0 = N
    BY <1>4
  <2> QED
    BY <1>5, <2>1
<1>7. ASSUME NEW n \in T  PROVE n + 1 \in T
  <2> SUFFICES ASSUME n + 1 <= N  PROVE LoopInv(f[n + 1], b, in, N - (n + 1))
    OBVIOUS
  <2>0. n \in Nat /\ n <= N /\ LoopInv(f[n], b, in, N - n)
    OBVIOUS
  <2>1. n + 1 \in 0..N /\ n + 1 # 0 /\ (n + 1) - 1 = n /\ N + 1 - (n + 1) = N - n
    BY <2>0
  <2>2. PICK m \in 1..N : m = N - n /\ m - 1 = N - (n + 1)
    BY <2>0
  <2>3. f[n + 1] = IF m \in LabelRefs(prog, b) THEN Propagate(f[n], m, in) ELSE f[n]
    BY <1>4, <2>1, <2>2
  <2>4. PICK c : c = f[n]
    OBVIOUS
  <2>5. LoopInv(c, b, in, m) /\ m \in Blocks
    BY <1>3, <2>0, <2>2, <2>4
  <2>6. CASE m \in LabelRefs(prog, b)
    <3>1. LoopInv(Propagate(c, m, in), b, in, m - 1)
      BY <2>5, <2>6, LoopBody
    <3> QED
      BY <2>2, <2>3, <2>4, <2>6, <3>1
  <2>7. CASE m \notin LabelRefs(prog, b)
    <3>1. LoopInv(c, b, in, m - 1)
      BY <2>5, <2>7, LoopSkips
    <3> QED
      BY <2>2, <2>3, <2>4, <2>7, <3>1
  <2> QED
    BY <2>6, <2>7
<1>8. T = Nat
  <2>1. T \in SUBSET Nat
    OBVIOUS
  <2> HIDE DEF T
  <2> QED
    BY <1>6, <1>7, <2>1, SetInduction
<1>9. LoopInv(f[N], b, in, N - N)
  <2>1. N \in {n \in Nat : n <= N => LoopInv(f[n], b, in, N - n)}
    BY <1>8
  <2> QED
    BY <2>1
<1>10. N - N = 0
  OBVIOUS
<1> QED
  BY <1>2, <1>3, <1>9, <1>10
-----------------------------------------------------------------------------
(* The analysis *)

LEMMA NotedSame ==
  ASSUME NEW s, NEW t, SameInsns(s, t), NEW live
  PROVE  SameInsns([j \in DOMAIN s |-> Noted(s[j], live[j])], t)
<1> DEFINE u == [j \in DOMAIN s |-> Noted(s[j], live[j])]
<1>1. PICK N \in Nat : N = Len(s) /\ N = Len(t) /\ DOMAIN s = 1..N
  BY DEF SameInsns, IsInsns
<1>2. ASSUME NEW j \in 1..N
      PROVE  /\ {"in", "out", "clob", "dead", "unused"} \subseteq DOMAIN u[j]
             /\ u[j].in = t[j].in /\ u[j].out = t[j].out /\ u[j].clob = t[j].clob
  <2>1. u[j] = Noted(s[j], live[j])
    BY <1>1
  <2>2. {"in", "out", "clob", "dead", "unused"} \subseteq DOMAIN s[j]
    BY <1>1 DEF SameInsns, IsInsns
  <2>3. s[j].in = t[j].in /\ s[j].out = t[j].out /\ s[j].clob = t[j].clob
    BY <1>1 DEF SameInsns
  <2>4. PICK x : x = s[j]
    OBVIOUS
  <2>5. DOMAIN Noted(x, live[j]) = DOMAIN x
    BY DEF Noted
  <2>6. Noted(x, live[j]).in = x.in /\ Noted(x, live[j]).out = x.out /\ Noted(x, live[j]).clob = x.clob
    BY <2>2, <2>4 DEF Noted
  <2> QED
    BY <2>1, <2>2, <2>3, <2>4, <2>5, <2>6
<1>3. DOMAIN u = 1..N
  BY <1>1
<1> DEFINE D == {u[j] : j \in 1..N}
<1>4. u \in Seq(D)
  <2>1. u = [j \in 1..N |-> u[j]] /\ \A j \in 1..N : u[j] \in D
    BY <1>1
  <2> HIDE DEF u, D
  <2> QED
    BY <2>1
<1> HIDE DEF u, D
<1>5. Len(u) = N
  BY <1>3, <1>4
<1>6. IsInsns(u)
  BY <1>2, <1>3, <1>5 DEF IsInsns
<1>7. SameInsns(u, t)
  BY <1>1, <1>2, <1>3, <1>5, <1>6 DEF SameInsns
<1> QED
  BY <1>7 DEF u

LEMMA InitLife == Init => LifeInv
<1> SUFFICES ASSUME Init  PROVE LifeInv
  OBVIOUS
<1>1. prog \in Programs /\ phase = "life" /\ odd = {} /\ blk = Len(prog.blocks)
  BY DEF Init
<1>2. PICK N \in Nat : N = Len(prog.blocks) /\ Blocks = 1..N /\ DOMAIN prog.blocks = 1..N
  BY <1>1, HasShape DEF Shape, Blocks
<1>3. /\ insns = [b \in Blocks |-> prog.blocks[b].ins]
      /\ stack_in = [b \in Blocks |-> {}]
      /\ out_set = [b \in Blocks |-> ReturnRegs(prog, b)]
  BY DEF Init
<1>4. \A b \in Blocks : ReturnRegs(prog, b) \in SUBSET Used(prog)
  BY UsedHere DEF Blocks
<1>5. \A b \in Blocks : SameInsns(insns[b], prog.blocks[b].ins)
  <2> SUFFICES ASSUME NEW b \in Blocks  PROVE SameInsns(insns[b], prog.blocks[b].ins)
    OBVIOUS
  <2>1. IsInsns(prog.blocks[b].ins)
    BY <1>1, HasShape DEF Shape, Blocks
  <2>2. insns[b] = prog.blocks[b].ins
    BY <1>3
  <2> QED
    BY <2>1, <2>2 DEF SameInsns
<1>6. LifeType
  <2>1. DOMAIN insns = Blocks
    BY <1>3
  <2>2. stack_in \in [Blocks -> SUBSET Used(prog)] /\ out_set \in [Blocks -> SUBSET Used(prog)]
    BY <1>3, <1>4
  <2>3. blk \in 0..Len(prog.blocks)
    BY <1>1, <1>2
  <2> QED
    BY <1>1, <1>5, <2>1, <2>2, <2>3 DEF LifeType
<1>7. Computed /\ Reported
  <2>1. \A b \in Blocks : ~ (b > blk)
    BY <1>1, <1>2
  <2> QED
    BY <2>1 DEF Computed, Reported
<1>8. Returned
  BY <1>3 DEF Returned
<1>9. NoMore
  <2> SUFFICES ASSUME NEW b \in Blocks
               PROVE  /\ stack_in[b] \subseteq TrueLife(prog)[b]
                      /\ out_set[b] \subseteq LifeOut(prog, TrueLives(prog), b)
    BY DEF NoMore
  <2>1. stack_in[b] = {} /\ out_set[b] = ReturnRegs(prog, b)
    BY <1>3
  <2> QED
    BY <2>1 DEF LifeOut
<1> QED
  BY <1>1, <1>6, <1>7, <1>8, <1>9 DEF LifeInv

\* One turn of the analysis in terms of the loop over the references.
Visited(in, c) ==
  /\ in \in Lives(prog) /\ LoopInv(c, blk, in, 0)
  /\ in[blk] = LiveIns(prog, blk, out_set[blk])
  /\ \A x \in Blocks : x # blk => in[x] = stack_in[x]
  /\ stack_in' = in
  /\ out_set' = IF ~ c.restart /\ DropsIn(prog, blk)
                THEN [c.out EXCEPT ![blk - 1] = @ \union in[blk]] ELSE c.out
  /\ blk' = IF c.restart THEN c.blk ELSE blk - 1
  /\ odd' = odd \union IF c.stale THEN {"stale"} ELSE {}

LEMMA VisitIs ==
  ASSUME LifeType, VisitBlock
  PROVE  /\ blk \in Blocks /\ \E in, c : Visited(in, c)
         /\ prog' = prog /\ DOMAIN insns' = Blocks
         /\ \A b \in Blocks : SameInsns(insns'[b], prog.blocks[b].ins)
<1>0. PICK N \in Nat : N = Len(prog.blocks) /\ Blocks = 1..N /\ DOMAIN prog.blocks = 1..N
  BY HasShape DEF Shape, Blocks, LifeType
<1>1. blk \in Blocks
  BY <1>0 DEF VisitBlock, LifeType
<1> DEFINE live == [j \in DOMAIN insns[blk] |-> LiveAfter(insns[blk], j, out_set[blk])]
           in == [stack_in EXCEPT ![blk] = LiveAfter(insns[blk], 0, out_set[blk])]
           c == OverRefs(blk, in)
<1>2. /\ insns' = [insns EXCEPT ![blk] = [j \in DOMAIN @ |-> Noted(@[j], live[j])]]
      /\ stack_in' = in
      /\ out_set' = IF ~ c.restart /\ DropsIn(prog, blk)
                    THEN [c.out EXCEPT ![blk - 1] = @ \union in[blk]] ELSE c.out
      /\ blk' = IF c.restart THEN c.blk ELSE blk - 1
      /\ odd' = odd \union IF c.stale THEN {"stale"} ELSE {}
      /\ prog' = prog
  BY Zenon DEF VisitBlock
<1>3. SameInsns(insns[blk], prog.blocks[blk].ins)
  BY <1>1 DEF LifeType
<1>4. 0 \in 0..Len(insns[blk])
  BY <1>3 DEF SameInsns, IsInsns
<1>5. LiveAfter(insns[blk], 0, out_set[blk]) = LiveIns(prog, blk, out_set[blk])
  BY <1>3, <1>4, LiveSame DEF LiveIns
<1>6. out_set \in Lives(prog) /\ stack_in \in Lives(prog)
  BY DEF LifeType, Lives, Blocks
<1>7. LiveIns(prog, blk, out_set[blk]) \in SUBSET Used(prog)
  <2>1. out_set[blk] \in SUBSET Used(prog) /\ prog \in Programs /\ blk \in DOMAIN prog.blocks
    BY <1>1 DEF LifeType, Blocks
  <2> QED
    BY <2>1, LiveInsWithin
<1>8. in \in Lives(prog)
  BY <1>1, <1>5, <1>6, <1>7 DEF Lives, Blocks
<1>9. in[blk] = LiveIns(prog, blk, out_set[blk]) /\ \A x \in Blocks : x # blk => in[x] = stack_in[x]
  BY <1>1, <1>5, <1>6 DEF Lives, Blocks
<1>10. \A b \in Blocks : SameInsns(insns'[b], prog.blocks[b].ins)
  <2> SUFFICES ASSUME NEW b \in Blocks  PROVE SameInsns(insns'[b], prog.blocks[b].ins)
    OBVIOUS
  <2> HIDE DEF live
  <2>1. CASE b = blk
    <3>1. insns'[blk] = [j \in DOMAIN insns[blk] |-> Noted(insns[blk][j], live[j])]
      BY <1>1, <1>2 DEF LifeType
    <3> QED
      BY <1>3, <2>1, <3>1, NotedSame
  <2>2. CASE b # blk
    <3>1. insns'[b] = insns[b]
      BY <1>2, <2>2 DEF LifeType
    <3> QED
      BY <3>1 DEF LifeType
  <2> QED
    BY <2>1, <2>2
<1>11. DOMAIN insns' = Blocks
  BY <1>2 DEF LifeType
<1> HIDE DEF in, live
<1>12. LoopInv(c, blk, in, 0)
  BY <1>1, <1>6, <1>8, OverRefsIs DEF LifeType
<1> HIDE DEF c
<1>13. Visited(in, c)
  BY <1>2, <1>8, <1>9, <1>12, Zenon DEF Visited
<1> QED
  BY <1>1, <1>2, <1>10, <1>11, <1>13
\* The blocks behind the new current one are done with.
LEMMA VisitDone ==
  ASSUME LifeType, Computed, Reported, Returned, blk \in Blocks, NEW in, NEW c, Visited(in, c)
  PROVE  /\ blk' \in 0..Len(prog.blocks)
         /\ stack_in' \in Lives(prog) /\ out_set' \in Lives(prog)
         /\ \A x \in Blocks : x > blk' => stack_in'[x] = LiveIns(prog, x, out_set'[x])
         /\ \A x \in Blocks : x > blk' =>
               /\ \A ref \in LabelRefs(prog, x) : stack_in'[x] \subseteq out_set'[ref]
               /\ DropsIn(prog, x) => stack_in'[x] \subseteq out_set'[x - 1]
         /\ \A x \in Blocks : ReturnRegs(prog, x) \subseteq out_set'[x]
<1>0. PICK N \in Nat : N = Len(prog.blocks) /\ Blocks = 1..N /\ DOMAIN prog.blocks = 1..N
  BY HasShape DEF Shape, Blocks, LifeType
<1>1. /\ in \in Lives(prog) /\ LoopInv(c, blk, in, 0) /\ stack_in' = in
      /\ in[blk] = LiveIns(prog, blk, out_set[blk])
      /\ \A x \in Blocks : x # blk => in[x] = stack_in[x]
  BY DEF Visited
<1>2. c \in LoopStates(prog) /\ c.restart \in BOOLEAN /\ c.blk \in 1..N /\ c.out \in Lives(prog)
  BY <1>0, <1>1, Zenon DEF LoopInv, LoopStates
<1>3. \A x \in Blocks : out_set[x] \subseteq c.out[x]
  BY <1>1 DEF LoopInv, LoopGrows
<1>4. ASSUME NEW x \in Blocks
      PROVE  (\A ref \in LabelRefs(prog, x) : ref \in Blocks) /\ (DropsIn(prog, x) => x - 1 \in Blocks)
  BY <1>0 DEF LabelRefs, DropsIn, Blocks
<1>5. CASE c.restart = TRUE
  <2>1. out_set' = c.out /\ blk' = c.blk
    BY <1>5, Zenon DEF Visited
  <2>2. c.blk >= blk /\ \A x \in Blocks : x > c.blk => c.out[x] = out_set[x]
    BY <1>1, <1>5 DEF LoopInv, LoopGoesBack
  <2>3. ASSUME NEW x \in Blocks, x > c.blk
        PROVE  x > blk /\ in[x] = stack_in[x] /\ c.out[x] = out_set[x]
    <3>1. x > blk /\ x # blk
      BY <1>0, <1>2, <2>2, <2>3
    <3> QED
      BY <1>1, <2>2, <2>3, <3>1
  <2>4. \A x \in Blocks : x > c.blk => in[x] = LiveIns(prog, x, c.out[x])
    BY <2>3 DEF Computed
  <2>5. ASSUME NEW x \in Blocks, x > c.blk
        PROVE  /\ \A ref \in LabelRefs(prog, x) : in[x] \subseteq c.out[ref]
               /\ DropsIn(prog, x) => in[x] \subseteq c.out[x - 1]
    <3>1. /\ \A ref \in LabelRefs(prog, x) : in[x] \subseteq out_set[ref]
          /\ DropsIn(prog, x) => in[x] \subseteq out_set[x - 1]
      BY <2>3, <2>5 DEF Reported
    <3> QED
      BY <1>3, <1>4, <3>1
  <2>6. \A x \in Blocks : ReturnRegs(prog, x) \subseteq c.out[x]
    BY <1>3 DEF Returned
  <2>7. c.blk \in 0..N
    BY <1>2
  <2> QED
    BY <1>0, <1>1, <1>2, <2>1, <2>4, <2>5, <2>6, <2>7
<1>6. CASE c.restart = FALSE
  <2>1. PICK o : o = IF DropsIn(prog, blk) THEN [c.out EXCEPT ![blk - 1] = @ \union in[blk]] ELSE c.out
    OBVIOUS
  <2>2. out_set' = o /\ blk' = blk - 1
    BY <1>6, <2>1, Zenon DEF Visited
  <2>3. /\ \A x \in Blocks : x >= blk => c.out[x] = out_set[x]
        /\ \A ref \in LabelRefs(prog, blk) : ref > 0 => in[blk] \subseteq c.out[ref]
    BY <1>1, <1>6 DEF LoopInv, LoopGoesOn
  <2>4. in[blk] \in SUBSET Used(prog)
    BY <1>1 DEF Lives, Blocks
  <2>5. o \in Lives(prog)
    BY <1>0, <1>2, <1>4, <2>1, <2>4 DEF Lives
  <2>6. \A x \in Blocks : c.out[x] \subseteq o[x] /\ (x >= blk => o[x] = c.out[x])
    <3> SUFFICES ASSUME NEW x \in Blocks  PROVE c.out[x] \subseteq o[x] /\ (x >= blk => o[x] = c.out[x])
      OBVIOUS
    <3>1. CASE DropsIn(prog, blk) /\ x = blk - 1
      <4>1. o[x] = c.out[x] \union in[blk] /\ ~ (x >= blk)
        BY <1>0, <1>2, <2>1, <3>1 DEF Lives
      <4> QED
        BY <4>1
    <3>2. CASE ~ (DropsIn(prog, blk) /\ x = blk - 1)
      <4>1. o[x] = c.out[x]
        BY <1>0, <1>2, <2>1, <3>2 DEF Lives
      <4> QED
        BY <4>1
    <3> QED
      BY <3>1, <3>2
  <2>7. DropsIn(prog, blk) => in[blk] \subseteq o[blk - 1]
    <3>1. DropsIn(prog, blk) => o[blk - 1] = c.out[blk - 1] \union in[blk]
      BY <1>0, <1>2, <1>4, <2>1 DEF Lives
    <3> QED
      BY <3>1
  <2>8. \A x \in Blocks : o[x] \in SUBSET Used(prog) /\ out_set[x] \subseteq o[x]
    <3>1. \A x \in Blocks : o[x] \in SUBSET Used(prog)
      BY <2>5 DEF Lives, Blocks
    <3> QED
      BY <1>3, <2>6, <3>1
  <2>9. ASSUME NEW x \in Blocks, x > blk - 1
        PROVE  /\ in[x] = LiveIns(prog, x, o[x])
               /\ \A ref \in LabelRefs(prog, x) : in[x] \subseteq o[ref]
               /\ DropsIn(prog, x) => in[x] \subseteq o[x - 1]
    <3>1. x >= blk /\ (x = blk \/ x > blk)
      BY <1>0, <2>9
    <3>2. o[x] = out_set[x]
      BY <2>3, <2>6, <3>1
    <3>3. CASE x = blk
      <4>1. \A ref \in LabelRefs(prog, blk) : in[blk] \subseteq c.out[ref] /\ ref \in Blocks
        BY <1>0, <1>4, <2>3
      <4>2. \A ref \in LabelRefs(prog, blk) : in[blk] \subseteq o[ref]
        BY <2>6, <4>1
      <4> QED
        BY <1>1, <2>7, <3>2, <3>3, <4>2
    <3>4. CASE x > blk
      <4>1. in[x] = stack_in[x]
        BY <1>0, <1>1, <3>4
      <4>2. in[x] = LiveIns(prog, x, o[x])
        BY <3>2, <3>4, <4>1 DEF Computed
      <4>3. /\ \A ref \in LabelRefs(prog, x) : in[x] \subseteq out_set[ref]
            /\ DropsIn(prog, x) => in[x] \subseteq out_set[x - 1]
        BY <3>4, <4>1 DEF Reported
      <4>4. \A ref \in LabelRefs(prog, x) : in[x] \subseteq o[ref]
        BY <1>4, <2>8, <4>3
      <4>5. DropsIn(prog, x) => in[x] \subseteq o[x - 1]
        BY <1>4, <2>8, <4>3
      <4> QED
        BY <4>2, <4>4, <4>5
    <3> QED
      BY <3>1, <3>3, <3>4
  <2>10. \A x \in Blocks : ReturnRegs(prog, x) \subseteq o[x]
    BY <2>8 DEF Returned
  <2>11. blk - 1 \in 0..N
    BY <1>0
  <2> QED
    BY <1>0, <1>1, <2>2, <2>5, <2>9, <2>10, <2>11
<1> QED
  BY <1>2, <1>5, <1>6

\* Nothing is taken for living that does not, until the loop goes wrong.
LEMMA VisitExact ==
  ASSUME LifeType, NoMore, blk \in Blocks, NEW in, NEW c, Visited(in, c), "stale" \notin odd'
  PROVE  \A x \in Blocks : /\ stack_in'[x] \subseteq TrueLife(prog)[x]
                           /\ out_set'[x] \subseteq LifeOut(prog, TrueLives(prog), x)
<1>0. PICK N \in Nat : N = Len(prog.blocks) /\ Blocks = 1..N /\ DOMAIN prog.blocks = 1..N
  BY HasShape DEF Shape, Blocks, LifeType
<1>1. /\ in \in Lives(prog) /\ LoopInv(c, blk, in, 0) /\ stack_in' = in
      /\ in[blk] = LiveIns(prog, blk, out_set[blk])
      /\ \A x \in Blocks : x # blk => in[x] = stack_in[x]
  BY DEF Visited
<1>2. /\ c \in LoopStates(prog) /\ c.restart \in BOOLEAN /\ c.stale \in BOOLEAN
      /\ c.out \in Lives(prog)
  BY <1>1, Zenon DEF LoopInv, LoopStates
<1>3. c.stale = FALSE
  <2>1. odd' = odd \union IF c.stale THEN {"stale"} ELSE {}
    BY DEF Visited
  <2>2. CASE c.stale = TRUE
    <3>1. odd' = odd \union {"stale"}
      BY <2>1, <2>2, Zenon
    <3> QED
      BY <3>1
  <2> QED
    BY <1>2, <2>2
<1>4. LoopAdds(c, blk, in)
  BY <1>1, <1>3 DEF LoopInv
<1>5. prog \in Programs /\ blk \in DOMAIN prog.blocks
  BY DEF LifeType, Blocks
<1>6. in[blk] \subseteq TrueLife(prog)[blk]
  <2>1. out_set[blk] \subseteq LifeOut(prog, TrueLives(prog), blk)
    BY DEF NoMore
  <2> QED
    BY <1>1, <1>5, <2>1, TrueLifeOfOut
<1>7. \A x \in Blocks : in[x] \subseteq TrueLife(prog)[x]
  BY <1>1, <1>6 DEF NoMore
<1>8. \A x \in Blocks : blk \in Successors(prog, x) => in[blk] \subseteq LifeOut(prog, TrueLives(prog), x)
  BY <1>5, <1>6, TrueLifeToOut
<1>9. \A x \in Blocks : c.out[x] \subseteq LifeOut(prog, TrueLives(prog), x)
  <2> SUFFICES ASSUME NEW x \in Blocks, NEW r \in c.out[x]
               PROVE  r \in LifeOut(prog, TrueLives(prog), x)
    OBVIOUS
  <2>1. CASE r \in out_set[x]
    BY <2>1 DEF NoMore
  <2>2. CASE x \in LabelRefs(prog, blk) /\ r \in in[blk]
    <3>1. blk \in Successors(prog, x)
      BY <2>2 DEF LabelRefs, Successors
    <3> QED
      BY <1>8, <2>2, <3>1
  <2> QED
    BY <1>4, <2>1, <2>2 DEF LoopAdds
<1>10. \A x \in Blocks : out_set'[x] \subseteq LifeOut(prog, TrueLives(prog), x)
  <2>1. CASE out_set' = c.out
    BY <1>9, <2>1
  <2>2. CASE DropsIn(prog, blk) /\ out_set' = [c.out EXCEPT ![blk - 1] = @ \union in[blk]]
    <3>1. blk - 1 \in Blocks /\ (blk - 1) + 1 = blk /\ prog.blocks[blk - 1].falls
      BY <1>0, <2>2 DEF DropsIn
    <3>2. blk \in Successors(prog, blk - 1)
      BY <3>1 DEF Successors
    <3>3. in[blk] \subseteq LifeOut(prog, TrueLives(prog), blk - 1)
      BY <1>8, <3>1, <3>2
    <3> SUFFICES ASSUME NEW x \in Blocks
                 PROVE  out_set'[x] \subseteq LifeOut(prog, TrueLives(prog), x)
      OBVIOUS
    <3>4. CASE x = blk - 1
      <4>1. out_set'[x] = c.out[x] \union in[blk]
        BY <1>0, <1>2, <2>2, <3>4 DEF Lives
      <4> QED
        BY <1>9, <3>3, <3>4, <4>1
    <3>5. CASE x # blk - 1
      <4>1. out_set'[x] = c.out[x]
        BY <1>0, <1>2, <2>2, <3>5 DEF Lives
      <4> QED
        BY <1>9, <4>1
    <3> QED
      BY <3>4, <3>5
  <2>3. out_set' = c.out \/ (DropsIn(prog, blk) /\ out_set' = [c.out EXCEPT ![blk - 1] = @ \union in[blk]])
    BY Zenon DEF Visited
  <2> QED
    BY <2>1, <2>2, <2>3
<1> QED
  BY <1>1, <1>7, <1>10

\* emit_zero_init_before is not called for what really lives.
LEMMA VisitInits ==
  ASSUME LifeType, NoMore, blk \in Blocks, NEW j \in DOMAIN insns[blk]
  PROVE  InitSet(insns[blk][j], LiveAfter(insns[blk], j, out_set[blk])) = {}
<1>1. PICK s, t : s = insns[blk] /\ t = prog.blocks[blk].ins
  OBVIOUS
<1>2. SameInsns(s, t)
  BY <1>1 DEF LifeType
<1>3. PICK N \in Nat : N = Len(s) /\ N = Len(t) /\ DOMAIN s = 1..N /\ DOMAIN t = 1..N
  BY <1>2 DEF SameInsns, IsInsns
<1>4. j \in 1..N /\ j \in 0..N
  BY <1>1, <1>3
<1>5. LiveAfter(s, j, out_set[blk]) = LiveAfter(t, j, out_set[blk])
  BY <1>2, <1>3, <1>4, LiveSame
<1> DEFINE all == LifeOut(prog, TrueLives(prog), blk)
<1>6. out_set[blk] \subseteq all
  BY DEF NoMore
<1> HIDE DEF all
<1>7. LiveAfter(t, j, out_set[blk]) \subseteq LiveAfter(t, j, all)
  <2> SUFFICES ASSUME NEW r \in LiveAfter(t, j, out_set[blk])  PROVE r \in LiveAfter(t, j, all)
    OBVIOUS
  <2>1. r \in out_set[blk] => r \in all
    BY <1>6
  <2>2. r \in LiveAfter(t, j, out_set[blk]) => r \in LiveAfter(t, j, all)
    BY <1>3, <1>4, <2>1, LiveMonotone
  <2> QED
    BY <2>2
<1>8. InitSet(t[j], LiveAfter(t, j, all)) = {}
  <2>1. prog \in Programs /\ blk \in DOMAIN prog.blocks /\ j \in DOMAIN prog.blocks[blk].ins
    BY <1>1, <1>3, <1>4 DEF LifeType, Blocks
  <2>2. InitSet(prog.blocks[blk].ins[j],
                LiveAfter(prog.blocks[blk].ins, j, LifeOut(prog, TrueLives(prog), blk))) = {}
    BY <2>1, NothingToInit
  <2> QED
    BY <1>1, <2>2 DEF all
<1>9. s[j].in = t[j].in /\ s[j].out = t[j].out /\ s[j].clob = t[j].clob
  BY <1>2, <1>3, <1>4 DEF SameInsns
<1>10. \A set : InitSet(s[j], set) = InitSet(t[j], set)
  BY <1>9 DEF InitSet, Dest, PoppedInputs
<1>11. \A set, more : set \subseteq more => InitSet(t[j], set) \subseteq InitSet(t[j], more)
  BY DEF InitSet
<1>12. InitSet(t[j], LiveAfter(t, j, out_set[blk])) \subseteq {}
  BY <1>7, <1>8, <1>11
<1>13. InitSet(s[j], LiveAfter(s, j, out_set[blk])) = {}
  BY <1>5, <1>10, <1>12
<1> QED
  BY <1>1, <1>13
LEMMA VisitLife ==
  ASSUME LifeInv, VisitBlock
  PROVE  LifeInv'
<1>1. phase = "life" /\ LifeType /\ Computed /\ Reported /\ Returned /\ ("stale" \notin odd => NoMore)
  BY DEF LifeInv, VisitBlock
<1>2. /\ blk \in Blocks /\ prog' = prog /\ DOMAIN insns' = Blocks
      /\ \A b \in Blocks : SameInsns(insns'[b], prog.blocks[b].ins)
  BY <1>1, VisitIs
<1>3. PICK in, c : Visited(in, c)
  BY <1>1, VisitIs
<1>4. Blocks' = Blocks
  BY <1>2 DEF Blocks
<1>5. odd \subseteq odd'
  BY <1>3 DEF Visited
<1>6. /\ blk' \in 0..Len(prog.blocks)
      /\ stack_in' \in Lives(prog) /\ out_set' \in Lives(prog)
      /\ \A x \in Blocks : x > blk' => stack_in'[x] = LiveIns(prog, x, out_set'[x])
      /\ \A x \in Blocks : x > blk' =>
            /\ \A ref \in LabelRefs(prog, x) : stack_in'[x] \subseteq out_set'[ref]
            /\ DropsIn(prog, x) => stack_in'[x] \subseteq out_set'[x - 1]
      /\ \A x \in Blocks : ReturnRegs(prog, x) \subseteq out_set'[x]
  BY <1>1, <1>2, <1>3, VisitDone
<1>7. LifeType'
  BY <1>1, <1>2, <1>4, <1>6 DEF LifeType, Lives, Blocks
<1>8. Computed' /\ Reported' /\ Returned'
  BY <1>2, <1>4, <1>6 DEF Computed, Reported, Returned
<1>9. ASSUME "stale" \notin odd'  PROVE NoMore'
  <2>1. NoMore
    BY <1>1, <1>5, <1>9
  <2>2. \A x \in Blocks : /\ stack_in'[x] \subseteq TrueLife(prog)[x]
                          /\ out_set'[x] \subseteq LifeOut(prog, TrueLives(prog), x)
    BY <1>1, <1>2, <1>3, <1>9, <2>1, VisitExact
  <2> QED
    BY <1>2, <1>4, <2>2 DEF NoMore
<1>10. phase' = "life" \/ (phase' = "zero_init" /\ "stale" \in odd)
  <2> DEFINE live == [j \in DOMAIN insns[blk] |-> LiveAfter(insns[blk], j, out_set[blk])]
             clean == \A j \in DOMAIN live : InitSet(insns[blk][j], live[j]) = {}
  <2>1. phase' = IF clean THEN phase ELSE "zero_init"
    BY Zenon DEF VisitBlock
  <2>2. "stale" \notin odd => clean
    BY <1>1, <1>2, VisitInits
  <2> HIDE DEF clean
  <2> QED
    BY <1>1, <2>1, <2>2
<1>11. CASE phase' = "life"
  BY <1>7, <1>8, <1>9, <1>11 DEF LifeInv
<1>12. CASE phase' = "zero_init" /\ "stale" \in odd
  BY <1>5, <1>12 DEF LifeInv
<1> QED
  BY <1>10, <1>11, <1>12

\* All registers that live have been found once all blocks are done with.
LEMMA AllFound ==
  ASSUME LifeType, Computed, Reported, Returned, blk = 0
  PROVE  \A b \in Blocks : TrueLife(prog)[b] \subseteq stack_in[b]
<1>0. PICK N \in Nat : N = Len(prog.blocks) /\ Blocks = 1..N /\ DOMAIN prog.blocks = 1..N
  BY HasShape DEF Shape, Blocks, LifeType
<1>1. prog \in Programs
  BY DEF LifeType
<1>2. \A b \in Blocks : b > blk
  BY <1>0
<1> DEFINE S == {x \in Places(prog) : x[2] \in stack_in[x[1]]}
<1>3. S \in SUBSET Places(prog)
  OBVIOUS
<1>4. ASSUME NEW b, NEW r
      PROVE  <<b, r>> \in S <=> (b \in Blocks /\ r \in Used(prog) /\ r \in stack_in[b])
  <2>1. <<b, r>>[1] = b /\ <<b, r>>[2] = r
    OBVIOUS
  <2>2. <<b, r>> \in Places(prog) <=> (b \in Blocks /\ r \in Used(prog))
    BY DEF Places, Blocks
  <2> QED
    BY <2>1, <2>2
<1> HIDE DEF S
<1>5. ASSUME NEW b \in Blocks, NEW r \in LifeOut(prog, S, b)  PROVE r \in out_set[b]
  <2>1. CASE r \in ReturnRegs(prog, b)
    BY <2>1 DEF Returned
  <2>2. ASSUME NEW s \in Successors(prog, b), <<s, r>> \in S  PROVE r \in out_set[b]
    <3>1. s \in Blocks /\ r \in stack_in[s] /\ s > blk
      BY <1>2, <1>4, <2>2
    <3>2. CASE s \in ToSet(prog.blocks[b].to)
      <4>1. b \in LabelRefs(prog, s)
        BY <3>2 DEF LabelRefs, Blocks
      <4> QED
        BY <3>1, <4>1 DEF Reported
    <3>3. CASE s = b + 1 /\ prog.blocks[b].falls
      <4>1. s - 1 = b /\ s > 1
        BY <1>0, <3>3
      <4>2. DropsIn(prog, s)
        BY <3>3, <4>1 DEF DropsIn
      <4>3. stack_in[s] \subseteq out_set[s - 1]
        BY <3>1, <4>2 DEF Reported
      <4> QED
        BY <3>1, <4>1, <4>3
    <3> QED
      BY <2>2, <3>2, <3>3 DEF Successors
  <2> QED
    BY <1>3, <2>1, <2>2, LifeOutIs
<1>6. OneMoreBlock(prog, S) \subseteq S
  <2>1. OneMoreBlock(prog, S) \in SUBSET Places(prog)
    BY <1>1, <1>3, RoundType
  <2> SUFFICES ASSUME NEW x \in OneMoreBlock(prog, S)  PROVE x \in S
    OBVIOUS
  <2>2. PICK b \in Blocks, r \in Used(prog) : x = <<b, r>>
    BY <2>1 DEF Places, Blocks
  <2>3. r \in LiveIns(prog, b, LifeOut(prog, S, b))
    BY <2>2, RoundIs
  <2>4. b \in DOMAIN prog.blocks /\ (r \in LifeOut(prog, S, b) => r \in out_set[b])
    BY <1>5 DEF Blocks
  <2>5. r \in LiveIns(prog, b, out_set[b])
    BY <1>1, <2>3, <2>4, LiveInsMonotone
  <2>6. r \in stack_in[b]
    BY <1>2, <2>5 DEF Computed
  <2> QED
    BY <1>4, <2>2, <2>6
<1>7. TrueLives(prog) \subseteq S
  BY <1>1, <1>3, <1>6, LivesLeast
<1> SUFFICES ASSUME NEW b \in Blocks, NEW r \in TrueLife(prog)[b]  PROVE r \in stack_in[b]
  OBVIOUS
<1>8. b \in DOMAIN prog.blocks
  BY DEF Blocks
<1>9. <<b, r>> \in TrueLives(prog)
  BY <1>1, <1>8, TrueLifeIs
<1> QED
  BY <1>4, <1>7, <1>9

LEMMA EndLifeFinds ==
  ASSUME LifeInv, EndLife
  PROVE  LifeInv'
<1>1. phase = "life" /\ LifeType /\ Computed /\ Reported /\ Returned /\ ("stale" \notin odd => NoMore)
  BY DEF LifeInv, EndLife
<1>2. /\ prog' = prog /\ stack_in' = stack_in /\ odd' = odd /\ blk = 0
      /\ phase' = IF stack_in[1] = {} THEN "convert" ELSE "zero_init"
  BY DEF EndLife, convVars
<1>3. Blocks' = Blocks
  BY <1>2 DEF Blocks
<1>4. \A b \in Blocks : TrueLife(prog)[b] \subseteq stack_in[b]
  BY <1>1, <1>2, AllFound
<1>5. prog \in Programs
  BY <1>1 DEF LifeType
<1>6. ASSUME "stale" \notin odd  PROVE stack_in = TrueLife(prog) /\ stack_in[1] = {}
  <2>1. \A b \in Blocks : stack_in[b] = TrueLife(prog)[b]
    BY <1>1, <1>4, <1>6 DEF NoMore
  <2>2. stack_in = [b \in Blocks |-> stack_in[b]]
    BY <1>1 DEF LifeType
  <2>3. TrueLife(prog) = [b \in Blocks |-> TrueLife(prog)[b]]
    BY <1>5, TrueLifeIs DEF Blocks
  <2>4. stack_in = TrueLife(prog)
    BY <2>1, <2>2, <2>3
  <2> QED
    BY <1>5, <2>4, NothingToInit
<1>7. Found'
  BY <1>2, <1>3, <1>4, <1>6 DEF Found
<1>8. CASE phase' = "convert"
  BY <1>7, <1>8 DEF LifeInv
<1>9. CASE phase' = "zero_init" /\ stack_in[1] # {}
  <2>1. "stale" \in odd'
    BY <1>2, <1>6, <1>9
  <2> QED
    BY <1>9, <2>1 DEF LifeInv
<1> QED
  BY <1>2, <1>8, <1>9

\* The conversion and the run keep what the analysis has found.
KeepsLife ==
  /\ phase \in {"convert", "run"} /\ phase' \in {"convert", "run", "done", "aborted"}
  /\ prog' = prog /\ stack_in' = stack_in /\ odd \subseteq odd'

LEMMA ConvertKeeps == Convert \/ RunBlock \/ RunReturn => KeepsLife
<1>1. StartBlock => KeepsLife
  BY DEF StartBlock, KeepsLife, Converting, lifeVars
<1>2. FormGroup => KeepsLife
  BY Zenon DEF FormGroup, KeepsLife, Converting
<1>3. DeleteMove => KeepsLife
  BY Zenon DEF DeleteMove, InGroup, KeepsLife, Converting, lifeVars, Abort
<1>4. SubstInsn => KeepsLife
  BY Zenon DEF SubstInsn, InGroup, KeepsLife, Converting, lifeVars, Abort
<1>5. EndBlock => KeepsLife
  BY Zenon DEF EndBlock, LeaveBlock, KeepsLife, Converting, Abort
<1>6. EndConvert => KeepsLife
  BY DEF EndConvert, KeepsLife, Converting, convVars
<1>7. RunBlock => KeepsLife
  BY Zenon DEF RunBlock, KeepsLife, convVars
<1>8. RunReturn => KeepsLife
  BY Zenon DEF RunReturn, KeepsLife, convVars, lifeVars
<1> QED
  BY <1>1, <1>2, <1>3, <1>4, <1>5, <1>6, <1>7, <1>8 DEF Convert

LEMMA KeptLife ==
  ASSUME LifeInv, KeepsLife
  PROVE  LifeInv'
<1>1. Found /\ prog' = prog /\ stack_in' = stack_in /\ odd \subseteq odd'
  BY DEF LifeInv, KeepsLife
<1>2. Blocks' = Blocks
  BY <1>1 DEF Blocks
<1>3. Found'
  BY <1>1, <1>2 DEF Found
<1>4. phase' \in {"convert", "run", "done", "aborted"}
  BY DEF KeepsLife
<1> QED
  BY <1>3, <1>4 DEF LifeInv

LEMMA NextLife == LifeInv /\ [Next]_vars => LifeInv'
<1> SUFFICES ASSUME LifeInv, [Next]_vars  PROVE LifeInv'
  OBVIOUS
<1>1. CASE VisitBlock
  BY <1>1, VisitLife
<1>2. CASE EndLife
  BY <1>2, EndLifeFinds
<1>3. CASE Convert \/ RunBlock \/ RunReturn
  BY <1>3, ConvertKeeps, KeptLife
<1>4. CASE UNCHANGED vars
  BY <1>4 DEF vars, lifeVars, convVars, LifeInv, LifeType, Computed, Reported, Returned, NoMore,
              Found, Blocks
<1> QED
  BY <1>1, <1>2, <1>3, <1>4 DEF Next

LEMMA LifeInvExact == LifeInv => LifeIsExact
BY DEF LifeInv, LifeIsExact, Found

\* LifeIsExact of every function: stack_reg_life_analysis finds exactly the
\* registers that live at the start of each block, whatever ways there are
\* between the blocks, and asks for no zeros, unless it has gone on with the
\* label of the block it has gone back to; and even then it misses none.
THEOREM AnalysisIsExact == Spec => []LifeIsExact
BY InitLife, NextLife, LifeInvExact, PTL DEF Spec
=============================================================================
