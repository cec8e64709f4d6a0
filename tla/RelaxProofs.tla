----------------------------- MODULE RelaxProofs -----------------------------
(***************************************************************************)
(* The offset optimizer is right for chains of every length: interval      *)
(* arithmetic on sizes is monotonic, cmd_size respects intervals, so the   *)
(* ranges only narrow and what is frozen at the upper bound always fits.   *)
(***************************************************************************)
EXTENDS Relax, DataLemmas

-----------------------------------------------------------------------------
(* The size of a command as a function of its argument.                    *)

\* The sizes at the ends of a range, with the exception for a range that
\* includes 0, bound the size of every argument in the range.
LEMMA SizeInRange ==
  ASSUME NEW l \in Int, NEW h \in Int, NEW v \in Int, l <= v, v <= h
  PROVE  SizeLo(l, h) <= cmd_size(v) /\ cmd_size(v) <= SizeHi(l, h)
<1>0. /\ cmd_size(l) \in 1..8 /\ cmd_size(h) \in 1..8 /\ cmd_size(v) \in 1..8
  BY CmdSizeType
<1>a. Compl(l) \in Int /\ Compl(h) \in Int /\ Compl(v) \in Int
  BY DEF Compl
<1>1. ASSUME v >= 0 PROVE cmd_size(v) <= cmd_size(h)
  <2>1. Shifts(v) <= Shifts(h) /\ Shifts(v) \in 0..7 /\ Shifts(h) \in 0..7
    BY ShiftsMonotonic
  <2> QED BY <1>1, <2>1 DEF cmd_size
<1>2. ASSUME v >= 0, l >= 0 PROVE cmd_size(l) <= cmd_size(v)
  <2>1. Shifts(l) <= Shifts(v) /\ Shifts(v) \in 0..7 /\ Shifts(l) \in 0..7
    BY ShiftsMonotonic
  <2> QED BY <1>2, <2>1 DEF cmd_size
<1>3. ASSUME NEW x \in Int, NEW y \in Int, x <= y, y < 0
      PROVE  cmd_size(y) <= cmd_size(x)
  <2>0. Compl(x) \in Int /\ Compl(y) \in Int /\ Compl(y) <= Compl(x)
    BY <1>3 DEF Compl
  <2>1. /\ Shifts(Compl(y)) <= Shifts(Compl(x))
        /\ Shifts(Compl(y)) \in 0..7 /\ Shifts(Compl(x)) \in 0..7
    BY <2>0, ShiftsMonotonic
  <2>2. x < -16 => Shifts(Compl(x)) >= 1
    BY <2>0, ShiftsOfNibble DEF Compl
  <2>3. y >= -16 => Shifts(Compl(y)) = 0
    BY <2>0, ShiftsOfNibble DEF Compl
  <2>4. /\ cmd_size(x) = 1 + (IF x >= -16 THEN 1 ELSE 0) + Shifts(Compl(x))
        /\ cmd_size(y) = 1 + (IF y >= -16 THEN 1 ELSE 0) + Shifts(Compl(y))
    BY <1>3 DEF cmd_size
  <2> QED BY <1>3, <2>1, <2>2, <2>3, <2>4
<1>4. cmd_size(v) <= SizeHi(l, h)
  <2>1. CASE v >= 0
    BY <1>0, <1>1, <2>1 DEF SizeHi
  <2>2. CASE v < 0
    <3>1. cmd_size(v) <= cmd_size(l)
      BY <1>3, <2>2
    <3> QED BY <1>0, <3>1 DEF SizeHi
  <2> QED BY <2>1, <2>2
<1>5. SizeLo(l, h) <= cmd_size(v)
  <2>1. CASE l <= 0 /\ h >= 0
    BY <1>0, <2>1 DEF SizeLo
  <2>2. CASE l > 0
    BY <1>0, <1>2, <2>2 DEF SizeLo
  <2>3. CASE h < 0
    <3>1. cmd_size(h) <= cmd_size(v)
      BY <1>3, <2>3
    <3> QED BY <1>0, <3>1, <2>3 DEF SizeLo
  <2> QED BY <2>1, <2>2, <2>3
<1> QED BY <1>4, <1>5

\* A narrower range of arguments has a range of sizes that is no wider.
LEMMA SizeRangeNarrows ==
  ASSUME NEW l \in Int, NEW h \in Int, NEW m \in Int, NEW n \in Int,
         l <= m, m <= n, n <= h
  PROVE  /\ SizeLo(l, h) \in 1..8 /\ SizeHi(l, h) \in 1..8
         /\ SizeLo(m, n) \in 1..8 /\ SizeHi(m, n) \in 1..8
         /\ SizeLo(l, h) <= SizeLo(m, n)
         /\ SizeLo(m, n) <= SizeHi(m, n)
         /\ SizeHi(m, n) <= SizeHi(l, h)
<1>0. /\ cmd_size(l) \in 1..8 /\ cmd_size(h) \in 1..8
      /\ cmd_size(m) \in 1..8 /\ cmd_size(n) \in 1..8
  BY CmdSizeType
<1>1. /\ SizeLo(l, h) <= cmd_size(m) /\ cmd_size(m) <= SizeHi(l, h)
      /\ SizeLo(l, h) <= cmd_size(n) /\ cmd_size(n) <= SizeHi(l, h)
  <2>1. m <= h /\ l <= n
    OBVIOUS
  <2> QED BY <2>1, SizeInRange
<1>2. /\ SizeLo(l, h) \in 1..8 /\ SizeHi(l, h) \in 1..8
      /\ SizeLo(m, n) \in 1..8 /\ SizeHi(m, n) \in 1..8
  BY <1>0 DEF SizeLo, SizeHi
<1>3. SizeHi(m, n) <= SizeHi(l, h)
  BY <1>0, <1>1, <1>2 DEF SizeHi
<1>4. SizeLo(l, h) <= SizeLo(m, n)
  <2>1. CASE m <= 0 /\ n >= 0
    BY <2>1 DEF SizeLo
  <2>2. CASE ~ (m <= 0 /\ n >= 0)
    <3>1. SizeLo(m, n) = cmd_size(m) \/ SizeLo(m, n) = cmd_size(n)
      BY <2>2 DEF SizeLo
    <3> QED BY <1>1, <3>1
  <2> QED BY <2>1, <2>2
<1>5. SizeLo(m, n) <= SizeHi(m, n)
  BY <1>0 DEF SizeLo, SizeHi
<1> QED BY <1>2, <1>3, <1>4, <1>5


-----------------------------------------------------------------------------
(* Sums of sizes, and the estimates built from them.                       *)

Sizes == [Elements -> 0..Longest]

\* l1..h1 lies within l..h for every element.
Within(l1, h1, l, h) == \A k \in Elements : l[k] <= l1[k] /\ h1[k] <= h[k]

\* Greater sizes take no less room.
LEMMA RoomMonotonic ==
  ASSUME NEW S \in SUBSET Elements, NEW s \in Sizes, NEW t \in Sizes,
         \A k \in Elements : s[k] <= t[k]
  PROVE  /\ Room(S, s) \in Nat /\ Room(S, t) \in Nat
         /\ Room(S, s) <= Room(S, t)
<1>0. N \in Nat /\ Longest \in Nat
  BY SizeAssumption, WidestAssumption DEF Longest
<1>1. \A i, j \in Int : IsFiniteSet(i..j)
  BY FS_Interval
<1>2. IsFiniteSet(Elements) /\ IsFiniteSet(1..Longest)
  BY <1>0, <1>1 DEF Elements
<1>3. IsFiniteSet(S)
  BY <1>2, FS_Subset
<1>4. IsFiniteSet(S \X (1..Longest))
  BY <1>2, <1>3, FS_Product
<1>5. Bytes(S, t) \subseteq S \X (1..Longest)
  BY DEF Bytes
<1>6. Bytes(S, s) \subseteq Bytes(S, t)
  <2> SUFFICES ASSUME NEW b \in S \X (1..Longest), b[2] <= s[b[1]]
               PROVE  b[2] <= t[b[1]]
    BY DEF Bytes
  <2>1. b[1] \in Elements /\ b[2] \in Int
    OBVIOUS
  <2>2. s[b[1]] \in Int /\ t[b[1]] \in Int
    BY <2>1, <1>0 DEF Sizes
  <2> QED BY <2>1, <2>2
<1>7. IsFiniteSet(Bytes(S, t))
  BY <1>4, <1>5, FS_Subset
<1>8. IsFiniteSet(Bytes(S, s)) /\ Cardinality(Bytes(S, s)) <= Cardinality(Bytes(S, t))
  BY <1>6, <1>7, FS_Subset
<1>9. Cardinality(Bytes(S, s)) \in Nat /\ Cardinality(Bytes(S, t)) \in Nat
  BY <1>7, <1>8, FS_CardinalityType
<1> QED BY <1>8, <1>9 DEF Room

\* The argument's interval is one, and narrows with the intervals of sizes.
LEMMA ArgNarrows ==
  ASSUME NEW e, IsCommand(e),
         NEW l \in Sizes, NEW h \in Sizes, NEW l1 \in Sizes, NEW h1 \in Sizes,
         Within(l1, h1, l, h), \A k \in Elements : l1[k] <= h1[k]
  PROVE  /\ ArgLo(e, l, h) \in Int /\ ArgHi(e, l, h) \in Int
         /\ ArgLo(e, l1, h1) \in Int /\ ArgHi(e, l1, h1) \in Int
         /\ ArgLo(e, l, h) <= ArgLo(e, l1, h1)
         /\ ArgLo(e, l1, h1) <= ArgHi(e, l1, h1)
         /\ ArgHi(e, l1, h1) <= ArgHi(e, l, h)
<1>1. e.pos \in SUBSET Elements /\ e.neg \in SUBSET Elements /\ e.c \in Int
  BY DEF IsCommand
<1>2. /\ \A k \in Elements : l[k] <= l1[k]
      /\ \A k \in Elements : h1[k] <= h[k]
  BY DEF Within
<1>3. ASSUME NEW S \in SUBSET Elements
      PROVE  /\ Room(S, l) \in Nat /\ Room(S, l1) \in Nat
             /\ Room(S, h1) \in Nat /\ Room(S, h) \in Nat
             /\ Room(S, l) <= Room(S, l1)
             /\ Room(S, l1) <= Room(S, h1)
             /\ Room(S, h1) <= Room(S, h)
  <2>1. Room(S, l) \in Nat /\ Room(S, l1) \in Nat /\ Room(S, l) <= Room(S, l1)
    BY <1>2, RoomMonotonic
  <2>2. Room(S, h1) \in Nat /\ Room(S, l1) <= Room(S, h1)
    BY RoomMonotonic
  <2>3. Room(S, h) \in Nat /\ Room(S, h1) <= Room(S, h)
    BY <1>2, RoomMonotonic
  <2> QED BY <2>1, <2>2, <2>3
<1>4. /\ Room(e.pos, l) \in Nat /\ Room(e.pos, l1) \in Nat
      /\ Room(e.pos, h1) \in Nat /\ Room(e.pos, h) \in Nat
      /\ Room(e.pos, l) <= Room(e.pos, l1)
      /\ Room(e.pos, l1) <= Room(e.pos, h1)
      /\ Room(e.pos, h1) <= Room(e.pos, h)
  BY <1>1, <1>3
<1>5. /\ Room(e.neg, l) \in Nat /\ Room(e.neg, l1) \in Nat
      /\ Room(e.neg, h1) \in Nat /\ Room(e.neg, h) \in Nat
      /\ Room(e.neg, l) <= Room(e.neg, l1)
      /\ Room(e.neg, l1) <= Room(e.neg, h1)
      /\ Room(e.neg, h1) <= Room(e.neg, h)
  BY <1>1, <1>3
<1> QED BY <1>1, <1>4, <1>5 DEF ArgLo, ArgHi

\* So does the range of sizes the optimizer recomputes for a command.
LEMMA CmdNarrows ==
  ASSUME NEW e, IsCommand(e),
         NEW l \in Sizes, NEW h \in Sizes, NEW l1 \in Sizes, NEW h1 \in Sizes,
         Within(l1, h1, l, h), \A k \in Elements : l1[k] <= h1[k]
  PROVE  /\ CmdLo(e, l, h) \in 1..8 /\ CmdHi(e, l, h) \in 1..8
         /\ CmdLo(e, l1, h1) \in 1..8 /\ CmdHi(e, l1, h1) \in 1..8
         /\ CmdLo(e, l, h) <= CmdLo(e, l1, h1)
         /\ CmdLo(e, l1, h1) <= CmdHi(e, l1, h1)
         /\ CmdHi(e, l1, h1) <= CmdHi(e, l, h)
<1> DEFINE a == ArgLo(e, l, h)
           b == ArgHi(e, l, h)
           a1 == ArgLo(e, l1, h1)
           b1 == ArgHi(e, l1, h1)
<1>1. /\ a \in Int /\ b \in Int /\ a1 \in Int /\ b1 \in Int
      /\ a <= a1 /\ a1 <= b1 /\ b1 <= b
  BY ArgNarrows
<1>2. /\ CmdLo(e, l, h) = SizeLo(a, b) /\ CmdHi(e, l, h) = SizeHi(a, b)
      /\ CmdLo(e, l1, h1) = SizeLo(a1, b1) /\ CmdHi(e, l1, h1) = SizeHi(a1, b1)
  BY DEF CmdLo, CmdHi
<1> HIDE DEF a, b, a1, b1
<1> QED BY <1>1, <1>2, SizeRangeNarrows

\* What depends only on elements of constant size is itself constant.
LEMMA RoomOfEqual ==
  ASSUME NEW S \in SUBSET Elements, NEW s \in Sizes, NEW t \in Sizes,
         \A k \in S : s[k] = t[k]
  PROVE  Room(S, s) = Room(S, t)
<1>1. Bytes(S, s) = Bytes(S, t)
  BY DEF Bytes
<1> QED BY <1>1 DEF Room

\* A constant argument needs one definite size.
LEMMA ConstArg ==
  ASSUME NEW e, IsCommand(e), NEW l \in Sizes, NEW h \in Sizes,
         \A k \in Elements : l[k] <= h[k],
         \A j \in e.pos \cup e.neg : l[j] = h[j]
  PROVE  /\ CmdLo(e, l, h) = cmd_size(ArgLo(e, l, h))
         /\ CmdHi(e, l, h) = cmd_size(ArgLo(e, l, h))
<1>1. e.pos \in SUBSET Elements /\ e.neg \in SUBSET Elements /\ e.c \in Int
  BY DEF IsCommand
<1>2. Room(e.pos, l) = Room(e.pos, h) /\ Room(e.neg, l) = Room(e.neg, h)
  BY <1>1, RoomOfEqual
<1>3. ArgHi(e, l, h) = ArgLo(e, l, h)
  BY <1>2 DEF ArgLo, ArgHi
<1>4. ArgLo(e, l, h) \in Int
  <2>1. Within(l, h, l, h)
    BY WidestAssumption DEF Within, Sizes, Longest
  <2> QED BY <2>1, ArgNarrows
<1>5. cmd_size(ArgLo(e, l, h)) \in 1..8
  BY <1>4, CmdSizeType
<1>6. /\ SizeHi(ArgLo(e, l, h), ArgLo(e, l, h)) = cmd_size(ArgLo(e, l, h))
  BY <1>5 DEF SizeHi
<1>7. SizeLo(ArgLo(e, l, h), ArgLo(e, l, h)) = cmd_size(ArgLo(e, l, h))
  <2>1. CASE ArgLo(e, l, h) = 0
    <3>1. cmd_size(0) = 1
      BY ShiftsOfNibble DEF cmd_size
    <3> QED BY <2>1, <3>1 DEF SizeLo
  <2>2. CASE ArgLo(e, l, h) # 0
    BY <2>2, <1>4, <1>5 DEF SizeLo
  <2> QED BY <2>1, <2>2
<1> QED BY <1>3, <1>6, <1>7 DEF CmdLo, CmdHi

\* The filling of an .align is less than the alignment.
LEMMA PadType ==
  ASSUME NEW e, IsAlign(e), NEW k \in Elements, NEW s \in Sizes
  PROVE  Pad(e, k, s) \in 0..(e.to - 1)
<1>1. 1..(k - 1) \in SUBSET Elements
  BY SizeAssumption DEF Elements
<1>0. \A j \in Elements : s[j] <= s[j]
  BY WidestAssumption DEF Sizes, Longest
<1>2. Room(1..(k - 1), s) \in Nat
  BY <1>0, <1>1, RoomMonotonic
<1>3. e.to \in {2, 4, 8, 16} /\ e.c \in Nat
  BY DEF IsAlign
<1>4. \A x \in Int : x % 2 \in 0..1 /\ x % 4 \in 0..3 /\ x % 8 \in 0..7 /\ x % 16 \in 0..15
  OBVIOUS
<1>5. e.to - (e.c + Room(1..(k - 1), s)) \in Int
  BY <1>2, <1>3
<1> QED BY <1>3, <1>4, <1>5 DEF Pad

-----------------------------------------------------------------------------
(* The inductive invariant.                                                *)

\* lit has fixed the sizes of the commands.
Frozen == tool = "lit" /\ phase \in {"reduce", "unroll", "written", "failed"}

\* A command's range bounds what its argument can need, from below until lit
\* freezes it.
CmdInv ==
  \A k \in Elements : prog[k].kind = "cmd" =>
    /\ prog[k].slot # 0 => lo[k] = prog[k].slot /\ hi[k] = prog[k].slot
    /\ prog[k].slot = 0 => /\ CmdHi(prog[k], lo, hi) <= hi[k]
                           /\ ~ Frozen => lo[k] <= CmdLo(prog[k], lo, hi)
    /\ Frozen => lo[k] = hi[k]

\* An .align is as loose as emit_align left it, or filled exactly.
AlignInv ==
  \A k \in Elements : prog[k].kind = "align" =>
    \/ lo[k] = 0 /\ hi[k] = prog[k].to - 1
    \/ /\ PadIsConst(k)
       /\ lo[k] = Pad(prog[k], k, lo) /\ hi[k] = Pad(prog[k], k, lo)

Stable(k) == IsConst(k) \/ (lo[k] = NewLo(k) /\ hi[k] = NewHi(k))

\* A pass that has narrowed nothing leaves stable elements behind it.
SettleInv ==
  /\ phase = "optimize" =>
       /\ ~ settled /\ nshrinks <= at - 1
       /\ nshrinks = 0 => \A k \in Elements : k < at => Stable(k)
  /\ (phase = "between" \/ (phase = "unroll" /\ tool = "ast")) /\ settled =>
       \A k \in Elements : Stable(k)

\* What the last two passes have gone over.
DoneInv ==
  /\ tool = "lit" =>
       \A k \in Elements :
         (phase = "reduce" /\ k < at) \/ phase = "unroll" =>
           (prog[k].kind = "align" /\ PadIsConst(k) => IsConst(k))
  /\ \A k \in Elements :
       (phase = "unroll" /\ k < at) \/ phase \in {"written", "failed"} =>
         (BecomesBlock(k) => IsConst(k))

PhaseInv == phase \in {"freeze", "reduce"} => tool = "lit"

IInv == /\ TypeOK /\ prog \in Programs
        /\ CmdInv /\ AlignInv /\ SettleInv /\ DoneInv /\ PhaseInv
        /\ CommandsFit /\ SettledUnrolls

\* The facts about constants and state that every step uses.
LEMMA Basics ==
  ASSUME TypeOK, prog \in Programs
  PROVE  /\ N \in Nat /\ Longest \in Nat /\ Longest >= 24
         /\ lo \in Sizes /\ hi \in Sizes
         /\ Within(lo, hi, lo, hi)
         /\ \A k \in Elements : /\ lo[k] \in Nat /\ hi[k] \in Nat
                                /\ lo[k] <= hi[k]
                                /\ prog[k].kind = "cmd" => IsCommand(prog[k])
                                /\ prog[k].kind # "cmd" =>
                                     prog[k].kind = "align" /\ IsAlign(prog[k])
<1>1. N \in Nat /\ Longest \in Nat /\ Longest >= 24
  BY SizeAssumption, WidestAssumption DEF Longest, CMD_MAXLEN
<1>2. lo \in Sizes /\ hi \in Sizes
  BY DEF TypeOK, Sizes
<1>3. \A k \in Elements : lo[k] \in Nat /\ hi[k] \in Nat /\ lo[k] <= hi[k]
  BY <1>1 DEF TypeOK
<1>4. Within(lo, hi, lo, hi)
  BY <1>3 DEF Within
<1>5. \A k \in Elements : IsCommand(prog[k]) \/ IsAlign(prog[k])
  BY ProgramsAssumption
<1>6. \A k \in Elements : /\ prog[k].kind = "cmd" => IsCommand(prog[k])
                          /\ prog[k].kind # "cmd" =>
                               prog[k].kind = "align" /\ IsAlign(prog[k])
  BY <1>5 DEF IsCommand, IsAlign
<1> QED BY <1>1, <1>2, <1>3, <1>4, <1>6

\* The range recomputed for a loose element is one, and lies within the old.
LEMMA RecomputedNarrows ==
  ASSUME TypeOK, prog \in Programs, CmdInv, AlignInv, ~ Frozen,
         NEW k \in Elements, ~ IsConst(k)
  PROVE  /\ NewLo(k) \in 0..Longest /\ NewHi(k) \in 0..Longest
         /\ NewLo(k) <= NewHi(k)
         /\ Narrows(k)
<1>0. /\ N \in Nat /\ Longest \in Nat /\ Longest >= 24
      /\ lo \in Sizes /\ hi \in Sizes /\ Within(lo, hi, lo, hi)
      /\ \A j \in Elements : lo[j] \in Nat /\ hi[j] \in Nat /\ lo[j] <= hi[j]
      /\ prog[k].kind = "cmd" => IsCommand(prog[k])
      /\ prog[k].kind # "cmd" => prog[k].kind = "align" /\ IsAlign(prog[k])
  BY Basics
<1>1. CASE prog[k].kind = "cmd"
  <2>1. IsCommand(prog[k])
    BY <1>0, <1>1
  <2>2. /\ CmdLo(prog[k], lo, hi) \in 1..8 /\ CmdHi(prog[k], lo, hi) \in 1..8
        /\ CmdLo(prog[k], lo, hi) <= CmdHi(prog[k], lo, hi)
    BY <1>0, <2>1, CmdNarrows
  <2>3. prog[k].slot = 0
    BY <1>1 DEF CmdInv, IsConst
  <2>4. lo[k] <= CmdLo(prog[k], lo, hi) /\ CmdHi(prog[k], lo, hi) <= hi[k]
    BY <1>1, <2>3 DEF CmdInv
  <2>5. NewLo(k) = CmdLo(prog[k], lo, hi) /\ NewHi(k) = CmdHi(prog[k], lo, hi)
    BY <1>1 DEF NewLo, NewHi
  <2> QED BY <1>0, <2>2, <2>4, <2>5 DEF Narrows
<1>2. CASE prog[k].kind # "cmd"
  <2>1. prog[k].kind = "align" /\ IsAlign(prog[k])
    BY <1>0, <1>2
  <2>2. Pad(prog[k], k, lo) \in 0..(prog[k].to - 1)
    BY <1>0, <2>1, PadType
  <2>3. prog[k].to \in 2..16
    BY <2>1 DEF IsAlign
  <2>4. lo[k] = 0 /\ hi[k] = prog[k].to - 1
    BY <2>1 DEF AlignInv, IsConst
  <2>5. CASE PadIsConst(k)
    <3>1. NewLo(k) = Pad(prog[k], k, lo) /\ NewHi(k) = Pad(prog[k], k, lo)
      BY <1>2, <2>5 DEF NewLo, NewHi
    <3> QED BY <1>0, <2>2, <2>3, <2>4, <3>1 DEF Narrows
  <2>6. CASE ~ PadIsConst(k)
    <3>1. NewLo(k) = 0 /\ NewHi(k) = prog[k].to - 1
      BY <1>2, <2>6 DEF NewLo, NewHi
    <3> QED BY <1>0, <2>3, <2>4, <3>1 DEF Narrows
  <2> QED BY <2>5, <2>6
<1> QED BY <1>1, <1>2

\* Narrowing some sizes keeps what CmdInv says of the others.
LEMMA NarrowingKeepsCommands ==
  ASSUME TypeOK, prog \in Programs, lo' \in Sizes, hi' \in Sizes,
         Within(lo', hi', lo, hi), \A j \in Elements : lo'[j] <= hi'[j],
         NEW k \in Elements, prog[k].kind = "cmd"
  PROVE  /\ CmdLo(prog[k], lo, hi) <= CmdLo(prog[k], lo', hi')
         /\ CmdHi(prog[k], lo', hi') <= CmdHi(prog[k], lo, hi)
         /\ CmdLo(prog[k], lo, hi) \in 1..8 /\ CmdHi(prog[k], lo, hi) \in 1..8
         /\ CmdLo(prog[k], lo', hi') \in 1..8 /\ CmdHi(prog[k], lo', hi') \in 1..8
<1>0. /\ lo \in Sizes /\ hi \in Sizes /\ IsCommand(prog[k])
  BY Basics
<1> QED BY <1>0, CmdNarrows

\* The filling of an .align depends only on what is before it.
LEMMA PadOfEqual ==
  ASSUME NEW e, NEW k \in Elements, NEW s \in Sizes, NEW t \in Sizes,
         \A j \in 1..(k - 1) : s[j] = t[j]
  PROVE  Pad(e, k, s) = Pad(e, k, t)
<1>1. 1..(k - 1) \in SUBSET Elements
  BY SizeAssumption DEF Elements
<1>2. Room(1..(k - 1), s) = Room(1..(k - 1), t)
  BY <1>1, RoomOfEqual
<1> QED BY <1>2 DEF Pad

-----------------------------------------------------------------------------
(* The invariant holds initially and is kept by every action.              *)

\* As emitted, the sizes satisfy the invariant.
LEMMA InitIInv == Init => IInv
<1> SUFFICES ASSUME Init PROVE IInv
  OBVIOUS
<1>0. /\ N \in Nat /\ Longest \in Nat /\ Widest \in Nat /\ Widest >= 8
      /\ Longest = Widest + 16
  BY SizeAssumption, WidestAssumption DEF Longest, CMD_MAXLEN
<1>1. prog \in Programs
  BY DEF Init
<1>2. \A k \in Elements :
        IsCommand(prog[k]) \/ IsAlign(prog[k])
  BY <1>1, ProgramsAssumption
<1>3. \A k \in Elements :
        /\ lo[k] = EmittedLo(prog[k]) /\ hi[k] = EmittedHi(prog[k])
  BY DEF Init
<1>4. \A k \in Elements :
        /\ prog[k].kind = "cmd" =>
             /\ prog[k].slot # 0 => lo[k] = prog[k].slot /\ hi[k] = prog[k].slot
             /\ prog[k].slot = 0 => lo[k] = 1 /\ hi[k] = Widest
        /\ prog[k].kind = "align" => lo[k] = 0 /\ hi[k] = prog[k].to - 1
  BY <1>3 DEF EmittedLo, EmittedHi
<1>5. \A k \in Elements :
        lo[k] \in 0..Longest /\ hi[k] \in 0..Longest /\ lo[k] <= hi[k]
  <2> SUFFICES ASSUME NEW k \in Elements
               PROVE  lo[k] \in 0..Longest /\ hi[k] \in 0..Longest /\ lo[k] <= hi[k]
    OBVIOUS
  <2>1. CASE IsCommand(prog[k])
    <3>1. prog[k].kind = "cmd" /\ prog[k].slot \in 0..8
      BY <2>1 DEF IsCommand, CMD_MAXLEN
    <3> QED BY <1>0, <1>4, <3>1
  <2>2. CASE IsAlign(prog[k])
    <3>1. prog[k].kind = "align" /\ prog[k].to \in 2..16
      BY <2>2 DEF IsAlign
    <3> QED BY <1>0, <1>4, <3>1
  <2> QED BY <1>2, <2>1, <2>2
<1>6. TypeOK
  <2>1. lo \in [Elements -> 0..Longest] /\ hi \in [Elements -> 0..Longest]
    <3>1. /\ lo = [k \in Elements |-> EmittedLo(prog[k])]
          /\ hi = [k \in Elements |-> EmittedHi(prog[k])]
      BY DEF Init
    <3> QED BY <3>1, <1>3, <1>5
  <2>2. settled \in BOOLEAN /\ errors \in BOOLEAN
    BY Zenon DEF Init
  <2>3. /\ tool \in Tools /\ phase \in Phases /\ at \in 1..(N + 1)
        /\ passes \in 0..maxpasses /\ nshrinks \in 0..N
    BY <1>0, SizeAssumption DEF Init, Phases
  <2> QED BY <1>5, <2>1, <2>2, <2>3 DEF TypeOK
<1>7. ~ Frozen
  BY DEF Frozen, Init
<1>8. CmdInv
  <2> SUFFICES ASSUME NEW k \in Elements, prog[k].kind = "cmd", prog[k].slot = 0
               PROVE  CmdHi(prog[k], lo, hi) <= hi[k] /\ lo[k] <= CmdLo(prog[k], lo, hi)
    BY <1>4, <1>7 DEF CmdInv
  <2>1. IsCommand(prog[k]) /\ lo \in Sizes /\ hi \in Sizes /\ Within(lo, hi, lo, hi)
        /\ \A j \in Elements : lo[j] <= hi[j]
    BY <1>1, <1>6, Basics
  <2>2. CmdHi(prog[k], lo, hi) \in 1..8 /\ CmdLo(prog[k], lo, hi) \in 1..8
    BY <2>1, CmdNarrows
  <2> QED BY <1>0, <1>4, <2>2
<1>9. AlignInv
  BY <1>4 DEF AlignInv
<1>10. SettleInv /\ DoneInv /\ PhaseInv /\ CommandsFit /\ SettledUnrolls
  BY DEF Init, SettleInv, DoneInv, PhaseInv, CommandsFit, SettledUnrolls
<1> QED BY <1>1, <1>6, <1>8, <1>9, <1>10 DEF IInv

\* Steps that leave the sizes alone.
LEMMA ControlStep ==
  ASSUME IInv, StartPass \/ SkipConst \/ EndPass \/ EndOptimization
               \/ EndReduce \/ EndUnroll
  PROVE  IInv'
<1>0. /\ prog' = prog /\ tool' = tool /\ lo' = lo /\ hi' = hi
      /\ errors' = errors
  BY DEF StartPass, SkipConst, EndPass, EndOptimization, EndReduce, EndUnroll, control
<1>1. \A k \in Elements : /\ Stable(k)' <=> Stable(k)
                          /\ IsConst(k)' <=> IsConst(k)
                          /\ PadIsConst(k)' <=> PadIsConst(k)
                          /\ BecomesBlock(k)' <=> BecomesBlock(k)
  BY <1>0 DEF Stable, IsConst, PadIsConst, BecomesBlock, ArgIsConst, NewLo, NewHi
<1>2. TypeOK'
  <2>1. N \in Nat /\ maxpasses \in Nat
    BY SizeAssumption
  <2>2. passes' \in 0..maxpasses /\ nshrinks' \in 0..N /\ at' \in 1..(N + 1)
    <3>0. passes \in 0..maxpasses /\ nshrinks \in 0..N /\ at \in 1..(N + 1)
      BY DEF IInv, TypeOK
    <3>1. CASE StartPass
      BY <2>1, <3>0, <3>1 DEF StartPass
    <3>2. CASE SkipConst
      BY <2>1, <3>0, <3>2 DEF SkipConst, control, Elements
    <3>3. CASE EndPass
      BY <3>0, <3>3 DEF EndPass
    <3>4. CASE EndOptimization \/ EndReduce
      BY <2>1, <3>0, <3>4 DEF EndOptimization, EndReduce, control
    <3>5. CASE EndUnroll
      BY <3>0, <3>5 DEF EndUnroll, control
    <3> QED BY <3>1, <3>2, <3>3, <3>4, <3>5
  <2>3. phase' \in Phases
    BY DEF IInv, TypeOK, StartPass, SkipConst, EndPass, EndOptimization,
           EndReduce, EndUnroll, control, Phases
  <2>4. settled' \in BOOLEAN /\ errors' \in BOOLEAN
    BY Zenon DEF IInv, TypeOK, StartPass, SkipConst, EndPass, EndOptimization,
           EndReduce, EndUnroll, control
  <2> QED BY <1>0, <2>2, <2>3, <2>4 DEF IInv, TypeOK
<1>3. Frozen' <=> Frozen
  BY <1>0 DEF Frozen, IInv, PhaseInv, StartPass, SkipConst, EndPass,
              EndOptimization, EndReduce, EndUnroll
<1>4. CmdInv'
  BY <1>0, <1>3 DEF IInv, CmdInv
<1>5. AlignInv'
  BY <1>0, <1>1 DEF IInv, AlignInv
<1>6. SettleInv'
  <2>1. CASE StartPass
    BY <2>1, SizeAssumption DEF StartPass, SettleInv, Elements
  <2>2. CASE SkipConst
    <3>1. phase = "optimize" /\ phase' = "optimize" /\ at' = at + 1 /\ at \in Elements
          /\ settled' = settled /\ nshrinks' = nshrinks /\ IsConst(at)
      BY <2>2 DEF SkipConst, control
    <3>2. ~ settled /\ nshrinks <= at - 1
          /\ (nshrinks = 0 => \A k \in Elements : k < at => Stable(k))
      BY <3>1 DEF IInv, SettleInv
    <3>3. Stable(at)
      BY <3>1 DEF Stable
    <3>4. \A k \in Elements : k < at + 1 => k < at \/ k = at
      BY <3>1, SizeAssumption DEF Elements
    <3>5. nshrinks \in Nat /\ at \in Nat
      BY SizeAssumption DEF IInv, TypeOK
    <3>6. nshrinks' <= at' - 1
      BY <3>1, <3>2, <3>5
    <3>7. nshrinks' = 0 => \A k \in Elements : k < at' => Stable(k)'
      BY <3>1, <3>2, <3>3, <3>4, <1>1
    <3> QED BY <3>1, <3>2, <3>6, <3>7 DEF SettleInv
  <2>3. CASE EndPass
    <3>1. phase = "optimize" /\ phase' = "between" /\ at = N + 1
          /\ (settled' <=> nshrinks = 0)
      BY <2>3 DEF EndPass
    <3>2. nshrinks = 0 => \A k \in Elements : Stable(k)
      BY <3>1, SizeAssumption DEF IInv, SettleInv, Elements
    <3> QED BY <3>1, <3>2, <1>1 DEF SettleInv
  <2>4. CASE EndOptimization
    BY <2>4, <1>0, <1>1 DEF EndOptimization, IInv, SettleInv, control
  <2>5. CASE EndReduce
    BY <2>5, <1>0 DEF EndReduce, SettleInv, IInv, PhaseInv
  <2>6. CASE EndUnroll
    BY <2>6, <1>0 DEF EndUnroll, SettleInv
  <2> QED BY <2>1, <2>2, <2>3, <2>4, <2>5, <2>6
<1>7. DoneInv'
  <2>1. CASE StartPass \/ SkipConst \/ EndPass
    BY <2>1, <1>0 DEF StartPass, SkipConst, EndPass, DoneInv
  <2>2. CASE EndOptimization
    BY <2>2, <1>0, SizeAssumption DEF EndOptimization, DoneInv, Elements
  <2>3. CASE EndReduce
    BY <2>3, <1>0, <1>1, SizeAssumption DEF EndReduce, DoneInv, IInv, Elements
  <2>4. CASE EndUnroll
    BY <2>4, <1>0, <1>1, SizeAssumption DEF EndUnroll, DoneInv, IInv, Elements
  <2> QED BY <2>1, <2>2, <2>3, <2>4
<1>8. PhaseInv'
  BY <1>0 DEF IInv, PhaseInv, StartPass, SkipConst, EndPass, EndOptimization,
              EndReduce, EndUnroll
<1>9. CommandsFit'
  BY <1>0 DEF IInv, CommandsFit
<1>10. SettledUnrolls'
  BY <1>0 DEF StartPass, SkipConst, EndPass, EndOptimization,
              EndReduce, EndUnroll, SettledUnrolls
<1> QED BY <1>0, <1>2, <1>4, <1>5, <1>6, <1>7, <1>8, <1>9, <1>10 DEF IInv

\* The optimizer narrows the range of a loose element.
LEMMA RecomputeStep ==
  ASSUME IInv, Recompute
  PROVE  IInv'
<1>0. /\ prog' = prog /\ tool' = tool /\ passes' = passes /\ settled' = settled
      /\ errors' = errors /\ phase = "optimize" /\ at \in Elements /\ ~ IsConst(at)
  BY DEF Recompute
<1>a. TypeOK /\ prog \in Programs /\ CmdInv /\ AlignInv /\ ~ Frozen
  BY <1>0 DEF IInv, Frozen
<1>b. /\ N \in Nat /\ Longest \in Nat /\ lo \in Sizes /\ hi \in Sizes
      /\ \A k \in Elements : lo[k] \in Nat /\ hi[k] \in Nat /\ lo[k] <= hi[k]
      /\ \A k \in Elements : /\ prog[k].kind = "cmd" => IsCommand(prog[k])
                             /\ prog[k].kind # "cmd" =>
                                  prog[k].kind = "align" /\ IsAlign(prog[k])
  BY <1>a, Basics
<1>1. /\ NewLo(at) \in 0..Longest /\ NewHi(at) \in 0..Longest
      /\ NewLo(at) <= NewHi(at) /\ Narrows(at)
  BY <1>0, <1>a, RecomputedNarrows
<1>2. /\ lo' = [lo EXCEPT ![at] = NewLo(at)]
      /\ hi' = [hi EXCEPT ![at] = NewHi(at)]
      /\ nshrinks' = IF lo' = lo /\ hi' = hi THEN nshrinks ELSE nshrinks + 1
      /\ at' = at + 1 /\ phase' = phase
  BY <1>1 DEF Recompute
<1>3. /\ lo' \in Sizes /\ hi' \in Sizes
      /\ lo'[at] = NewLo(at) /\ hi'[at] = NewHi(at)
      /\ \A k \in Elements : k # at => lo'[k] = lo[k] /\ hi'[k] = hi[k]
  BY <1>0, <1>1, <1>2, <1>b DEF Sizes
<1>4. /\ \A k \in Elements : lo'[k] <= hi'[k]
      /\ Within(lo', hi', lo, hi)
  BY <1>1, <1>3, <1>b DEF Within, Narrows
<1>5. at \in Nat /\ nshrinks \in Nat /\ nshrinks <= at - 1 /\ at <= N
  BY <1>0, <1>b DEF IInv, TypeOK, SettleInv, Elements
<1>6. TypeOK'
  <2>1. nshrinks' \in 0..N /\ at' \in 1..(N + 1)
    BY <1>b, <1>2, <1>5
  <2> QED BY <1>0, <1>2, <1>3, <1>4, <2>1 DEF IInv, TypeOK, Sizes
<1>7. ~ Frozen'
  BY <1>0, <1>2 DEF Frozen
<1>8. CmdInv'
  <2> SUFFICES ASSUME NEW k \in Elements, prog[k].kind = "cmd"
               PROVE  /\ prog[k].slot # 0 => lo'[k] = prog[k].slot /\ hi'[k] = prog[k].slot
                      /\ prog[k].slot = 0 => /\ CmdHi(prog[k], lo', hi') <= hi'[k]
                                             /\ lo'[k] <= CmdLo(prog[k], lo', hi')
    BY <1>0, <1>7 DEF CmdInv
  <2>1. /\ CmdLo(prog[k], lo, hi) <= CmdLo(prog[k], lo', hi')
        /\ CmdHi(prog[k], lo', hi') <= CmdHi(prog[k], lo, hi)
        /\ CmdLo(prog[k], lo, hi) \in 1..8 /\ CmdHi(prog[k], lo, hi) \in 1..8
        /\ CmdLo(prog[k], lo', hi') \in 1..8 /\ CmdHi(prog[k], lo', hi') \in 1..8
    BY <1>a, <1>3, <1>4, NarrowingKeepsCommands
  <2>2. CASE k = at
    <3>1. prog[k].slot = 0
      BY <1>0, <1>a, <2>2 DEF CmdInv, IsConst
    <3>2. lo'[k] = CmdLo(prog[k], lo, hi) /\ hi'[k] = CmdHi(prog[k], lo, hi)
      BY <1>3, <2>2 DEF NewLo, NewHi
    <3> QED BY <2>1, <3>1, <3>2
  <2>3. CASE k # at
    <3>1. lo'[k] = lo[k] /\ hi'[k] = hi[k]
      BY <1>3, <2>3
    <3>2. /\ prog[k].slot # 0 => lo[k] = prog[k].slot /\ hi[k] = prog[k].slot
          /\ prog[k].slot = 0 => /\ CmdHi(prog[k], lo, hi) <= hi[k]
                                 /\ lo[k] <= CmdLo(prog[k], lo, hi)
      BY <1>a DEF CmdInv
    <3> QED BY <1>b, <2>1, <3>1, <3>2
  <2> QED BY <2>2, <2>3
<1>9. ASSUME NEW k \in Elements, PadIsConst(k)
      PROVE  PadIsConst(k)' /\ Pad(prog[k], k, lo') = Pad(prog[k], k, lo)
  <2>1. \A j \in 1..(k - 1) : j \in Elements /\ j # at
    BY <1>0, <1>9, <1>b DEF PadIsConst, Elements
  <2>2. \A j \in 1..(k - 1) : lo'[j] = lo[j] /\ hi'[j] = hi[j]
    BY <1>3, <2>1
  <2>3. Pad(prog[k], k, lo') = Pad(prog[k], k, lo)
    BY <1>3, <1>b, <2>2, PadOfEqual
  <2> QED BY <1>0, <1>9, <2>2, <2>3 DEF PadIsConst, IsConst
<1>10. AlignInv'
  <2> SUFFICES ASSUME NEW k \in Elements, prog[k].kind = "align"
               PROVE  \/ lo'[k] = 0 /\ hi'[k] = prog[k].to - 1
                      \/ /\ PadIsConst(k)'
                         /\ lo'[k] = Pad(prog[k], k, lo') /\ hi'[k] = Pad(prog[k], k, lo')
    BY <1>0 DEF AlignInv
  <2>1. CASE k = at
    <3>1. /\ PadIsConst(k) => lo'[k] = Pad(prog[k], k, lo) /\ hi'[k] = Pad(prog[k], k, lo)
          /\ ~ PadIsConst(k) => lo'[k] = 0 /\ hi'[k] = prog[k].to - 1
      BY <1>3, <2>1 DEF NewLo, NewHi
    <3> QED BY <3>1, <1>9
  <2>2. CASE k # at
    <3>1. lo'[k] = lo[k] /\ hi'[k] = hi[k]
      BY <1>3, <2>2
    <3> QED BY <1>a, <1>9, <3>1 DEF AlignInv
  <2> QED BY <2>1, <2>2
<1>11. SettleInv'
  <2>1. ~ settled /\ (nshrinks = 0 => \A k \in Elements : k < at => Stable(k))
    BY <1>0 DEF IInv, SettleInv
  <2>2. nshrinks' <= at' - 1
    BY <1>2, <1>5
  <2>3. ASSUME nshrinks' = 0
        PROVE  \A k \in Elements : k < at' => Stable(k)'
    <3>1. lo' = lo /\ hi' = hi /\ nshrinks = 0
      BY <1>2, <1>5, <2>3
    <3>2. Stable(at)
      BY <1>3, <3>1 DEF Stable
    <3>3. \A k \in Elements : k < at + 1 => k < at \/ k = at
      BY <1>b, <1>5 DEF Elements
    <3>4. \A k \in Elements : Stable(k)' <=> Stable(k)
      BY <1>0, <3>1 DEF Stable, IsConst, NewLo, NewHi, PadIsConst
    <3> QED BY <1>2, <2>1, <3>1, <3>2, <3>3, <3>4
  <2> QED BY <1>0, <1>2, <2>1, <2>2, <2>3 DEF SettleInv
<1>12. DoneInv' /\ PhaseInv' /\ CommandsFit' /\ SettledUnrolls'
  BY <1>0, <1>2 DEF IInv, DoneInv, PhaseInv, CommandsFit, SettledUnrolls
<1> QED BY <1>0, <1>a, <1>6, <1>8, <1>10, <1>11, <1>12 DEF IInv

\* pass_unroll writes what fits, and aborts only where ast ran out of passes.
LEMMA UnrollStep ==
  ASSUME IInv, UnrollElement
  PROVE  IInv'
<1>0. /\ prog' = prog /\ tool' = tool /\ passes' = passes /\ settled' = settled
      /\ nshrinks' = nshrinks /\ lo' = lo /\ hi' = hi
      /\ phase = "unroll" /\ at \in Elements
  BY DEF UnrollElement, control
<1>a. TypeOK /\ prog \in Programs /\ CmdInv /\ AlignInv
  BY DEF IInv
<1>b. /\ N \in Nat /\ lo \in Sizes /\ hi \in Sizes
      /\ \A k \in Elements : lo[k] \in Nat /\ hi[k] \in Nat /\ lo[k] <= hi[k]
      /\ \A k \in Elements : /\ prog[k].kind = "cmd" => IsCommand(prog[k])
                             /\ prog[k].kind # "cmd" =>
                                  prog[k].kind = "align" /\ IsAlign(prog[k])
  BY <1>a, Basics
<1>1. \A k \in Elements : /\ Stable(k)' <=> Stable(k)
                          /\ IsConst(k)' <=> IsConst(k)
                          /\ PadIsConst(k)' <=> PadIsConst(k)
                          /\ BecomesBlock(k)' <=> BecomesBlock(k)
  BY <1>0 DEF Stable, IsConst, PadIsConst, BecomesBlock, ArgIsConst, NewLo, NewHi
<1>2. ASSUME BecomesBlock(at), ~ IsConst(at)
      PROVE  tool = "ast" /\ ~ settled
  <2>1. CASE tool = "lit"
    <3>1. Frozen
      BY <1>0, <2>1 DEF Frozen
    <3>2. prog[at].kind # "cmd"
      BY <1>0, <1>a, <1>2, <3>1 DEF CmdInv, IsConst
    <3>3. prog[at].kind = "align" /\ PadIsConst(at)
      BY <1>0, <1>2, <1>b, <3>2 DEF BecomesBlock
    <3>4. IsConst(at)
      BY <1>0, <2>1, <3>3 DEF IInv, DoneInv
    <3> QED BY <1>2, <3>4
  <2>2. CASE tool # "lit"
    <3>1. tool = "ast"
      BY <2>2, <1>a, ToolsAssumption DEF TypeOK
    <3>2. ASSUME settled PROVE FALSE
      <4>1. lo[at] = NewLo(at) /\ hi[at] = NewHi(at)
        BY <1>0, <1>2, <3>1, <3>2 DEF IInv, SettleInv, Stable
      <4>2. CASE prog[at].kind = "cmd"
        <5>1. IsCommand(prog[at]) /\ ArgIsConst(at)
          BY <1>0, <1>b, <1>2, <4>2 DEF BecomesBlock
        <5>2. CmdLo(prog[at], lo, hi) = CmdHi(prog[at], lo, hi)
          BY <1>b, <5>1, ConstArg DEF ArgIsConst, IsConst
        <5> QED BY <1>2, <4>1, <4>2, <5>2 DEF NewLo, NewHi, IsConst
      <4>3. CASE prog[at].kind # "cmd"
        <5>1. PadIsConst(at)
          BY <1>2, <4>3 DEF BecomesBlock
        <5> QED BY <1>2, <4>1, <4>3, <5>1 DEF NewLo, NewHi, IsConst
      <4> QED BY <4>2, <4>3
    <3> QED BY <3>1, <3>2
  <2> QED BY <2>1, <2>2
<1>3. ASSUME prog[at].kind = "cmd", prog[at].slot = 0, ArgIsConst(at), IsConst(at)
      PROVE  Fits(at)
  <2>1. IsCommand(prog[at])
    BY <1>0, <1>b, <1>3
  <2>2. CmdHi(prog[at], lo, hi) = cmd_size(ArgLo(prog[at], lo, hi))
    BY <1>b, <1>3, <2>1, ConstArg DEF ArgIsConst, IsConst
  <2>3. CmdHi(prog[at], lo, hi) <= hi[at]
    BY <1>0, <1>a, <1>3 DEF CmdInv
  <2> QED BY <1>3, <2>2, <2>3 DEF Fits, IsConst
<1>4. CASE BecomesBlock(at) /\ ~ IsConst(at)
  <2>1. phase' = "aborted" /\ at' = at /\ errors' = errors
    BY <1>4 DEF UnrollElement
  <2>2. TypeOK'
    BY <1>0, <1>a, <2>1 DEF TypeOK, Phases
  <2>3. ~ Frozen' /\ ~ Frozen
    BY <1>0, <1>2, <1>4, <2>1 DEF Frozen
  <2>4. CmdInv'
    BY <1>0, <1>a, <2>3 DEF CmdInv
  <2>5. AlignInv'
    BY <1>0, <1>1, <1>a DEF AlignInv
  <2>6. SettleInv' /\ DoneInv' /\ PhaseInv'
    BY <2>1 DEF SettleInv, DoneInv, PhaseInv
  <2>7. CommandsFit' /\ SettledUnrolls'
    BY <1>0, <1>2, <1>4, <2>1 DEF IInv, CommandsFit, SettledUnrolls
  <2> QED BY <1>0, <1>a, <2>2, <2>4, <2>5, <2>6, <2>7 DEF IInv
<1>5. CASE ~ (BecomesBlock(at) /\ ~ IsConst(at))
  <2>1. /\ phase' = phase /\ at' = at + 1
        /\ errors' = (errors \/ /\ prog[at].kind = "cmd"
                                /\ ArgIsConst(at) /\ ~ Fits(at))
    BY <1>5 DEF UnrollElement
  <2>2. TypeOK'
    <3>1. at' \in 1..(N + 1)
      BY <1>0, <1>b, <2>1 DEF Elements
    <3>2. errors' \in BOOLEAN
      BY <2>1, Zenon
    <3> QED BY <1>0, <1>a, <2>1, <3>1, <3>2 DEF TypeOK
  <2>3. Frozen' <=> Frozen
    BY <1>0, <2>1 DEF Frozen
  <2>4. CmdInv'
    BY <1>0, <1>a, <2>3 DEF CmdInv
  <2>5. AlignInv'
    BY <1>0, <1>1, <1>a DEF AlignInv
  <2>6. SettleInv' /\ PhaseInv'
    BY <1>0, <1>1, <2>1 DEF IInv, SettleInv, PhaseInv
  <2>7. DoneInv'
    <3>1. \A k \in Elements : k < at + 1 => k < at \/ k = at
      BY <1>0, <1>b DEF Elements
    <3> QED BY <1>0, <1>1, <1>5, <2>1, <3>1 DEF IInv, DoneInv
  <2>8. CommandsFit'
    <3>1. CASE prog[at].kind = "cmd" /\ ArgIsConst(at) /\ ~ Fits(at)
      <4>1. IsConst(at)
        BY <1>5, <3>1 DEF BecomesBlock
      <4>2. prog[at].slot # 0
        BY <1>3, <3>1, <4>1
      <4> QED BY <1>0, <3>1, <4>2 DEF CommandsFit
    <3>2. CASE ~ (prog[at].kind = "cmd" /\ ArgIsConst(at) /\ ~ Fits(at))
      <4>1. errors' => errors
        BY <2>1, <3>2, Zenon
      <4> QED BY <1>0, <4>1 DEF IInv, CommandsFit
    <3> QED BY <3>1, <3>2
  <2>9. SettledUnrolls'
    BY <1>0, <2>1 DEF SettledUnrolls
  <2> QED BY <1>0, <1>a, <2>2, <2>4, <2>5, <2>6, <2>7, <2>8, <2>9 DEF IInv
<1> QED BY <1>4, <1>5

\* Freezing narrows every command to its upper bound.
LEMMA FreezeStep ==
  ASSUME IInv, pass_freeze
  PROVE  IInv'
<1>0. /\ prog' = prog /\ tool' = tool /\ passes' = passes /\ settled' = settled
      /\ nshrinks' = nshrinks /\ errors' = errors
      /\ phase = "freeze" /\ phase' = "reduce" /\ at' = 1
  BY DEF pass_freeze, control
<1>a. TypeOK /\ prog \in Programs /\ CmdInv /\ AlignInv /\ tool = "lit" /\ ~ Frozen
  BY <1>0 DEF IInv, PhaseInv, Frozen
<1>b. /\ N \in Nat /\ Longest \in Nat /\ lo \in Sizes /\ hi \in Sizes
      /\ \A k \in Elements : lo[k] \in Nat /\ hi[k] \in Nat /\ lo[k] <= hi[k]
      /\ \A k \in Elements : lo[k] \in 0..Longest /\ hi[k] \in 0..Longest
  BY <1>a, Basics DEF TypeOK
<1>1. /\ lo' = [k \in Elements |-> IF prog[k].kind = "cmd" THEN hi[k] ELSE lo[k]]
      /\ hi' = [k \in Elements |-> IF prog[k].kind = "cmd" THEN hi[k] ELSE hi[k]]
  BY DEF pass_freeze, FrozenSize
<1>2. /\ lo' \in Sizes /\ hi' \in Sizes
      /\ \A k \in Elements : /\ hi'[k] = hi[k]
                             /\ prog[k].kind = "cmd" => lo'[k] = hi[k]
                             /\ prog[k].kind # "cmd" => lo'[k] = lo[k]
  BY <1>1, <1>b DEF Sizes
<1>3. /\ \A k \in Elements : lo'[k] <= hi'[k]
      /\ Within(lo', hi', lo, hi)
  BY <1>2, <1>b DEF Within
<1>4. TypeOK'
  <2>1. at' \in 1..(N + 1)
    BY <1>0, <1>b
  <2> QED BY <1>0, <1>a, <1>2, <1>3, <2>1 DEF TypeOK, Sizes, Phases
<1>5. CmdInv'
  <2> SUFFICES ASSUME NEW k \in Elements, prog[k].kind = "cmd"
               PROVE  /\ prog[k].slot # 0 => lo'[k] = prog[k].slot /\ hi'[k] = prog[k].slot
                      /\ prog[k].slot = 0 => CmdHi(prog[k], lo', hi') <= hi'[k]
                      /\ lo'[k] = hi'[k]
    BY <1>0, <1>a DEF CmdInv, Frozen
  <2>1. /\ CmdHi(prog[k], lo', hi') <= CmdHi(prog[k], lo, hi)
        /\ CmdHi(prog[k], lo, hi) \in 1..8 /\ CmdHi(prog[k], lo', hi') \in 1..8
    BY <1>a, <1>2, <1>3, NarrowingKeepsCommands
  <2>2. /\ prog[k].slot # 0 => lo[k] = prog[k].slot /\ hi[k] = prog[k].slot
        /\ prog[k].slot = 0 => CmdHi(prog[k], lo, hi) <= hi[k]
    BY <1>a DEF CmdInv
  <2> QED BY <1>b, <1>2, <2>1, <2>2
<1>6. ASSUME NEW k \in Elements, PadIsConst(k)
      PROVE  PadIsConst(k)' /\ Pad(prog[k], k, lo') = Pad(prog[k], k, lo)
  <2>1. \A j \in 1..(k - 1) : j \in Elements /\ lo[j] = hi[j]
    BY <1>6, <1>b DEF PadIsConst, IsConst, Elements
  <2>2. \A j \in 1..(k - 1) : lo'[j] = lo[j] /\ hi'[j] = hi[j]
    BY <1>2, <2>1
  <2>3. Pad(prog[k], k, lo') = Pad(prog[k], k, lo)
    BY <1>2, <1>b, <2>2, PadOfEqual
  <2> QED BY <1>0, <1>6, <2>1, <2>2, <2>3 DEF PadIsConst, IsConst
<1>7. AlignInv'
  <2> SUFFICES ASSUME NEW k \in Elements, prog[k].kind = "align"
               PROVE  \/ lo'[k] = 0 /\ hi'[k] = prog[k].to - 1
                      \/ /\ PadIsConst(k)'
                         /\ lo'[k] = Pad(prog[k], k, lo') /\ hi'[k] = Pad(prog[k], k, lo')
    BY <1>0 DEF AlignInv
  <2>1. lo'[k] = lo[k] /\ hi'[k] = hi[k]
    BY <1>2
  <2> QED BY <1>a, <1>6, <2>1 DEF AlignInv
<1>8. DoneInv'
  BY <1>0, <1>b DEF DoneInv, Elements
<1>9. SettleInv' /\ PhaseInv' /\ CommandsFit' /\ SettledUnrolls'
  BY <1>0, <1>a DEF IInv, SettleInv, PhaseInv, CommandsFit, SettledUnrolls
<1> QED BY <1>0, <1>a, <1>4, <1>5, <1>7, <1>8, <1>9 DEF IInv

\* pass_reduce fills an .align in, within the range it had.
LEMMA ReduceStep ==
  ASSUME IInv, ReduceElement
  PROVE  IInv'
<1>0. /\ prog' = prog /\ tool' = tool /\ passes' = passes /\ settled' = settled
      /\ nshrinks' = nshrinks /\ errors' = errors
      /\ phase = "reduce" /\ phase' = "reduce" /\ at' = at + 1 /\ at \in Elements
  BY DEF ReduceElement, control
<1>a. TypeOK /\ prog \in Programs /\ CmdInv /\ AlignInv /\ tool = "lit" /\ Frozen
  BY <1>0 DEF IInv, PhaseInv, Frozen
<1>b. /\ N \in Nat /\ Longest \in Nat /\ Longest >= 24 /\ lo \in Sizes /\ hi \in Sizes
      /\ \A k \in Elements : lo[k] \in Nat /\ hi[k] \in Nat /\ lo[k] <= hi[k]
      /\ \A k \in Elements : prog[k].kind = "align" => IsAlign(prog[k])
  BY <1>a, Basics DEF TypeOK
<1> DEFINE p == Pad(prog[at], at, lo)
           filled == prog[at].kind = "align" /\ PadIsConst(at)
<1>1. filled => /\ p \in 0..Longest /\ lo[at] <= p /\ p <= hi[at]
                /\ lo' = [lo EXCEPT ![at] = p] /\ hi' = [hi EXCEPT ![at] = p]
  <2> SUFFICES ASSUME filled
               PROVE  /\ p \in 0..Longest /\ lo[at] <= p /\ p <= hi[at]
                      /\ lo' = [lo EXCEPT ![at] = p] /\ hi' = [hi EXCEPT ![at] = p]
    OBVIOUS
  <2>1. IsAlign(prog[at]) /\ prog[at].to \in 2..16
    BY <1>0, <1>b DEF IsAlign
  <2>2. p \in 0..(prog[at].to - 1)
    BY <1>0, <1>b, <2>1, PadType
  <2>3. \/ lo[at] = 0 /\ hi[at] = prog[at].to - 1
        \/ lo[at] = p /\ hi[at] = p
    BY <1>0, <1>a DEF AlignInv
  <2>4. lo' = [lo EXCEPT ![at] = p] /\ hi' = [hi EXCEPT ![at] = p]
    BY DEF ReduceElement
  <2> HIDE DEF p
  <2> QED BY <1>b, <2>1, <2>2, <2>3, <2>4
<1>2. ~ filled => lo' = lo /\ hi' = hi
  BY DEF ReduceElement
<1> HIDE DEF p
<1>3. /\ lo' \in Sizes /\ hi' \in Sizes
      /\ \A k \in Elements : k # at => lo'[k] = lo[k] /\ hi'[k] = hi[k]
      /\ filled => lo'[at] = p /\ hi'[at] = p
      /\ ~ filled => lo'[at] = lo[at] /\ hi'[at] = hi[at]
  BY <1>0, <1>1, <1>2, <1>b DEF Sizes
<1>4. /\ \A k \in Elements : lo'[k] <= hi'[k]
      /\ Within(lo', hi', lo, hi)
  BY <1>0, <1>1, <1>3, <1>b DEF Within
<1>5. TypeOK'
  <2>1. at' \in 1..(N + 1)
    BY <1>0, <1>b DEF Elements
  <2> QED BY <1>0, <1>a, <1>3, <1>4, <2>1 DEF TypeOK, Sizes, Phases
<1>6. CmdInv'
  <2> SUFFICES ASSUME NEW k \in Elements, prog[k].kind = "cmd"
               PROVE  /\ prog[k].slot # 0 => lo'[k] = prog[k].slot /\ hi'[k] = prog[k].slot
                      /\ prog[k].slot = 0 => CmdHi(prog[k], lo', hi') <= hi'[k]
                      /\ lo'[k] = hi'[k]
    BY <1>0, <1>a DEF CmdInv, Frozen
  <2>1. /\ CmdHi(prog[k], lo', hi') <= CmdHi(prog[k], lo, hi)
        /\ CmdHi(prog[k], lo, hi) \in 1..8 /\ CmdHi(prog[k], lo', hi') \in 1..8
    BY <1>a, <1>3, <1>4, NarrowingKeepsCommands
  <2>2. /\ prog[k].slot # 0 => lo[k] = prog[k].slot /\ hi[k] = prog[k].slot
        /\ prog[k].slot = 0 => CmdHi(prog[k], lo, hi) <= hi[k]
        /\ lo[k] = hi[k]
    BY <1>a DEF CmdInv
  <2>3. lo'[k] = lo[k] /\ hi'[k] = hi[k]
    BY <1>3
  <2> QED BY <1>b, <2>1, <2>2, <2>3
<1>7. ASSUME NEW k \in Elements, PadIsConst(k)
      PROVE  PadIsConst(k)' /\ Pad(prog[k], k, lo') = Pad(prog[k], k, lo)
  <2>1. \A j \in 1..(k - 1) : j \in Elements /\ lo[j] = hi[j]
    BY <1>7, <1>b DEF PadIsConst, IsConst, Elements
  <2>2. \A j \in 1..(k - 1) : lo'[j] = lo[j] /\ hi'[j] = hi[j]
    BY <1>0, <1>b, <1>1, <1>3, <2>1
  <2>3. Pad(prog[k], k, lo') = Pad(prog[k], k, lo)
    BY <1>3, <1>b, <2>2, PadOfEqual
  <2> QED BY <1>0, <1>7, <2>1, <2>2, <2>3 DEF PadIsConst, IsConst
<1>8. AlignInv'
  <2> SUFFICES ASSUME NEW k \in Elements, prog[k].kind = "align"
               PROVE  \/ lo'[k] = 0 /\ hi'[k] = prog[k].to - 1
                      \/ /\ PadIsConst(k)'
                         /\ lo'[k] = Pad(prog[k], k, lo') /\ hi'[k] = Pad(prog[k], k, lo')
    BY <1>0 DEF AlignInv
  <2>1. CASE k = at /\ filled
    BY <1>3, <1>7, <2>1 DEF p
  <2>2. CASE ~ (k = at /\ filled)
    <3>1. lo'[k] = lo[k] /\ hi'[k] = hi[k]
      BY <1>3, <2>2
    <3> QED BY <1>a, <1>7, <3>1 DEF AlignInv
  <2> QED BY <2>1, <2>2
<1>9. DoneInv'
  <2> SUFFICES ASSUME NEW k \in Elements, k < at + 1,
                      prog[k].kind = "align", PadIsConst(k)'
               PROVE  lo'[k] = hi'[k]
    BY <1>0 DEF DoneInv, IsConst
  <2>1. k < at \/ k = at
    BY <1>0, <1>b DEF Elements
  <2>2. \A j \in 1..(k - 1) : j \in Elements /\ j # at
    BY <1>0, <1>b, <2>1 DEF Elements
  <2>3. PadIsConst(k)
    BY <1>0, <1>3, <2>2 DEF PadIsConst, IsConst
  <2>4. CASE k = at
    BY <1>3, <2>3, <2>4
  <2>5. CASE k # at
    <3>1. IsConst(k)
      BY <1>0, <1>a, <2>1, <2>3, <2>5 DEF IInv, DoneInv
    <3> QED BY <1>3, <2>5, <3>1 DEF IsConst
  <2> QED BY <2>4, <2>5
<1>10. SettleInv' /\ PhaseInv' /\ CommandsFit' /\ SettledUnrolls'
  BY <1>0, <1>a DEF IInv, SettleInv, PhaseInv, CommandsFit, SettledUnrolls
<1> QED BY <1>0, <1>a, <1>5, <1>6, <1>8, <1>9, <1>10 DEF IInv

-----------------------------------------------------------------------------
(* The theorems.                                                           *)

\* Every step of main's pass sequence keeps the invariant.
LEMMA NextIInv == IInv /\ [Next]_vars => IInv'
<1> SUFFICES ASSUME IInv, [Next]_vars PROVE IInv'
  OBVIOUS
<1>1. CASE StartPass \/ SkipConst \/ EndPass \/ EndOptimization
           \/ EndReduce \/ EndUnroll
  BY <1>1, ControlStep
<1>2. CASE Recompute
  BY <1>2, RecomputeStep
<1>3. CASE pass_freeze
  BY <1>3, FreezeStep
<1>4. CASE ReduceElement
  BY <1>4, ReduceStep
<1>5. CASE UnrollElement
  BY <1>5, UnrollStep
<1>6. CASE UNCHANGED vars
  BY <1>6 DEF vars, IInv, TypeOK, CmdInv, AlignInv, SettleInv, DoneInv, PhaseInv,
              CommandsFit, SettledUnrolls, Frozen, Stable, IsConst, PadIsConst,
              BecomesBlock, ArgIsConst, NewLo, NewHi
<1> QED BY <1>1, <1>2, <1>3, <1>4, <1>5, <1>6 DEF Next

\* The strengthened invariant of the optimizer and of the passes after it.
THEOREM Inductive == Spec => []IInv
<1> QED BY InitIInv, NextIInv, PTL DEF Spec

\* Sizes stay within bounds and every range is one.
THEOREM TypeCorrect == Spec => []TypeOK
<1>1. IInv => TypeOK
  BY DEF IInv
<1> QED BY Inductive, <1>1, PTL

\* The assertions `ranges should never grow' of pass_optimize_offsets hold.
THEOREM RangesNarrow == Spec => []RangesNeverGrow
<1>1. IInv => RangesNeverGrow
  <2> SUFFICES ASSUME IInv, phase = "optimize", at \in Elements, ~ IsConst(at)
               PROVE  Narrows(at)
    BY DEF RangesNeverGrow
  <2>1. ~ Frozen
    BY DEF Frozen
  <2> QED BY <2>1, RecomputedNarrows DEF IInv
<1> QED BY Inductive, <1>1, PTL

\* No command is longer than the space left for it, unless by its .slot.
THEOREM SpaceSuffices == Spec => []CommandsFit
<1>1. IInv => CommandsFit
  BY DEF IInv
<1> QED BY Inductive, <1>1, PTL

\* Only ast, and only with the pass limit reached, trips the assertion of
\* element_block_make_space.
THEOREM SettledNeverAborts == Spec => []SettledUnrolls
<1>1. IInv => SettledUnrolls
  BY DEF IInv
<1> QED BY Inductive, <1>1, PTL

\* Commands ast completes are as short as their arguments allow.
THEOREM ShortestCode == Spec => []NoWastedPrefix
<1>1. IInv => NoWastedPrefix
  <2> SUFFICES ASSUME IInv, NEW k \in Elements, phase = "written", tool = "ast",
                      prog[k].kind = "cmd", prog[k].slot = 0, ArgIsConst(k)
               PROVE  cmd_size(ArgLo(prog[k], lo, hi)) = lo[k]
    BY DEF NoWastedPrefix
  <2>1. /\ lo \in Sizes /\ hi \in Sizes /\ IsCommand(prog[k])
        /\ \A j \in Elements : lo[j] \in Nat /\ hi[j] \in Nat /\ lo[j] <= hi[j]
        /\ Within(lo, hi, lo, hi)
    BY Basics DEF IInv
  <2>2. /\ CmdLo(prog[k], lo, hi) = cmd_size(ArgLo(prog[k], lo, hi))
        /\ CmdHi(prog[k], lo, hi) = cmd_size(ArgLo(prog[k], lo, hi))
    BY <2>1, ConstArg DEF ArgIsConst, IsConst
  <2>3. CmdHi(prog[k], lo, hi) <= hi[k] /\ lo[k] <= CmdLo(prog[k], lo, hi)
    BY DEF IInv, CmdInv, Frozen
  <2>4. lo[k] = hi[k]
    BY DEF IInv, DoneInv, BecomesBlock, IsConst
  <2>5. CmdHi(prog[k], lo, hi) \in 1..8
    BY <2>1, CmdNarrows
  <2> QED BY <2>1, <2>2, <2>3, <2>4, <2>5
<1> QED BY Inductive, <1>1, PTL

-----------------------------------------------------------------------------
(* Termination without a limit: what the passes remove.                    *)

\* Where one size is smaller, and none greater, the room is smaller.
LEMMA RoomStrict ==
  ASSUME NEW s \in Sizes, NEW t \in Sizes, NEW j \in Elements,
         \A k \in Elements : s[k] <= t[k], s[j] < t[j]
  PROVE  Room(Elements, s) < Room(Elements, t)
<1>0. N \in Nat /\ Longest \in Nat
  BY SizeAssumption, WidestAssumption DEF Longest
<1>1. /\ Room(Elements, s) \in Nat /\ Room(Elements, t) \in Nat
      /\ Room(Elements, s) <= Room(Elements, t)
  BY RoomMonotonic
<1>2. IsFiniteSet(Bytes(Elements, t)) /\ Bytes(Elements, s) \subseteq Bytes(Elements, t)
  <2>1. \A i, k \in Int : IsFiniteSet(i..k)
    BY FS_Interval
  <2>2. IsFiniteSet(Elements) /\ IsFiniteSet(1..Longest)
    BY <1>0, <2>1 DEF Elements
  <2>3. IsFiniteSet(Elements \X (1..Longest))
    BY <2>2, FS_Product
  <2>4. Bytes(Elements, t) \subseteq Elements \X (1..Longest)
    BY DEF Bytes
  <2>5. ASSUME NEW b \in Elements \X (1..Longest), b[2] <= s[b[1]]
        PROVE  b[2] <= t[b[1]]
    <3>1. b[1] \in Elements /\ b[2] \in Int
      BY <1>0
    <3>2. s[b[1]] \in Int /\ t[b[1]] \in Int
      BY <3>1, <1>0 DEF Sizes
    <3> QED BY <2>5, <3>1, <3>2
  <2> QED BY <2>3, <2>4, <2>5, FS_Subset DEF Bytes
<1>3. Bytes(Elements, s) # Bytes(Elements, t)
  <2>1. s[j] \in 0..Longest /\ t[j] \in 0..Longest
    BY DEF Sizes
  <2>2. t[j] \in 1..Longest
    BY <1>0, <2>1
  <2>3. <<j, t[j]>> \in Bytes(Elements, t)
    BY <1>0, <2>1, <2>2 DEF Bytes
  <2>4. <<j, t[j]>> \notin Bytes(Elements, s)
    BY <1>0, <2>1, <2>2 DEF Bytes
  <2> QED BY <2>3, <2>4
<1>4. Room(Elements, s) # Room(Elements, t)
  BY <1>2, <1>3, FS_Subset DEF Room
<1> QED BY <1>1, <1>4

\* Narrowing a range removes slack.
LEMMA SlackShrinks ==
  ASSUME NEW l \in Sizes, NEW h \in Sizes, NEW l1 \in Sizes, NEW h1 \in Sizes,
         Within(l1, h1, l, h)
  PROVE  /\ Slack(l, h) \in Int /\ Slack(l1, h1) \in Int
         /\ Slack(l1, h1) <= Slack(l, h)
         /\ l1 # l \/ h1 # h => Slack(l1, h1) < Slack(l, h)
<1>0. N \in Nat /\ Longest \in Nat /\ Elements \in SUBSET Elements
  BY SizeAssumption, WidestAssumption DEF Longest
<1>1. /\ \A k \in Elements : l[k] <= l1[k]
      /\ \A k \in Elements : h1[k] <= h[k]
  BY DEF Within
<1>2. /\ Room(Elements, l) \in Nat /\ Room(Elements, l1) \in Nat
      /\ Room(Elements, l) <= Room(Elements, l1)
  BY <1>1, RoomMonotonic
<1>3. /\ Room(Elements, h) \in Nat /\ Room(Elements, h1) \in Nat
      /\ Room(Elements, h1) <= Room(Elements, h)
  BY <1>1, RoomMonotonic
<1>4. ASSUME l1 # l  PROVE Room(Elements, l) < Room(Elements, l1)
  <2>1. PICK j \in Elements : l1[j] # l[j]
    BY <1>4 DEF Sizes
  <2>2. l[j] < l1[j]
    BY <1>0, <1>1, <2>1 DEF Sizes
  <2> QED BY <1>1, <2>2, RoomStrict
<1>5. ASSUME h1 # h  PROVE Room(Elements, h1) < Room(Elements, h)
  <2>1. PICK j \in Elements : h1[j] # h[j]
    BY <1>5 DEF Sizes
  <2>2. h1[j] < h[j]
    BY <1>0, <1>1, <2>1 DEF Sizes
  <2> QED BY <1>1, <2>2, RoomStrict
<1> QED BY <1>2, <1>3, <1>4, <1>5 DEF Slack

EmittedSlack == Slack([k \in Elements |-> EmittedLo(prog[k])],
                      [k \in Elements |-> EmittedHi(prog[k])])

\* Every pass but the running one has paid off, and the running one has if
\* it has narrowed something.
PayInv ==
  /\ phase = "between" /\ ~ settled => passes <= EmittedSlack - Slack(lo, hi)
  /\ phase = "optimize" =>
       passes - (IF nshrinks = 0 THEN 1 ELSE 0) <= EmittedSlack - Slack(lo, hi)

\* At first there is all the slack there will be.
LEMMA InitPay == Init => PayInv
<1> SUFFICES ASSUME Init PROVE PayInv
  OBVIOUS
<1>1. IInv
  BY InitIInv
<1>2. lo \in Sizes /\ hi \in Sizes /\ Within(lo, hi, lo, hi)
  BY <1>1, Basics DEF IInv
<1>3. Slack(lo, hi) \in Int
  BY <1>2, SlackShrinks
<1>4. EmittedSlack = Slack(lo, hi) /\ phase = "between" /\ passes = 0
  BY DEF Init, EmittedSlack
<1> QED BY <1>3, <1>4 DEF PayInv

\* A step of main or of a pass.
LEMMA NextPay == IInv /\ PayInv /\ [Next]_vars => PayInv'
<1> SUFFICES ASSUME IInv, PayInv, [Next]_vars PROVE PayInv'
  OBVIOUS
<1>0. /\ TypeOK /\ prog \in Programs
      /\ lo \in Sizes /\ hi \in Sizes /\ Within(lo, hi, lo, hi)
      /\ passes \in Nat /\ nshrinks \in Nat
  BY Basics, SizeAssumption DEF IInv, TypeOK
<1>1. Slack(lo, hi) \in Int
  BY <1>0, SlackShrinks
<1>2. EmittedSlack \in Int
  <2> DEFINE l == [k \in Elements |-> EmittedLo(prog[k])]
             h == [k \in Elements |-> EmittedHi(prog[k])]
  <2>0. /\ Longest \in Nat /\ Longest >= 24 /\ Widest \in Nat
        /\ Longest = Widest + 16 /\ CMD_MAXLEN = 8
    BY WidestAssumption DEF Longest, CMD_MAXLEN
  <2>1. \A k \in Elements : IsCommand(prog[k]) \/ IsAlign(prog[k])
    BY <1>0, ProgramsAssumption
  <2>2. ASSUME NEW k \in Elements
        PROVE  EmittedLo(prog[k]) \in 0..Longest /\ EmittedHi(prog[k]) \in 0..Longest
    <3>1. CASE IsCommand(prog[k])
      BY <2>0, <3>1 DEF IsCommand, EmittedLo, EmittedHi
    <3>2. CASE IsAlign(prog[k])
      BY <2>0, <3>2 DEF IsAlign, EmittedLo, EmittedHi
    <3> QED BY <2>1, <3>1, <3>2
  <2>3. l \in Sizes /\ h \in Sizes
    BY <2>2 DEF Sizes
  <2>4. \A k \in Elements : l[k] <= l[k] /\ h[k] <= h[k]
    BY <2>0, <2>2
  <2>5. EmittedSlack = Slack(l, h)
    BY DEF EmittedSlack
  <2> HIDE DEF l, h
  <2>6. Within(l, h, l, h)
    BY <2>4 DEF Within
  <2>7. Slack(l, h) \in Int
    BY <2>3, <2>6, SlackShrinks
  <2> QED BY <2>5, <2>7
<1>3. prog' = prog
  BY DEF Next, vars, StartPass, SkipConst, Recompute, EndPass, EndOptimization,
         pass_freeze, ReduceElement, EndReduce, UnrollElement, EndUnroll
<1>4. EmittedSlack' = EmittedSlack
  BY <1>3 DEF EmittedSlack
<1>5. CASE Recompute
  <2>1. /\ phase = "optimize" /\ passes' = passes /\ at \in Elements /\ ~ IsConst(at)
    BY <1>5 DEF Recompute
  <2>2. /\ NewLo(at) \in 0..Longest /\ NewHi(at) \in 0..Longest
        /\ NewLo(at) <= NewHi(at) /\ Narrows(at)
    BY <1>0, <2>1, RecomputedNarrows DEF IInv, Frozen
  <2>3. /\ lo' = [lo EXCEPT ![at] = NewLo(at)]
        /\ hi' = [hi EXCEPT ![at] = NewHi(at)]
        /\ nshrinks' = IF lo' = lo /\ hi' = hi THEN nshrinks ELSE nshrinks + 1
        /\ phase' = "optimize"
    BY <1>5, <2>1, <2>2 DEF Recompute
  <2>4. lo' \in Sizes /\ hi' \in Sizes
    BY <1>0, <2>1, <2>2, <2>3 DEF Sizes
  <2>5. Within(lo', hi', lo, hi)
    BY <1>0, <2>1, <2>2, <2>3 DEF Within, Narrows, Sizes
  <2>6. /\ Slack(lo', hi') \in Int /\ Slack(lo', hi') <= Slack(lo, hi)
        /\ lo' # lo \/ hi' # hi => Slack(lo', hi') < Slack(lo, hi)
    BY <1>0, <2>4, <2>5, SlackShrinks
  <2>7. passes - (IF nshrinks = 0 THEN 1 ELSE 0) <= EmittedSlack - Slack(lo, hi)
    BY <2>1 DEF PayInv
  <2>8. passes - (IF nshrinks' = 0 THEN 1 ELSE 0) <= EmittedSlack - Slack(lo', hi')
    <3>1. CASE lo' = lo /\ hi' = hi
      BY <3>1, <2>3, <2>7
    <3>2. CASE ~ (lo' = lo /\ hi' = hi)
      BY <3>2, <2>3, <2>6, <2>7, <1>0, <1>1, <1>2
    <3> QED BY <3>1, <3>2
  <2> QED BY <1>4, <2>1, <2>3, <2>8 DEF PayInv
<1>6. CASE StartPass \/ SkipConst \/ EndPass
  <2>1. lo' = lo /\ hi' = hi
    BY <1>6 DEF StartPass, SkipConst, EndPass
  <2>2. CASE StartPass
    BY <1>0, <1>1, <1>2, <1>4, <2>1, <2>2 DEF StartPass, PayInv
  <2>3. CASE SkipConst
    BY <1>4, <2>1, <2>3 DEF SkipConst, PayInv, control
  <2>4. CASE EndPass
    <3>1. /\ phase = "optimize" /\ phase' = "between" /\ passes' = passes
          /\ settled' = (nshrinks = 0)
      BY <2>4 DEF EndPass
    <3>2. nshrinks # 0 => passes <= EmittedSlack - Slack(lo, hi)
      BY <1>0, <3>1 DEF PayInv
    <3>3. ~ settled' => nshrinks # 0
      BY <3>1, Zenon
    <3> QED BY <1>4, <2>1, <3>1, <3>2, <3>3 DEF PayInv
  <2> QED BY <1>6, <2>2, <2>3, <2>4
<1>7. CASE \/ EndOptimization \/ pass_freeze \/ ReduceElement \/ EndReduce
           \/ UnrollElement \/ EndUnroll
  BY <1>7 DEF PayInv, EndOptimization, pass_freeze, ReduceElement, EndReduce,
       UnrollElement, EndUnroll
<1>8. CASE UNCHANGED vars
  BY <1>4, <1>8 DEF vars, PayInv
<1> QED BY <1>5, <1>6, <1>7, <1>8 DEF Next

\* As long as the passes go on, they have removed at least as many bytes of
\* uncertainty as there were passes: there are never more of them than that.
THEOREM PassesBounded == Spec => []PassesPayOff
<1>1. PayInv => PassesPayOff
  BY DEF PayInv, PassesPayOff, EmittedSlack
<1> QED BY Inductive, InitPay, NextPay, <1>1, PTL DEF Spec
=============================================================================
