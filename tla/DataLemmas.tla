------------------------------ MODULE DataLemmas ------------------------------
(***************************************************************************)
(* Induction over the natural numbers in terms of sets, what follows from  *)
(* it about sequences, and the size of a command.                          *)
(***************************************************************************)
EXTENDS CmdCode, SequencesExt, FiniteSetTheorems, SequenceTheorems,
        WellFoundedInduction, TLAPS

\* A set of natural numbers that is not empty has a least member.
LEMMA LeastNat ==
  ASSUME NEW T \in SUBSET Nat, T # {}
  PROVE  \E x \in T : \A y \in T : x <= y
<1> DEFINE R == OpToRel(<, Nat)
<1>1. IsWellFoundedOn(R, Nat)
  BY NatLessThanWellFounded
<1>2. \A x, y \in Nat : <<y, x>> \in R <=> y < x
  BY DEF OpToRel
<1> HIDE DEF R
<1>3. PICK x \in T : \A y \in T : ~ (<<y, x>> \in R)
  BY <1>1, WFMin
<1>4. ASSUME NEW y \in T  PROVE x <= y
  <2>1. x \in Nat /\ y \in Nat
    OBVIOUS
  <2>2. ~ (y < x)
    BY <1>2, <1>3, <2>1
  <2> QED
    BY <2>1, <2>2
<1> QED
  BY <1>4

\* A set that holds 0 and the successors of its members holds all of Nat.
LEMMA SetInduction ==
  ASSUME NEW S \in SUBSET Nat, 0 \in S, \A n \in S : n + 1 \in S
  PROVE  S = Nat
<1> SUFFICES ASSUME Nat \ S # {}  PROVE FALSE
  OBVIOUS
<1>1. PICK x \in Nat \ S : \A y \in Nat \ S : x <= y
  BY LeastNat
<1>2. x # 0 /\ x - 1 \in S
  BY <1>1
<1> QED
  BY <1>1, <1>2

-----------------------------------------------------------------------------
(* Concatenation of many sequences *)

\* It does not matter how concatenations are grouped.
Groups(D) == \A a, b, c \in Seq(D) : (a \o b) \o c = a \o (b \o c)

LEMMA ConcatGroups == \A D : Groups(D)
BY ConcatAssociative DEF Groups

\* The recursion inside FlattenSeq has a solution.
LEMMA FlattenExists ==
  ASSUME NEW D, NEW s \in Seq(Seq(D))
  PROVE  \E f \in [1..Len(s) -> Seq(D)] :
           f = [i \in 1..Len(s) |-> IF i = 1 THEN s[i] ELSE f[i-1] \o s[i]]
<1> DEFINE Upto(n) == \E f \in [1..n -> Seq(D)] : \A i \in 1..n :
                         f[i] = IF i = 1 THEN s[i] ELSE f[i-1] \o s[i]
           T == {n \in Nat : n <= Len(s) => Upto(n)}
<1>0. Len(s) \in Nat /\ \A i \in 1..Len(s) : s[i] \in Seq(D)
  OBVIOUS
<1>1. 0 \in T
  <2>1. [i \in 1..0 |-> <<>>] \in [1..0 -> Seq(D)]
    OBVIOUS
  <2>2. \A i \in 1..0 : FALSE
    OBVIOUS
  <2>3. Upto(0)
    BY <2>1, <2>2
  <2> QED
    BY <2>3
<1>2. ASSUME NEW n \in T  PROVE n + 1 \in T
  <2>0. n \in Nat /\ (n <= Len(s) => Upto(n))
    OBVIOUS
  <2> HIDE DEF Upto
  <2> SUFFICES ASSUME n + 1 <= Len(s)  PROVE Upto(n + 1)
    BY <2>0
  <2>1. n \in Nat /\ n <= Len(s) /\ Upto(n)
    BY <1>0, <2>0
  <2>2. PICK f \in [1..n -> Seq(D)] : \A i \in 1..n :
                         f[i] = IF i = 1 THEN s[i] ELSE f[i-1] \o s[i]
    BY <2>1 DEF Upto
  <2> DEFINE last == IF n = 0 THEN s[1] ELSE f[n] \o s[n+1]
             g == [i \in 1..(n+1) |-> IF i = n + 1 THEN last ELSE f[i]]
  <2>3. s[n+1] \in Seq(D)
    BY <1>0, <2>1
  <2>4. last \in Seq(D)
    <3>1. CASE n = 0
      BY <2>3, <3>1
    <3>2. CASE n # 0
      <4>1. f[n] \in Seq(D)
        BY <2>1, <3>2
      <4> QED
        BY <2>3, <3>2, <4>1
    <3> QED
      BY <3>1, <3>2
  <2>5. ASSUME NEW i \in 1..(n+1)
        PROVE  g[i] = IF i = 1 THEN s[i] ELSE g[i-1] \o s[i]
    <3>1. CASE i = n + 1
      <4>1. CASE n = 0
        BY <2>1, <3>1, <4>1
      <4>2. CASE n # 0
        <5>1. i # 1 /\ i - 1 = n /\ n \in 1..(n+1) /\ n # n + 1
          BY <2>1, <3>1, <4>2
        <5>2. g[i-1] = f[n] /\ g[i] = last
          BY <3>1, <5>1
        <5> QED
          BY <3>1, <4>2, <5>1, <5>2
      <4> QED
        BY <4>1, <4>2
    <3>2. CASE i # n + 1
      <4>1. i \in 1..n /\ g[i] = f[i]
        BY <2>1, <3>2
      <4>2. i # 1 => i - 1 \in 1..(n+1) /\ i - 1 # n + 1
        BY <2>1, <3>2
      <4>3. i # 1 => g[i-1] = f[i-1]
        BY <4>2
      <4> QED
        BY <2>2, <4>1, <4>3
    <3> QED
      BY <3>1, <3>2
  <2>6. g \in [1..(n+1) -> Seq(D)]
    <3>1. ASSUME NEW i \in 1..(n+1)
          PROVE  (IF i = n + 1 THEN last ELSE f[i]) \in Seq(D)
      <4>1. i # n + 1 => i \in 1..n
        BY <2>1
      <4> QED
        BY <2>4, <4>1
    <3> QED
      BY <3>1
  <2> HIDE DEF g
  <2> QED
    BY <2>5, <2>6 DEF Upto
<1>3. T = Nat
  <2> HIDE DEF T
  <2>1. T \in SUBSET Nat
    BY DEF T
  <2> QED
    BY <1>1, <1>2, <2>1, SetInduction
<1>4. Upto(Len(s))
  <2> HIDE DEF Upto
  <2>1. Len(s) \in T
    BY <1>0, <1>3
  <2> QED
    BY <1>0, <2>1
<1>5. PICK f \in [1..Len(s) -> Seq(D)] : \A i \in 1..Len(s) :
                         f[i] = IF i = 1 THEN s[i] ELSE f[i-1] \o s[i]
  BY <1>4
<1>6. f = [i \in 1..Len(s) |-> IF i = 1 THEN s[i] ELSE f[i-1] \o s[i]]
  BY <1>5
<1> QED
  BY <1>6

\* P is the sequence of what the first sequences of s amount to.
IsParts(P, s, D) ==
  /\ P \in [0..Len(s) -> Seq(D)]
  /\ P[0] = <<>>
  /\ \A k \in 1..Len(s) : P[k] = P[k-1] \o s[k]

\* FlattenSeq is the last of the parts.
LEMMA FlattenParts ==
  ASSUME NEW D, NEW s \in Seq(Seq(D))
  PROVE  \E P : IsParts(P, s, D) /\ FlattenSeq(s) = P[Len(s)]
<1>0. Len(s) \in Nat /\ \A i \in 1..Len(s) : s[i] \in Seq(D)
  OBVIOUS
<1> DEFINE Solves(f) == f = [i \in 1..Len(s) |-> IF i = 1 THEN s[i] ELSE f[i-1] \o s[i]]
           F == CHOOSE f : Solves(f)
           P == [k \in 0..Len(s) |-> IF k = 0 THEN <<>> ELSE F[k]]
<1>1. F = [i \in 1..Len(s) |-> IF i = 1 THEN s[i] ELSE F[i-1] \o s[i]]
  <2>1. \E f : Solves(f)
    <3>1. PICK f \in [1..Len(s) -> Seq(D)] :
             f = [i \in 1..Len(s) |-> IF i = 1 THEN s[i] ELSE f[i-1] \o s[i]]
      BY FlattenExists
    <3>2. Solves(f)
      BY <3>1
    <3> HIDE DEF Solves
    <3> QED
      BY <3>2
  <2>2. Solves(F)
    <3> HIDE DEF Solves
    <3> QED
      BY <2>1
  <2> QED
    BY <2>2
<1>2. FlattenSeq(s) = IF Len(s) = 0 THEN s ELSE F[Len(s)]
  BY DEF FlattenSeq
<1> HIDE DEF F, Solves
<1>3. \A i \in 1..Len(s) : F[i] = IF i = 1 THEN s[i] ELSE F[i-1] \o s[i]
  <2> DEFINE G(i) == IF i = 1 THEN s[i] ELSE F[i-1] \o s[i]
  <2>1. F = [i \in 1..Len(s) |-> G(i)]
    BY <1>1
  <2> HIDE DEF G
  <2>2. \A i \in 1..Len(s) : F[i] = G(i)
    BY <2>1
  <2> QED
    BY <2>2 DEF G
<1>4. \A k \in 1..Len(s) : P[k] = P[k-1] \o s[k]
  <2> SUFFICES ASSUME NEW k \in 1..Len(s)  PROVE P[k] = P[k-1] \o s[k]
    OBVIOUS
  <2>1. k \in 0..Len(s) /\ k # 0 /\ k - 1 \in 0..Len(s) /\ s[k] \in Seq(D)
    BY <1>0
  <2>2. P[k] = F[k]
    BY <2>1
  <2>3. CASE k = 1
    <3>1. P[k-1] = <<>>
      BY <2>1, <2>3
    <3>2. F[k] = s[k]
      BY <1>3, <2>3
    <3> QED
      BY <2>1, <2>2, <3>1, <3>2, ConcatEmptySeq
  <2>4. CASE k # 1
    <3>1. P[k-1] = F[k-1]
      BY <2>1, <2>4
    <3> QED
      BY <1>3, <2>2, <2>4, <3>1
  <2> QED
    BY <2>3, <2>4
<1>5. P[0] = <<>> /\ 0 \in 0..Len(s)
  BY <1>0
<1>6. ASSUME NEW k \in 0..Len(s)  PROVE P[k] \in Seq(D)
  <2> DEFINE T == {n \in Nat : n <= Len(s) => P[n] \in Seq(D)}
  <2> HIDE DEF P
  <2>1. 0 \in T
    <3>1. P[0] \in Seq(D)
      BY <1>5
    <3> QED
      BY <3>1
  <2>2. ASSUME NEW n \in T  PROVE n + 1 \in T
    <3>0. n \in Nat /\ (n <= Len(s) => P[n] \in Seq(D))
      OBVIOUS
    <3> SUFFICES ASSUME n + 1 <= Len(s)  PROVE P[n+1] \in Seq(D)
      BY <3>0
    <3>1. n <= Len(s)
      BY <1>0, <3>0
    <3> HIDE DEF T
    <3>2. PICK m \in 1..Len(s) : m = n + 1 /\ m - 1 = n
      BY <1>0, <3>0
    <3>3. P[m] = P[m-1] \o s[m] /\ s[m] \in Seq(D)
      BY <1>0, <1>4
    <3> QED
      BY <3>0, <3>1, <3>2, <3>3
  <2>3. T = Nat
    <3>1. T \in SUBSET Nat
      OBVIOUS
    <3> HIDE DEF T
    <3> QED
      BY <2>1, <2>2, <3>1, SetInduction
  <2>4. k \in T
    BY <1>0, <2>3
  <2> QED
    BY <1>0, <2>4
<1>7. P \in [0..Len(s) -> Seq(D)]
  BY <1>6
<1>8. FlattenSeq(s) = P[Len(s)]
  <2>1. CASE Len(s) = 0
    <3>1. s = <<>>
      BY <2>1
    <3> QED
      BY <1>2, <1>5, <2>1, <3>1
  <2>2. CASE Len(s) # 0
    BY <1>0, <1>2, <2>2
  <2> QED
    BY <2>1, <2>2
<1> QED
  BY <1>4, <1>5, <1>7, <1>8 DEF IsParts

\* A part is what all later ones begin with.
BeginsWith(a, b, D) == \E t \in Seq(D) : a = b \o t

LEMMA PartsGrow ==
  ASSUME NEW D, NEW s \in Seq(Seq(D)), NEW P, IsParts(P, s, D),
         NEW k \in 0..Len(s)
  PROVE  BeginsWith(P[Len(s)], P[k], D)
<1>0. Len(s) \in Nat /\ \A i \in 1..Len(s) : s[i] \in Seq(D)
  OBVIOUS
<1>1. /\ \A j \in 0..Len(s) : P[j] \in Seq(D)
      /\ \A j \in 1..Len(s) : P[j] = P[j-1] \o s[j]
  BY DEF IsParts
<1>a. Groups(D)
  BY ConcatGroups
<1> DEFINE Extends(j) == \E t \in Seq(D) : P[j] = P[k] \o t
           T == {n \in Nat : k + n <= Len(s) => Extends(k + n)}
<1>2. 0 \in T
  <2>1. <<>> \in Seq(D) /\ P[k] = P[k] \o <<>>
    BY <1>1, ConcatEmptySeq
  <2>2. Extends(k)
    BY <2>1
  <2> HIDE DEF Extends
  <2>3. k + 0 = k
    BY <1>0
  <2> QED
    BY <2>2, <2>3
<1>3. ASSUME NEW n \in T  PROVE n + 1 \in T
  <2>0. n \in Nat /\ (k + n <= Len(s) => Extends(k + n))
    OBVIOUS
  <2> HIDE DEF Extends
  <2> SUFFICES ASSUME k + (n + 1) <= Len(s)  PROVE Extends(k + (n + 1))
    BY <2>0
  <2>1. PICK m \in 1..Len(s) : m = k + (n + 1) /\ m - 1 = k + n
    BY <1>0, <2>0
  <2>2. PICK t \in Seq(D) : P[k + n] = P[k] \o t
    <3>1. k + n <= Len(s)
      BY <1>0, <2>0, <2>1
    <3>2. Extends(k + n)
      BY <2>0, <3>1
    <3> QED
      BY <3>2 DEF Extends
  <2> HIDE DEF T
  <2>3. P[m] = P[m-1] \o s[m] /\ s[m] \in Seq(D) /\ P[k] \in Seq(D)
    BY <1>0, <1>1
  <2>4. P[m] = (P[k] \o t) \o s[m]
    BY <2>1, <2>2, <2>3
  <2>5. P[m] = P[k] \o (t \o s[m]) /\ t \o s[m] \in Seq(D)
    <3>1. (P[k] \o t) \o s[m] = P[k] \o (t \o s[m])
      BY <1>a, <2>3 DEF Groups
    <3>2. t \o s[m] \in Seq(D)
      BY <2>3, ConcatProperties
    <3> QED
      BY <2>4, <3>1, <3>2
  <2>6. Extends(m)
    BY <2>5 DEF Extends
  <2> QED
    BY <2>1, <2>6
<1>4. T = Nat
  <2>1. T \in SUBSET Nat
    OBVIOUS
  <2> HIDE DEF T
  <2> QED
    BY <1>2, <1>3, <2>1, SetInduction
<1>5. Extends(Len(s))
  <2> HIDE DEF Extends
  <2>1. Len(s) - k \in Nat
    BY <1>0
  <2>2. k + (Len(s) - k) = Len(s) /\ Len(s) <= Len(s)
    BY <1>0
  <2>3. Len(s) - k \in T
    <3> HIDE DEF T
    <3> QED
      BY <1>4, <2>1
  <2>4. k + (Len(s) - k) <= Len(s) => Extends(k + (Len(s) - k))
    BY <2>3
  <2> QED
    BY <2>2, <2>4
<1> QED
  BY <1>5 DEF BeginsWith

\* What a sequence begins with is a prefix of it.
LEMMA ConcatPrefix ==
  ASSUME NEW D, NEW s \in Seq(D), NEW t \in Seq(D)
  PROVE  IsPrefix(s, s \o t)
<1>1. /\ Len(s) \in Nat /\ Len(t) \in Nat /\ s \o t \in Seq(D)
      /\ Len(s \o t) = Len(s) + Len(t)
  BY ConcatProperties
<1>2. Len(s) <= Len(s \o t)
  BY <1>1
<1>3. SubSeq(s, 1, Len(s)) = SubSeq(s \o t, 1, Len(s))
  <2>1. CASE Len(s) = 0
    BY <2>1, <1>1, SubSeqEmpty
  <2>2. CASE Len(s) # 0
    <3>1. 1 \in 1..Len(s) /\ Len(s) \in 1..Len(s)
      BY <1>1, <2>2
    <3> QED
      BY <3>1, SubSeqOfConcat1
  <2> QED
    BY <2>1, <2>2
<1> QED
  BY <1>2, <1>3 DEF IsPrefix

\* Two pieces of a sequence that meet are one piece of it.
LEMMA Adjacent ==
  ASSUME NEW D, NEW s \in Seq(D), NEW m \in 1..(Len(s) + 1), NEW n \in (m-1)..Len(s)
  PROVE  /\ SubSeq(s, m, n) \in Seq(D) /\ Len(SubSeq(s, m, n)) = n - m + 1
         /\ SubSeq(s, n + 1, Len(s)) \in Seq(D)
         /\ SubSeq(s, m, n) \o SubSeq(s, n + 1, Len(s)) = SubSeq(s, m, Len(s))
<1>1. Len(s) \in Nat /\ m \in Int /\ n \in Int /\ Len(s) \in n..Len(s)
  OBVIOUS
<1>2. SubSeq(s, m, n) \in Seq(D) /\ Len(SubSeq(s, m, n)) = n - m + 1
  <2>1. \A i \in m..n : s[i] \in D
    BY <1>1
  <2> QED
    BY <1>1, <2>1, SubSeqProperties
<1>3. SubSeq(s, n + 1, Len(s)) \in Seq(D)
  BY <1>1
<1>4. SubSeq(s, m, n) \o SubSeq(s, n + 1, Len(s)) = SubSeq(s, m, Len(s))
  BY <1>1, ConcatAdjacentSubSeq, Zenon
<1> QED
  BY <1>2, <1>3, <1>4

\* A sequence is its first part and the rest.
LEMMA Halves ==
  ASSUME NEW D, NEW s \in Seq(D), NEW n \in 0..Len(s)
  PROVE  /\ SubSeq(s, 1, n) \in Seq(D) /\ Len(SubSeq(s, 1, n)) = n
         /\ SubSeq(s, n + 1, Len(s)) \in Seq(D)
         /\ SubSeq(s, 1, n) \o SubSeq(s, n + 1, Len(s)) = s
<1>1. Len(s) \in Nat /\ 1 \in 1..(Len(s) + 1) /\ n \in (1-1)..Len(s)
  OBVIOUS
<1>2. SubSeq(s, 1, n) \o SubSeq(s, n + 1, Len(s)) = SubSeq(s, 1, Len(s))
  BY <1>1, Adjacent, Zenon
<1>3. SubSeq(s, 1, Len(s)) = s
  BY SubSeqFull
<1>4. SubSeq(s, 1, n) \in Seq(D) /\ Len(SubSeq(s, 1, n)) = n
  BY <1>1
<1>5. SubSeq(s, n + 1, Len(s)) \in Seq(D)
  BY <1>1
<1> QED
  BY <1>2, <1>3, <1>4, <1>5

\* What a sequence with one more element is.
LEMMA AppendIs ==
  ASSUME NEW D, NEW s \in Seq(D), NEW x \in D, NEW t, t = Append(s, x)
  PROVE  /\ t \in Seq(D) /\ Len(t) = Len(s) + 1 /\ t[Len(s) + 1] = x
         /\ \A j \in 1..Len(s) : t[j] = s[j]
OBVIOUS

-----------------------------------------------------------------------------
(* The parts of a sequence of sequences *)

\* There is one way to the parts.
LEMMA PartsUnique ==
  ASSUME NEW D, NEW s \in Seq(Seq(D)), NEW P, NEW Q,
         IsParts(P, s, D), IsParts(Q, s, D)
  PROVE  P = Q
<1>0. Len(s) \in Nat
  OBVIOUS
<1>1. /\ P \in [0..Len(s) -> Seq(D)] /\ P[0] = <<>>
      /\ \A k \in 1..Len(s) : P[k] = P[k-1] \o s[k]
      /\ Q \in [0..Len(s) -> Seq(D)] /\ Q[0] = <<>>
      /\ \A k \in 1..Len(s) : Q[k] = Q[k-1] \o s[k]
  BY DEF IsParts
<1> DEFINE T == {n \in Nat : n <= Len(s) => P[n] = Q[n]}
<1>2. 0 \in T
  BY <1>1
<1>3. ASSUME NEW n \in T  PROVE n + 1 \in T
  <2>0. n \in Nat /\ (n <= Len(s) => P[n] = Q[n])
    OBVIOUS
  <2> SUFFICES ASSUME n + 1 <= Len(s)  PROVE P[n+1] = Q[n+1]
    BY <2>0
  <2>1. n <= Len(s)
    BY <1>0, <2>0
  <2> HIDE DEF T
  <2>2. PICK m \in 1..Len(s) : m = n + 1 /\ m - 1 = n
    BY <1>0, <2>0
  <2>3. P[m] = P[m-1] \o s[m] /\ Q[m] = Q[m-1] \o s[m]
    BY <1>1
  <2> QED
    BY <2>0, <2>1, <2>2, <2>3
<1>4. T = Nat
  <2>1. T \in SUBSET Nat
    OBVIOUS
  <2> HIDE DEF T
  <2> QED
    BY <1>2, <1>3, <2>1, SetInduction
<1>5. \A n \in 0..Len(s) : P[n] = Q[n]
  <2> SUFFICES ASSUME NEW n \in 0..Len(s)  PROVE P[n] = Q[n]
    OBVIOUS
  <2>1. n \in T /\ n <= Len(s)
    BY <1>0, <1>4
  <2> QED
    BY <2>1
<1> HIDE DEF T
<1> QED
  BY <1>1, <1>5

LEMMA FlattenIsLast ==
  ASSUME NEW D, NEW s \in Seq(Seq(D)), NEW P, IsParts(P, s, D)
  PROVE  FlattenSeq(s) = P[Len(s)]
<1>1. PICK Q : IsParts(Q, s, D) /\ FlattenSeq(s) = Q[Len(s)]
  BY FlattenParts
<1>2. Q = P
  BY <1>1, PartsUnique
<1> QED
  BY <1>1, <1>2

\* t is the first k sequences of s.
IsStart(t, k, s, D) ==
  /\ k \in 0..Len(s) /\ t \in Seq(Seq(D)) /\ Len(t) = k
  /\ \A j \in 1..k : t[j] = s[j]

\* What the first k sequences amount to is part k.
LEMMA FlattenPrefix ==
  ASSUME NEW D, NEW s \in Seq(Seq(D)), NEW P, IsParts(P, s, D),
         NEW k, NEW t, IsStart(t, k, s, D)
  PROVE  FlattenSeq(t) = P[k]
<1>0. /\ Len(s) \in Nat /\ k \in 0..Len(s) /\ t \in Seq(Seq(D)) /\ Len(t) = k
      /\ \A j \in 1..k : t[j] = s[j]
  BY DEF IsStart
<1>1. /\ \A j \in 0..Len(s) : P[j] \in Seq(D)
      /\ P[0] = <<>>
      /\ \A j \in 1..Len(s) : P[j] = P[j-1] \o s[j]
  BY DEF IsParts
<1> DEFINE Q == [j \in 0..k |-> P[j]]
<1>2. Q \in [0..k -> Seq(D)] /\ \A j \in 0..k : Q[j] = P[j]
  BY <1>0, <1>1
<1> HIDE DEF Q
<1>3. ASSUME NEW j \in 1..k  PROVE Q[j] = Q[j-1] \o t[j]
  <2>1. k \in Nat /\ k <= Len(s)
    BY <1>0
  <2>a. j \in 0..k /\ j - 1 \in 0..k /\ j \in 1..Len(s)
    BY ONLY <1>0, <2>1, <1>3
  <2>2. P[j] = P[j-1] \o s[j] /\ s[j] = t[j]
    BY <1>0, <1>1, <2>a
  <2> QED
    BY <1>2, <2>a, <2>2
<1>4. IsParts(Q, t, D)
  <2>1. 0 \in 0..k
    BY <1>0
  <2> QED
    BY <1>0, <1>1, <1>2, <1>3, <2>1 DEF IsParts
<1>5. FlattenSeq(t) = Q[k]
  BY <1>0, <1>4, FlattenIsLast
<1> QED
  BY <1>0, <1>2, <1>5

\* Joining two neighbours leaves the other parts as they are.
Joined(P, p, n) == [k \in 0..n |-> IF k < p THEN P[k] ELSE P[k+1]]

LEMMA PartsJoin ==
  ASSUME NEW D, NEW s \in Seq(Seq(D)), NEW P, IsParts(P, s, D),
         NEW p \in 1..(Len(s) - 1),
         NEW t \in Seq(Seq(D)), Len(t) = Len(s) - 1,
         \A j \in 1..(p - 1) : t[j] = s[j],
         t[p] = s[p] \o s[p+1],
         \A j \in (p + 1)..Len(t) : t[j] = s[j+1]
  PROVE  IsParts(Joined(P, p, Len(t)), t, D)
<1>0. /\ Len(s) \in Nat /\ Len(t) \in Nat /\ Len(s) = Len(t) + 1
      /\ p \in Nat /\ 1 <= p /\ p <= Len(t)
  OBVIOUS
<1>1. /\ \A j \in 0..Len(s) : P[j] \in Seq(D)
      /\ P[0] = <<>>
      /\ \A j \in 1..Len(s) : P[j] = P[j-1] \o s[j]
  BY DEF IsParts
<1>2. \A j \in 1..Len(s) : s[j] \in Seq(D)
  OBVIOUS
<1> DEFINE Q == Joined(P, p, Len(t))
<1>3. /\ Q \in [0..Len(t) -> Seq(D)]
      /\ \A j \in 0..Len(t) : Q[j] = IF j < p THEN P[j] ELSE P[j+1]
  <2>1. ASSUME NEW j \in 0..Len(t)  PROVE (IF j < p THEN P[j] ELSE P[j+1]) \in Seq(D)
    <3>1. j \in 0..Len(s) /\ j + 1 \in 0..Len(s)
      BY ONLY <1>0, j \in 0..Len(t)
    <3> QED
      BY <1>1, <3>1
  <2> QED
    BY <2>1 DEF Joined
<1> HIDE DEF Q
<1>4. Q[0] = <<>>
  <2>1. 0 \in 0..Len(t) /\ 0 < p
    BY <1>0
  <2> QED
    BY <1>1, <1>3, <2>1
<1>5. ASSUME NEW j \in 1..Len(t)  PROVE Q[j] = Q[j-1] \o t[j]
  <2>0. j \in 0..Len(t) /\ j - 1 \in 0..Len(t) /\ j \in 1..Len(s) /\ j + 1 \in 1..Len(s)
    BY <1>0
  <2>1. CASE j < p
    <3>1. j - 1 < p /\ j \in 1..(p - 1)
      BY <1>0, <2>1
    <3>2. P[j] = P[j-1] \o s[j]
      BY <1>1, <2>0
    <3> QED
      BY <1>3, <2>0, <2>1, <3>1, <3>2
  <2>2. CASE j = p
    <3>0. ~ (j < p) /\ j - 1 < p
      BY ONLY <1>0, <2>2
    <3>1. Q[j] = P[j+1] /\ Q[j-1] = P[j-1]
      BY <1>3, <2>0, <3>0
    <3>2. PICK m \in 1..Len(s) : m = j + 1 /\ m - 1 = j
      BY <1>0, <2>0
    <3>3. P[m] = P[m-1] \o s[m] /\ P[j] = P[j-1] \o s[j]
      BY <1>1, <2>0
    <3>4. P[j+1] = (P[j-1] \o s[j]) \o s[j+1]
      BY <3>2, <3>3
    <3>5. P[j-1] \in Seq(D) /\ s[j] \in Seq(D) /\ s[j+1] \in Seq(D)
      <4>1. j - 1 \in 0..Len(s)
        BY <1>0, <2>0
      <4> QED
        BY <1>1, <1>2, <2>0, <4>1
    <3>6. Groups(D)
      BY ConcatGroups
    <3>7. (P[j-1] \o s[j]) \o s[j+1] = P[j-1] \o (s[j] \o s[j+1])
      BY <3>5, <3>6 DEF Groups
    <3> QED
      BY <2>2, <3>1, <3>4, <3>7
  <2>3. CASE p < j
    <3>0. ~ (j < p) /\ ~ (j - 1 < p) /\ j - 1 + 1 = j /\ j \in (p + 1)..Len(t)
      BY ONLY <1>0, <2>3, j \in 1..Len(t)
    <3>a. Q[j] = P[j+1] /\ Q[j-1] = P[j-1+1]
      BY <1>3, <2>0, <3>0
    <3>1. Q[j] = P[j+1] /\ Q[j-1] = P[j] /\ j \in (p + 1)..Len(t)
      BY <3>0, <3>a
    <3>2. PICK m \in 1..Len(s) : m = j + 1 /\ m - 1 = j
      BY <1>0, <2>0
    <3>3. P[m] = P[m-1] \o s[m] /\ t[j] = s[j+1]
      BY <1>1, <3>1
    <3> QED
      BY <3>1, <3>2, <3>3
  <2> QED
    <3>1. j < p \/ j = p \/ p < j
      BY ONLY <1>0, j \in 1..Len(t)
    <3> QED
      BY <2>1, <2>2, <2>3, <3>1
<1>6. IsParts(Q, t, D)
  BY <1>3, <1>4, <1>5 DEF IsParts
<1> QED
  BY <1>6 DEF Q

-----------------------------------------------------------------------------
(* The same sequence over and over *)

Rep(n, x) == [k \in 1..n |-> x]

LEMMA RepIs ==
  ASSUME NEW S, NEW n \in Nat, NEW x \in S
  PROVE  Rep(n, x) \in Seq(S) /\ Len(Rep(n, x)) = n /\ \A k \in 1..n : Rep(n, x)[k] = x
BY DEF Rep

\* a times and then b times is a + b times.
LEMMA RepJoin ==
  ASSUME NEW D, NEW it \in Seq(D), NEW a \in Nat, NEW b \in Nat
  PROVE  FlattenSeq(Rep(a, it)) \o FlattenSeq(Rep(b, it)) = FlattenSeq(Rep(a + b, it))
<1> DEFINE s == Rep(a + b, it)
           u == Rep(b, it)
<1>0. a + b \in Nat
  OBVIOUS
<1>1. s \in Seq(Seq(D)) /\ Len(s) = a + b /\ \A k \in 1..(a + b) : s[k] = it
  BY <1>0, RepIs
<1>2. u \in Seq(Seq(D)) /\ Len(u) = b /\ \A k \in 1..b : u[k] = it
  BY RepIs
<1> HIDE DEF s, u
<1>3. PICK P : IsParts(P, s, D)
  BY <1>1, FlattenParts
<1>4. PICK R : IsParts(R, u, D)
  BY <1>2, FlattenParts
<1>5. /\ \A j \in 0..(a + b) : P[j] \in Seq(D)
      /\ \A j \in 1..(a + b) : P[j] = P[j-1] \o it
  BY <1>1, <1>3 DEF IsParts
<1>6. /\ \A j \in 0..b : R[j] \in Seq(D)
      /\ R[0] = <<>>
      /\ \A j \in 1..b : R[j] = R[j-1] \o it
  BY <1>2, <1>4 DEF IsParts
<1>7. FlattenSeq(s) = P[a + b] /\ FlattenSeq(u) = R[b]
  BY <1>1, <1>2, <1>3, <1>4, FlattenIsLast
<1>8. FlattenSeq(Rep(a, it)) = P[a]
  <2>1. /\ Rep(a, it) \in Seq(Seq(D)) /\ Len(Rep(a, it)) = a
        /\ \A k \in 1..a : Rep(a, it)[k] = it
    BY RepIs
  <2>2. a \in 0..Len(s) /\ \A k \in 1..a : Rep(a, it)[k] = s[k]
    BY <1>1, <2>1
  <2>3. IsStart(Rep(a, it), a, s, D)
    BY <2>1, <2>2 DEF IsStart
  <2> QED
    BY <1>1, <1>3, <2>3, FlattenPrefix
<1>9. a \in 0..(a + b) /\ P[a] \in Seq(D)
  BY <1>5
<1> DEFINE Meets(n) == P[a + n] = P[a] \o R[n]
           T == {n \in Nat : n <= b => Meets(n)}
<1>10. 0 \in T
  <2>1. P[a] = P[a] \o <<>> /\ a + 0 = a
    BY <1>9, ConcatEmptySeq
  <2>2. Meets(0)
    BY <1>6, <2>1
  <2> HIDE DEF Meets
  <2> QED
    BY <2>2
<1>11. ASSUME NEW n \in T  PROVE n + 1 \in T
  <2>0. n \in Nat /\ (n <= b => Meets(n))
    OBVIOUS
  <2> HIDE DEF Meets
  <2> SUFFICES ASSUME n + 1 <= b  PROVE Meets(n + 1)
    BY <2>0
  <2> HIDE DEF T
  <2>1. n <= b /\ n \in 0..b
    BY <2>0
  <2>2. PICK m \in 1..b : m = n + 1 /\ m - 1 = n
    BY <2>0
  <2>3. PICK l \in 1..(a + b) : l = a + (n + 1) /\ l - 1 = a + n
    BY <2>0
  <2>4. R[m] = R[m-1] \o it /\ P[l] = P[l-1] \o it
    BY <1>5, <1>6
  <2>5. R[n] \in Seq(D)
    BY <1>6, <2>1
  <2>6. Groups(D)
    BY ConcatGroups
  <2>7. (P[a] \o R[n]) \o it = P[a] \o (R[n] \o it)
    BY <1>9, <2>5, <2>6 DEF Groups
  <2>8. P[a + n] = P[a] \o R[n]
    BY <2>0, <2>1 DEF Meets
  <2>9. P[l] = P[a] \o R[m]
    BY <2>2, <2>3, <2>4, <2>7, <2>8
  <2> QED
    BY <2>2, <2>3, <2>9 DEF Meets
<1>12. T = Nat
  <2>1. T \in SUBSET Nat
    OBVIOUS
  <2> HIDE DEF T
  <2> QED
    BY <1>10, <1>11, <2>1, SetInduction
<1>13. P[a + b] = P[a] \o R[b]
  <2>1. b \in T
    <3> HIDE DEF T
    <3> QED
      BY <1>12
  <2>2. Meets(b)
    <3> HIDE DEF Meets
    <3>1. b <= b
      OBVIOUS
    <3> QED
      BY <2>1, <3>1
  <2> QED
    BY <2>2
<1> QED
  BY <1>7, <1>8, <1>13 DEF s, u

\* n items of w equal cells are n * w of them.
LEMMA RepFlat ==
  ASSUME NEW D, NEW x \in D, NEW n \in Nat, NEW w \in {1, 2, 4}
  PROVE  FlattenSeq(Rep(n, Rep(w, x))) = Rep(n * w, x)
<1>0. w \in Nat /\ \A k \in Nat : k * w \in Nat
  OBVIOUS
<1> DEFINE it == Rep(w, x)
           s == Rep(n, it)
           F(k) == Rep(k * w, x)
           Q == [k \in 0..n |-> F(k)]
<1>1. it \in Seq(D) /\ Len(it) = w /\ \A i \in 1..w : it[i] = x
  BY <1>0, RepIs
<1> HIDE DEF it
<1>2. s \in Seq(Seq(D)) /\ Len(s) = n /\ \A k \in 1..n : s[k] = it
  BY <1>1, RepIs
<1>3. ASSUME NEW k \in Nat
      PROVE  F(k) \in Seq(D) /\ Len(F(k)) = k * w /\ \A i \in 1..(k * w) : F(k)[i] = x
  <2>1. PICK y \in Nat : y = k * w
    BY <1>0
  <2>2. Rep(y, x) \in Seq(D) /\ Len(Rep(y, x)) = y /\ \A i \in 1..y : Rep(y, x)[i] = x
    BY RepIs
  <2> QED
    BY <2>1, <2>2
<1>4. F(0) = <<>>
  <2>1. 0 * w = 0
    OBVIOUS
  <2> QED
    BY <2>1 DEF Rep
<1> HIDE DEF s, F
<1>5. Q \in [0..n -> Seq(D)] /\ Q[0] = <<>> /\ \A k \in 0..n : Q[k] = F(k)
  <2>1. \A k \in 0..n : F(k) \in Seq(D)
    BY <1>3
  <2> QED
    BY <1>4, <2>1
<1> HIDE DEF Q
<1>6. ASSUME NEW k \in 1..n  PROVE Q[k] = Q[k-1] \o s[k]
  <2>0. k \in 0..n /\ k - 1 \in 0..n /\ k \in Nat /\ k - 1 \in Nat
    OBVIOUS
  <2>1. Q[k] = F(k) /\ Q[k-1] = F(k-1) /\ s[k] = it
    BY <1>2, <1>5, <2>0
  <2>2. k * w = (k - 1) * w + w
    <3>1. k * 1 = (k - 1) * 1 + 1 /\ k * 2 = (k - 1) * 2 + 2 /\ k * 4 = (k - 1) * 4 + 4
      BY <2>0
    <3> QED
      BY <3>1
  <2>a. PICK y \in Nat, z \in Nat : y = (k-1) * w /\ z = k * w /\ z = y + w
    BY <1>0, <2>0, <2>2
  <2> DEFINE a == F(k-1)
             c == F(k)
             d == a \o it
  <2>3. /\ a \in Seq(D) /\ Len(a) = y /\ \A i \in 1..y : a[i] = x
        /\ c \in Seq(D) /\ Len(c) = z /\ \A i \in 1..z : c[i] = x
    BY <1>3, <2>0, <2>a
  <2> HIDE DEF a, c
  <2>4. d \in Seq(D) /\ Len(d) = Len(c)
    <3>1. d \in Seq(D) /\ Len(d) = Len(a) + Len(it)
      BY <1>1, <2>3, ConcatProperties
    <3> QED
      BY <1>1, <2>a, <2>3, <3>1
  <2>5. ASSUME NEW i \in 1..Len(d)  PROVE d[i] = c[i]
    <3>1. i \in 1..(y + w)
      BY <2>a, <2>3, <2>4
    <3>2. c[i] = x
      BY <2>a, <2>3, <3>1
    <3>3. d[i] = IF i <= y THEN a[i] ELSE it[i - y]
      BY <1>1, <2>3, <3>1, ConcatProperties
    <3>4. CASE i <= y
      <4>1. i \in 1..y
        BY <3>1, <3>4
      <4> QED
        BY <2>3, <3>2, <3>3, <3>4, <4>1
    <3>5. CASE ~ (i <= y)
      <4>1. i - y \in 1..w
        BY <1>0, <3>1, <3>5
      <4> QED
        BY <1>1, <3>2, <3>3, <3>5, <4>1
    <3> QED
      BY <3>4, <3>5
  <2> HIDE DEF d
  <2>6. d = c
    BY <2>3, <2>4, <2>5, SeqEqual
  <2> QED
    BY <2>1, <2>6 DEF a, c, d
<1>7. IsParts(Q, s, D)
  BY <1>2, <1>5, <1>6 DEF IsParts
<1>8. FlattenSeq(s) = Q[n]
  BY <1>2, <1>7, FlattenIsLast
<1>9. Q[n] = F(n)
  BY <1>5
<1> QED
  BY <1>8, <1>9 DEF s, it, F

\* RemoveAt moves what comes behind the removed element down by one.
LEMMA RemoveAtIs ==
  ASSUME NEW S, NEW s \in Seq(S), NEW i \in 1..Len(s), NEW t, t = RemoveAt(s, i)
  PROVE  /\ t \in Seq(S) /\ Len(t) = Len(s) - 1
         /\ \A j \in 1..(i - 1) : t[j] = s[j]
         /\ \A j \in i..Len(t) : t[j] = s[j + 1]
<1> DEFINE a == SubSeq(s, 1, i - 1)
           b == SubSeq(s, i + 1, Len(s))
<1>0. Len(s) \in Nat /\ i \in Nat /\ 1 <= i /\ i <= Len(s)
  OBVIOUS
<1>1. a \in Seq(S) /\ Len(a) = i - 1 /\ \A j \in 1..(i - 1) : a[j] = s[j]
  BY <1>0
<1>2. b \in Seq(S) /\ Len(b) = Len(s) - i /\ \A j \in 1..(Len(s) - i) : b[j] = s[i + j]
  <2>1. CASE i = Len(s)
    BY <1>0, <2>1
  <2>2. CASE i < Len(s)
    <3>1. \A j \in (i + 1)..Len(s) : s[j] \in S
      BY <1>0
    <3>2. b \in Seq(S) /\ Len(b) = Len(s) - (i + 1) + 1
      BY <1>0, <2>2, <3>1
    <3>3. \A j \in 1..(Len(s) - i) : b[j] = s[i + 1 + j - 1]
      BY <1>0, <2>2
    <3>4. \A j \in 1..(Len(s) - i) : i + 1 + j - 1 = i + j
      BY <1>0
    <3> QED
      BY <1>0, <3>2, <3>3, <3>4
  <2> QED
    BY <1>0, <2>1, <2>2
<1>3. t = a \o b
  BY DEF RemoveAt
<1> HIDE DEF a, b
<1>4. /\ t \in Seq(S) /\ Len(t) = Len(a) + Len(b)
      /\ \A j \in 1..Len(a) : t[j] = a[j]
      /\ \A j \in 1..Len(b) : t[Len(a) + j] = b[j]
  <2>1. a \in Seq(S) /\ b \in Seq(S)
    BY <1>1, <1>2
  <2>2. /\ t \in Seq(S) /\ Len(t) = Len(a) + Len(b) /\ Len(a) \in Nat /\ Len(b) \in Nat
        /\ \A j \in 1..(Len(a) + Len(b)) : t[j] = IF j <= Len(a) THEN a[j] ELSE b[j - Len(a)]
    BY ONLY <2>1, <1>3, ConcatProperties
  <2>3. ASSUME NEW j \in 1..Len(b)  PROVE t[Len(a) + j] = b[j]
    <3>1. Len(a) + j \in 1..(Len(a) + Len(b)) /\ ~ (Len(a) + j <= Len(a))
          /\ Len(a) + j - Len(a) = j
      BY ONLY <2>2, <2>3
    <3> QED
      BY <2>2, <3>1
  <2> QED
    BY <2>2, <2>3
<1>5. ASSUME NEW j \in i..Len(t)  PROVE t[j] = s[j + 1]
  <2>1. PICK m \in 1..Len(b) : Len(a) + m = j /\ i + m = j + 1
    <3>1. j - i + 1 \in 1..Len(b) /\ Len(a) + (j - i + 1) = j /\ i + (j - i + 1) = j + 1
      BY <1>0, <1>1, <1>2, <1>4
    <3> QED
      BY <3>1
  <2>2. t[j] = b[m] /\ b[m] = s[j + 1]
    BY <1>2, <1>4, <2>1
  <2> QED
    BY <2>2
<1> QED
  BY <1>0, <1>1, <1>2, <1>4, <1>5

-----------------------------------------------------------------------------
(* Running totals *)

\* f begins with b and grows by h and by c[k].
AreTotals(f, n, b, h, c) ==
  /\ f \in [0..n -> Nat]
  /\ \A k \in 0..n : f[k] = IF k = 0 THEN b ELSE f[k-1] + h + c[k]

LEMMA TotalsExist ==
  ASSUME NEW n \in Nat, NEW b \in Nat, NEW h \in Nat, NEW c \in [1..n -> Nat]
  PROVE  \E f : AreTotals(f, n, b, h, c)
<1> DEFINE Upto(m) == \E f \in [0..m -> Nat] :
                         \A k \in 0..m : f[k] = IF k = 0 THEN b ELSE f[k-1] + h + c[k]
           T == {m \in Nat : m <= n => Upto(m)}
<1>1. Upto(0)
  <2> DEFINE f == [k \in 0..0 |-> b]
  <2>1. f \in [0..0 -> Nat] /\ \A k \in 0..0 : k = 0 /\ f[k] = b
    OBVIOUS
  <2> HIDE DEF f
  <2> QED
    BY <2>1
<1>2. ASSUME NEW m \in Nat, m + 1 <= n, Upto(m)  PROVE Upto(m + 1)
  <2>1. PICK f \in [0..m -> Nat] :
          \A k \in 0..m : f[k] = IF k = 0 THEN b ELSE f[k-1] + h + c[k]
    BY <1>2
  <2> DEFINE last == f[m] + h + c[m+1]
             g == [k \in 0..(m+1) |-> IF k = m + 1 THEN last ELSE f[k]]
  <2>2. last \in Nat
    <3>1. m \in 0..m /\ m + 1 \in 1..n
      BY <1>2
    <3>2. f[m] \in Nat /\ c[m+1] \in Nat
      BY <3>1
    <3> QED
      BY <3>2
  <2>3. /\ g[m+1] = last
        /\ \A k \in 0..m : g[k] = f[k]
    <3>1. m + 1 \in 0..(m+1) /\ \A k \in 0..m : k \in 0..(m+1) /\ k # m + 1
      BY <1>2
    <3> HIDE DEF last
    <3> QED
      BY <3>1
  <2>4. g \in [0..(m+1) -> Nat]
    <3>1. \A k \in 0..(m+1) : k = m + 1 \/ k \in 0..m
      BY <1>2
    <3> HIDE DEF last
    <3> QED
      BY <2>2, <3>1
  <2> HIDE DEF g
  <2>5. ASSUME NEW k \in 0..(m+1)
        PROVE  g[k] = IF k = 0 THEN b ELSE g[k-1] + h + c[k]
    <3>1. CASE k = m + 1
      <4>1. k # 0 /\ k - 1 = m /\ m \in 0..m
        BY <1>2, <3>1
      <4> QED
        BY <2>3, <3>1, <4>1
    <3>2. CASE k # m + 1
      <4>1. k \in 0..m /\ (k # 0 => k - 1 \in 0..m)
        BY <1>2, <3>2
      <4> QED
        BY <2>1, <2>3, <4>1
    <3> QED
      BY <3>1, <3>2
  <2> QED
    BY <2>4, <2>5
<1>3. T = Nat
  <2> HIDE DEF Upto
  <2>1. T \in SUBSET Nat /\ 0 \in T /\ \A m \in T : m + 1 \in T
    <3>1. ASSUME NEW m \in T  PROVE m + 1 \in T
      <4>1. m + 1 <= n => m <= n
        OBVIOUS
      <4> QED
        BY <1>2, <4>1
    <3> QED
      BY <1>1, <3>1
  <2> HIDE DEF T
  <2> QED
    BY <2>1, SetInduction
<1>4. Upto(n)
  <2> HIDE DEF Upto
  <2>1. n \in T
    BY <1>3
  <2> QED
    BY <2>1
<1> QED
  BY <1>4 DEF AreTotals

-----------------------------------------------------------------------------
(* The size of a command as a function of its argument (shared/cmd.c).     *)

\* The seven shifts as a finite set.
LEMMA SevenShifts == IsFiniteSet(1..7) /\ Cardinality(1..7) = 7
<1> DEFINE F(i, j) == IF i > j THEN 0 ELSE j - i + 1
<1>1. \A i, j \in Int : IsFiniteSet(i..j) /\ Cardinality(i..j) = F(i, j)
  BY FS_Interval
<1>2. F(1, 7) = 7
  OBVIOUS
<1> HIDE DEF F
<1>3. 1 \in Int /\ 7 \in Int
  OBVIOUS
<1>4. IsFiniteSet(1..7) /\ Cardinality(1..7) = F(1, 7)
  BY <1>1, <1>3
<1> QED BY <1>2, <1>4

\* The loop of cmd_size goes round at most seven times, and never less often
\* for a greater word.
LEMMA ShiftsMonotonic ==
  ASSUME NEW a \in Int, NEW b \in Int, a <= b
  PROVE  /\ Shifts(a) \in 0..7 /\ Shifts(b) \in 0..7
         /\ Shifts(a) <= Shifts(b)
<1> DEFINE A == {k \in 1..7 : a >= Weight[k]}
           B == {k \in 1..7 : b >= Weight[k]}
<1>1. \A k \in 1..7 : Weight[k] \in Int
  BY DEF Weight
<1>2. A \subseteq B /\ B \subseteq 1..7
  BY <1>1
<1>3. IsFiniteSet(1..7) /\ Cardinality(1..7) = 7
  BY SevenShifts
<1>4. IsFiniteSet(B) /\ Cardinality(B) <= 7
  BY <1>2, <1>3, FS_Subset
<1>5. IsFiniteSet(A) /\ Cardinality(A) <= Cardinality(B)
  BY <1>2, <1>4, FS_Subset
<1>6. Cardinality(A) \in Nat /\ Cardinality(B) \in Nat
  BY <1>4, <1>5, FS_CardinalityType
<1>7. Shifts(a) = Cardinality(A) /\ Shifts(b) = Cardinality(B)
  BY DEF Shifts
<1> QED
  BY <1>4, <1>5, <1>6, <1>7

\* A word of one nibble is not shifted at all, a longer one at least once.
LEMMA ShiftsOfNibble ==
  ASSUME NEW a \in Int
  PROVE  /\ a < 16 => Shifts(a) = 0
         /\ a >= 16 => Shifts(a) >= 1
<1> DEFINE A == {k \in 1..7 : a >= Weight[k]}
<1>1. \A k \in 1..7 : Weight[k] \in Int /\ Weight[k] >= 16
  BY DEF Weight
<1>2. Shifts(a) = Cardinality(A)
  BY DEF Shifts
<1>3. ASSUME a < 16 PROVE Shifts(a) = 0
  <2>1. A = {}
    BY <1>1, <1>3
  <2> QED BY <2>1, <1>2, FS_EmptySet
<1>4. ASSUME a >= 16 PROVE Shifts(a) >= 1
  <2>1. {1} \subseteq A
    BY <1>4 DEF Weight
  <2>2. IsFiniteSet(A)
    BY SevenShifts, FS_Subset, A \subseteq 1..7
  <2>3. Cardinality({1}) <= Cardinality(A)
    BY <2>1, <2>2, FS_Subset
  <2>4. Cardinality({1}) = 1
    BY FS_Singleton
  <2> QED BY <2>3, <2>4, <1>2
<1> QED BY <1>3, <1>4

\* Every command has between one and eight bytes.
LEMMA CmdSizeType ==
  ASSUME NEW a \in Int
  PROVE  cmd_size(a) \in 1..8
<1>1. CASE a < 0
  <2>1. Compl(a) \in Int
    BY DEF Compl
  <2>2. Shifts(Compl(a)) \in 0..7
    BY <2>1, ShiftsMonotonic
  <2>3. a >= -16 => Shifts(Compl(a)) = 0
    BY <2>1, ShiftsOfNibble DEF Compl
  <2> QED BY <1>1, <2>2, <2>3 DEF cmd_size
<1>2. CASE a >= 0
  <2>1. Shifts(a) \in 0..7
    BY ShiftsMonotonic
  <2> QED BY <1>2, <2>1 DEF cmd_size
<1> QED BY <1>1, <1>2
-----------------------------------------------------------------------------
(* Recursion *)

\* A function of the numbers up to N may be given by its value for 0 and a
\* step from each number to the next.
Iterates(D, N, a, step) ==
  \E f \in [0..N -> D] : f[0] = a /\ \A k \in 1..N : f[k] = step[k][f[k - 1]]

LEMMA StepsExist ==
  ASSUME NEW D, NEW N \in Nat, NEW a \in D, NEW step \in [1..N -> [D -> D]]
  PROVE  Iterates(D, N, a, step)
<1> DEFINE Upto(n) == \E f \in [0..n -> D] : f[0] = a /\ \A k \in 1..n : f[k] = step[k][f[k - 1]]
           T == {n \in Nat : n <= N => Upto(n)}
<1>1. 0 \in T
  <2> DEFINE g == [k \in 0..0 |-> a]
  <2>1. g \in [0..0 -> D] /\ g[0] = a /\ \A k \in 1..0 : FALSE
    OBVIOUS
  <2>2. Upto(0)
    BY <2>1
  <2> QED
    BY <2>2
<1>2. ASSUME NEW n \in T  PROVE n + 1 \in T
  <2>0. n \in Nat /\ (n <= N => Upto(n))
    OBVIOUS
  <2> HIDE DEF Upto
  <2> SUFFICES ASSUME n + 1 <= N  PROVE Upto(n + 1)
    BY <2>0
  <2>1. n <= N /\ n + 1 \in 1..N
    BY <2>0
  <2>2. PICK f \in [0..n -> D] : f[0] = a /\ \A k \in 1..n : f[k] = step[k][f[k - 1]]
    BY <2>0, <2>1 DEF Upto
  <2>3. f[n] \in D
    BY <2>0
  <2>4. step[n + 1] \in [D -> D]
    BY <2>1
  <2>5. step[n + 1][f[n]] \in D
    BY <2>3, <2>4
  <2>6. PICK v \in D : v = step[n + 1][f[n]]
    BY <2>5
  <2> DEFINE g == [k \in 0..(n + 1) |-> IF k = n + 1 THEN v ELSE f[k]]
  <2>7. g \in [0..(n + 1) -> D]
    BY <2>0
  <2>8. g[0] = a /\ g[n + 1] = v
    BY <2>0, <2>2
  <2>9. \A k \in 0..n : g[k] = f[k]
    BY <2>0
  <2> HIDE DEF g
  <2>10. ASSUME NEW k \in 1..(n + 1)  PROVE g[k] = step[k][g[k - 1]]
    <3>1. CASE k = n + 1
      <4>1. k - 1 = n /\ n \in 0..n
        BY <2>0, <3>1
      <4> QED
        BY <2>6, <2>8, <2>9, <3>1, <4>1
    <3>2. CASE k # n + 1
      <4>1. k \in 1..n /\ k \in 0..n /\ k - 1 \in 0..n
        BY <2>0, <3>2
      <4> QED
        BY <2>2, <2>9, <4>1
    <3> QED
      BY <3>1, <3>2
  <2> QED
    BY <2>7, <2>8, <2>10 DEF Upto
<1>3. T = Nat
  <2>1. T \in SUBSET Nat
    OBVIOUS
  <2> HIDE DEF T
  <2> QED
    BY <1>1, <1>2, <2>1, SetInduction
<1>4. N \in T
  BY <1>3
<1>5. Upto(N)
  BY <1>4
<1> QED
  BY <1>5 DEF Iterates

=============================================================================
