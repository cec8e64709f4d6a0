------------------------------ MODULE AsmProofs ------------------------------
(***************************************************************************)
(* The needs that ast records: whatever order names are used, defined and  *)
(* declared in, what a fragment uses is in its need list or in the         *)
(* fragment itself, and the assertion of record_needs fails only when a    *)
(* message was given.                                                      *)
(***************************************************************************)
EXTENDS AsmFragments, DataLemmas

-----------------------------------------------------------------------------
(* Along the values of names.                                              *)

IsDescent(f, nm, e, go) ==
  f = [k \in 0..Cardinality(DOMAIN nm) |-> IF k = 0 THEN e ELSE Below(nm, f[k - 1], go)]

LEMMA DescentExists ==
  ASSUME NEW nm, IsFiniteSet(DOMAIN nm), NEW e, NEW go \in SUBSET DOMAIN nm
  PROVE  \E f : IsDescent(f, nm, e, go)
<1> DEFINE N == Cardinality(DOMAIN nm)
           D == {e} \union {nm[n].val : n \in DOMAIN nm}
           step == [k \in 1..N |-> [v \in D |-> Below(nm, v, go)]]
<1>0. N \in Nat /\ N = Cardinality(DOMAIN nm)
  BY FS_CardinalityType
<1>1. \A v \in D : Below(nm, v, go) \in D
  BY DEF Below
<1>2. e \in D
  OBVIOUS
<1> HIDE DEF D, N
<1>3. step \in [1..N -> [D -> D]] /\ \A k \in 1..N : \A v \in D : step[k][v] = Below(nm, v, go)
  BY <1>1
<1> HIDE DEF step
<1>4. PICK f \in [0..N -> D] : f[0] = e /\ \A k \in 1..N : f[k] = step[k][f[k - 1]]
  <2>1. Iterates(D, N, e, step)
    BY <1>0, <1>2, <1>3, StepsExist
  <2> QED
    BY <2>1 DEF Iterates
<1>5. ASSUME NEW k \in 0..N  PROVE f[k] = IF k = 0 THEN e ELSE Below(nm, f[k - 1], go)
  <2>1. CASE k = 0
    BY <1>4, <2>1
  <2>2. CASE k # 0
    <3>1. k \in 1..N /\ k - 1 \in 0..N
      BY <1>0, <2>2
    <3>2. f[k - 1] \in D
      BY <3>1
    <3> QED
      BY <1>3, <1>4, <2>2, <3>1, <3>2
  <2> QED
    BY <2>1, <2>2
<1>6. f = [k \in 0..N |-> IF k = 0 THEN e ELSE Below(nm, f[k - 1], go)]
  BY <1>5
<1> QED
  BY <1>0, <1>6 DEF IsDescent

\* Step by step.
Descends(f, nm, e, go) ==
  /\ f[0] = e
  /\ \A k \in 1..Cardinality(DOMAIN nm) : f[k] = Below(nm, f[k - 1], go)

LEMMA DescentIs ==
  ASSUME NEW nm, IsFiniteSet(DOMAIN nm), NEW e, NEW go \in SUBSET DOMAIN nm
  PROVE  Descends(Descent(nm, e, go), nm, e, go)
<1> DEFINE f == CHOOSE g : IsDescent(g, nm, e, go)
<1>1. IsDescent(f, nm, e, go)
  BY DescentExists
<1>2. Descent(nm, e, go) = f
  BY DEF Descent, IsDescent
<1>3. Cardinality(DOMAIN nm) \in Nat
  BY FS_CardinalityType
<1> HIDE DEF f
<1>4. Descends(f, nm, e, go)
  BY <1>1, <1>3 DEF IsDescent, Descends
<1> QED
  BY <1>2, <1>4

\* No name is its own value, by whatever detours.
Ranks(rank, nm) ==
  /\ rank \in [DOMAIN nm -> Nat]
  /\ \A n \in DOMAIN nm :
        nm[n].val.t = "name" => nm[n].val.n \in DOMAIN nm /\ rank[nm[n].val.n] < rank[n]
Acyclic(nm) == \E rank : Ranks(rank, nm)

Goes(v, go) == v.t = "name" /\ v.n \in go

\* A descent has ended after as many steps as there are names.
LEMMA DescentEnds ==
  ASSUME NEW nm, IsFiniteSet(DOMAIN nm), Acyclic(nm), NEW e, NEW go \in SUBSET DOMAIN nm
  PROVE  ~ Goes(Bottom(nm, e, go), go)
<1> DEFINE C == Cardinality(DOMAIN nm)
           f == Descent(nm, e, go)
<1> SUFFICES ASSUME Goes(f[C], go)  PROVE FALSE
  BY DEF Bottom
<1>0. C \in Nat /\ C = Cardinality(DOMAIN nm)
  BY FS_CardinalityType
<1>1. f[0] = e /\ \A k \in 1..C : f[k] = Below(nm, f[k - 1], go)
  BY DescentIs DEF Descends
<1>2. PICK rank : Ranks(rank, nm)
  BY DEF Acyclic
<1> HIDE DEF C, f
<1>3. \A k \in 0..C : Goes(f[k], go)
  <2> DEFINE T == {i \in Nat : i <= C => Goes(f[C - i], go)}
  <2>1. 0 \in T
    BY <1>0
  <2>2. ASSUME NEW i \in T  PROVE i + 1 \in T
    <3> SUFFICES ASSUME i + 1 <= C  PROVE Goes(f[C - (i + 1)], go)
      OBVIOUS
    <3>1. C - i \in 1..C /\ (C - i) - 1 = C - (i + 1) /\ i <= C
      BY <1>0
    <3>2. Goes(f[C - i], go) /\ f[C - i] = Below(nm, f[C - (i + 1)], go)
      BY <1>1, <3>1
    <3> QED
      BY <3>2 DEF Goes, Below
  <2>3. T \in SUBSET Nat
    OBVIOUS
  <2> HIDE DEF T
  <2>4. T = Nat
    BY <2>1, <2>2, <2>3, SetInduction
  <2> SUFFICES ASSUME NEW k \in 0..C  PROVE Goes(f[k], go)
    OBVIOUS
  <2>5. C - k \in T /\ C - k <= C /\ C - (C - k) = k
    BY <1>0, <2>4
  <2> QED
    BY <2>5 DEF T
<1> DEFINE h == [k \in 0..C |-> f[k].n]
<1>4. ASSUME NEW k \in 1..C  PROVE rank[h[k]] < rank[h[k - 1]]
  <2>1. k \in 0..C /\ k - 1 \in 0..C
    BY <1>0
  <2>2. Goes(f[k], go) /\ Goes(f[k - 1], go) /\ f[k] = Below(nm, f[k - 1], go)
    BY <1>1, <1>3, <2>1
  <2>3. f[k] = nm[f[k - 1].n].val
    BY <2>2 DEF Goes, Below
  <2>4. h[k] = f[k].n /\ h[k - 1] = f[k - 1].n
    BY <2>1
  <2> QED
    BY <1>2, <2>2, <2>3, <2>4 DEF Goes, Ranks
<1>5. h \in [0..C -> DOMAIN nm]
  BY <1>3 DEF Goes
<1>6. \A k \in 0..C : rank[h[k]] \in Nat
  BY <1>2, <1>5 DEF Ranks
<1> HIDE DEF h
<1>7. ASSUME NEW i \in 0..C, NEW j \in 0..C, i < j  PROVE rank[h[j]] < rank[h[i]]
  <2> DEFINE T == {d \in Nat : i + d + 1 <= C => rank[h[i + d + 1]] < rank[h[i]]}
  <2>0. i \in Nat
    BY <1>0
  <2>1. 0 \in T
    <3> SUFFICES ASSUME i + 0 + 1 <= C  PROVE rank[h[i + 0 + 1]] < rank[h[i]]
      OBVIOUS
    <3>1. i + 0 + 1 \in 1..C /\ (i + 0 + 1) - 1 = i
      BY <1>0, <2>0
    <3> QED
      BY <1>4, <3>1
  <2>2. ASSUME NEW d \in T  PROVE d + 1 \in T
    <3> SUFFICES ASSUME i + (d + 1) + 1 <= C  PROVE rank[h[i + (d + 1) + 1]] < rank[h[i]]
      OBVIOUS
    <3>1. PICK a, b \in 0..C : /\ a = i + d + 1 /\ b = i + (d + 1) + 1 /\ b \in 1..C /\ b - 1 = a
      BY <1>0, <2>0
    <3>2. rank[h[b]] < rank[h[a]]
      BY <1>4, <3>1
    <3>3. rank[h[a]] < rank[h[i]]
      BY <1>0, <3>1
    <3>4. rank[h[a]] \in Nat /\ rank[h[b]] \in Nat /\ rank[h[i]] \in Nat
      BY <1>6
    <3> QED
      BY <3>1, <3>2, <3>3, <3>4
  <2>3. T \in SUBSET Nat
    OBVIOUS
  <2> HIDE DEF T
  <2>4. T = Nat
    BY <2>1, <2>2, <2>3, SetInduction
  <2>5. j - i - 1 \in T /\ i + (j - i - 1) + 1 = j /\ j <= C
    BY <1>0, <1>7, <2>4
  <2> QED
    BY <2>5 DEF T
<1>8. IsFiniteSet(0..C) /\ Cardinality(0..C) = C + 1
  BY <1>0, FS_Interval
<1>9. PICK x, y \in 0..C : x # y /\ h[x] = h[y]
  <2>1. Cardinality(DOMAIN nm) < Cardinality(0..C)
    BY <1>0, <1>8
  <2> QED
    BY <1>5, <1>8, <2>1, FS_PigeonHole
<1> QED
  BY <1>0, <1>6, <1>7, <1>9

-----------------------------------------------------------------------------
(* A name gets a value.                                                    *)

\* What refers to a name refers to one of nm.
Refers(v, nm) == v.t = "name" => v = NameRef(v.n) /\ v.n \in DOMAIN nm
ValuesRefer(nm) == \A n \in DOMAIN nm : Refers(nm[n].val, nm)

\* A descent from a name is one from its value, one step later.
LEMMA DescentShifts ==
  ASSUME NEW nm, IsFiniteSet(DOMAIN nm), NEW go \in SUBSET DOMAIN nm, NEW n \in go,
         NEW k \in Nat, k < Cardinality(DOMAIN nm)
  PROVE  Descent(nm, NameRef(n), go)[k + 1] = Descent(nm, nm[n].val, go)[k]
<1> DEFINE C == Cardinality(DOMAIN nm)
           f == Descent(nm, NameRef(n), go)
           g == Descent(nm, nm[n].val, go)
           T == {i \in Nat : i < C => f[i + 1] = g[i]}
<1>0. C \in Nat /\ C = Cardinality(DOMAIN nm)
  BY FS_CardinalityType
<1>1. f[0] = NameRef(n) /\ \A j \in 1..C : f[j] = Below(nm, f[j - 1], go)
  BY DescentIs DEF Descends
<1>2. g[0] = nm[n].val /\ \A j \in 1..C : g[j] = Below(nm, g[j - 1], go)
  BY DescentIs DEF Descends
<1>3. Below(nm, NameRef(n), go) = nm[n].val
  BY DEF Below, NameRef
<1> HIDE DEF C, f, g
<1>4. 0 \in T
  <2> SUFFICES ASSUME 0 < C  PROVE f[0 + 1] = g[0]
    OBVIOUS
  <2>1. 1 \in 1..C /\ 0 + 1 = 1 /\ 1 - 1 = 0
    BY <1>0
  <2> QED
    BY <1>1, <1>2, <1>3, <2>1
<1>5. ASSUME NEW i \in T  PROVE i + 1 \in T
  <2> SUFFICES ASSUME i + 1 < C  PROVE f[(i + 1) + 1] = g[i + 1]
    OBVIOUS
  <2>1. (i + 1) + 1 \in 1..C /\ i + 1 \in 1..C /\ ((i + 1) + 1) - 1 = i + 1 /\ (i + 1) - 1 = i /\ i < C
    BY <1>0
  <2>2. f[i + 1] = g[i]
    BY <2>1
  <2> QED
    BY <1>1, <1>2, <2>1, <2>2
<1>6. T \in SUBSET Nat
  OBVIOUS
<1> HIDE DEF T
<1>7. k \in T
  BY <1>4, <1>5, <1>6, SetInduction
<1> QED
  BY <1>0, <1>7 DEF T, f, g

Hits(nm, n, x) ==
  \E k \in 0..Cardinality(DOMAIN nm) :
     LET v == Descent(nm, NameRef(n), DOMAIN nm)[k] IN v.t = "name" /\ v.n = x

LEMMA HitsBefore ==
  ASSUME NEW nm, IsFiniteSet(DOMAIN nm), Acyclic(nm), ValuesRefer(nm),
         NEW n \in DOMAIN nm, nm[n].val.t = "name", NEW x \in DOMAIN nm
  PROVE  /\ Hits(nm, nm[n].val.n, x) => Hits(nm, n, x)
         /\ Hits(nm, n, x) /\ n # x => Hits(nm, nm[n].val.n, x)
<1> DEFINE C == Cardinality(DOMAIN nm)
           m == nm[n].val.n
           f == Descent(nm, NameRef(n), DOMAIN nm)
           g == Descent(nm, NameRef(m), DOMAIN nm)
<1>0. C \in Nat /\ C = Cardinality(DOMAIN nm)
  BY FS_CardinalityType
<1>1. nm[n].val = NameRef(m) /\ m \in DOMAIN nm
  BY DEF ValuesRefer, Refers
<1>2. ASSUME NEW k \in Nat, k < C  PROVE f[k + 1] = g[k]
  BY <1>1, <1>2, DescentShifts
<1>3. f[0] = NameRef(n)
  BY DescentIs DEF Descends
<1>4. ~ Goes(g[C], DOMAIN nm)
  BY DescentEnds DEF Bottom
<1>5. Hits(nm, m, x) <=> \E k \in 0..C : g[k].t = "name" /\ g[k].n = x
  BY DEF Hits
<1>6. Hits(nm, n, x) <=> \E k \in 0..C : f[k].t = "name" /\ f[k].n = x
  BY DEF Hits
<1> HIDE DEF C, f, g, m
<1>7. ASSUME Hits(nm, m, x)  PROVE Hits(nm, n, x)
  <2>1. PICK k \in 0..C : g[k].t = "name" /\ g[k].n = x
    BY <1>5, <1>7
  <2>2. k # C
    BY <1>4, <2>1 DEF Goes
  <2>3. k \in Nat /\ k < C /\ k + 1 \in 0..C
    BY <1>0, <2>2
  <2> QED
    BY <1>2, <1>6, <2>1, <2>3
<1>8. ASSUME Hits(nm, n, x), n # x  PROVE Hits(nm, m, x)
  <2>1. PICK k \in 0..C : f[k].t = "name" /\ f[k].n = x
    BY <1>6, <1>8
  <2>2. k # 0
    BY <1>3, <1>8, <2>1 DEF NameRef
  <2>3. PICK j \in 0..C : j + 1 = k /\ j \in Nat /\ j < C
    <3>1. k - 1 \in 0..C /\ (k - 1) + 1 = k /\ k - 1 \in Nat /\ k - 1 < C
      BY <1>0, <2>2
    <3> QED
      BY <3>1
  <2>4. f[k] = g[j]
    BY <1>2, <2>3
  <2> QED
    BY <1>5, <2>1, <2>3, <2>4
<1> QED
  BY <1>7, <1>8 DEF m

\* A value that does not mention its name closes no cycle.
LEMMA StaysAcyclic ==
  ASSUME NEW nm, IsFiniteSet(DOMAIN nm), Acyclic(nm), ValuesRefer(nm),
         NEW x \in DOMAIN nm, NEW y \in DOMAIN nm, ~ Hits(nm, y, x),
         NEW new, DOMAIN new = DOMAIN nm, new[x].val = NameRef(y),
         \A n \in DOMAIN nm : n # x => new[n].val = nm[n].val
  PROVE  Acyclic(new)
<1>1. PICK rank : Ranks(rank, nm)
  BY DEF Acyclic
<1>2. rank \in [DOMAIN nm -> Nat]
  BY <1>1 DEF Ranks
<1> DEFINE r2 == [n \in DOMAIN nm |-> IF Hits(nm, n, x) THEN rank[n] + rank[y] + 1 ELSE rank[n]]
<1>3. r2 \in [DOMAIN new -> Nat]
  BY <1>2
<1>4. Hits(nm, x, x)
  <2>1. Descent(nm, NameRef(x), DOMAIN nm)[0] = NameRef(x)
    BY DescentIs DEF Descends
  <2>2. 0 \in 0..Cardinality(DOMAIN nm)
    BY FS_CardinalityType
  <2>3. NameRef(x).t = "name" /\ NameRef(x).n = x
    BY DEF NameRef
  <2> QED
    BY <2>1, <2>2, <2>3, Zenon DEF Hits
<1>5. ASSUME NEW n \in DOMAIN new, new[n].val.t = "name"
      PROVE  new[n].val.n \in DOMAIN new /\ r2[new[n].val.n] < r2[n]
  <2>1. CASE n = x
    <3>1. new[n].val.n = y
      BY <2>1 DEF NameRef
    <3>2. r2[y] = rank[y] /\ r2[n] = rank[x] + rank[y] + 1
      BY <1>4, <2>1
    <3> QED
      BY <1>2, <3>1, <3>2
  <2>2. CASE n # x
    <3>1. PICK m : m = nm[n].val.n /\ new[n].val.n = m /\ nm[n].val.t = "name"
      BY <1>5, <2>2
    <3>2. m \in DOMAIN nm /\ rank[m] < rank[n]
      BY <1>1, <1>5, <3>1 DEF Ranks
    <3>3. Hits(nm, m, x) <=> Hits(nm, n, x)
      BY <1>5, <2>2, <3>1, HitsBefore
    <3>4. rank[m] \in Nat /\ rank[n] \in Nat /\ rank[y] \in Nat
      BY <1>2, <1>5, <3>2
    <3>5. /\ r2[m] = IF Hits(nm, m, x) THEN rank[m] + rank[y] + 1 ELSE rank[m]
          /\ r2[n] = IF Hits(nm, n, x) THEN rank[n] + rank[y] + 1 ELSE rank[n]
      BY <1>5, <3>2
    <3> HIDE DEF r2
    <3>6. r2[m] < r2[n]
      BY <3>2, <3>3, <3>4, <3>5
    <3> QED
      BY <3>1, <3>2, <3>6
  <2> QED
    BY <2>1, <2>2
<1>6. Ranks(r2, new)
  BY <1>3, <1>5 DEF Ranks
<1> QED
  BY <1>6 DEF Acyclic

\* Neither does a value that is no name.
LEMMA StillAcyclic ==
  ASSUME NEW nm, Acyclic(nm), NEW new, DOMAIN nm \subseteq DOMAIN new,
         \A n \in DOMAIN new : new[n].val.t = "name" => n \in DOMAIN nm /\ new[n].val = nm[n].val
  PROVE  Acyclic(new)
<1>1. PICK rank : Ranks(rank, nm)
  BY DEF Acyclic
<1>2. rank \in [DOMAIN nm -> Nat]
  BY <1>1 DEF Ranks
<1> DEFINE r2 == [n \in DOMAIN new |-> IF n \in DOMAIN nm THEN rank[n] ELSE 0]
<1>3. r2 \in [DOMAIN new -> Nat]
  BY <1>2
<1>4. ASSUME NEW n \in DOMAIN new, new[n].val.t = "name"
      PROVE  new[n].val.n \in DOMAIN new /\ r2[new[n].val.n] < r2[n]
  <2>1. n \in DOMAIN nm /\ new[n].val = nm[n].val
    BY <1>4
  <2>2. nm[n].val.n \in DOMAIN nm /\ rank[nm[n].val.n] < rank[n]
    BY <1>1, <1>4, <2>1 DEF Ranks
  <2> QED
    BY <2>1, <2>2
<1>5. Ranks(r2, new)
  BY <1>3, <1>4 DEF Ranks
<1> QED
  BY <1>5 DEF Acyclic

-----------------------------------------------------------------------------
(* What stands for a value at the end.                                     *)

\* Marks say where names that are not global, and points, were met.
MarkFits(m, nm, cells) ==
  /\ m.val.t \in {"name", "point"}
  /\ m.val.t = "name" /\ ~ nm[m.val.n].global =>
        nm[m.val.n].val.t = "point" /\ cells[nm[m.val.n].val.n].frag = m.frag
  /\ m.val.t = "point" => cells[m.val.n].frag = m.frag

\* The way to the home of a value is the one expr_reduce takes, but may end
\* before a point.
Alike(a, b) ==
  \/ a = b
  \/ a = None
  \/ /\ a.t = "name" /\ a.n \in DOMAIN name /\ ~ name[a.n].global
     /\ MarksOf(NameRef(a.n)) # {} /\ b = name[a.n].val

LEMMA HomeIsLeft ==
  ASSUME IsFiniteSet(DOMAIN name), Acyclic(name), ValuesRefer(name),
         \A m \in marks : MarkFits(m, name, lay.cells),
         NEW v, Refers(v, name)
  PROVE  Home(v) \subseteq NamesLeft(name, v)
<1> DEFINE C == Cardinality(DOMAIN name)
           G == {n \in DOMAIN name : ~ name[n].global /\ MarksOf(NameRef(n)) = {}}
           R == Replaced(name)
           f == Descent(name, v, G)
           g == Descent(name, v, R)
<1>0. C \in Nat /\ C = Cardinality(DOMAIN name)
  BY FS_CardinalityType
<1>1. f[0] = v /\ \A k \in 1..C : f[k] = Below(name, f[k - 1], G)
  BY DescentIs DEF Descends
<1>r. R \in SUBSET DOMAIN name /\ \A n \in DOMAIN name : n \in R <=> name[n].val # None /\ ~ name[n].global
  BY DEF Replaced
<1>2. g[0] = v /\ \A k \in 1..C : g[k] = Below(name, g[k - 1], R)
  BY <1>r, DescentIs DEF Descends
<1>3. ~ Goes(g[C], R)
  BY <1>r, DescentEnds DEF Bottom
<1>4. Home(v) = (IF f[C].t = "name" /\ name[f[C].n].global THEN {f[C].n}
                 ELSE IF MarksOf(f[C]) # {} THEN {m.frag : m \in MarksOf(f[C])}
                 ELSE IF f[C].t = "point" THEN {lay.cells[f[C].n].frag} ELSE {})
  BY DEF Home, Bottom
<1>5. NamesLeft(name, v) = NamesIn(lay.cells, g[C])
  BY DEF NamesLeft, Reduced, Bottom
<1>g. \A n \in DOMAIN name : n \in G <=> ~ name[n].global /\ MarksOf(NameRef(n)) = {}
  OBVIOUS
<1> HIDE DEF C, G, R, f, g
<1>m. ASSUME NEW n \in DOMAIN name, ~ name[n].global, MarksOf(NameRef(n)) # {}
      PROVE  /\ name[n].val.t = "point"
             /\ \A m \in MarksOf(NameRef(n)) : lay.cells[name[n].val.n].frag = m.frag
  <2>1. ASSUME NEW m \in MarksOf(NameRef(n))
        PROVE  name[n].val.t = "point" /\ lay.cells[name[n].val.n].frag = m.frag
    <3>1. m \in marks /\ m.val = NameRef(n)
      BY DEF MarksOf
    <3>2. m.val.t = "name" /\ m.val.n = n
      BY <3>1 DEF NameRef
    <3> QED
      BY <1>m, <3>1, <3>2 DEF MarkFits
  <2> QED
    BY <1>m, <2>1
<1>6. ASSUME NEW a, NEW b, Alike(a, b), Refers(a, name)
      PROVE  Alike(Below(name, a, G), Below(name, b, R)) /\ Refers(Below(name, a, G), name)
  <2>1. Refers(Below(name, a, G), name)
    BY <1>6, <1>g DEF Below, ValuesRefer, Refers
  <2>2. CASE a = None
    <3>1. Below(name, a, G) = None
      BY <2>2 DEF Below, None
    <3> QED
      BY <2>1, <3>1 DEF Alike
  <2>3. CASE /\ a.t = "name" /\ a.n \in DOMAIN name /\ ~ name[a.n].global
             /\ MarksOf(NameRef(a.n)) # {} /\ b = name[a.n].val
    <3>1. a.n \notin G
      BY <1>g, <2>3
    <3>2. Below(name, a, G) = a
      BY <3>1 DEF Below
    <3>3. b.t = "point"
      BY <1>m, <2>3
    <3>4. Below(name, b, R) = b
      BY <3>3 DEF Below
    <3> QED
      BY <2>1, <2>3, <3>2, <3>4 DEF Alike
  <2>4. CASE a = b /\ a.t # "name"
    <3>1. Below(name, a, G) = a /\ Below(name, b, R) = a
      BY <2>4 DEF Below
    <3> QED
      BY <2>1, <3>1 DEF Alike
  <2>5. CASE a = b /\ a.t = "name"
    <3>0. a.n \in DOMAIN name
      BY <1>6, <2>5 DEF Refers
    <3>1. CASE name[a.n].global
      <4>1. a.n \notin G /\ a.n \notin R
        BY <1>g, <1>r, <3>0, <3>1
      <4>2. Below(name, a, G) = a /\ Below(name, b, R) = a
        BY <2>5, <4>1 DEF Below
      <4> QED
        BY <2>1, <4>2 DEF Alike
    <3>2. CASE ~ name[a.n].global /\ MarksOf(NameRef(a.n)) # {}
      <4>1. name[a.n].val.t = "point"
        BY <1>m, <3>0, <3>2
      <4>2. name[a.n].val # None
        BY <4>1 DEF None
      <4>3. a.n \notin G /\ a.n \in R
        BY <1>g, <1>r, <3>0, <3>2, <4>2
      <4>4. Below(name, a, G) = a /\ Below(name, b, R) = name[a.n].val
        BY <2>5, <4>3 DEF Below
      <4> QED
        BY <2>1, <2>5, <3>0, <3>2, <4>4 DEF Alike
    <3>3. CASE ~ name[a.n].global /\ MarksOf(NameRef(a.n)) = {}
      <4>1. a.n \in G /\ (name[a.n].val # None => a.n \in R)
        BY <1>g, <1>r, <3>0, <3>3
      <4>2. Below(name, a, G) = name[a.n].val
        BY <2>5, <4>1 DEF Below
      <4>3. name[a.n].val # None => Below(name, b, R) = name[a.n].val
        BY <2>5, <4>1 DEF Below
      <4> QED
        BY <2>1, <4>2, <4>3 DEF Alike
    <3> QED
      BY <3>1, <3>2, <3>3
  <2> QED
    BY <1>6, <2>2, <2>3, <2>4, <2>5 DEF Alike
<1>7. Alike(f[C], g[C]) /\ Refers(f[C], name)
  <2> DEFINE T == {k \in Nat : k <= C => Alike(f[k], g[k]) /\ Refers(f[k], name)}
  <2>1. 0 \in T
    BY <1>1, <1>2 DEF Alike
  <2>2. ASSUME NEW k \in T  PROVE k + 1 \in T
    <3> SUFFICES ASSUME k + 1 <= C  PROVE Alike(f[k + 1], g[k + 1]) /\ Refers(f[k + 1], name)
      OBVIOUS
    <3>1. k + 1 \in 1..C /\ (k + 1) - 1 = k /\ k <= C
      BY <1>0
    <3>2. Alike(f[k], g[k]) /\ Refers(f[k], name)
      BY <3>1
    <3>3. f[k + 1] = Below(name, f[k], G) /\ g[k + 1] = Below(name, g[k], R)
      BY <1>1, <1>2, <3>1
    <3> QED
      BY <1>6, <3>2, <3>3
  <2>3. T \in SUBSET Nat
    OBVIOUS
  <2> HIDE DEF T
  <2>4. C \in T
    BY <1>0, <2>1, <2>2, <2>3, SetInduction
  <2> QED
    BY <1>0, <2>4 DEF T
<1>8. PICK a, b : a = f[C] /\ b = g[C]
  OBVIOUS
<1>9. CASE a = None
  <2>1. a.t = "none"
    BY <1>9 DEF None
  <2>2. MarksOf(a) = {}
    BY <1>9, <2>1 DEF MarksOf, MarkFits
  <2> QED
    BY <1>4, <1>8, <2>1, <2>2
<1>10. CASE /\ a.t = "name" /\ a.n \in DOMAIN name /\ ~ name[a.n].global
            /\ MarksOf(NameRef(a.n)) # {} /\ b = name[a.n].val
  <2>1. a = NameRef(a.n)
    BY <1>7, <1>8, <1>10 DEF Refers
  <2>2. b.t = "point" /\ \A m \in MarksOf(a) : lay.cells[b.n].frag = m.frag
    BY <1>m, <1>10, <2>1
  <2>3. NamesIn(lay.cells, b) = {lay.cells[b.n].frag}
    BY <2>2 DEF NamesIn
  <2>4. Home(v) = {m.frag : m \in MarksOf(a)}
    BY <1>4, <1>8, <1>10, <2>1
  <2> QED
    BY <1>5, <1>8, <2>2, <2>3, <2>4
<1>11. CASE a = b
  <2>1. CASE a.t = "name"
    <3>1. a = NameRef(a.n) /\ a.n \in DOMAIN name
      BY <1>7, <1>8, <2>1 DEF Refers
    <3>2. NamesIn(lay.cells, b) = {a.n}
      BY <1>11, <2>1 DEF NamesIn
    <3>3. CASE name[a.n].global
      BY <1>4, <1>5, <1>8, <2>1, <3>2, <3>3
    <3>4. CASE ~ name[a.n].global
      <4>1. a.n \notin R
        BY <1>3, <1>8, <1>11, <2>1 DEF Goes
      <4>2. name[a.n].val = None
        BY <1>r, <3>1, <3>4, <4>1
      <4>3. MarksOf(a) = {}
        BY <1>m, <3>1, <3>4, <4>2 DEF None
      <4>4. Home(v) = {}
        BY <1>4, <1>8, <2>1, <3>4, <4>3
      <4> QED
        BY <4>4
    <3> QED
      BY <3>3, <3>4
  <2>2. CASE a.t = "point"
    <3>1. NamesIn(lay.cells, b) = {lay.cells[a.n].frag}
      BY <1>11, <2>2 DEF NamesIn
    <3>2. \A m \in MarksOf(a) : m.frag = lay.cells[a.n].frag
      BY <2>2 DEF MarksOf, MarkFits
    <3> QED
      BY <1>4, <1>5, <1>8, <2>2, <3>1, <3>2
  <2>3. CASE a.t # "name" /\ a.t # "point"
    <3>1. MarksOf(a) = {}
      BY <2>3 DEF MarksOf, MarkFits
    <3> QED
      BY <1>4, <1>8, <2>3, <3>1
  <2> QED
    BY <2>1, <2>2, <2>3
<1> QED
  BY <1>7, <1>8, <1>9, <1>10, <1>11 DEF Alike

-----------------------------------------------------------------------------
(* The layout as far as needs depend on it: which fragment points and      *)
(* elements belong to, and what elements refer to.                         *)

IsSequence(s) == Len(s) \in Nat /\ s = [j \in 1..Len(s) |-> s[j]]

Appended(s, x, t) ==
  IsSequence(t) /\ Len(t) = Len(s) + 1 /\ t[Len(s) + 1] = x /\ \A j \in 1..Len(s) : t[j] = s[j]

LEMMA AppendAny ==
  ASSUME NEW s, IsSequence(s), NEW x, NEW t, t = Append(s, x)
  PROVE  Appended(s, x, t)
<1> DEFINE n == Len(s)
           D == {s[j] : j \in 1..n} \union {x}
<1>0. n \in Nat /\ s = [j \in 1..n |-> s[j]]
  BY DEF IsSequence
<1>1. s \in Seq(D) /\ x \in D
  <2>1. (\A j \in 1..n : s[j] \in D) /\ x \in D
    OBVIOUS
  <2> HIDE DEF n, D
  <2>2. s \in [1..n -> D]
    BY <1>0, <2>1
  <2> QED
    BY <1>0, <2>1, <2>2
<1> HIDE DEF D
<1>2. /\ t \in Seq(D) /\ Len(t) = n + 1 /\ t[n + 1] = x
      /\ \A j \in 1..n : t[j] = s[j]
  BY <1>1, AppendIs
<1> HIDE DEF n
<1>3. IsSequence(t)
  BY <1>0, <1>2 DEF IsSequence
<1> QED
  BY <1>2, <1>3 DEF n, Appended

Replaces(s, i, x, t) ==
  IsSequence(t) /\ Len(t) = Len(s) /\ t[i] = x /\ \A j \in 1..Len(s) : j # i => t[j] = s[j]

LEMMA ReplaceAny ==
  ASSUME NEW s, IsSequence(s), NEW i \in 1..Len(s), NEW x, NEW t, t = [s EXCEPT ![i] = x]
  PROVE  Replaces(s, i, x, t)
<1> DEFINE n == Len(s)
           D == {s[j] : j \in 1..n} \union {x}
<1>0. n \in Nat /\ s = [j \in 1..n |-> s[j]]
  BY DEF IsSequence
<1>1. (\A j \in 1..n : s[j] \in D) /\ x \in D
  OBVIOUS
<1> HIDE DEF D, n
<1>2. s \in [1..n -> D]
  BY <1>0, <1>1
<1>3. t \in [1..n -> D] /\ i \in 1..n
  BY <1>1, <1>2 DEF n
<1>4. t \in Seq(D) /\ Len(t) = n
  <2>1. n \in Nat /\ t \in [1..n -> D]
    BY <1>0, <1>3
  <2>2. t \in Seq(D)
    BY ONLY <2>1
  <2>3. DOMAIN t = 1..n
    BY ONLY <2>1
  <2>4. Len(t) = n
    BY ONLY <2>1, <2>2, <2>3
  <2> QED
    BY <2>2, <2>4
<1>5. t[i] = x /\ \A j \in 1..n : j # i => t[j] = s[j]
  BY <1>2, <1>3
<1>6. IsSequence(t)
  BY <1>0, <1>3, <1>4 DEF IsSequence
<1> QED
  BY <1>4, <1>5, <1>6 DEF n, Replaces

LEMMA MaxBelow ==
  ASSUME NEW n \in Nat, NEW S \in SUBSET (0..n), S # {}
  PROVE  Max(S) \in S
<1> DEFINE T == {n - x : x \in S}
<1>1. T \in SUBSET Nat /\ T # {}
  <2>1. \A x \in S : n - x \in Nat
    OBVIOUS
  <2>2. PICK x \in S : TRUE
    OBVIOUS
  <2> QED
    BY <2>1, <2>2
<1>2. PICK y \in T : \A z \in T : y <= z
  BY <1>1, LeastNat
<1>3. PICK x \in S : y = n - x
  OBVIOUS
<1>4. \A z \in S : x >= z
  <2> SUFFICES ASSUME NEW z \in S  PROVE x >= z
    OBVIOUS
  <2>1. n - z \in T /\ z \in 0..n /\ x \in 0..n
    OBVIOUS
  <2>2. y <= n - z
    BY <1>2, <2>1
  <2> QED
    BY <1>3, <2>1, <2>2
<1> QED
  BY <1>4 DEF Max

CellOK(c, G) == {"frag", "legs"} \subseteq DOMAIN c /\ c.frag \in G

ElementOK(x) ==
  /\ {"tag", "frag", "size", "loose", "width", "refs", "nrefs", "units"} \subseteq DOMAIN x
  /\ IsSequence(x.refs)
  /\ x.tag = "data" => Len(x.refs) >= 1

SegmentOK(g, cells, G) ==
  /\ {"frags", "point", "slot", "pend", "fixed", "asked"} \subseteq DOMAIN g
  /\ IsSequence(g.frags) /\ Len(g.frags) >= 1 /\ \A i \in 1..Len(g.frags) : g.frags[i] \in G
  /\ g.point \in 1..Len(cells) /\ cells[g.point].frag = Last(g.frags)

CellsOK(cells, G) == IsSequence(cells) /\ \A i \in 1..Len(cells) : CellOK(cells[i], G)
ElementsOK(elts) == IsSequence(elts) /\ \A e \in 1..Len(elts) : ElementOK(elts[e])
SegmentsOK(seg, cells, G) == \A s \in DOMAIN seg : SegmentOK(seg[s], cells, G)

LayOK(L, G) ==
  /\ {"seg", "elts", "cells", "shared", "units"} \subseteq DOMAIN L
  /\ CellsOK(L.cells, G)
  /\ ElementsOK(L.elts)
  /\ SegmentsOK(L.seg, L.cells, G)

\* What is never changed.
ElementKept(x, y) ==
  /\ y.frag = x.frag /\ Len(x.refs) <= Len(y.refs)
  /\ \A i \in 1..Len(x.refs) : y.refs[i] = x.refs[i]
CellsKept(c, d) == Len(c) <= Len(d) /\ \A i \in 1..Len(c) : d[i].frag = c[i].frag
ElementsKept(x, y) == Len(x) <= Len(y) /\ \A e \in 1..Len(x) : ElementKept(x[e], y[e])
LayKept(L, M) == CellsKept(L.cells, M.cells) /\ ElementsKept(L.elts, M.elts)

SameFrags(L, M) ==
  DOMAIN M.seg = DOMAIN L.seg /\ \A s \in DOMAIN L.seg : M.seg[s].frags = L.seg[s].frags

Step(L, M, G) == LayOK(M, G) /\ LayKept(L, M) /\ SameFrags(L, M)

LEMMA LayStays ==
  ASSUME NEW L, NEW G, LayOK(L, G)
  PROVE  Step(L, L, G)
<1>1. Len(L.cells) \in Nat /\ Len(L.elts) \in Nat /\ \A e \in 1..Len(L.elts) : Len(L.elts[e].refs) \in Nat
  BY DEF LayOK, CellsOK, ElementsOK, ElementOK, IsSequence
<1> QED
  BY <1>1 DEF Step, LayKept, CellsKept, ElementsKept, ElementKept, SameFrags

LEMMA LayKeptOn ==
  ASSUME NEW L, NEW M, NEW K, NEW G, LayOK(L, G), LayOK(M, G), LayOK(K, G),
         LayKept(L, M), LayKept(M, K)
  PROVE  LayKept(L, K)
<1>1. /\ Len(L.cells) \in Nat /\ Len(L.elts) \in Nat /\ \A e \in 1..Len(L.elts) : Len(L.elts[e].refs) \in Nat
      /\ Len(M.cells) \in Nat /\ Len(M.elts) \in Nat /\ \A e \in 1..Len(M.elts) : Len(M.elts[e].refs) \in Nat
      /\ Len(K.cells) \in Nat /\ Len(K.elts) \in Nat /\ \A e \in 1..Len(K.elts) : Len(K.elts[e].refs) \in Nat
  BY DEF LayOK, CellsOK, ElementsOK, ElementOK, IsSequence
<1>2. CellsKept(L.cells, K.cells)
  BY <1>1 DEF LayKept, CellsKept
<1>3. Len(L.elts) <= Len(K.elts)
  BY <1>1 DEF LayKept, ElementsKept
<1>4. ASSUME NEW e \in 1..Len(L.elts)  PROVE ElementKept(L.elts[e], K.elts[e])
  <2>1. e \in 1..Len(M.elts) /\ e \in 1..Len(K.elts)
    BY <1>1, <1>3 DEF LayKept, ElementsKept
  <2>2. ElementKept(L.elts[e], M.elts[e]) /\ ElementKept(M.elts[e], K.elts[e])
    BY <2>1 DEF LayKept, ElementsKept
  <2>3. PICK x, y, z : x = L.elts[e] /\ y = M.elts[e] /\ z = K.elts[e]
    OBVIOUS
  <2>4. Len(x.refs) \in Nat /\ Len(y.refs) \in Nat /\ Len(z.refs) \in Nat
    BY <1>1, <2>1, <2>3
  <2>5. ElementKept(x, y) /\ ElementKept(y, z)
    BY <2>2, <2>3
  <2>6. ElementKept(x, z)
    BY ONLY <2>4, <2>5 DEF ElementKept
  <2> QED
    BY <2>3, <2>6
<1> QED
  BY <1>2, <1>3, <1>4 DEF LayKept, ElementsKept

LEMMA StepOn ==
  ASSUME NEW L, NEW M, NEW K, NEW G, LayOK(L, G), Step(L, M, G), Step(M, K, G)
  PROVE  Step(L, K, G)
<1>1. LayKept(L, K)
  BY LayKeptOn DEF Step
<1> QED
  BY <1>1 DEF Step, SameFrags

\* Steps that leave cells, elements, fragments and points alone.
LEMMA SameLayout ==
  ASSUME NEW L, NEW M, NEW G, LayOK(L, G),
         {"seg", "elts", "cells", "shared", "units"} \subseteq DOMAIN M,
         M.cells = L.cells, M.elts = L.elts, DOMAIN M.seg = DOMAIN L.seg,
         \A s \in DOMAIN L.seg : /\ DOMAIN M.seg[s] = DOMAIN L.seg[s]
                                 /\ M.seg[s].frags = L.seg[s].frags /\ M.seg[s].point = L.seg[s].point
  PROVE  Step(L, M, G)
<1>1. SegmentsOK(M.seg, M.cells, G)
  BY DEF LayOK, SegmentsOK, SegmentOK
<1>2. LayOK(M, G)
  BY <1>1 DEF LayOK
<1>3. LayKept(L, M)
  BY LayStays DEF Step, LayKept
<1> QED
  BY <1>2, <1>3 DEF Step, SameFrags

LEMMA Aside ==
  ASSUME NEW L, NEW G, LayOK(L, G), NEW s \in DOMAIN L.seg
  PROVE  /\ Step(L, Share(L, s), G)
         /\ Step(L, Met(L, s), G)
         /\ Step(L, drop_pending_alignment(L, s), G)
         /\ \A u : Step(L, AddUnit(L, u), G)
         /\ \A n : Step(L, [L EXCEPT !.seg[s].slot = n], G)
         /\ \A n : Step(L, [L EXCEPT !.seg[s].asked = n], G)
<1>0. /\ {"seg", "elts", "cells", "shared", "units"} \subseteq DOMAIN L
      /\ \A t \in DOMAIN L.seg : {"frags", "point", "slot", "pend", "fixed", "asked"} \subseteq DOMAIN L.seg[t]
  BY DEF LayOK, SegmentsOK, SegmentOK
<1>1. Step(L, Share(L, s), G)
  <2> DEFINE M == Share(L, s)
  <2>1. DOMAIN M = DOMAIN L /\ M.cells = L.cells /\ M.elts = L.elts /\ M.seg = L.seg
    BY <1>0 DEF Share
  <2> HIDE DEF M
  <2> QED
    BY <1>0, <2>1, SameLayout DEF M
<1>2. ASSUME NEW n  PROVE Step(L, [L EXCEPT !.seg[s].asked = n], G)
  <2> DEFINE M == [L EXCEPT !.seg[s].asked = n]
  <2>1. /\ DOMAIN M = DOMAIN L /\ M.cells = L.cells /\ M.elts = L.elts
        /\ M.seg = [L.seg EXCEPT ![s].asked = n]
    BY <1>0
  <2> HIDE DEF M
  <2>2. /\ DOMAIN M.seg = DOMAIN L.seg
        /\ \A t \in DOMAIN L.seg : /\ DOMAIN M.seg[t] = DOMAIN L.seg[t]
                                   /\ M.seg[t].frags = L.seg[t].frags /\ M.seg[t].point = L.seg[t].point
    BY <1>0, <2>1
  <2> QED
    BY <1>0, <2>1, <2>2, SameLayout DEF M
<1>3. Step(L, drop_pending_alignment(L, s), G)
  <2> DEFINE M == drop_pending_alignment(L, s)
  <2>1. /\ DOMAIN M = DOMAIN L /\ M.cells = L.cells /\ M.elts = L.elts
        /\ M.seg = [L.seg EXCEPT ![s].pend = 1]
    BY <1>0 DEF drop_pending_alignment
  <2> HIDE DEF M
  <2>2. /\ DOMAIN M.seg = DOMAIN L.seg
        /\ \A t \in DOMAIN L.seg : /\ DOMAIN M.seg[t] = DOMAIN L.seg[t]
                                   /\ M.seg[t].frags = L.seg[t].frags /\ M.seg[t].point = L.seg[t].point
    BY <1>0, <2>1
  <2> QED
    BY <1>0, <2>1, <2>2, SameLayout DEF M
<1>4. ASSUME NEW u  PROVE Step(L, AddUnit(L, u), G)
  <2> DEFINE M == AddUnit(L, u)
  <2>1. DOMAIN M = DOMAIN L /\ M.cells = L.cells /\ M.elts = L.elts /\ M.seg = L.seg
    BY <1>0 DEF AddUnit
  <2> HIDE DEF M
  <2> QED
    BY <1>0, <2>1, SameLayout DEF M
<1>5. ASSUME NEW n  PROVE Step(L, [L EXCEPT !.seg[s].slot = n], G)
  <2> DEFINE M == [L EXCEPT !.seg[s].slot = n]
  <2>1. /\ DOMAIN M = DOMAIN L /\ M.cells = L.cells /\ M.elts = L.elts
        /\ M.seg = [L.seg EXCEPT ![s].slot = n]
    BY <1>0
  <2> HIDE DEF M
  <2>2. /\ DOMAIN M.seg = DOMAIN L.seg
        /\ \A t \in DOMAIN L.seg : /\ DOMAIN M.seg[t] = DOMAIN L.seg[t]
                                   /\ M.seg[t].frags = L.seg[t].frags /\ M.seg[t].point = L.seg[t].point
    BY <1>0, <2>1
  <2> QED
    BY <1>0, <2>1, <2>2, SameLayout DEF M
<1> QED
  BY <1>1, <1>2, <1>3, <1>4, <1>5 DEF Met

\* The point moves on, in its fragment.
LEMMA PointMoves ==
  ASSUME NEW L, NEW G, LayOK(L, G), NEW s \in DOMAIN L.seg,
         NEW p, CellOK(p, G), p.frag = CurFrag(L, s)
  PROVE  Step(L, NewPoint(L, s, p), G) /\ Step(L, SetPoint(L, s, p), G)
<1>0. /\ {"seg", "elts", "cells", "shared", "units"} \subseteq DOMAIN L
      /\ \A t \in DOMAIN L.seg : {"frags", "point", "slot", "pend", "fixed", "asked"} \subseteq DOMAIN L.seg[t]
      /\ IsSequence(L.cells) /\ \A i \in 1..Len(L.cells) : CellOK(L.cells[i], G)
      /\ ElementsOK(L.elts)
      /\ \A t \in DOMAIN L.seg : SegmentOK(L.seg[t], L.cells, G)
  BY DEF LayOK, CellsOK, SegmentsOK, SegmentOK
<1>k. \A M : M.elts = L.elts => ElementsKept(L.elts, M.elts)
  BY LayStays DEF Step, LayKept
<1>n. Len(L.cells) \in Nat
  BY <1>0 DEF IsSequence
<1>1. Step(L, NewPoint(L, s, p), G)
  <2> DEFINE M == NewPoint(L, s, p)
             k == Len(L.cells) + 1
  <2>1. /\ DOMAIN M = DOMAIN L /\ M.cells = Append(L.cells, p) /\ M.elts = L.elts
        /\ M.seg = [L.seg EXCEPT ![s].point = k]
    BY <1>0 DEF NewPoint
  <2> HIDE DEF M
  <2>2. /\ IsSequence(M.cells) /\ Len(M.cells) = k /\ M.cells[k] = p
        /\ \A j \in 1..Len(L.cells) : M.cells[j] = L.cells[j]
    <3>1. Appended(L.cells, p, M.cells)
      BY <1>0, <2>1, AppendAny
    <3> QED
      BY <3>1 DEF Appended
  <2>3. CellsOK(M.cells, G)
    BY <1>0, <1>n, <2>2 DEF CellsOK
  <2>4. /\ DOMAIN M.seg = DOMAIN L.seg
        /\ \A t \in DOMAIN L.seg : /\ DOMAIN M.seg[t] = DOMAIN L.seg[t]
                                   /\ M.seg[t].frags = L.seg[t].frags
                                   /\ M.seg[t].point = IF t = s THEN k ELSE L.seg[t].point
    BY <1>0, <2>1
  <2>5. ASSUME NEW t \in DOMAIN M.seg  PROVE SegmentOK(M.seg[t], M.cells, G)
    <3>1. SegmentOK(L.seg[t], L.cells, G) /\ t \in DOMAIN L.seg
      BY <1>0, <2>4
    <3> HIDE DEF k
    <3>2. M.seg[t].point \in 1..k /\ M.cells[M.seg[t].point].frag = Last(L.seg[t].frags)
      <4>0. k \in 1..k /\ \A j \in 1..Len(L.cells) : j \in 1..k
        BY <1>n DEF k
      <4>1. CASE t = s
        BY <2>2, <2>4, <3>1, <4>0, <4>1 DEF CurFrag
      <4>2. CASE t # s
        BY <2>2, <2>4, <3>1, <4>0, <4>2 DEF SegmentOK
      <4> QED
        BY <4>1, <4>2
    <3> QED
      BY <2>2, <2>4, <3>1, <3>2 DEF SegmentOK
  <2>6. LayOK(M, G)
    BY <1>0, <2>1, <2>3, <2>5 DEF LayOK, SegmentsOK
  <2>7. CellsKept(L.cells, M.cells)
    BY <1>n, <2>2 DEF CellsKept
  <2> QED
    BY <1>k, <2>1, <2>4, <2>6, <2>7 DEF Step, LayKept, SameFrags, M
<1>2. CASE L.seg[s].point \in L.shared
  BY <1>1, <1>2 DEF SetPoint, NewPoint
<1>3. CASE L.seg[s].point \notin L.shared
  <2> DEFINE M == SetPoint(L, s, p)
             k == L.seg[s].point
  <2>1. /\ DOMAIN M = DOMAIN L /\ M.cells = [L.cells EXCEPT ![k] = p] /\ M.elts = L.elts
        /\ M.seg = L.seg
    BY <1>0, <1>3 DEF SetPoint
  <2> HIDE DEF M
  <2>k. k \in 1..Len(L.cells) /\ L.cells[k].frag = CurFrag(L, s)
    BY <1>0 DEF SegmentOK, CurFrag
  <2>2. /\ IsSequence(M.cells) /\ Len(M.cells) = Len(L.cells) /\ M.cells[k] = p
        /\ \A j \in 1..Len(L.cells) : j # k => M.cells[j] = L.cells[j]
    BY <1>0, <2>1, <2>k, ReplaceAny DEF Replaces
  <2>3. CellsOK(M.cells, G) /\ \A j \in 1..Len(L.cells) : M.cells[j].frag = L.cells[j].frag
    BY <1>0, <1>n, <2>2, <2>k DEF CellsOK
  <2>5. ASSUME NEW t \in DOMAIN M.seg  PROVE SegmentOK(M.seg[t], M.cells, G)
    <3>1. SegmentOK(L.seg[t], L.cells, G)
      BY <1>0, <2>1
    <3> QED
      BY <2>1, <2>2, <2>3, <3>1 DEF SegmentOK
  <2>6. LayOK(M, G)
    BY <1>0, <2>1, <2>3, <2>5 DEF LayOK, SegmentsOK
  <2>7. CellsKept(L.cells, M.cells)
    BY <1>n, <2>2, <2>3 DEF CellsKept
  <2> QED
    BY <1>1, <1>k, <2>1, <2>6, <2>7 DEF Step, LayKept, SameFrags, M
<1> QED
  BY <1>1, <1>2, <1>3

-----------------------------------------------------------------------------
(* Elements.                                                               *)

\* An element of fragment f refers to v.
Has(L, f, v) ==
  \E e \in 1..Len(L.elts) : L.elts[e].frag = f /\ \E i \in 1..Len(L.elts[e].refs) : L.elts[e].refs[i] = v

LEMMA HasStays ==
  ASSUME NEW L, NEW M, NEW G, NEW H, LayOK(L, G), LayOK(M, H), LayKept(L, M), NEW f, NEW v, Has(L, f, v)
  PROVE  Has(M, f, v)
<1>1. PICK e \in 1..Len(L.elts) : L.elts[e].frag = f /\ \E i \in 1..Len(L.elts[e].refs) : L.elts[e].refs[i] = v
  BY DEF Has
<1>2. PICK i \in 1..Len(L.elts[e].refs) : L.elts[e].refs[i] = v
  BY <1>1
<1>3. Len(L.elts) \in Nat /\ Len(M.elts) \in Nat /\ e \in 1..Len(M.elts)
  BY DEF LayOK, ElementsOK, IsSequence, LayKept, ElementsKept
<1>4. Len(L.elts[e].refs) \in Nat /\ Len(M.elts[e].refs) \in Nat
  BY <1>3 DEF LayOK, ElementsOK, ElementOK, IsSequence
<1>5. ElementKept(L.elts[e], M.elts[e])
  BY DEF LayKept, ElementsKept
<1>6. M.elts[e].frag = f /\ i \in 1..Len(M.elts[e].refs) /\ M.elts[e].refs[i] = v
  <2>1. PICK x, y : x = L.elts[e] /\ y = M.elts[e]
    OBVIOUS
  <2>2. /\ Len(x.refs) \in Nat /\ Len(y.refs) \in Nat /\ ElementKept(x, y)
        /\ i \in 1..Len(x.refs) /\ x.refs[i] = v /\ x.frag = f
    BY <1>1, <1>2, <1>4, <1>5, <2>1
  <2>3. y.frag = f /\ i \in 1..Len(y.refs) /\ y.refs[i] = v
    BY ONLY <2>2 DEF ElementKept
  <2> QED
    BY <2>1, <2>3
<1> QED
  BY <1>3, <1>6 DEF Has

LEMMA StepHas ==
  ASSUME NEW L, NEW M, NEW G, LayOK(L, G), Step(L, M, G), NEW f, NEW v, Has(L, f, v)
  PROVE  Has(M, f, v)
BY HasStays DEF Step

LEMMA ElementAdded ==
  ASSUME NEW L, NEW G, LayOK(L, G), NEW s \in DOMAIN L.seg,
         NEW tag, NEW size, NEW loose, NEW width, NEW refs, IsSequence(refs), Len(refs) >= 1 \/ tag # "data",
         NEW M, M = add_element(L, s, tag, size, loose, width, refs)
  PROVE  /\ Step(L, M, G) /\ Len(M.elts) = Len(L.elts) + 1 /\ Len(M.elts) \in 1..Len(M.elts)
         /\ \A i \in 1..Len(refs) : Has(M, CurFrag(L, s), refs[i])
<1> DEFINE x == [tag |-> tag, frag |-> CurFrag(L, s), size |-> size,
                 loose |-> loose, width |-> width, refs |-> refs,
                 nrefs |-> 0, units |-> {Len(L.units)}]
           k == Len(L.elts) + 1
<1>0. /\ {"seg", "elts", "cells", "shared", "units"} \subseteq DOMAIN L
      /\ IsSequence(L.elts) /\ \A e \in 1..Len(L.elts) : ElementOK(L.elts[e])
      /\ CellsOK(L.cells, G) /\ SegmentsOK(L.seg, L.cells, G)
  BY DEF LayOK, ElementsOK
<1>1. DOMAIN M = DOMAIN L /\ M.cells = L.cells /\ M.elts = Append(L.elts, x) /\ M.seg = L.seg
  BY <1>0 DEF add_element
<1>2. ElementOK(x) /\ x.frag = CurFrag(L, s) /\ x.refs = refs
  BY DEF ElementOK
<1>n. Len(L.elts) \in Nat /\ k \in 1..k /\ k \in Nat
  BY <1>0 DEF IsSequence
<1> HIDE DEF x
<1>3. Appended(L.elts, x, M.elts)
  BY <1>0, <1>1, AppendAny
<1>4. /\ IsSequence(M.elts) /\ Len(M.elts) = k /\ M.elts[k] = x
      /\ \A e \in 1..Len(L.elts) : M.elts[e] = L.elts[e]
  BY <1>3 DEF Appended
<1>5. ElementsOK(M.elts)
  BY <1>0, <1>2, <1>4, <1>n DEF ElementsOK
<1>6. LayOK(M, G)
  BY <1>0, <1>1, <1>5 DEF LayOK
<1>7. CellsKept(L.cells, L.cells) /\ \A e \in 1..Len(L.elts) : ElementKept(L.elts[e], L.elts[e])
  BY LayStays DEF Step, LayKept, ElementsKept
<1>8. Step(L, M, G)
  BY <1>1, <1>4, <1>6, <1>7, <1>n DEF Step, LayKept, SameFrags, ElementsKept
<1>9. ASSUME NEW i \in 1..Len(refs)  PROVE Has(M, CurFrag(L, s), refs[i])
  BY <1>2, <1>4, <1>n DEF Has
<1> QED
  BY <1>4, <1>8, <1>9, <1>n

LEMMA ElementChanged ==
  ASSUME NEW L, NEW G, LayOK(L, G), NEW e \in 1..Len(L.elts), NEW x,
         ElementOK(x), ElementKept(L.elts[e], x),
         NEW M, DOMAIN M = DOMAIN L, M.cells = L.cells, M.seg = L.seg, M.elts = [L.elts EXCEPT ![e] = x]
  PROVE  Step(L, M, G) /\ M.elts[e] = x /\ e \in 1..Len(M.elts)
<1>0. /\ {"seg", "elts", "cells", "shared", "units"} \subseteq DOMAIN L
      /\ IsSequence(L.elts) /\ \A i \in 1..Len(L.elts) : ElementOK(L.elts[i])
      /\ CellsOK(L.cells, G) /\ SegmentsOK(L.seg, L.cells, G) /\ Len(L.elts) \in Nat
  BY DEF LayOK, ElementsOK, IsSequence
<1>3. Replaces(L.elts, e, x, M.elts)
  BY <1>0, ReplaceAny
<1>4. /\ IsSequence(M.elts) /\ Len(M.elts) = Len(L.elts) /\ M.elts[e] = x
      /\ \A i \in 1..Len(L.elts) : i # e => M.elts[i] = L.elts[i]
  BY <1>3 DEF Replaces
<1>5. ElementsOK(M.elts)
  BY <1>0, <1>4 DEF ElementsOK
<1>6. LayOK(M, G)
  BY <1>0, <1>5 DEF LayOK
<1>7. CellsKept(L.cells, L.cells) /\ \A i \in 1..Len(L.elts) : ElementKept(L.elts[i], L.elts[i])
  BY LayStays DEF Step, LayKept, ElementsKept
<1>8. ElementsKept(L.elts, M.elts)
  BY <1>0, <1>4, <1>7 DEF ElementsKept
<1> QED
  BY <1>4, <1>6, <1>7, <1>8 DEF Step, LayKept, SameFrags

LEMMA CurElement ==
  ASSUME NEW L, NEW G, LayOK(L, G), NEW s \in DOMAIN L.seg
  PROVE  curel(L, s) # 0 => curel(L, s) \in 1..Len(L.elts) /\ L.elts[curel(L, s)].frag = CurFrag(L, s)
<1> DEFINE n == Len(L.elts)
           S == {0} \cup {e \in DOMAIN L.elts : L.elts[e].frag = CurFrag(L, s)}
<1>1. n \in Nat /\ DOMAIN L.elts = 1..n
  BY DEF LayOK, ElementsOK, IsSequence
<1>2. S \in SUBSET (0..n) /\ S # {}
  BY <1>1
<1>3. Max(S) \in S
  BY <1>1, <1>2, MaxBelow
<1>4. curel(L, s) = Max(S)
  BY DEF curel
<1> HIDE DEF S
<1>5. PICK m : m = curel(L, s) /\ m \in S
  BY <1>3, <1>4
<1>6. m # 0 => m \in DOMAIN L.elts /\ L.elts[m].frag = CurFrag(L, s)
  BY <1>5, Zenon DEF S
<1> QED
  BY <1>1, <1>5, <1>6

LEMMA PlusConstant ==
  ASSUME NEW L, NEW G, LayOK(L, G), NEW s \in DOMAIN L.seg, NEW c, NEW els
  PROVE  Step(L, SetPoint(L, s, OnLastLeg(point(L, s), c, els)), G)
<1> DEFINE p == point(L, s)
           q == OnLastLeg(p, c, els)
<1>1. CellOK(p, G) /\ p.frag = CurFrag(L, s)
  BY DEF LayOK, CellsOK, SegmentsOK, SegmentOK, point, CurFrag
<1>2. CellOK(q, G) /\ q.frag = CurFrag(L, s)
  <2> HIDE DEF p
  <2>1. DOMAIN q = DOMAIN p /\ q.frag = p.frag
    BY <1>1 DEF OnLastLeg, CellOK
  <2> QED
    BY <1>1, <2>1 DEF CellOK
<1> QED
  BY <1>2, PointMoves

LEMMA PlusElement ==
  ASSUME NEW L, NEW G, LayOK(L, G), NEW s \in DOMAIN L.seg, NEW e \in 1..Len(L.elts)
  PROVE  Step(L, expr_plus_element(L, s, e), G)
<1>1. CASE ~ L.elts[e].loose
  BY <1>1, PlusConstant DEF expr_plus_element, expr_plus_constant
<1>2. CASE L.elts[e].loose
  <2> DEFINE M == [L EXCEPT !.elts[e].nrefs = @ + 1]
             x == [L.elts[e] EXCEPT !.nrefs = @ + 1]
             K == SetPoint(M, s, OnLastLeg(point(L, s), 0, {e}))
  <2>0. {"seg", "elts", "cells", "shared", "units"} \subseteq DOMAIN L /\ ElementOK(L.elts[e])
    BY DEF LayOK, ElementsOK
  <2>1. DOMAIN M = DOMAIN L /\ M.cells = L.cells /\ M.seg = L.seg /\ M.elts = [L.elts EXCEPT ![e] = x]
    BY <2>0
  <2>2. DOMAIN x = DOMAIN L.elts[e] /\ x.frag = L.elts[e].frag /\ x.refs = L.elts[e].refs /\ x.tag = L.elts[e].tag
    BY <2>0 DEF ElementOK
  <2> HIDE DEF M, x
  <2>3. ElementOK(x) /\ ElementKept(L.elts[e], x)
    <3>1. Len(x.refs) \in Nat
      BY <2>0, <2>2 DEF ElementOK, IsSequence
    <3> QED
      BY <2>0, <2>2, <3>1 DEF ElementOK, ElementKept
  <2>4. Step(L, M, G)
    BY <2>1, <2>3, ElementChanged
  <2>5. point(M, s) = point(L, s) /\ s \in DOMAIN M.seg
    BY <2>1 DEF point
  <2>6. Step(M, K, G)
    BY <2>4, <2>5, PlusConstant DEF Step
  <2>7. Step(L, K, G)
    BY <2>4, <2>6, StepOn
  <2> QED
    BY <1>2, <2>7 DEF expr_plus_element, M
<1> QED
  BY <1>1, <1>2

LEMMA StepSeg ==
  ASSUME NEW L, NEW M, NEW G, Step(L, M, G), NEW s \in DOMAIN L.seg
  PROVE  LayOK(M, G) /\ s \in DOMAIN M.seg /\ CurFrag(M, s) = CurFrag(L, s)
BY DEF Step, SameFrags, CurFrag

LEMMA ShortSequences ==
  /\ IsSequence(<<>>) /\ Len(<<>>) = 0
  /\ \A x : IsSequence(<<x>>) /\ Len(<<x>>) = 1 /\ <<x>>[1] = x
  /\ \A x, y : IsSequence(<<x, y>>) /\ Len(<<x, y>>) = 2 /\ <<x, y>>[1] = x /\ <<x, y>>[2] = y
<1>0. \A D : \A s \in Seq(D) : IsSequence(s)
  <2> SUFFICES ASSUME NEW D, NEW s \in Seq(D)  PROVE IsSequence(s)
    OBVIOUS
  <2>1. Len(s) \in Nat /\ s \in [1..Len(s) -> D]
    OBVIOUS
  <2> QED
    BY <2>1 DEF IsSequence
<1>1. <<>> \in Seq({})
  OBVIOUS
<1>2. \A x : <<x>> \in Seq({x})
  OBVIOUS
<1>3. \A x, y : <<x, y>> \in Seq({x, y})
  OBVIOUS
<1> QED
  BY <1>0, <1>1, <1>2, <1>3

\* The bytes of a block.
LEMMA BlockStep ==
  ASSUME NEW L, NEW G, LayOK(L, G), NEW s \in DOMAIN L.seg, NEW c, NEW want
  PROVE  Step(L, InBlock(L, s, c, want), G)
<1> DEFINE U == AddUnit(L, Unit(L, s, "fixed", c, 0, want))
           e == curel(L, s)
           B == IntoBlock(U, s, e, c)
<1>1. Step(L, U, G)
  BY Aside
<1>2. LayOK(U, G) /\ s \in DOMAIN U.seg
  BY <1>1, StepSeg
<1>3. U.elts = L.elts /\ {"seg", "elts", "cells", "shared", "units"} \subseteq DOMAIN U
  <2>1. {"seg", "elts", "cells", "shared", "units"} \subseteq DOMAIN L
    BY DEF LayOK
  <2> QED
    BY <2>1 DEF AddUnit
<1>4. e # 0 => e \in 1..Len(U.elts)
  BY <1>3, CurElement
<1> HIDE DEF U, e
<1>5. Step(U, B, G)
  <2>1. CASE e = 0 \/ U.elts[e].tag # "block"
    <3>1. B = add_element(U, s, "block", c, FALSE, 1, <<>>)
      BY <2>1 DEF IntoBlock
    <3> QED
      BY <1>2, <3>1, ShortSequences, ElementAdded
  <2>2. CASE ~ (e = 0 \/ U.elts[e].tag # "block")
    <3> DEFINE y == [U.elts[e] EXCEPT !.size = @ + c]
               x == [y EXCEPT !.units = @ \cup {Len(U.units)}]
    <3>0. e \in 1..Len(U.elts) /\ ElementOK(U.elts[e])
      BY <1>2, <1>4, <2>2 DEF LayOK, ElementsOK
    <3>1. B = [U EXCEPT !.elts[e].size = @ + c, !.elts[e].units = @ \cup {Len(U.units)}]
      BY <2>2 DEF IntoBlock
    <3>2. DOMAIN B = DOMAIN U /\ B.cells = U.cells /\ B.seg = U.seg
      BY <1>3, <3>1
    <3>3. e \in DOMAIN U.elts
      BY <1>2, <3>0 DEF LayOK, ElementsOK, IsSequence
    <3>4. B.elts = [U.elts EXCEPT ![e] = x]
      <4>1. B.elts = [[U.elts EXCEPT ![e] = y] EXCEPT ![e] = [@ EXCEPT !.units = @ \cup {Len(U.units)}]]
        BY <1>3, <3>1
      <4>2. [U.elts EXCEPT ![e] = y][e] = y
        BY <3>3
      <4> HIDE DEF y
      <4>3. B.elts = [[U.elts EXCEPT ![e] = y] EXCEPT ![e] = x]
        BY <4>1, <4>2
      <4> HIDE DEF x
      <4> QED
        BY <3>3, <4>3
    <3>5. DOMAIN x = DOMAIN U.elts[e] /\ x.frag = U.elts[e].frag /\ x.refs = U.elts[e].refs /\ x.tag = U.elts[e].tag
      BY <3>0 DEF ElementOK
    <3> HIDE DEF x, B
    <3>6. ElementOK(x) /\ ElementKept(U.elts[e], x)
      <4>1. Len(x.refs) \in Nat
        BY <3>0, <3>5 DEF ElementOK, IsSequence
      <4> QED
        BY <3>0, <3>5, <4>1 DEF ElementOK, ElementKept
    <3> QED
      BY <1>2, <3>0, <3>2, <3>4, <3>6, ElementChanged
  <2> QED
    BY <2>1, <2>2
<1>6. LayOK(B, G) /\ s \in DOMAIN B.seg
  BY <1>2, <1>5, StepSeg
<1>7. Step(B, expr_plus_constant(B, s, c), G)
  BY <1>6, PlusConstant DEF expr_plus_constant
<1>8. Step(L, B, G)
  BY <1>1, <1>5, StepOn
<1>9. Step(L, expr_plus_constant(B, s, c), G)
  BY <1>7, <1>8, StepOn
<1> QED
  BY <1>9 DEF InBlock, U, e

\* A new element, and the point after it.
LEMMA AddedStep ==
  ASSUME NEW L, NEW G, LayOK(L, G), NEW s \in DOMAIN L.seg,
         NEW tag, NEW size, NEW loose, NEW width, NEW refs, IsSequence(refs), Len(refs) >= 1 \/ tag # "data"
  PROVE  /\ Step(L, LastAdded(add_element(L, s, tag, size, loose, width, refs), s), G)
         /\ \A i \in 1..Len(refs) :
               Has(LastAdded(add_element(L, s, tag, size, loose, width, refs), s), CurFrag(L, s), refs[i])
<1> DEFINE M == add_element(L, s, tag, size, loose, width, refs)
           K == LastAdded(M, s)
<1>1. /\ Step(L, M, G) /\ Len(M.elts) \in 1..Len(M.elts)
      /\ \A i \in 1..Len(refs) : Has(M, CurFrag(L, s), refs[i])
  BY ElementAdded
<1> HIDE DEF M
<1>2. LayOK(M, G) /\ s \in DOMAIN M.seg
  BY <1>1, StepSeg
<1>3. Step(M, K, G)
  BY <1>1, <1>2, PlusElement DEF LastAdded
<1>4. Step(L, K, G)
  BY <1>1, <1>3, StepOn
<1>5. \A i \in 1..Len(refs) : Has(K, CurFrag(L, s), refs[i])
  BY <1>1, <1>2, <1>3, StepHas
<1> QED
  BY <1>4, <1>5 DEF M

LEMMA PaddingStep ==
  ASSUME NEW L, NEW G, LayOK(L, G), NEW s \in DOMAIN L.seg, NEW n, NEW fixed
  PROVE  Step(L, emit_padding(L, s, n, fixed), G)
<1> DEFINE S == Share(L, s)
           U == AddUnit(S, Unit(L, s, "pad", n, L.seg[s].point, 1))
           K == emit_padding(L, s, n, fixed)
<1>1. Step(L, S, G)
  BY Aside
<1>2. LayOK(S, G) /\ s \in DOMAIN S.seg
  BY <1>1, StepSeg
<1> HIDE DEF S
<1>3. Step(S, U, G)
  BY <1>2, Aside
<1>4. LayOK(U, G) /\ s \in DOMAIN U.seg
  BY <1>2, <1>3, StepSeg
<1>5. Step(L, U, G)
  BY <1>1, <1>3, StepOn
<1>6. K = LastAdded(add_element(U, s, "data", 0, TRUE, 1, <<IF fixed THEN Const(0) ELSE None>>), s)
  BY DEF emit_padding, S
<1> HIDE DEF U
<1>7. Step(U, K, G)
  <2>0. PICK x : x = IF fixed THEN Const(0) ELSE None
    OBVIOUS
  <2>1. PICK r : r = <<x>> /\ IsSequence(r) /\ Len(r) = 1
    BY ShortSequences
  <2>2. K = LastAdded(add_element(U, s, "data", 0, TRUE, 1, r), s)
    BY <1>6, <2>0, <2>1
  <2>3. Len(r) >= 1
    BY <2>1
  <2> QED
    BY <1>4, <2>1, <2>2, <2>3, AddedStep
<1> QED
  BY <1>5, <1>7, StepOn

LEMMA AlignStep ==
  ASSUME NEW L, NEW G, LayOK(L, G), NEW s \in DOMAIN L.seg, NEW n, NEW fixed
  PROVE  Step(L, emit_align(L, s, n, fixed), G)
BY LayStays, BlockStep, PaddingStep DEF emit_align, AlignBy

LEMMA PendingStep ==
  ASSUME NEW L, NEW G, LayOK(L, G), NEW s \in DOMAIN L.seg
  PROVE  Step(L, do_pending_alignment(L, s), G)
<1>1. CASE L.seg[s].pend = 1
  BY <1>1, LayStays DEF do_pending_alignment
<1>2. CASE L.seg[s].pend # 1
  <2> DEFINE A == emit_align(L, s, L.seg[s].pend, L.seg[s].fixed)
             B == LooksAligned(A, s, Len(L.units))
             K == drop_pending_alignment(B, s)
  <2>1. Step(L, A, G)
    BY AlignStep
  <2> HIDE DEF A
  <2>2. LayOK(A, G) /\ s \in DOMAIN A.seg
    BY <2>1, StepSeg
  <2>3. Step(A, B, G)
    <3> DEFINE p == [point(A, s) EXCEPT !.legs = Append(@, Leg(A.seg[s].pend))]
    <3>1. CellOK(point(A, s), G) /\ point(A, s).frag = CurFrag(A, s)
      BY <2>2 DEF LayOK, CellsOK, SegmentsOK, SegmentOK, point, CurFrag
    <3>2. DOMAIN p = DOMAIN point(A, s) /\ p.frag = point(A, s).frag
      BY <3>1 DEF CellOK
    <3>3. CellOK(p, G) /\ p.frag = CurFrag(A, s)
      BY <3>1, <3>2 DEF CellOK
    <3> HIDE DEF p
    <3>4. Step(A, NewPoint(A, s, p), G)
      BY <2>2, <3>3, PointMoves
    <3>5. Step(A, A, G)
      BY <2>2, LayStays
    <3> QED
      BY <3>4, <3>5 DEF LooksAligned, p
  <2> HIDE DEF B
  <2>4. LayOK(B, G) /\ s \in DOMAIN B.seg
    BY <2>2, <2>3, StepSeg
  <2>5. Step(B, K, G)
    BY <2>4, Aside
  <2>6. Step(L, B, G)
    BY <2>1, <2>3, StepOn
  <2>7. Step(L, K, G)
    BY <2>5, <2>6, StepOn
  <2> QED
    BY <1>2, <2>7 DEF do_pending_alignment, A, B
<1> QED
  BY <1>1, <1>2

\* Commands.
LEMMA ConstantStep ==
  ASSUME NEW L, NEW G, LayOK(L, G), NEW s \in DOMAIN L.seg, NEW len
  PROVE  Step(L, emit_cmd_const(L, s, len), G)
<1>1. \A sz : Step(L, [InBlock(L, s, sz, L.seg[s].asked) EXCEPT !.seg[s].slot = 0], G)
  <2> SUFFICES ASSUME NEW sz  PROVE Step(L, [InBlock(L, s, sz, L.seg[s].asked) EXCEPT !.seg[s].slot = 0], G)
    OBVIOUS
  <2> DEFINE B == InBlock(L, s, sz, L.seg[s].asked)
  <2>1. Step(L, B, G)
    BY BlockStep
  <2> HIDE DEF B
  <2>2. LayOK(B, G) /\ s \in DOMAIN B.seg
    BY <2>1, StepSeg
  <2>3. Step(B, [B EXCEPT !.seg[s].slot = 0], G)
    BY <2>2, Aside
  <2>4. Step(L, [B EXCEPT !.seg[s].slot = 0], G)
    BY <2>1, <2>3, StepOn
  <2> QED
    BY <2>4 DEF B
<1> QED
  BY <1>1 DEF emit_cmd_const

LEMMA CommandStep ==
  ASSUME NEW L, NEW G, LayOK(L, G), NEW s \in DOMAIN L.seg,
         NEW arg, IsSequence(arg), NEW known, NEW len
  PROVE  /\ Step(L, emit_cmd_expr(L, s, arg, known, len), G)
         /\ \A i \in 1..Len(arg) : Has(emit_cmd_expr(L, s, arg, known, len), CurFrag(L, s), arg[i])
<1>1. PICK size, loose, u :
        emit_cmd_expr(L, s, arg, known, len) =
          [LastAdded(add_element(AddUnit(L, u), s, "cmd", size, loose, 1, arg), s) EXCEPT !.seg[s].slot = 0]
  BY DEF emit_cmd_expr
<1> DEFINE U == AddUnit(L, u)
           K == LastAdded(add_element(U, s, "cmd", size, loose, 1, arg), s)
           R == [K EXCEPT !.seg[s].slot = 0]
<1>2. Step(L, U, G)
  BY Aside
<1> HIDE DEF U
<1>3. LayOK(U, G) /\ s \in DOMAIN U.seg /\ CurFrag(U, s) = CurFrag(L, s)
  BY <1>2, StepSeg
<1>4. Step(U, K, G) /\ \A i \in 1..Len(arg) : Has(K, CurFrag(L, s), arg[i])
  <2>1. Len(arg) >= 1 \/ "cmd" # "data"
    OBVIOUS
  <2>2. Step(U, K, G) /\ \A i \in 1..Len(arg) : Has(K, CurFrag(U, s), arg[i])
    BY <1>3, <2>1, AddedStep
  <2> QED
    BY <1>3, <2>2
<1> HIDE DEF K
<1>5. LayOK(K, G) /\ s \in DOMAIN K.seg
  BY <1>3, <1>4, StepSeg
<1>6. Step(K, R, G)
  BY <1>5, Aside
<1> HIDE DEF R
<1>7. \A i \in 1..Len(arg) : Has(R, CurFrag(L, s), arg[i])
  BY <1>4, <1>5, <1>6, StepHas
<1>8. Step(L, K, G)
  BY <1>2, <1>4, StepOn
<1>9. Step(L, R, G)
  BY <1>6, <1>8, StepOn
<1> QED
  BY <1>1, <1>7, <1>9 DEF R, K, U

LEMMA PairIs ==
  ASSUME NEW x, NEW y, NEW r, r = <<x, y>>
  PROVE  IsSequence(r) /\ Len(r) = 2 /\ r[1] = x /\ r[2] = y
<1>1. r \in Seq({x, y}) /\ Len(r) = 2 /\ r[1] = x /\ r[2] = y
  OBVIOUS
<1>2. r \in [1..2 -> {x, y}]
  BY <1>1
<1> QED
  BY <1>1, <1>2 DEF IsSequence

LEMMA HeadIs ==
  ASSUME NEW s, IsSequence(s), Len(s) >= 1
  PROVE  Head(s) = s[1]
<1> DEFINE n == Len(s)
           D == {s[j] : j \in 1..n}
<1>1. n \in Nat /\ s = [j \in 1..n |-> s[j]] /\ \A j \in 1..n : s[j] \in D
  BY DEF IsSequence
<1> HIDE DEF D
<1>2. s \in Seq(D) /\ s # <<>>
  <2> HIDE DEF n
  <2>1. s \in [1..n -> D]
    BY <1>1
  <2>2. s \in Seq(D)
    BY <1>1, <2>1
  <2> QED
    BY <2>2 DEF n
<1> QED
  BY <1>2

\* Data: glued to the element before, or an element of its own.
LEMMA DataStep ==
  ASSUME NEW L, NEW G, LayOK(L, G), NEW s \in DOMAIN L.seg,
         NEW width, NEW data, NEW count, NEW known, NEW n,
         NEW R, R = emit_data(L, s, width, data, count, known, n)
  PROVE  Step(L, R, G) /\ Has(R, CurFrag(L, s), data) /\ Has(R, CurFrag(L, s), count)
<1>1. PICK u : R = IF Glues(L, s, width, data)
                   THEN Glue(AddUnit(L, u), s, curel(L, s), n * width, count, ~ known)
                   ELSE LastAdded(add_element(AddUnit(L, u), s, "data", n * width, ~ known, width,
                                              <<data, count>>), s)
  BY DEF emit_data
<1> DEFINE U == AddUnit(L, u)
<1>2. Step(L, U, G)
  BY Aside
<1>3. LayOK(U, G) /\ s \in DOMAIN U.seg /\ CurFrag(U, s) = CurFrag(L, s)
  BY <1>2, StepSeg
<1>4. U.elts = L.elts /\ {"seg", "elts", "cells", "shared", "units"} \subseteq DOMAIN U
  <2>1. {"seg", "elts", "cells", "shared", "units"} \subseteq DOMAIN L
    BY DEF LayOK
  <2> QED
    BY <2>1 DEF AddUnit
<1> HIDE DEF U
<1>5. CASE ~ Glues(L, s, width, data)
  <2>0. PICK r : r = <<data, count>>
    OBVIOUS
  <2>1. IsSequence(r) /\ Len(r) = 2 /\ r[1] = data /\ r[2] = count
    BY <2>0, PairIs
  <2>2. R = LastAdded(add_element(U, s, "data", n * width, ~ known, width, r), s)
    BY <1>1, <1>5, <2>0 DEF U
  <2>3. Len(r) >= 1 /\ 1 \in 1..Len(r) /\ 2 \in 1..Len(r)
    BY <2>1
  <2>4. Step(U, R, G) /\ \A i \in 1..Len(r) : Has(R, CurFrag(U, s), r[i])
    BY <1>3, <2>1, <2>2, <2>3, AddedStep
  <2>5. Step(L, R, G)
    BY <1>2, <2>4, StepOn
  <2> QED
    BY <1>3, <2>1, <2>3, <2>4, <2>5
<1>6. CASE Glues(L, s, width, data)
  <2>1. PICK e : e = curel(L, s)
    OBVIOUS
  <2>2. /\ e \in 1..Len(L.elts) /\ L.elts[e].frag = CurFrag(L, s)
        /\ L.elts[e].tag = "data" /\ Head(L.elts[e].refs) = data
    BY <1>6, <2>1, CurElement DEF Glues
  <2> DEFINE a == U.elts[e]
             x == [a EXCEPT !.size = @ + n * width, !.loose = ~ known,
                            !.refs = Append(@, count), !.units = @ \cup {Len(U.units)}]
             P == expr_plus_constant(U, s, -U.elts[e].size)
             Q == [P EXCEPT !.elts[e] = x]
  <2>3. R = expr_plus_element(Q, s, e)
    BY <1>1, <1>6, <2>1 DEF Glue, U
  <2>4. Step(U, P, G)
    BY <1>3, PlusConstant DEF expr_plus_constant
  <2>5. LayOK(P, G) /\ s \in DOMAIN P.seg
    BY <1>3, <2>4, StepSeg
  <2>6. P.elts = U.elts
    BY <1>4 DEF expr_plus_constant, SetPoint
  <2> HIDE DEF P
  <2>7. e \in 1..Len(P.elts) /\ ElementOK(a) /\ a.frag = CurFrag(L, s) /\ a.tag = "data" /\ Head(a.refs) = data
    BY <1>3, <1>4, <2>2, <2>6 DEF LayOK, ElementsOK
  <2>10. Len(a.refs) \in Nat /\ Len(a.refs) >= 1 /\ a.refs[1] = data
    <3>1. Len(a.refs) \in Nat /\ Len(a.refs) >= 1
      BY <2>7 DEF ElementOK, IsSequence
    <3> QED
      BY <2>7, <3>1, HeadIs DEF ElementOK
  <2>8. DOMAIN x = DOMAIN a /\ x.frag = a.frag /\ x.refs = Append(a.refs, count) /\ x.tag = a.tag
    <3> HIDE DEF a
    <3> QED
      BY <2>7 DEF ElementOK
  <2>q. DOMAIN Q = DOMAIN P /\ Q.cells = P.cells /\ Q.seg = P.seg /\ Q.elts = [P.elts EXCEPT ![e] = x]
    <3>1. {"seg", "elts", "cells", "shared", "units"} \subseteq DOMAIN P
      BY <2>5 DEF LayOK
    <3> HIDE DEF x
    <3> QED
      BY <3>1
  <2> HIDE DEF Q, x
  <2>9. Appended(a.refs, count, x.refs)
    BY <2>7, <2>8, AppendAny DEF ElementOK
  <2>11. ElementOK(x) /\ ElementKept(P.elts[e], x)
    <3>1. P.elts[e] = a
      BY <2>6
    <3> HIDE DEF a
    <3> QED
      BY <2>7, <2>8, <2>9, <2>10, <3>1 DEF ElementOK, ElementKept, Appended
  <2>12. Step(P, Q, G) /\ Q.elts[e] = x /\ e \in 1..Len(Q.elts)
    BY <2>5, <2>7, <2>q, <2>11, ElementChanged
  <2>13. LayOK(Q, G) /\ s \in DOMAIN Q.seg
    BY <2>5, <2>12, StepSeg
  <2>14. Has(Q, CurFrag(L, s), data) /\ Has(Q, CurFrag(L, s), count)
    <3>1. x.frag = CurFrag(L, s) /\ 1 \in 1..Len(x.refs) /\ x.refs[1] = data
      BY <2>7, <2>8, <2>9, <2>10 DEF Appended
    <3>2. Len(a.refs) + 1 \in 1..Len(x.refs) /\ x.refs[Len(a.refs) + 1] = count
      BY <2>9, <2>10 DEF Appended
    <3> QED
      BY <2>12, <3>1, <3>2 DEF Has
  <2>15. Step(Q, R, G)
    BY <2>3, <2>12, <2>13, PlusElement
  <2>16. Has(R, CurFrag(L, s), data) /\ Has(R, CurFrag(L, s), count)
    BY <2>13, <2>14, <2>15, StepHas
  <2>17. Step(L, P, G)
    BY <1>2, <2>4, StepOn
  <2>18. Step(L, Q, G)
    BY <2>12, <2>17, StepOn
  <2>19. Step(L, R, G)
    BY <2>15, <2>18, StepOn
  <2> QED
    BY <2>16, <2>19
<1> QED
  BY <1>5, <1>6

-----------------------------------------------------------------------------
(* Fragments and segments.                                                 *)

LEMMA LayWider ==
  ASSUME NEW L, NEW G, NEW H, LayOK(L, G), G \subseteq H
  PROVE  LayOK(L, H)
<1>1. CellsOK(L.cells, H)
  BY DEF LayOK, CellsOK, CellOK
<1>2. SegmentsOK(L.seg, L.cells, H)
  BY DEF LayOK, SegmentsOK, SegmentOK
<1> QED
  BY <1>1, <1>2 DEF LayOK

\* Segment s has no point yet.
LayBut(L, G, s) ==
  /\ {"seg", "elts", "cells", "shared", "units"} \subseteq DOMAIN L
  /\ CellsOK(L.cells, G)
  /\ ElementsOK(L.elts)
  /\ s \in DOMAIN L.seg
  /\ {"frags", "point", "slot", "pend", "fixed", "asked"} \subseteq DOMAIN L.seg[s]
  /\ IsSequence(L.seg[s].frags)
  /\ \A i \in 1..Len(L.seg[s].frags) : L.seg[s].frags[i] \in G
  /\ \A t \in DOMAIN L.seg \ {s} : SegmentOK(L.seg[t], L.cells, G)

LEMMA FragmentAdded ==
  ASSUME NEW L, NEW G, NEW s, LayBut(L, G, s), NEW f \in G, NEW a, NEW M, M = add_fragment(L, s, f, a)
  PROVE  LayOK(M, G) /\ LayKept(L, M) /\ DOMAIN M.seg = DOMAIN L.seg /\ CurFrag(M, s) = f
<1> DEFINE p == [frag |-> f, legs |-> <<Leg(a)>>]
           k == Len(L.cells) + 1
           fr == L.seg[s].frags
           m == Len(fr) + 1
<1>0. /\ {"seg", "elts", "cells", "shared", "units"} \subseteq DOMAIN L
      /\ IsSequence(L.cells) /\ \A i \in 1..Len(L.cells) : CellOK(L.cells[i], G)
      /\ ElementsOK(L.elts) /\ Len(L.cells) \in Nat
      /\ s \in DOMAIN L.seg
      /\ {"frags", "point", "slot", "pend", "fixed", "asked"} \subseteq DOMAIN L.seg[s]
      /\ IsSequence(fr) /\ Len(fr) \in Nat
      /\ \A i \in 1..Len(fr) : fr[i] \in G
      /\ \A t \in DOMAIN L.seg \ {s} : SegmentOK(L.seg[t], L.cells, G)
  BY DEF LayBut, CellsOK, IsSequence
<1>p. CellOK(p, G) /\ p.frag = f
  BY DEF CellOK
<1> HIDE DEF p
<1> DEFINE B == [L EXCEPT !.seg[s].frags = Append(@, f)]
<1>b. M = NewPoint(B, s, p)
  BY DEF add_fragment, p
<1>1. DOMAIN B = DOMAIN L /\ B.cells = L.cells /\ B.elts = L.elts /\ B.seg = [L.seg EXCEPT ![s].frags = Append(@, f)]
  BY <1>0
<1> HIDE DEF B
<1>c. /\ DOMAIN B.seg = DOMAIN L.seg /\ (\A t \in DOMAIN L.seg \ {s} : B.seg[t] = L.seg[t])
      /\ DOMAIN B.seg[s] = DOMAIN L.seg[s] /\ B.seg[s].frags = Append(fr, f)
  BY <1>0, <1>1
<1>2. /\ DOMAIN M = DOMAIN L /\ M.cells = Append(L.cells, p) /\ M.elts = L.elts
      /\ M.seg = [B.seg EXCEPT ![s].point = k]
  BY <1>0, <1>1, <1>b DEF NewPoint
<1>3. /\ DOMAIN M.seg = DOMAIN L.seg /\ (\A t \in DOMAIN L.seg \ {s} : M.seg[t] = L.seg[t])
      /\ DOMAIN M.seg[s] = DOMAIN L.seg[s] /\ M.seg[s].frags = Append(fr, f) /\ M.seg[s].point = k
  BY <1>0, <1>2, <1>c
<1>4. /\ IsSequence(M.cells) /\ Len(M.cells) = k /\ M.cells[k] = p
      /\ \A j \in 1..Len(L.cells) : M.cells[j] = L.cells[j]
  <2>1. Appended(L.cells, p, M.cells)
    BY <1>0, <1>2, AppendAny
  <2> QED
    BY <2>1 DEF Appended
<1>5. /\ IsSequence(M.seg[s].frags) /\ Len(M.seg[s].frags) = m /\ M.seg[s].frags[m] = f
      /\ \A j \in 1..Len(fr) : M.seg[s].frags[j] = fr[j]
  <2>1. Appended(fr, f, M.seg[s].frags)
    BY <1>0, <1>3, AppendAny
  <2> QED
    BY <2>1 DEF Appended
<1>6. CellsOK(M.cells, G)
  BY <1>0, <1>4, <1>p DEF CellsOK
<1>7. Last(M.seg[s].frags) = f
  BY <1>5 DEF Last
<1>8. SegmentOK(M.seg[s], M.cells, G)
  <2>1. Len(M.seg[s].frags) >= 1 /\ \A i \in 1..Len(M.seg[s].frags) : M.seg[s].frags[i] \in G
    BY <1>0, <1>5
  <2>2. k \in 1..Len(M.cells)
    BY <1>0, <1>4
  <2> QED
    BY <1>0, <1>3, <1>4, <1>5, <1>7, <1>p, <2>1, <2>2 DEF SegmentOK
<1>9. ASSUME NEW t \in DOMAIN M.seg, t # s  PROVE SegmentOK(M.seg[t], M.cells, G)
  <2>1. SegmentOK(L.seg[t], L.cells, G) /\ M.seg[t] = L.seg[t]
    BY <1>0, <1>3, <1>9
  <2>2. L.seg[t].point \in 1..Len(L.cells)
    BY <2>1 DEF SegmentOK
  <2>3. L.seg[t].point \in 1..Len(M.cells) /\ M.cells[L.seg[t].point] = L.cells[L.seg[t].point]
    BY <1>0, <1>4, <2>2
  <2> QED
    BY <2>1, <2>3 DEF SegmentOK
<1>10. LayOK(M, G)
  BY <1>0, <1>2, <1>6, <1>8, <1>9 DEF LayOK, SegmentsOK
<1>11. CellsKept(L.cells, M.cells)
  BY <1>0, <1>4 DEF CellsKept
<1>12. ElementsKept(L.elts, M.elts)
  <2>1. Len(L.elts) \in Nat /\ \A e \in 1..Len(L.elts) : Len(L.elts[e].refs) \in Nat
    BY <1>0 DEF ElementsOK, ElementOK, IsSequence
  <2> QED
    BY <1>2, <2>1 DEF ElementsKept, ElementKept
<1> QED
  BY <1>3, <1>7, <1>10, <1>11, <1>12 DEF LayKept, CurFrag

LEMMA FragmentStarted ==
  ASSUME NEW L, NEW G, LayOK(L, G), NEW s \in DOMAIN L.seg, NEW f \in G, NEW a, NEW M, M = add_fragment(L, s, f, a)
  PROVE  LayOK(M, G) /\ LayKept(L, M) /\ DOMAIN M.seg = DOMAIN L.seg /\ CurFrag(M, s) = f
<1>1. LayBut(L, G, s)
  BY DEF LayBut, LayOK, SegmentsOK, SegmentOK
<1> QED
  BY <1>1, FragmentAdded

LEMMA SegmentAdded ==
  ASSUME NEW L, NEW G, LayOK(L, G), NEW s, s \notin DOMAIN L.seg, NEW f \in G,
         NEW M, M = add_segment(L, s, f)
  PROVE  LayOK(M, G) /\ LayKept(L, M) /\ DOMAIN M.seg = DOMAIN L.seg \cup {s} /\ CurFrag(M, s) = f
<1> DEFINE r == [frags |-> <<>>, point |-> 0, slot |-> 0, pend |-> 1, fixed |-> TRUE, asked |-> 1]
           K == [L EXCEPT !.seg = With(@, s, r)]
<1>1. M = add_fragment(K, s, f, 1)
  BY DEF add_segment
<1>2. {"seg", "elts", "cells", "shared", "units"} \subseteq DOMAIN L
  BY DEF LayOK
<1>3. DOMAIN K = DOMAIN L /\ K.cells = L.cells /\ K.elts = L.elts /\ K.seg = With(L.seg, s, r)
  BY <1>2
<1>4. {"frags", "point", "slot", "pend", "fixed", "asked"} \subseteq DOMAIN r /\ r.frags = <<>>
  OBVIOUS
<1> HIDE DEF K, r
<1>5. DOMAIN K.seg = DOMAIN L.seg \cup {s} /\ K.seg[s] = r /\ \A t \in DOMAIN L.seg : K.seg[t] = L.seg[t]
  BY <1>3 DEF With
<1>6. LayBut(K, G, s)
  <2>1. IsSequence(r.frags) /\ Len(r.frags) = 0
    BY <1>4, ShortSequences
  <2>2. \A i \in 1..Len(r.frags) : r.frags[i] \in G
    BY <2>1
  <2>3. \A t \in DOMAIN K.seg \ {s} : SegmentOK(K.seg[t], K.cells, G)
    BY <1>3, <1>5 DEF LayOK, SegmentsOK
  <2> QED
    BY <1>2, <1>3, <1>4, <1>5, <2>1, <2>2, <2>3 DEF LayBut, LayOK
<1>7. LayOK(M, G) /\ LayKept(K, M) /\ DOMAIN M.seg = DOMAIN K.seg /\ CurFrag(M, s) = f
  BY <1>1, <1>6, FragmentAdded
<1> QED
  BY <1>3, <1>5, <1>7 DEF LayKept

\* The common block, in the fragment just started.
LEMMA CommonStep ==
  ASSUME NEW L, NEW G, LayOK(L, G), "bss" \in DOMAIN L.seg, NEW n, NEW w,
         NEW R, R = [swap_last_fragments(emit_common(L, n), "bss") EXCEPT !.seg["bss"].asked = w]
  PROVE  Step(L, R, G)
<1> DEFINE M == Met(L, "bss")
           D == emit_common(L, n)
           S == swap_last_fragments(D, "bss")
<1>1. Step(L, M, G)
  BY Aside
<1>2. LayOK(M, G) /\ "bss" \in DOMAIN M.seg
  BY <1>1, StepSeg
<1>3. Step(M, D, G)
  <2> HIDE DEF M
  <2>1. D = emit_data(M, "bss", 1, Const(0), Const(n), TRUE, n)
    BY DEF emit_common, M
  <2> HIDE DEF D
  <2> QED
    BY <1>2, <2>1, DataStep
<1>4. Step(L, D, G)
  BY <1>1, <1>3, StepOn
<1> HIDE DEF D, M
<1>5. LayOK(D, G) /\ "bss" \in DOMAIN D.seg
  BY <1>4, StepSeg
<1>6. Step(D, S, G)
  <2> DEFINE fr == D.seg["bss"].frags
             m == Len(fr)
  <2>1. /\ {"seg", "elts", "cells", "shared", "units"} \subseteq DOMAIN D
        /\ \A t \in DOMAIN D.seg : {"frags", "point", "slot", "pend", "fixed", "asked"} \subseteq DOMAIN D.seg[t]
        /\ IsSequence(fr)
    BY <1>5 DEF LayOK, SegmentsOK, SegmentOK
  <2>2. m \in Nat /\ fr = [j \in 1..m |-> fr[j]]
    BY <2>1 DEF IsSequence
  <2>3. [[fr EXCEPT ![m - 1] = fr[m]] EXCEPT ![m - 1] = fr[m - 1]] = fr
    <3> HIDE DEF fr, m
    <3> QED
      BY <2>2
  <2>4. S = [D EXCEPT !.seg["bss"].frags = fr]
    BY <2>3 DEF swap_last_fragments
  <2> HIDE DEF S
  <2>5. DOMAIN S = DOMAIN D /\ S.cells = D.cells /\ S.elts = D.elts /\ S.seg = [D.seg EXCEPT !["bss"].frags = fr]
    BY <2>1, <2>4
  <2>6. /\ DOMAIN S.seg = DOMAIN D.seg
        /\ \A t \in DOMAIN D.seg : /\ DOMAIN S.seg[t] = DOMAIN D.seg[t]
                                   /\ S.seg[t].frags = D.seg[t].frags /\ S.seg[t].point = D.seg[t].point
    BY <1>5, <2>1, <2>5
  <2> QED
    BY <1>5, <2>1, <2>5, <2>6, SameLayout
<1> HIDE DEF S
<1>7. Step(L, S, G)
  BY <1>4, <1>6, StepOn
<1>8. LayOK(S, G) /\ "bss" \in DOMAIN S.seg
  BY <1>7, StepSeg
<1>9. Step(S, R, G)
  BY <1>8, Aside DEF S, D
<1> QED
  BY <1>7, <1>9, StepOn

-----------------------------------------------------------------------------
(* The inductive invariant: what holds while ast parses and has found no   *)
(* error.                                                                  *)

NameFields == {"global", "defined", "fragment", "common", "align", "val"}
Globals(nm) == {n \in DOMAIN nm : nm[n].global}

NamesOK(nm) ==
  /\ nm = [n \in DOMAIN nm |-> nm[n]]
  /\ \E k \in Nat : DOMAIN nm = Names \cup (1..k)
  /\ \A n \in DOMAIN nm : NameFields \subseteq DOMAIN nm[n]
  /\ \A n \in DOMAIN nm : nm[n].defined /\ ~ nm[n].global => nm[n].val # None

\* What refers to an identifier was met by the scanner, S is what it has met.
ValueOK(v, nm, S, cells) ==
  /\ Refers(v, nm)
  /\ v.t = "name" /\ v.n \in Names => v.n \in S
  /\ v.t = "point" => v.n \in 1..Len(cells)

ValuesOK(nm, S, cells) == \A n \in DOMAIN nm : ValueOK(nm[n].val, nm, S, cells)

BackOK(bk, cells) ==
  /\ bk = [d \in Digits |-> bk[d]]
  /\ \A d \in Digits : bk[d] # None => bk[d].t = "point" /\ bk[d].n \in 1..Len(cells)

\* The nonames that are neither defined nor global are those of the awaited
\* digital labels, one each.
ForwOK(fw, nm) ==
  /\ fw = [d \in Digits |-> fw[d]]
  /\ \A d \in Digits : fw[d] # 0 =>
        fw[d] \in DOMAIN nm \ Names /\ ~ nm[fw[d]].defined /\ ~ nm[fw[d]].global
  /\ \A d, e \in Digits : fw[d] = fw[e] /\ fw[d] # 0 => d = e
  /\ \A n \in DOMAIN nm \ Names :
        ~ nm[n].defined /\ ~ nm[n].global => \E d \in Digits : fw[d] = n

MarkOK(m, nm, cells) ==
  /\ MarkFits(m, nm, cells)
  /\ m.val.t = "name" => m.val.n \in DOMAIN nm /\ nm[m.val.n].defined
  /\ m.val.t = "point" => m.val.n \in 1..Len(cells)

\* A use is a number, in a need list, put off, or in an element.
Noted(f, v, nm, L, nd, df) ==
  \/ v.t = "const"
  \/ v.t = "name" /\ nm[v.n].global /\ (v.n = f \/ <<f, v.n>> \in nd)
  \/ v.t = "name" /\ <<f, v.n>> \in df
  \/ Has(L, f, v)

UseOK(u, nm, S, L, nd, df) ==
  /\ u = <<u[1], u[2]>>
  /\ ValueOK(u[2], nm, S, L.cells)
  /\ Noted(u[1], u[2], nm, L, nd, df)

PutOff(df, S) == \A q \in df : q = <<q[1], q[2]>> /\ q[2] \in S

Parsing ==
  /\ NamesOK(name)
  /\ LayOK(lay, Globals(name)) /\ curseg \in DOMAIN lay.seg
  /\ ValuesOK(name, seen, lay.cells)
  /\ BackOK(backlab, lay.cells)
  /\ ForwOK(forwlab, name)
  /\ seen \subseteq Names
  /\ PutOff(deferred, seen)
  /\ \A m \in marks : MarkOK(m, name, lay.cells)
  /\ \A u \in uses : UseOK(u, name, seen, lay, needs, deferred)

AInv ==
  /\ phase = "parse" /\ errors = {} => Parsing /\ Acyclic(name)
  /\ UsedIsNeeded

\* What is defined stays as it is, what is global stays global.
Kept(nm, N) ==
  /\ DOMAIN nm \subseteq DOMAIN N
  /\ \A n \in DOMAIN nm : nm[n].global => N[n].global
  /\ \A n \in DOMAIN nm : nm[n].defined =>
        N[n].defined /\ N[n].val = nm[n].val /\ (N[n].global => nm[n].global)

LEMMA GlobalsStay ==
  ASSUME NEW nm, NEW N, Kept(nm, N)
  PROVE  Globals(nm) \subseteq Globals(N)
BY DEF Kept, Globals

LEMMA KeptOn ==
  ASSUME NEW nm, NEW N, NEW K, Kept(nm, N), Kept(N, K)
  PROVE  Kept(nm, K)
BY DEF Kept

LEMMA CellsLonger ==
  ASSUME NEW L, NEW M, NEW G, NEW H, LayOK(L, G), LayOK(M, H), LayKept(L, M)
  PROVE  /\ \A i \in 1..Len(L.cells) : i \in 1..Len(M.cells) /\ M.cells[i].frag = L.cells[i].frag
         /\ 1..Len(L.cells) \subseteq 1..Len(M.cells)
<1>1. Len(L.cells) \in Nat /\ Len(M.cells) \in Nat
  BY DEF LayOK, CellsOK, IsSequence
<1> QED
  BY <1>1 DEF LayKept, CellsKept

LEMMA ValueStays ==
  ASSUME NEW v, NEW nm, NEW N, NEW S, NEW T, NEW c, NEW d, ValueOK(v, nm, S, c),
         DOMAIN nm \subseteq DOMAIN N, S \subseteq T, 1..Len(c) \subseteq 1..Len(d)
  PROVE  ValueOK(v, N, T, d)
BY DEF ValueOK, Refers

LEMMA MarkStays ==
  ASSUME NEW m, NEW nm, NEW N, NEW S, NEW L, NEW M, NEW G, NEW H, LayOK(L, G), LayOK(M, H), LayKept(L, M),
         Kept(nm, N), ValuesOK(nm, S, L.cells), MarkOK(m, nm, L.cells)
  PROVE  MarkOK(m, N, M.cells)
<1>1. \A i \in 1..Len(L.cells) : i \in 1..Len(M.cells) /\ M.cells[i].frag = L.cells[i].frag
  BY CellsLonger
<1>2. CASE m.val.t = "point"
  BY <1>1, <1>2 DEF MarkOK, MarkFits
<1>3. CASE m.val.t = "name"
  <2>1. PICK n : n = m.val.n /\ n \in DOMAIN nm /\ nm[n].defined
    BY <1>3 DEF MarkOK
  <2>2. n \in DOMAIN N /\ N[n].defined /\ N[n].val = nm[n].val /\ (N[n].global <=> nm[n].global)
    BY <2>1 DEF Kept
  <2>3. ~ nm[n].global => nm[n].val.t = "point" /\ L.cells[nm[n].val.n].frag = m.frag
    BY <1>3, <2>1 DEF MarkOK, MarkFits
  <2>4. nm[n].val.t = "point" => nm[n].val.n \in 1..Len(L.cells)
    BY <2>1 DEF ValuesOK, ValueOK
  <2> QED
    BY <1>1, <1>3, <2>1, <2>2, <2>3, <2>4 DEF MarkOK, MarkFits
<1> QED
  BY <1>2, <1>3 DEF MarkOK, MarkFits

LEMMA UseStays ==
  ASSUME NEW u, NEW nm, NEW N, NEW S, NEW T, NEW L, NEW M, NEW G, NEW H, LayOK(L, G), LayOK(M, H), LayKept(L, M),
         Kept(nm, N), S \subseteq T, NEW nd, NEW ne, nd \subseteq ne, NEW df, NEW dg, df \subseteq dg,
         UseOK(u, nm, S, L, nd, df)
  PROVE  UseOK(u, N, T, M, ne, dg)
<1>1. DOMAIN nm \subseteq DOMAIN N /\ 1..Len(L.cells) \subseteq 1..Len(M.cells)
  BY CellsLonger DEF Kept
<1>2. ValueOK(u[2], N, T, M.cells)
  BY <1>1, ValueStays DEF UseOK
<1>3. Has(L, u[1], u[2]) => Has(M, u[1], u[2])
  BY HasStays
<1>4. u[2].t = "name" => u[2].n \in DOMAIN nm
  BY DEF UseOK, ValueOK, Refers
<1>5. Noted(u[1], u[2], nm, L, nd, df)
  BY DEF UseOK
<1>6. Noted(u[1], u[2], N, M, ne, dg)
  BY <1>3, <1>4, <1>5 DEF Noted, Kept
<1> QED
  BY <1>2, <1>6 DEF UseOK

\* What an error-free statement has to show.
LEMMA Carries ==
  ASSUME Parsing,
         NamesOK(name'), Kept(name, name'),
         LayOK(lay', Globals(name')), LayKept(lay, lay'), curseg' \in DOMAIN lay'.seg,
         \A n \in DOMAIN name' : \/ ValueOK(name'[n].val, name', seen', lay'.cells)
                                 \/ n \in DOMAIN name /\ name'[n].val = name[n].val,
         backlab' = backlab \/ BackOK(backlab', lay'.cells),
         ForwOK(forwlab', name'),
         seen \subseteq seen', seen' \subseteq Names,
         needs \subseteq needs', deferred \subseteq deferred', PutOff(deferred', seen'),
         \A m \in marks' : m \in marks \/ MarkOK(m, name', lay'.cells),
         \A u \in uses' : u \in uses \/ UseOK(u, name', seen', lay', needs', deferred')
  PROVE  Parsing'
<1>1. LayOK(lay, Globals(name)) /\ ValuesOK(name, seen, lay.cells) /\ BackOK(backlab, lay.cells)
  BY DEF Parsing
<1>2. DOMAIN name \subseteq DOMAIN name' /\ 1..Len(lay.cells) \subseteq 1..Len(lay'.cells)
  BY <1>1, CellsLonger DEF Kept
<1>3. ValuesOK(name', seen', lay'.cells)
  BY <1>1, <1>2, ValueStays DEF ValuesOK
<1>4. BackOK(backlab', lay'.cells)
  BY <1>1, <1>2 DEF BackOK
<1>5. ASSUME NEW m \in marks'  PROVE MarkOK(m, name', lay'.cells)
  <2>1. m \in marks => MarkOK(m, name, lay.cells)
    BY DEF Parsing
  <2> QED
    BY <1>1, <2>1, MarkStays
<1>6. ASSUME NEW u \in uses'  PROVE UseOK(u, name', seen', lay', needs', deferred')
  <2>1. u \in uses => UseOK(u, name, seen, lay, needs, deferred)
    BY DEF Parsing
  <2> QED
    BY <1>1, <2>1, UseStays
<1> QED
  BY <1>3, <1>4, <1>5, <1>6 DEF Parsing

-----------------------------------------------------------------------------
(* Names are added and changed.                                            *)

LEMMA NonameIs ==
  ASSUME NEW nm, NEW k \in Nat, DOMAIN nm = Names \cup (1..k)
  PROVE  /\ IsFiniteSet(DOMAIN nm) /\ Noname(nm) = k + 1
         /\ Noname(nm) \notin DOMAIN nm /\ Noname(nm) \notin Names /\ 0 \notin DOMAIN nm
<1>0. IsFiniteSet(1..k) /\ Cardinality(1..k) = k
  <2>1. Cardinality(1..k) = IF 1 > k THEN 0 ELSE k - 1 + 1
    BY FS_Interval
  <2> QED
    BY <2>1, FS_Interval
<1>1. IsFiniteSet(DOMAIN nm)
  BY <1>0, NamesAssumption, FS_Union
<1>2. DOMAIN nm \ Names = 1..k
  BY NamesAssumption
<1>3. Noname(nm) = 1 + k
  BY <1>0, <1>2 DEF Noname
<1>4. 1 + k = k + 1 /\ k + 1 \in Int /\ k + 1 \notin 1..k /\ 0 \in Int /\ 0 \notin 1..k
  OBVIOUS
<1>5. k + 1 \notin DOMAIN nm /\ k + 1 \notin Names /\ 0 \notin DOMAIN nm
  BY <1>4, NamesAssumption
<1> QED
  BY <1>1, <1>3, <1>4, <1>5

LEMMA FreshNoname ==
  ASSUME NEW nm, NamesOK(nm)
  PROVE  /\ IsFiniteSet(DOMAIN nm)
         /\ Noname(nm) \notin DOMAIN nm /\ Noname(nm) \notin Names /\ 0 \notin DOMAIN nm /\ Noname(nm) # 0
<1>1. PICK k \in Nat : DOMAIN nm = Names \cup (1..k)
  BY DEF NamesOK
<1>2. Noname(nm) = k + 1
  BY <1>1, NonameIs
<1> QED
  BY <1>1, <1>2, NonameIs

\* A noname is added to nm, for N.
RecordOK(rec) ==
  /\ NameFields \subseteq DOMAIN rec /\ rec.val.t # "name"
  /\ rec.defined /\ ~ rec.global => rec.val # None
Adds(nm, rec, N) ==
  /\ NamesOK(N) /\ Acyclic(N) /\ Kept(nm, N)
  /\ DOMAIN N = DOMAIN nm \cup {Noname(nm)} /\ N[Noname(nm)] = rec
  /\ \A n \in DOMAIN nm : N[n] = nm[n]

LEMMA NonameAdded ==
  ASSUME NEW nm, NamesOK(nm), Acyclic(nm), NEW rec, RecordOK(rec), NEW N, N = table_add_noname(nm, rec)
  PROVE  Adds(nm, rec, N)
<1>1. PICK k \in Nat : DOMAIN nm = Names \cup (1..k)
  BY DEF NamesOK
<1>2. Noname(nm) = k + 1 /\ k + 1 \notin DOMAIN nm
  BY <1>1, NonameIs
<1>3. /\ DOMAIN N = DOMAIN nm \cup {k + 1} /\ N[k + 1] = rec /\ N = [n \in DOMAIN N |-> N[n]]
      /\ \A n \in DOMAIN nm : N[n] = nm[n]
  BY <1>2 DEF table_add_noname, With
<1>4. k + 1 \in Nat /\ DOMAIN N = Names \cup (1..(k + 1))
  <2>1. 1..(k + 1) = (1..k) \cup {k + 1}
    OBVIOUS
  <2> QED
    BY <1>1, <1>3, <2>1
<1>5. \A n \in DOMAIN N : /\ NameFields \subseteq DOMAIN N[n]
                          /\ N[n].defined /\ ~ N[n].global => N[n].val # None
  BY <1>3 DEF NamesOK, RecordOK
<1>6. NamesOK(N)
  BY <1>3, <1>4, <1>5 DEF NamesOK
<1>7. Acyclic(N)
  BY <1>3, StillAcyclic DEF RecordOK
<1>8. Kept(nm, N)
  BY <1>3 DEF Kept
<1> QED
  BY <1>2, <1>3, <1>6, <1>7, <1>8 DEF Adds

\* One name is changed.
Changed(nm, x, N) ==
  /\ N = [n \in DOMAIN N |-> N[n]] /\ DOMAIN N = DOMAIN nm
  /\ \A n \in DOMAIN nm : n # x => N[n] = nm[n]
  /\ NameFields \subseteq DOMAIN N[x]

LEMMA NameChanged ==
  ASSUME NEW nm, NamesOK(nm), NEW x \in DOMAIN nm, NEW N, Changed(nm, x, N),
         N[x].defined /\ ~ N[x].global => N[x].val # None
  PROVE  NamesOK(N)
<1>1. \A n \in DOMAIN N : NameFields \subseteq DOMAIN N[n]
  BY DEF NamesOK, Changed
<1>2. \A n \in DOMAIN N : N[n].defined /\ ~ N[n].global => N[n].val # None
  BY DEF NamesOK, Changed
<1>3. DOMAIN N = DOMAIN nm /\ N = [n \in DOMAIN N |-> N[n]] /\ \E k \in Nat : DOMAIN nm = Names \cup (1..k)
  BY DEF NamesOK, Changed
<1> QED
  BY <1>1, <1>2, <1>3 DEF NamesOK

LEMMA KeptUndefined ==
  ASSUME NEW nm, NEW x \in DOMAIN nm, NEW N, Changed(nm, x, N), ~ nm[x].defined, nm[x].global => N[x].global
  PROVE  Kept(nm, N)
BY DEF Changed, Kept

LEMMA FieldSet ==
  ASSUME NEW nm, NEW x \in DOMAIN nm, NameFields \subseteq DOMAIN nm[x], NEW fld \in NameFields, NEW w,
         NEW N, N = [nm EXCEPT ![x][fld] = w]
  PROVE  /\ Changed(nm, x, N) /\ N[x][fld] = w
         /\ \A g \in NameFields : g # fld => N[x][g] = nm[x][g]
<1>1. DOMAIN N = DOMAIN nm /\ N[x] = [nm[x] EXCEPT ![fld] = w] /\ N = [n \in DOMAIN N |-> N[n]]
      /\ \A n \in DOMAIN nm : n # x => N[n] = nm[n]
  OBVIOUS
<1>2. DOMAIN N[x] = DOMAIN nm[x] /\ N[x][fld] = w /\ \A g \in NameFields : g # fld => N[x][g] = nm[x][g]
  BY <1>1
<1> QED
  BY <1>1, <1>2 DEF Changed

LEMMA ChangedOn ==
  ASSUME NEW nm, NEW x \in DOMAIN nm, NEW N, NEW K, Changed(nm, x, N), Changed(N, x, K)
  PROVE  Changed(nm, x, K)
BY DEF Changed

ValueKinds == {"const", "name", "point"}

AssignsTo(nm, L, x, v, N) ==
  /\ Changed(nm, x, N) /\ \A g \in NameFields : g # "val" => N[x][g] = nm[x][g]
  /\ N[x].val \in {Const(0), v} /\ N[x].val # None
  /\ AssignErrors(nm, L, x, v) = {} => N[x].val = v
  /\ Acyclic(N)

\* name_assign_value lets no cycle in.
LEMMA Assigned ==
  ASSUME NEW nm, IsFiniteSet(DOMAIN nm), Acyclic(nm), ValuesRefer(nm),
         NEW x \in DOMAIN nm, NameFields \subseteq DOMAIN nm[x],
         NEW L, NEW v, Refers(v, nm), v.t \in ValueKinds, NEW N, N = name_assign_value(nm, L, x, v)
  PROVE  AssignsTo(nm, L, x, v, N)
<1>1. PICK w : /\ w = IF AssignErrors(nm, L, x, v) # {} THEN Const(0) ELSE v
               /\ N = [nm EXCEPT ![x].val = w]
  BY DEF name_assign_value
<1>2. /\ Changed(nm, x, N) /\ N[x].val = w
      /\ \A g \in NameFields : g # "val" => N[x][g] = nm[x][g]
  <2>1. "val" \in NameFields /\ N = [nm EXCEPT ![x]["val"] = w]
    BY <1>1 DEF NameFields
  <2>2. N[x]["val"] = w
    BY <2>1, FieldSet
  <2> QED
    BY <2>1, <2>2, FieldSet
<1>3. w # None /\ Const(0).t = "const" /\ Const(0).t # "name"
  BY <1>1 DEF None, Const, ValueKinds
<1>4. \A n \in DOMAIN nm : n # x => N[n].val = nm[n].val
  BY <1>2 DEF Changed
<1>5. DOMAIN N = DOMAIN nm
  BY <1>2 DEF Changed
<1>6. Acyclic(N)
  <2>1. CASE w.t # "name"
    <3>1. \A n \in DOMAIN N : N[n].val.t = "name" => n \in DOMAIN nm /\ N[n].val = nm[n].val
      BY <1>2, <1>4, <1>5, <2>1
    <3> QED
      BY <1>5, <3>1, StillAcyclic
  <2>2. CASE w.t = "name"
    <3>1. w = v /\ AssignErrors(nm, L, x, v) = {}
      BY <1>1, <1>3, <2>2
    <3>2. PICK y \in DOMAIN nm : v = NameRef(y)
      BY <2>2, <3>1 DEF Refers
    <3>3. x \notin Mentions(nm, L.cells, NameRef(y))
      <4>1. "cycle" \notin AssignErrors(nm, L, x, v)
        BY <3>1
      <4>2. ~ Cyclic(nm, L, x, v)
        BY <4>1 DEF AssignErrors
      <4> QED
        BY <3>2, <4>2 DEF Cyclic
    <3>4. ~ Hits(nm, y, x)
      <4> SUFFICES ASSUME Hits(nm, y, x)  PROVE FALSE
        OBVIOUS
      <4>1. PICK k \in 0..Cardinality(DOMAIN nm) :
              /\ Descent(nm, NameRef(y), DOMAIN nm)[k].t = "name"
              /\ Descent(nm, NameRef(y), DOMAIN nm)[k].n = x
        BY DEF Hits
      <4>2. x \in NamesIn(L.cells, Descent(nm, NameRef(y), DOMAIN nm)[k])
        BY <4>1 DEF NamesIn
      <4> QED
        BY <3>3, <4>2 DEF Mentions
    <3>5. N[x].val = NameRef(y)
      BY <1>2, <3>1, <3>2
    <3> QED
      BY <1>4, <1>5, <3>4, <3>5, StaysAcyclic
  <2> QED
    BY <2>1, <2>2
<1> QED
  BY <1>1, <1>2, <1>3, <1>6 DEF AssignsTo

LEMMA ValuesDoRefer ==
  ASSUME NEW nm, NEW S, NEW c, ValuesOK(nm, S, c)
  PROVE  ValuesRefer(nm)
BY DEF ValuesOK, ValueOK, ValuesRefer

BlankFacts ==
  /\ NameFields \subseteq DOMAIN Blank /\ Blank.val = None /\ None.t = "none"
  /\ ~ Blank.defined /\ ~ Blank.global

LEMMA BlankIs == BlankFacts
BY DEF BlankFacts, Blank, NameFields, None

\* An operand, and the names after it was scanned.
Scans(a, v, N, fw, c) ==
  /\ NamesOK(N) /\ Acyclic(N) /\ Kept(name, N) /\ ForwOK(fw, N)
  /\ ValueOK(v, N, seen \cup NamesOf(a), c) /\ v.t \in ValueKinds
  /\ \A n \in DOMAIN N : \/ n \in DOMAIN name /\ N[n] = name[n]
                         \/ n \notin Names /\ N[n] = Blank

LEMMA OperandIs ==
  ASSUME Parsing, Acyclic(name), NEW a, IsOperand(a), Operand(a),
         NEW L, NEW G, LayOK(L, G), LayKept(lay, L), curseg \in DOMAIN L.seg,
         NEW N, N = Scanned(name, a), NEW v, v = Value(name, L, a),
         NEW fw, fw = IF a.k = "forw" THEN [forwlab EXCEPT ![a.n] = v.n] ELSE forwlab
  PROVE  Scans(a, v, N, fw, L.cells)
<1>0. /\ NamesOK(name) /\ ForwOK(forwlab, name) /\ Names \subseteq DOMAIN name
      /\ 1..Len(lay.cells) \subseteq 1..Len(L.cells)
  BY CellsLonger DEF Parsing, NamesOK
<1>k. Kept(name, name)
  BY DEF Kept
<1>1. CASE a.k = "forw"
  <2>0. a.n \in Digits /\ v = NameRef(Forward(name, a)) /\ v.t = "name" /\ v.n = Forward(name, a)
    BY <1>1 DEF IsOperand, Value, NameRef
  <2>f. forwlab = [d \in Digits |-> forwlab[d]]
    BY <1>0 DEF ForwOK
  <2>1. CASE forwlab[a.n] = 0
    <3> DEFINE p == Noname(name)
    <3>1. N = table_add_noname(name, Blank) /\ v = NameRef(p) /\ v.n = p
      BY <1>1, <2>0, <2>1 DEF Scanned, Forward
    <3>2. p \notin DOMAIN name /\ p \notin Names /\ p # 0
      BY <1>0, FreshNoname
    <3>3. /\ NamesOK(N) /\ Acyclic(N) /\ Kept(name, N)
          /\ DOMAIN N = DOMAIN name \cup {p} /\ N[p] = Blank
          /\ \A n \in DOMAIN name : N[n] = name[n]
      <4>1. RecordOK(Blank)
        BY BlankIs DEF BlankFacts, RecordOK
      <4>2. Adds(name, Blank, N)
        BY <1>0, <3>1, <4>1, NonameAdded
      <4> QED
        BY <4>2 DEF Adds
    <3> HIDE DEF p
    <3>4. fw = [d \in Digits |-> IF d = a.n THEN p ELSE forwlab[d]]
      BY <1>1, <2>f, <3>1
    <3>5. ForwOK(fw, N)
      <4>1. \A d \in Digits : fw[d] # 0 =>
              fw[d] \in DOMAIN N \ Names /\ ~ N[fw[d]].defined /\ ~ N[fw[d]].global
        BY <1>0, <3>2, <3>3, <3>4, BlankIs DEF ForwOK, BlankFacts
      <4>2. \A d, e \in Digits : fw[d] = fw[e] /\ fw[d] # 0 => d = e
        BY <1>0, <3>2, <3>4 DEF ForwOK
      <4>3. ASSUME NEW n \in DOMAIN N \ Names, ~ N[n].defined, ~ N[n].global
            PROVE  \E d \in Digits : fw[d] = n
        <5>1. CASE n = p
          BY <2>0, <3>4, <5>1
        <5>2. CASE n # p
          <6>1. n \in DOMAIN name \ Names /\ ~ name[n].defined /\ ~ name[n].global
            BY <3>3, <4>3, <5>2
          <6>2. PICK d \in Digits : forwlab[d] = n
            BY <1>0, <6>1 DEF ForwOK
          <6>3. n # 0
            BY <1>0, <6>1, FreshNoname
          <6>4. d # a.n
            BY <2>1, <6>2, <6>3
          <6> QED
            BY <3>4, <6>2, <6>4
        <5> QED
          BY <5>1, <5>2
      <4> QED
        BY <3>4, <4>1, <4>2, <4>3 DEF ForwOK
    <3>6. ValueOK(v, N, seen \cup NamesOf(a), L.cells)
      BY <2>0, <3>1, <3>2, <3>3 DEF ValueOK, Refers
    <3> QED
      BY <2>0, <3>2, <3>3, <3>5, <3>6 DEF Scans, ValueKinds
  <2>2. CASE forwlab[a.n] # 0
    <3>1. N = name /\ v.n = forwlab[a.n] /\ v = NameRef(forwlab[a.n])
      BY <1>1, <2>0, <2>2 DEF Scanned, Forward
    <3>2. fw = forwlab
      BY <1>1, <2>f, <3>1
    <3>3. forwlab[a.n] \in DOMAIN name \ Names
      BY <1>0, <2>0, <2>2 DEF ForwOK
    <3>4. ValueOK(v, N, seen \cup NamesOf(a), L.cells)
      BY <2>0, <3>1, <3>3 DEF ValueOK, Refers
    <3> QED
      BY <1>0, <1>k, <2>0, <3>1, <3>2, <3>4 DEF Scans, ValueKinds
  <2> QED
    BY <2>1, <2>2
<1>2. CASE a.k # "forw"
  <2>1. N = name /\ fw = forwlab
    BY <1>2 DEF Scanned
  <2>2. ValueOK(v, N, seen \cup NamesOf(a), L.cells) /\ v.t \in ValueKinds
    <3>1. CASE a.k = "const"
      <4>1. v.t = "const"
        BY <3>1 DEF Value, Const
      <4> QED
        BY <4>1 DEF ValueOK, Refers, ValueKinds
    <3>2. CASE a.k = "name"
      <4>1. v = NameRef(a.n) /\ v.t = "name" /\ v.n = a.n /\ a.n \in Names /\ NamesOf(a) = {a.n}
        BY <3>2 DEF Value, NameRef, NamesOf, IsOperand
      <4> QED
        BY <1>0, <2>1, <4>1 DEF ValueOK, Refers, ValueKinds
    <3>3. CASE a.k = "dot"
      <4>1. v.t = "point" /\ v.n = L.seg[curseg].point
        BY <3>3 DEF Value, PointAt
      <4>2. L.seg[curseg].point \in 1..Len(L.cells)
        BY DEF LayOK, SegmentsOK, SegmentOK
      <4> QED
        BY <4>1, <4>2 DEF ValueOK, Refers, ValueKinds
    <3>4. CASE a.k = "back"
      <4>1. v = backlab[a.n] /\ a.n \in Digits /\ v # None
        BY <3>4 DEF Value, IsOperand, Operand
      <4>2. v.t = "point" /\ v.n \in 1..Len(lay.cells)
        BY <4>1 DEF Parsing, BackOK
      <4> QED
        BY <1>0, <4>2 DEF ValueOK, Refers, ValueKinds
    <3> QED
      BY <1>2, <3>1, <3>2, <3>3, <3>4 DEF IsOperand
  <2> QED
    BY <1>0, <1>k, <2>1, <2>2 DEF Scans
<1> QED
  BY <1>1, <1>2

-----------------------------------------------------------------------------
(* One lemma per statement that is read without an error.                  *)

Fine == Parsing /\ Acyclic(name)

LEMMA PointIn ==
  ASSUME NEW L, NEW G, LayOK(L, G), NEW s \in DOMAIN L.seg
  PROVE  /\ L.seg[s].point \in 1..Len(L.cells) /\ L.cells[L.seg[s].point].frag = CurFrag(L, s)
         /\ CurFrag(L, s) \in G
<1>1. SegmentOK(L.seg[s], L.cells, G)
  BY DEF LayOK, SegmentsOK
<1>2. L.seg[s].point \in 1..Len(L.cells) /\ L.cells[L.seg[s].point].frag = CurFrag(L, s)
  BY <1>1 DEF SegmentOK, CurFrag
<1>3. L.cells[L.seg[s].point].frag \in G
  BY <1>2 DEF LayOK, CellsOK, CellOK
<1> QED
  BY <1>2, <1>3

LEMMA OnlyLayout ==
  ASSUME Fine, Step(lay, lay', Globals(name)),
         UNCHANGED <<name, seen, curseg, backlab, forwlab, needs, deferred, marks, uses>>
  PROVE  Fine'
<1>1. Kept(name, name') /\ NamesOK(name') /\ ForwOK(forwlab', name') /\ Acyclic(name')
  BY DEF Kept, Fine, Parsing
<1>2. LayOK(lay', Globals(name')) /\ LayKept(lay, lay') /\ curseg' \in DOMAIN lay'.seg
  BY DEF Step, SameFrags, Fine, Parsing
<1>3. Parsing'
  BY <1>1, <1>2, Carries DEF Fine, Parsing
<1> QED
  BY <1>1, <1>3 DEF Fine

\* Alignment first, then the rest.
LEMMA SettledStep ==
  ASSUME Fine
  PROVE  /\ LayOK(lay, Globals(name)) /\ curseg \in DOMAIN lay.seg
         /\ Step(lay, do_pending_alignment(lay, curseg), Globals(name))
         /\ Step(lay, Share(do_pending_alignment(lay, curseg), curseg), Globals(name))
         /\ \A a : Step(lay, Settled(a), Globals(name)) /\ Step(lay, Flushed(lay, a), Globals(name))
<1> DEFINE G == Globals(name)
           P == do_pending_alignment(lay, curseg)
<1>0. LayOK(lay, G) /\ curseg \in DOMAIN lay.seg
  BY DEF Fine, Parsing
<1> HIDE DEF G
<1>1. Step(lay, P, G)
  BY <1>0, PendingStep
<1> HIDE DEF P
<1>2. LayOK(P, G) /\ curseg \in DOMAIN P.seg
  BY <1>0, <1>1, StepSeg
<1>3. Step(P, Share(P, curseg), G)
  BY <1>2, Aside
<1>4. Step(lay, Share(P, curseg), G)
  BY <1>0, <1>1, <1>3, StepOn
<1>5. Step(lay, lay, G)
  BY <1>0, LayStays
<1> QED
  BY <1>0, <1>1, <1>4, <1>5 DEF G, P, Settled, Flushed

\* What was met is no step in the layout.
LEMMA MetStep ==
  ASSUME NEW L, NEW M, NEW G, LayOK(L, G), NEW s \in DOMAIN L.seg, Step(L, M, G)
  PROVE  Step(L, Met(M, s), G) /\ Met(M, s).cells = M.cells
<1>1. LayOK(M, G) /\ s \in DOMAIN M.seg
  BY StepSeg
<1>2. Step(M, Met(M, s), G)
  BY <1>1, Aside
<1>3. Met(M, s).cells = M.cells
  BY <1>1 DEF Met, LayOK
<1> QED
  BY <1>2, <1>3, StepOn

LEMMA FpuLemma ==
  ASSUME Fine, NEW st, FpuCommand(st)
  PROVE  Fine'
<1> DEFINE s == curseg
           G == Globals(name)
           A == do_pending_alignment(lay, s)
           C == Met(emit_cmd_const(A, s, cmd_size(st.c)), s)
           D == Met(emit_cmd_const(C, s, cmd_size(FPENTRY)), s)
<1>1. LayOK(lay, G) /\ s \in DOMAIN lay.seg /\ Step(lay, A, G)
  BY SettledStep
<1>2. lay' = D
  BY DEF FpuCommand
<1> HIDE DEF A, G
<1>3. LayOK(A, G) /\ s \in DOMAIN A.seg
  BY <1>1, StepSeg
<1>4. Step(A, C, G)
  <2>1. Step(A, emit_cmd_const(A, s, cmd_size(st.c)), G)
    BY <1>3, ConstantStep
  <2> QED
    BY <1>3, <2>1, MetStep
<1> HIDE DEF C
<1>5. LayOK(C, G) /\ s \in DOMAIN C.seg
  BY <1>3, <1>4, StepSeg
<1>6. Step(C, D, G)
  <2>1. Step(C, emit_cmd_const(C, s, cmd_size(FPENTRY)), G)
    BY <1>5, ConstantStep
  <2> QED
    BY <1>5, <2>1, MetStep
<1>7. Step(lay, C, G)
  BY <1>1, <1>4, StepOn
<1>8. Step(lay, D, G)
  BY <1>1, <1>6, <1>7, StepOn
<1>9. UNCHANGED <<name, seen, curseg, backlab, forwlab, needs, deferred, marks, uses>>
  BY DEF FpuCommand
<1> QED
  BY <1>2, <1>8, <1>9, OnlyLayout DEF G

LEMMA SlotLemma ==
  ASSUME Fine, NEW st, Slot(st)
  PROVE  Fine'
<1>1. LayOK(lay, Globals(name)) /\ curseg \in DOMAIN lay.seg
  BY SettledStep
<1>2. Step(lay, lay', Globals(name))
  BY <1>1, Aside DEF Slot
<1> QED
  BY <1>2, OnlyLayout DEF Slot

LEMMA StringLemma ==
  ASSUME Fine, NEW st, String(st)
  PROVE  Fine'
<1> DEFINE s == curseg
           G == Globals(name)
           A == do_pending_alignment(lay, s)
           B == emit_block(A, s, st.n)
<1>1. LayOK(lay, G) /\ s \in DOMAIN lay.seg /\ Step(lay, A, G)
  BY SettledStep
<1>2. lay' = Met(B, s)
  BY DEF String
<1> HIDE DEF A, G
<1>3. LayOK(A, G) /\ s \in DOMAIN A.seg
  BY <1>1, StepSeg
<1>4. Step(A, B, G)
  BY <1>3, BlockStep DEF emit_block
<1> HIDE DEF B
<1>5. Step(lay, B, G)
  BY <1>1, <1>4, StepOn
<1>6. Step(lay, lay', G)
  BY <1>1, <1>2, <1>5, MetStep
<1> QED
  BY <1>6, OnlyLayout DEF String, G

LEMMA AlignLemma ==
  ASSUME Fine, NEW st, Align(st)
  PROVE  Fine'
<1> DEFINE s == curseg
           G == Globals(name)
           A == do_pending_alignment(lay, s)
           r == [A.seg[s] EXCEPT !.pend = st.n, !.fixed = st.fixed, !.asked = st.n]
<1>1. LayOK(lay, G) /\ s \in DOMAIN lay.seg /\ Step(lay, A, G)
  BY SettledStep
<1>2. lay' = [A EXCEPT !.seg[s] = r]
  BY DEF Align
<1> HIDE DEF A, G
<1>3. LayOK(A, G) /\ s \in DOMAIN A.seg
  BY <1>1, StepSeg
<1>4. /\ {"seg", "elts", "cells", "shared", "units"} \subseteq DOMAIN A
      /\ {"frags", "point", "slot", "pend", "fixed", "asked"} \subseteq DOMAIN A.seg[s]
  BY <1>3 DEF LayOK, SegmentsOK, SegmentOK
<1>5. DOMAIN r = DOMAIN A.seg[s] /\ r.frags = A.seg[s].frags /\ r.point = A.seg[s].point
  BY <1>4
<1> HIDE DEF r
<1>6. DOMAIN lay' = DOMAIN A /\ lay'.cells = A.cells /\ lay'.elts = A.elts /\ lay'.seg = [A.seg EXCEPT ![s] = r]
  BY <1>2, <1>4
<1>7. /\ DOMAIN lay'.seg = DOMAIN A.seg
      /\ \A t \in DOMAIN A.seg : /\ DOMAIN lay'.seg[t] = DOMAIN A.seg[t]
                                 /\ lay'.seg[t].frags = A.seg[t].frags /\ lay'.seg[t].point = A.seg[t].point
  BY <1>5, <1>6
<1>8. Step(A, lay', G)
  BY <1>3, <1>4, <1>6, <1>7, SameLayout
<1>9. Step(lay, lay', G)
  BY <1>1, <1>8, StepOn
<1> QED
  BY <1>9, OnlyLayout DEF Align, G

LEMMA RecordSet ==
  ASSUME NEW nm, NEW x \in DOMAIN nm, NEW rec, NameFields \subseteq DOMAIN rec, NEW N, N = [nm EXCEPT ![x] = rec]
  PROVE  Changed(nm, x, N) /\ N[x] = rec
BY DEF Changed

\* The nonames are as they were.
LEMMA ForwStays ==
  ASSUME NEW fw, NEW nm, ForwOK(fw, nm), NEW x \in Names, NEW N, Changed(nm, x, N)
  PROVE  ForwOK(fw, N)
<1>1. \A n \in DOMAIN nm \ Names : N[n] = nm[n] /\ n \in DOMAIN N
  BY DEF Changed
<1>2. DOMAIN N = DOMAIN nm
  BY DEF Changed
<1>3. \A d \in Digits : fw[d] # 0 => fw[d] \in DOMAIN N \ Names /\ ~ N[fw[d]].defined /\ ~ N[fw[d]].global
  BY <1>1, <1>2 DEF ForwOK
<1>4. \A n \in DOMAIN N \ Names : ~ N[n].defined /\ ~ N[n].global => \E d \in Digits : fw[d] = n
  BY <1>1, <1>2 DEF ForwOK
<1> QED
  BY <1>3, <1>4 DEF ForwOK

LEMMA OneUnchanged ==
  ASSUME NEW nm, NEW x \in DOMAIN nm, NEW N, Changed(nm, x, N), N[x].val = nm[x].val
  PROVE  /\ DOMAIN N = DOMAIN nm /\ \A n \in DOMAIN nm : N[n].val = nm[n].val
         /\ Acyclic(nm) => Acyclic(N)
<1>1. DOMAIN N = DOMAIN nm /\ \A n \in DOMAIN nm : N[n].val = nm[n].val
  BY DEF Changed
<1>2. Acyclic(nm) => Acyclic(N)
  BY <1>1, StillAcyclic
<1> QED
  BY <1>1, <1>2

LEMMA UseIs ==
  ASSUME NEW f, NEW v, NEW nm, NEW S, NEW L, NEW nd, NEW df,
         ValueOK(v, nm, S, L.cells), Noted(f, v, nm, L, nd, df)
  PROVE  UseOK(<<f, v>>, nm, S, L, nd, df)
<1>0. PICK u : u = <<f, v>>
  OBVIOUS
<1>1. u[1] = f /\ u[2] = v
  BY <1>0
<1>2. UseOK(u, nm, S, L, nd, df)
  BY <1>0, <1>1 DEF UseOK
<1> QED
  BY <1>0, <1>2

\* The statement is one of the vocabulary.
Meant(st) ==
  /\ st.op \in {"label", "middle", "globl", "comm", "need", "assign"} => st.x \in Names
  /\ st.op = "digit" => st.d \in Digits
  /\ st.op \in {"cmd", "data", "assign"} => IsOperand(st.a)
  /\ st.op = "data" => IsOperand(st.r) /\ st.r.k \in {"const", "name"}

LEMMA StatementMeant ==
  ASSUME vocab \in Vocabularies, NEW st, Statement(st)
  PROVE  Meant(st)
BY StatementsAssumption DEF Statement, Meant

LEMMA GloblLemma ==
  ASSUME Fine, NEW st, Meant(st), Globl(st), errors' = {}
  PROVE  Fine'
<1> DEFINE x == st.x
<1>0. /\ NamesOK(name) /\ Acyclic(name) /\ ForwOK(forwlab, name) /\ LayOK(lay, Globals(name))
      /\ curseg \in DOMAIN lay.seg /\ seen \subseteq Names /\ PutOff(deferred, seen)
  BY DEF Fine, Parsing
<1>1. x \in Names /\ x \in DOMAIN name /\ NameFields \subseteq DOMAIN name[x]
  BY <1>0 DEF Meant, Globl, NamesOK
<1>2. name[x].defined => name[x].global
  BY DEF Globl
<1>3. name' = [name EXCEPT ![x]["global"] = TRUE] /\ seen' = seen \cup {x}
  BY DEF Globl, globalize_name
<1>u. UNCHANGED <<lay, curseg, backlab, forwlab, needs, deferred, marks, uses>>
  BY DEF Globl
<1> HIDE DEF x
<1>4. Changed(name, x, name') /\ name'[x].global /\ name'[x].val = name[x].val /\ name'[x].defined = name[x].defined
  <2>1. "global" \in NameFields /\ "val" \in NameFields /\ "defined" \in NameFields
    BY DEF NameFields
  <2>2. /\ Changed(name, x, name') /\ name'[x]["global"] = TRUE
        /\ \A g \in NameFields : g # "global" => name'[x][g] = name[x][g]
    BY <1>1, <1>3, <2>1, FieldSet
  <2> QED
    BY <2>1, <2>2
<1>5. NamesOK(name')
  BY <1>0, <1>1, <1>4, NameChanged
<1>6. /\ DOMAIN name' = DOMAIN name /\ \A n \in DOMAIN name : name'[n].val = name[n].val
      /\ Acyclic(name')
  BY <1>0, <1>1, <1>4, OneUnchanged
<1>7. Kept(name, name')
  <2>1. \A n \in DOMAIN name : n # x => name'[n] = name[n]
    BY <1>4 DEF Changed
  <2> QED
    BY <1>2, <1>4, <1>6, <2>1 DEF Kept
<1>8. ForwOK(forwlab', name')
  BY <1>0, <1>1, <1>4, <1>u, ForwStays
<1>9. LayOK(lay', Globals(name')) /\ LayKept(lay, lay')
  <2>1. Globals(name) \subseteq Globals(name')
    BY <1>7, GlobalsStay
  <2> QED
    BY <1>0, <1>u, <2>1, LayWider, LayStays DEF Step
<1>10. PutOff(deferred', seen') /\ seen' \subseteq Names /\ seen \subseteq seen'
  BY <1>0, <1>1, <1>3, <1>u DEF PutOff
<1>11. Parsing'
  BY <1>0, <1>5, <1>6, <1>7, <1>8, <1>9, <1>10, <1>u, Carries DEF Fine
<1> QED
  BY <1>6, <1>11 DEF Fine

LEMMA NeedLemma ==
  ASSUME Fine, NEW st, Meant(st), Need(st)
  PROVE  Fine'
<1> DEFINE x == st.x
           f == CurFrag(lay, curseg)
<1>0. /\ NamesOK(name) /\ Acyclic(name) /\ ForwOK(forwlab, name) /\ LayOK(lay, Globals(name))
      /\ curseg \in DOMAIN lay.seg /\ seen \subseteq Names /\ PutOff(deferred, seen)
  BY DEF Fine, Parsing
<1>1. x \in Names /\ x \in DOMAIN name
  BY <1>0 DEF Meant, Need, NamesOK
<1>3. /\ needs' = IF name[x].global THEN add_need(needs, f, x) ELSE needs
      /\ deferred' = IF name[x].global THEN deferred ELSE deferred \cup {<<f, x>>}
      /\ seen' = seen \cup {x}
      /\ uses' = uses \cup {<<f, NameRef(x)>>}
  BY DEF Need
<1>u. UNCHANGED <<lay, name, curseg, backlab, forwlab, marks>>
  BY DEF Need
<1> HIDE DEF x, f
<1>4. needs \subseteq needs' /\ deferred \subseteq deferred' /\ PutOff(deferred', seen')
  BY <1>0, <1>3 DEF add_need, PutOff
<1>5. Kept(name, name') /\ LayKept(lay, lay')
  BY <1>0, <1>u, LayStays DEF Kept, Step
<1>6. UseOK(<<f, NameRef(x)>>, name', seen', lay', needs', deferred')
  <2>0. PICK v : v = NameRef(x)
    OBVIOUS
  <2>1. v.t = "name" /\ v.n = x
    BY <2>0 DEF NameRef
  <2>2. ValueOK(v, name', seen', lay'.cells)
    BY <1>1, <1>3, <1>u, <2>0, <2>1 DEF ValueOK, Refers
  <2>3. Noted(f, v, name', lay', needs', deferred')
    BY <1>3, <1>u, <2>1 DEF Noted, add_need
  <2> QED
    BY <2>0, <2>2, <2>3, UseIs
<1>7. seen \subseteq seen' /\ seen' \subseteq Names
  BY <1>0, <1>1, <1>3
<1>8. \A u \in uses' : u \in uses \/ UseOK(u, name', seen', lay', needs', deferred')
  BY <1>3, <1>6
<1>9. Parsing'
  BY <1>0, <1>4, <1>5, <1>7, <1>8, <1>u, Carries DEF Fine
<1> QED
  BY <1>0, <1>9, <1>u DEF Fine

LEMMA NonameNext ==
  ASSUME NEW nm, NamesOK(nm), NEW rec, NEW N, Adds(nm, rec, N)
  PROVE  Noname(N) = Noname(nm) + 1
<1>1. PICK k \in Nat : DOMAIN nm = Names \cup (1..k)
  BY DEF NamesOK
<1>2. Noname(nm) = k + 1
  BY <1>1, NonameIs
<1>3. k + 1 \in Nat /\ DOMAIN N = Names \cup (1..(k + 1))
  <2>1. 1..(k + 1) = (1..k) \cup {k + 1}
    OBVIOUS
  <2> QED
    BY <1>1, <1>2, <2>1 DEF Adds
<1>4. Noname(N) = (k + 1) + 1
  BY <1>3, NonameIs
<1> QED
  BY <1>2, <1>4

LEMMA ForwWith ==
  ASSUME NEW fw, NEW nm, NamesOK(nm), ForwOK(fw, nm), NEW rec, NEW N, Adds(nm, rec, N), rec.global \/ rec.defined
  PROVE  ForwOK(fw, N)
<1>1. \A n \in DOMAIN nm \ Names : N[n] = nm[n] /\ n \in DOMAIN N
  BY DEF Adds
<1>2. \A d \in Digits : fw[d] # 0 => fw[d] \in DOMAIN N \ Names /\ ~ N[fw[d]].defined /\ ~ N[fw[d]].global
  BY <1>1 DEF ForwOK
<1>3. ASSUME NEW n \in DOMAIN N \ Names, ~ N[n].defined, ~ N[n].global  PROVE \E d \in Digits : fw[d] = n
  <2>1. n \in DOMAIN nm \ Names
    BY <1>3 DEF Adds
  <2> QED
    BY <1>1, <1>3, <2>1 DEF ForwOK
<1> QED
  BY <1>2, <1>3 DEF ForwOK

DefaultFacts == RecordOK(DefaultFragment) /\ DefaultFragment.global /\ DefaultFragment.val = None

LEMMA DefaultIs == DefaultFacts
BY DEF DefaultFacts, DefaultFragment, Blank, RecordOK, NameFields, None

\* A segment is there, with its default fragments.
Opened(L, nm, s, fw, M, N) ==
  /\ NamesOK(N) /\ Acyclic(N) /\ Kept(nm, N) /\ ForwOK(fw, N)
  /\ LayOK(M, Globals(N)) /\ LayKept(L, M) /\ DOMAIN M.seg = DOMAIN L.seg \cup {s}
  /\ \A n \in DOMAIN N : \/ n \in DOMAIN nm /\ N[n] = nm[n]
                         \/ n \notin Names /\ N[n].val = None

LEMMA DefaultAdded ==
  ASSUME NEW L, NEW nm, NEW s, NEW fw, NamesOK(nm), Acyclic(nm), ForwOK(fw, nm), LayOK(L, Globals(nm)),
         NEW N, N = table_add_noname(nm, DefaultFragment),
         NEW M, \/ s \notin DOMAIN L.seg /\ M = add_segment(L, s, Noname(nm))
                \/ s \in DOMAIN L.seg /\ M = add_fragment(L, s, Noname(nm), 1)
  PROVE  Opened(L, nm, s, fw, M, N) /\ Adds(nm, DefaultFragment, N)
<1>1. Adds(nm, DefaultFragment, N)
  BY DefaultIs, NonameAdded DEF DefaultFacts
<1>2. ForwOK(fw, N)
  BY <1>1, DefaultIs, ForwWith DEF DefaultFacts
<1>3. Noname(nm) \in Globals(N) /\ Globals(nm) \subseteq Globals(N)
  BY <1>1, DefaultIs, GlobalsStay DEF DefaultFacts, Adds, Globals
<1>4. LayOK(L, Globals(N))
  BY <1>3, LayWider
<1>5. LayOK(M, Globals(N)) /\ LayKept(L, M) /\ DOMAIN M.seg = DOMAIN L.seg \cup {s}
  <2>1. CASE s \notin DOMAIN L.seg /\ M = add_segment(L, s, Noname(nm))
    BY <1>3, <1>4, <2>1, SegmentAdded
  <2>2. CASE s \in DOMAIN L.seg /\ M = add_fragment(L, s, Noname(nm), 1)
    <3>1. LayOK(M, Globals(N)) /\ LayKept(L, M) /\ DOMAIN M.seg = DOMAIN L.seg
      BY <1>3, <1>4, <2>2, FragmentStarted
    <3> QED
      BY <2>2, <3>1
  <2> QED
    BY <2>1, <2>2
<1>6. Noname(nm) \notin Names
  BY FreshNoname
<1>7. \A n \in DOMAIN N : \/ n \in DOMAIN nm /\ N[n] = nm[n]
                          \/ n \notin Names /\ N[n].val = None
  BY <1>1, <1>6, DefaultIs DEF Adds, DefaultFacts
<1> QED
  BY <1>1, <1>2, <1>5, <1>7 DEF Opened, Adds

LEMMA Opens ==
  ASSUME NEW L, NEW nm, NEW s, NEW fw, NamesOK(nm), Acyclic(nm), ForwOK(fw, nm), LayOK(L, Globals(nm)),
         NEW o, o = OpenSegment(L, nm, s)
  PROVE  Opened(L, nm, s, fw, o.lay, o.name)
<1> DEFINE f == Noname(nm)
           S == add_segment(L, s, f)
           N == table_add_noname(nm, DefaultFragment)
           B == add_fragment(S, s, f + 1, 1)
           K == table_add_noname(N, DefaultFragment)
<1>1. CASE s \in DOMAIN L.seg
  <2>1. o.lay = L /\ o.name = nm
    BY <1>1 DEF OpenSegment
  <2>2. Kept(nm, nm) /\ LayKept(L, L) /\ DOMAIN L.seg = DOMAIN L.seg \cup {s}
    BY <1>1, LayStays DEF Kept, Step
  <2> QED
    BY <2>1, <2>2 DEF Opened
<1>2. CASE s \notin DOMAIN L.seg
  <2>1. Opened(L, nm, s, fw, S, N) /\ Adds(nm, DefaultFragment, N)
    BY <1>2, DefaultAdded
  <2>2. CASE s # "bss"
    <3>1. o.lay = S /\ o.name = N
      BY <1>2, <2>2 DEF OpenSegment
    <3> QED
      BY <2>1, <3>1
  <2>3. CASE s = "bss"
    <3>1. o.lay = B /\ o.name = K
      BY <1>2, <2>3 DEF OpenSegment
    <3>2. f + 1 = Noname(N)
      BY <2>1, NonameNext
    <3> HIDE DEF f, S, N
    <3>3. /\ NamesOK(N) /\ Acyclic(N) /\ ForwOK(fw, N) /\ LayOK(S, Globals(N)) /\ s \in DOMAIN S.seg
          /\ B = add_fragment(S, s, Noname(N), 1)
      BY <2>1, <3>2 DEF Opened
    <3>4. Opened(S, N, s, fw, B, K)
      <4> HIDE DEF B, K
      <4>1. K = table_add_noname(N, DefaultFragment)
        BY DEF K
      <4> QED
        BY <3>3, <4>1, DefaultAdded
    <3> HIDE DEF B, K
    <3>5. Kept(nm, K)
      BY <2>1, <3>4, KeptOn DEF Opened
    <3>6. LayKept(L, B)
      <4>1. LayOK(S, Globals(K)) /\ LayOK(L, Globals(K)) /\ LayOK(B, Globals(K))
        BY <2>1, <3>4, <3>5, GlobalsStay, LayWider DEF Opened
      <4> QED
        BY <2>1, <3>4, <4>1, LayKeptOn DEF Opened
    <3>7. DOMAIN B.seg = DOMAIN L.seg \cup {s}
      BY <2>1, <3>4 DEF Opened
    <3>8. \A n \in DOMAIN K : \/ n \in DOMAIN nm /\ K[n] = nm[n]
                              \/ n \notin Names /\ K[n].val = None
      BY <2>1, <3>4 DEF Opened
    <3>9. Opened(L, nm, s, fw, B, K)
      BY <3>4, <3>5, <3>6, <3>7, <3>8 DEF Opened
    <3> QED
      BY <3>1, <3>9
  <2> QED
    BY <2>2, <2>3
<1> QED
  BY <1>1, <1>2

LEMMA SegmentLemma ==
  ASSUME Fine, NEW st, Segment(st)
  PROVE  Fine'
<1>0. /\ NamesOK(name) /\ Acyclic(name) /\ ForwOK(forwlab, name) /\ LayOK(lay, Globals(name))
      /\ curseg \in DOMAIN lay.seg /\ seen \subseteq Names /\ PutOff(deferred, seen)
  BY DEF Fine, Parsing
<1>1. PICK o : o = OpenSegment(lay, name, st.s)
  OBVIOUS
<1>2. curseg' = st.s /\ lay' = o.lay /\ name' = o.name
  BY <1>1 DEF Segment
<1>u. UNCHANGED <<seen, backlab, forwlab, needs, deferred, marks, uses>>
  BY DEF Segment
<1>3. Opened(lay, name, st.s, forwlab, o.lay, o.name)
  BY <1>0, <1>1, Opens
<1>4. Opened(lay, name, curseg', forwlab', lay', name')
  BY <1>2, <1>3, <1>u
<1>5. \A n \in DOMAIN name' : \/ ValueOK(name'[n].val, name', seen', lay'.cells)
                              \/ n \in DOMAIN name /\ name'[n].val = name[n].val
  BY <1>4 DEF Opened, ValueOK, Refers, None
<1>6. Parsing'
  BY <1>0, <1>4, <1>5, <1>u, Carries DEF Fine, Opened
<1> QED
  BY <1>4, <1>6 DEF Fine, Opened

\* A name that was not defined gets a value.
Gets(N, x, v, K) ==
  /\ NamesOK(K) /\ Acyclic(K) /\ Kept(N, K) /\ Changed(N, x, K)
  /\ K[x].val \in {Const(0), v} /\ K[x].defined /\ (K[x].global <=> N[x].global)

\* It is called defined first, in D.
Begun(N, x, D) ==
  /\ ~ N[x].defined /\ Changed(N, x, D)
  /\ D[x].val = N[x].val /\ D[x].global = N[x].global /\ D[x].defined = TRUE

LEMMA Defines ==
  ASSUME NEW N, NamesOK(N), Acyclic(N), ValuesRefer(N), NEW x \in DOMAIN N,
         NEW D, Begun(N, x, D),
         NEW L, NEW v, Refers(v, N), v.t \in ValueKinds, NEW K, K = name_assign_value(D, L, x, v)
  PROVE  Gets(N, x, v, K) /\ (AssignErrors(D, L, x, v) = {} => K[x].val = v)
<1>0. /\ ~ N[x].defined /\ Changed(N, x, D)
      /\ D[x].val = N[x].val /\ D[x].global = N[x].global /\ D[x].defined = TRUE
  BY DEF Begun
<1>1. /\ IsFiniteSet(DOMAIN D) /\ DOMAIN D = DOMAIN N /\ x \in DOMAIN D /\ NameFields \subseteq DOMAIN D[x]
      /\ Acyclic(D) /\ \A n \in DOMAIN N : D[n].val = N[n].val
  BY <1>0, FreshNoname, OneUnchanged DEF Changed
<1>2. ValuesRefer(D) /\ Refers(v, D)
  BY <1>1 DEF ValuesRefer, Refers
<1>3. /\ Changed(D, x, K) /\ \A g \in NameFields : g # "val" => K[x][g] = D[x][g]
      /\ K[x].val \in {Const(0), v} /\ K[x].val # None
      /\ AssignErrors(D, L, x, v) = {} => K[x].val = v
      /\ Acyclic(K)
  <2>1. AssignsTo(D, L, x, v, K)
    BY <1>1, <1>2, Assigned
  <2> QED
    BY <2>1 DEF AssignsTo
<1>4. K[x].defined = TRUE /\ K[x].global = N[x].global
  <2>1. "defined" \in NameFields /\ "global" \in NameFields /\ "defined" # "val" /\ "global" # "val"
    BY DEF NameFields
  <2>2. K[x]["defined"] = D[x]["defined"] /\ K[x]["global"] = D[x]["global"]
    BY <1>3, <2>1
  <2> QED
    BY <1>0, <2>2
<1>5. Changed(N, x, K)
  BY <1>0, <1>3, ChangedOn
<1>6. NamesOK(K)
  BY <1>3, <1>5, NameChanged
<1>7. Kept(N, K)
  BY <1>0, <1>4, <1>5, KeptUndefined
<1> QED
  BY <1>3, <1>4, <1>5, <1>6, <1>7 DEF Gets

\* A mark on a name that was just given the point.
LEMMA NameMarked ==
  ASSUME NEW L, NEW G, LayOK(L, G), NEW s \in DOMAIN L.seg, NEW K, NEW x \in DOMAIN K, K[x].defined,
         K[x].global \/ K[x].val = PointAt(L.seg[s].point), NEW want, NEW c, c = L.cells
  PROVE  MarkOK(Mark(L, s, NameRef(x), want), K, c)
<1>1. PICK m : m = Mark(L, s, NameRef(x), want)
  OBVIOUS
<1>2. m.val.t = "name" /\ m.val.n = x /\ m.frag = CurFrag(L, s)
  BY <1>1 DEF Mark, NameRef
<1>3. L.cells[L.seg[s].point].frag = CurFrag(L, s)
  BY PointIn
<1>4. K[x].val = PointAt(L.seg[s].point) => K[x].val.t = "point" /\ K[x].val.n = L.seg[s].point
  BY DEF PointAt
<1>5. MarkOK(m, K, c)
  BY <1>2, <1>3, <1>4 DEF MarkOK, MarkFits
<1> QED
  BY <1>1, <1>5

LEMMA PointMarked ==
  ASSUME NEW L, NEW G, LayOK(L, G), NEW s \in DOMAIN L.seg, NEW K, NEW want, NEW c, c = L.cells
  PROVE  MarkOK(Mark(L, s, PointAt(L.seg[s].point), want), K, c)
<1>1. PICK m : m = Mark(L, s, PointAt(L.seg[s].point), want)
  OBVIOUS
<1>2. m.val.t = "point" /\ m.val.n = L.seg[s].point /\ m.frag = CurFrag(L, s)
  BY <1>1 DEF Mark, PointAt
<1>3. L.cells[L.seg[s].point].frag = CurFrag(L, s) /\ L.seg[s].point \in 1..Len(L.cells)
  BY PointIn
<1>4. MarkOK(m, K, c)
  BY <1>2, <1>3 DEF MarkOK, MarkFits
<1> QED
  BY <1>1, <1>4

\* Values after one of them was set.
LEMMA OneValue ==
  ASSUME NEW N, NEW x \in DOMAIN N, NEW v, NEW K, Gets(N, x, v, K), NEW S, NEW c, ValueOK(v, N, S, c)
  PROVE  \A n \in DOMAIN K : \/ ValueOK(K[n].val, K, S, c)
                             \/ n \in DOMAIN N /\ K[n].val = N[n].val
<1>1. ValueOK(v, K, S, c)
  BY DEF ValueOK, Refers, Gets, Changed
<1>2. ValueOK(Const(0), K, S, c)
  BY DEF ValueOK, Refers, Const
<1> QED
  BY <1>1, <1>2 DEF Gets, Changed

LEMMA PointValue ==
  ASSUME NEW L, NEW G, LayOK(L, G), NEW s \in DOMAIN L.seg, NEW v, v = PointAt(L.seg[s].point), NEW nm, NEW S
  PROVE  ValueOK(v, nm, S, L.cells) /\ Refers(v, nm) /\ v.t \in ValueKinds /\ v.t = "point"
<1>1. v.t = "point" /\ v.n = L.seg[s].point
  BY DEF PointAt
<1> QED
  BY <1>1, PointIn DEF ValueOK, Refers, ValueKinds

\* A name of the source is defined as the point.
LEMMA LabelMet ==
  ASSUME Fine, NEW x \in Names, NEW D, Begun(name, x, D),
         NEW A, Step(lay, A, Globals(name)), AssignErrors(D, A, x, PointAt(A.seg[curseg].point)) = {},
         NEW want, name' = name_assign_value(D, A, x, PointAt(A.seg[curseg].point)),
         lay' = Met(A, curseg), marks' = marks \cup {Mark(A, curseg, NameRef(x), want)},
         seen' = seen \cup {x},
         UNCHANGED <<curseg, backlab, forwlab, needs, deferred, uses>>
  PROVE  Fine'
<1> DEFINE s == curseg
           v == PointAt(A.seg[s].point)
<1>0. /\ NamesOK(name) /\ Acyclic(name) /\ ForwOK(forwlab, name) /\ LayOK(lay, Globals(name)) /\ ValuesRefer(name)
      /\ s \in DOMAIN lay.seg /\ seen \subseteq Names /\ PutOff(deferred, seen) /\ x \in DOMAIN name
  BY ValuesDoRefer DEF Fine, Parsing, NamesOK
<1>1. LayOK(A, Globals(name)) /\ s \in DOMAIN A.seg
  BY <1>0, StepSeg
<1>2. Step(lay, lay', Globals(name)) /\ lay'.cells = A.cells
  BY <1>0, MetStep
<1>3. ValueOK(v, name, seen', lay'.cells) /\ Refers(v, name) /\ v.t \in ValueKinds
  BY <1>1, <1>2, PointValue
<1>4. Gets(name, x, v, name') /\ name'[x].val = v
  <2> HIDE DEF v
  <2>1. name' = name_assign_value(D, A, x, v) /\ AssignErrors(D, A, x, v) = {}
    BY DEF v
  <2>3. Gets(name, x, v, name') /\ (AssignErrors(D, A, x, v) = {} => name'[x].val = v)
    BY <1>0, <1>3, <2>1, Defines
  <2> QED
    BY <2>1, <2>3
<1>5. NamesOK(name') /\ Acyclic(name') /\ Kept(name, name') /\ Changed(name, x, name') /\ x \in DOMAIN name'
      /\ name'[x].defined
  BY <1>0, <1>4 DEF Gets, Changed
<1>6. \A n \in DOMAIN name' : \/ ValueOK(name'[n].val, name', seen', lay'.cells)
                              \/ n \in DOMAIN name /\ name'[n].val = name[n].val
  BY <1>0, <1>3, <1>4, OneValue
<1>7. ForwOK(forwlab', name')
  BY <1>0, <1>5, ForwStays
<1>8. LayOK(lay', Globals(name')) /\ LayKept(lay, lay') /\ curseg' \in DOMAIN lay'.seg
  <2>1. Globals(name) \subseteq Globals(name')
    BY <1>5, GlobalsStay
  <2> QED
    BY <1>0, <1>2, <2>1, LayWider DEF Step, SameFrags
<1>9. MarkOK(Mark(A, s, NameRef(x), want), name', lay'.cells)
  BY <1>1, <1>2, <1>4, <1>5, NameMarked
<1>10. PutOff(deferred', seen') /\ seen' \subseteq Names /\ seen \subseteq seen'
  BY <1>0 DEF PutOff
<1>11. \A m \in marks' : m \in marks \/ MarkOK(m, name', lay'.cells)
  BY <1>9
<1> HIDE DEF s, v
<1>12. Parsing'
  BY <1>5, <1>6, <1>7, <1>8, <1>10, <1>11, Carries DEF Fine
<1> QED
  BY <1>5, <1>12 DEF Fine

LEMMA MiddleLemma ==
  ASSUME Fine, NEW st, Meant(st), MiddleLabel(st), errors' = {}
  PROVE  Fine'
<1> DEFINE x == st.x
           s == curseg
           D == [name EXCEPT ![x].defined = TRUE]
           A == Share(do_pending_alignment(lay, s), s)
<1>1. x \in Names /\ x \in DOMAIN name /\ NameFields \subseteq DOMAIN name[x]
  BY DEF Meant, MiddleLabel, Fine, Parsing, NamesOK
<1>2. /\ name' = name_assign_value(D, A, x, PointAt(A.seg[s].point))
      /\ errors' = Redefined(x) \cup AssignErrors(D, A, x, PointAt(A.seg[s].point))
      /\ lay' = Met(A, s)
      /\ marks' = marks \cup {Mark(A, s, NameRef(x), lay.seg[s].asked)}
      /\ seen' = seen \cup {x}
      /\ UNCHANGED <<curseg, backlab, forwlab, needs, deferred, uses>>
  BY DEF MiddleLabel
<1>3. Step(lay, A, Globals(name))
  BY SettledStep
<1>4. ~ name[x].defined
  BY <1>2 DEF Redefined
<1>5. AssignErrors(D, A, x, PointAt(A.seg[s].point)) = {}
  BY <1>2
<1>6. Changed(name, x, D) /\ D[x].val = name[x].val /\ D[x].global = name[x].global /\ D[x].defined = TRUE
  <2> HIDE DEF x
  <2>1. "defined" \in NameFields /\ "val" \in NameFields /\ "global" \in NameFields
    BY DEF NameFields
  <2>2. /\ Changed(name, x, D) /\ D[x]["defined"] = TRUE
        /\ \A g \in NameFields : g # "defined" => D[x][g] = name[x][g]
    BY <1>1, <2>1, FieldSet
  <2> QED
    BY <2>1, <2>2
<1>7. Begun(name, x, D)
  BY <1>4, <1>6 DEF Begun
<1> HIDE DEF x, D, A
<1> QED
  BY <1>1, <1>2, <1>3, <1>5, <1>7, LabelMet

LEMMA LabelLemma ==
  ASSUME Fine, NEW st, Meant(st), Label(st), errors' = {}
  PROVE  Fine'
<1> DEFINE x == st.x
           s == curseg
           n == lay.seg[s].pend
           want == lay.seg[s].asked
           r == [name[x] EXCEPT !.defined = TRUE, !.align = n]
           D == [name EXCEPT ![x] = r]
<1>0. /\ NamesOK(name) /\ Acyclic(name) /\ ForwOK(forwlab, name) /\ LayOK(lay, Globals(name))
      /\ s \in DOMAIN lay.seg /\ seen \subseteq Names /\ PutOff(deferred, seen)
  BY DEF Fine, Parsing
<1>1. x \in Names /\ x \in DOMAIN name /\ NameFields \subseteq DOMAIN name[x]
  BY DEF Meant, Label, Fine, Parsing, NamesOK
<1>r. DOMAIN r = DOMAIN name[x] /\ r.defined = TRUE /\ r.val = name[x].val /\ r.global = name[x].global
  BY <1>1 DEF NameFields
<1> HIDE DEF r
<1>D. Changed(name, x, D) /\ D[x] = r
  BY <1>1, <1>r, RecordSet
<1>2. CASE ~ name[x].global
  <2> DEFINE A == Share(do_pending_alignment(lay, s), s)
  <2>2. /\ name' = name_assign_value(D, A, x, PointAt(A.seg[s].point))
        /\ errors' = Redefined(x) \cup AssignErrors(D, A, x, PointAt(A.seg[s].point))
        /\ lay' = Met(A, s)
        /\ marks' = marks \cup {Mark(A, s, NameRef(x), want)}
        /\ seen' = seen \cup {x}
        /\ UNCHANGED <<curseg, backlab, forwlab, needs, deferred, uses>>
    BY <1>2 DEF Label, r
  <2>3. Step(lay, A, Globals(name))
    BY SettledStep
  <2>4. ~ name[x].defined
    BY <2>2 DEF Redefined
  <2>5. AssignErrors(D, A, x, PointAt(A.seg[s].point)) = {}
    BY <2>2
  <2>6. Begun(name, x, D)
    BY <1>D, <1>r, <2>4 DEF Begun
  <2> HIDE DEF x, D, A, want
  <2> QED
    BY <1>1, <2>2, <2>3, <2>5, <2>6, LabelMet
<1>3. CASE name[x].global
  <2> DEFINE P == drop_pending_alignment(lay, s)
             L == add_fragment(P, s, x, n)
  <2>2. /\ name' = [D EXCEPT ![x]["fragment"] = TRUE]
        /\ errors' = Redefined(x)
        /\ lay' = Met(L, s)
        /\ marks' = marks \cup {Mark(L, s, NameRef(x), want)}
        /\ seen' = seen \cup {x}
        /\ UNCHANGED <<curseg, backlab, forwlab, needs, deferred, uses>>
    BY <1>3 DEF Label, r
  <2>3. ~ name[x].defined
    BY <2>2 DEF Redefined
  <2>4. Changed(name, x, name') /\ name'[x].val = name[x].val /\ name'[x].global /\ name'[x].defined
    <3> HIDE DEF x, D
    <3>0. "fragment" \in NameFields /\ "val" \in NameFields /\ "global" \in NameFields /\ "defined" \in NameFields
      BY DEF NameFields
    <3>1. x \in DOMAIN D /\ NameFields \subseteq DOMAIN D[x]
      BY <1>1, <1>D DEF Changed
    <3>2. /\ Changed(D, x, name')
          /\ \A g \in NameFields : g # "fragment" => name'[x][g] = D[x][g]
      BY <2>2, <3>0, <3>1, FieldSet
    <3>3. Changed(name, x, name')
      BY <1>1, <1>D, <3>2, ChangedOn
    <3>4. name'[x]["val"] = D[x]["val"] /\ name'[x]["global"] = D[x]["global"] /\ name'[x]["defined"] = D[x]["defined"]
      BY <3>0, <3>2
    <3> QED
      BY <1>3, <1>D, <1>r, <3>3, <3>4
  <2> HIDE DEF x, D, want, n
  <2>5. NamesOK(name')
    BY <1>0, <1>1, <2>4, NameChanged
  <2>6. /\ DOMAIN name' = DOMAIN name /\ \A m \in DOMAIN name : name'[m].val = name[m].val
        /\ Acyclic(name')
    BY <1>0, <1>1, <2>4, OneUnchanged
  <2>7. Kept(name, name')
    BY <1>1, <2>3, <2>4, KeptUndefined
  <2>8. ForwOK(forwlab', name')
    BY <1>0, <1>1, <2>2, <2>4, ForwStays
  <2>9. x \in Globals(name)
    BY <1>1, <1>3 DEF Globals
  <2>10. Step(lay, P, Globals(name))
    BY <1>0, Aside
  <2>11. LayOK(P, Globals(name)) /\ s \in DOMAIN P.seg
    BY <1>0, <2>10, StepSeg
  <2> HIDE DEF P
  <2>12. LayOK(L, Globals(name)) /\ LayKept(P, L) /\ DOMAIN L.seg = DOMAIN P.seg
    BY <2>9, <2>11, FragmentStarted
  <2> HIDE DEF L
  <2>13. Step(L, lay', Globals(name)) /\ lay'.cells = L.cells
    <3>1. Step(L, L, Globals(name))
      BY <2>12, LayStays
    <3> QED
      BY <2>2, <2>11, <2>12, <3>1, MetStep
  <2>14. LayOK(lay', Globals(name)) /\ LayKept(lay, lay') /\ curseg' \in DOMAIN lay'.seg
    <3>1. LayKept(lay, L)
      BY <1>0, <2>10, <2>11, <2>12, LayKeptOn DEF Step
    <3>2. LayKept(lay, lay')
      BY <1>0, <2>12, <2>13, <3>1, LayKeptOn DEF Step
    <3> QED
      BY <2>2, <2>11, <2>12, <2>13, <3>2 DEF Step, SameFrags
  <2>15. LayOK(lay', Globals(name'))
    BY <2>7, <2>14, GlobalsStay, LayWider
  <2>16. MarkOK(Mark(L, s, NameRef(x), want), name', lay'.cells)
    BY <1>1, <2>4, <2>6, <2>11, <2>12, <2>13, NameMarked
  <2>17. PutOff(deferred', seen') /\ seen' \subseteq Names /\ seen \subseteq seen'
    BY <1>0, <1>1, <2>2 DEF PutOff
  <2>18. \A m \in marks' : m \in marks \/ MarkOK(m, name', lay'.cells)
    BY <2>2, <2>16
  <2>19. Parsing'
    BY <2>2, <2>5, <2>6, <2>7, <2>8, <2>14, <2>15, <2>17, <2>18, Carries DEF Fine
  <2> QED
    BY <2>6, <2>19 DEF Fine
<1> QED
  BY <1>2, <1>3

LEMMA DigitLemma ==
  ASSUME Fine, NEW st, Meant(st), DigitLabel(st), errors' = {}
  PROVE  Fine'
<1> DEFINE d == st.d
           s == curseg
           f == forwlab[d]
           A == Share(do_pending_alignment(lay, s), s)
           v == PointAt(A.seg[s].point)
           D == [name EXCEPT ![f].defined = TRUE]
<1>0. /\ NamesOK(name) /\ Acyclic(name) /\ ForwOK(forwlab, name) /\ LayOK(lay, Globals(name)) /\ ValuesRefer(name)
      /\ s \in DOMAIN lay.seg /\ seen \subseteq Names /\ PutOff(deferred, seen) /\ BackOK(backlab, lay.cells)
  BY ValuesDoRefer DEF Fine, Parsing
<1>1. d \in Digits
  BY DEF Meant, DigitLabel
<1>2. /\ backlab' = [backlab EXCEPT ![d] = v]
      /\ name' = IF f = 0 THEN name ELSE name_assign_value(D, A, f, v)
      /\ lay' = Met(A, s)
      /\ marks' = marks \cup {Mark(A, s, v, lay.seg[s].asked)}
      /\ forwlab' = [forwlab EXCEPT ![d] = 0]
      /\ UNCHANGED <<seen, curseg, needs, deferred, uses>>
  BY DEF DigitLabel, NoLongerAwaited
<1>3. Step(lay, A, Globals(name))
  BY SettledStep
<1> HIDE DEF A
<1>4. LayOK(A, Globals(name)) /\ s \in DOMAIN A.seg
  BY <1>0, <1>3, StepSeg
<1>5. Step(lay, lay', Globals(name)) /\ lay'.cells = A.cells
  BY <1>0, <1>2, <1>3, MetStep
<1>6. ValueOK(v, name, seen', lay'.cells) /\ Refers(v, name) /\ v.t \in ValueKinds /\ v.t = "point"
  BY <1>4, <1>5, PointValue
<1>7. MarkOK(Mark(A, s, v, lay.seg[s].asked), name', lay'.cells)
  BY <1>4, <1>5, PointMarked
<1>d. DOMAIN forwlab = Digits
  BY <1>0 DEF ForwOK
<1> HIDE DEF d, v, D
<1>8. /\ NamesOK(name') /\ Acyclic(name') /\ Kept(name, name') /\ ForwOK(forwlab', name')
      /\ \A n \in DOMAIN name' : \/ ValueOK(name'[n].val, name', seen', lay'.cells)
                                 \/ n \in DOMAIN name /\ name'[n].val = name[n].val
  <2>1. CASE f = 0
    <3>1. name' = name
      BY <1>2, <2>1
    <3>2. forwlab' = forwlab
      <4>1. forwlab = [e \in Digits |-> forwlab[e]]
        BY <1>0 DEF ForwOK
      <4> QED
        BY <1>1, <1>2, <2>1, <4>1
    <3> QED
      BY <1>0, <3>1, <3>2 DEF Kept
  <2>2. CASE f # 0
    <3>1. f \in DOMAIN name \ Names /\ ~ name[f].defined /\ ~ name[f].global
      BY <1>0, <1>1, <2>2 DEF ForwOK
    <3>2. NameFields \subseteq DOMAIN name[f]
      BY <1>0, <3>1 DEF NamesOK
    <3>3. Begun(name, f, D)
      <4> HIDE DEF f
      <4>1. "defined" \in NameFields /\ "val" \in NameFields /\ "global" \in NameFields
        BY DEF NameFields
      <4>2. D = [name EXCEPT ![f]["defined"] = TRUE]
        BY DEF D
      <4>3. /\ Changed(name, f, D) /\ D[f]["defined"] = TRUE
            /\ \A g \in NameFields : g # "defined" => D[f][g] = name[f][g]
        BY <3>1, <3>2, <4>1, <4>2, FieldSet
      <4>4. D[f].val = name[f].val /\ D[f].global = name[f].global /\ D[f].defined = TRUE
        BY <4>1, <4>3
      <4> QED
        BY <3>1, <4>3, <4>4 DEF Begun
    <3>4. Gets(name, f, v, name')
      BY <1>0, <1>2, <1>6, <2>2, <3>1, <3>3, Defines
    <3>5. \A n \in DOMAIN name' : \/ ValueOK(name'[n].val, name', seen', lay'.cells)
                                  \/ n \in DOMAIN name /\ name'[n].val = name[n].val
      BY <1>6, <3>1, <3>4, OneValue
    <3>6. /\ NamesOK(name') /\ Acyclic(name') /\ Kept(name, name') /\ name'[f].defined
          /\ DOMAIN name' = DOMAIN name /\ \A n \in DOMAIN name : n # f => name'[n] = name[n]
      BY <3>4 DEF Gets, Changed
    <3>7. ForwOK(forwlab', name')
      <4>1. /\ forwlab' = [e \in Digits |-> IF e = d THEN 0 ELSE forwlab[e]]
        BY <1>0, <1>1, <1>2, <1>d DEF ForwOK
      <4>2. \A e \in Digits : e # d /\ forwlab[e] # 0 => forwlab[e] # f
        BY <1>0, <1>1 DEF ForwOK
      <4>3. \A e \in Digits : forwlab'[e] # 0 =>
              forwlab'[e] \in DOMAIN name' \ Names /\ ~ name'[forwlab'[e]].defined /\ ~ name'[forwlab'[e]].global
        BY <1>0, <3>6, <4>1, <4>2 DEF ForwOK
      <4>4. \A e, g \in Digits : forwlab'[e] = forwlab'[g] /\ forwlab'[e] # 0 => e = g
        BY <1>0, <4>1 DEF ForwOK
      <4>5. ASSUME NEW n \in DOMAIN name' \ Names, ~ name'[n].defined, ~ name'[n].global
            PROVE  \E e \in Digits : forwlab'[e] = n
        <5>1. n # f /\ n \in DOMAIN name \ Names /\ ~ name[n].defined /\ ~ name[n].global
          BY <3>6, <4>5
        <5>2. PICK e \in Digits : forwlab[e] = n
          BY <1>0, <5>1 DEF ForwOK
        <5> QED
          BY <4>1, <5>1, <5>2
      <4> QED
        BY <4>1, <4>3, <4>4, <4>5 DEF ForwOK
    <3> QED
      BY <3>5, <3>6, <3>7
  <2> QED
    BY <2>1, <2>2
<1>9. BackOK(backlab', lay'.cells)
  <2>1. 1..Len(lay.cells) \subseteq 1..Len(lay'.cells)
    BY <1>0, <1>5, CellsLonger DEF Step
  <2>2. v.n \in 1..Len(lay'.cells)
    BY <1>6 DEF ValueOK
  <2>3. backlab' = [e \in Digits |-> IF e = d THEN v ELSE backlab[e]]
    <3>1. backlab = [e \in Digits |-> backlab[e]]
      BY <1>0 DEF BackOK
    <3> QED
      BY <1>2, <3>1
  <2> QED
    BY <1>0, <1>6, <2>1, <2>2, <2>3 DEF BackOK
<1>10. LayOK(lay', Globals(name')) /\ LayKept(lay, lay') /\ curseg' \in DOMAIN lay'.seg
  <2>1. Globals(name) \subseteq Globals(name')
    BY <1>8, GlobalsStay
  <2> QED
    BY <1>0, <1>2, <1>5, <2>1, LayWider DEF Step, SameFrags
<1>11. \A m \in marks' : m \in marks \/ MarkOK(m, name', lay'.cells)
  BY <1>2, <1>7
<1>12. PutOff(deferred', seen') /\ seen' \subseteq Names /\ seen \subseteq seen'
  BY <1>0, <1>2
<1>13. Parsing'
  BY <1>2, <1>8, <1>9, <1>10, <1>11, <1>12, Carries DEF Fine
<1> QED
  BY <1>8, <1>13 DEF Fine

LEMMA ScansRefer ==
  ASSUME Parsing, NEW a, NEW v, NEW N, NEW fw, NEW c, Scans(a, v, N, fw, c)
  PROVE  ValuesRefer(N) /\ Refers(v, N) /\ Names \subseteq DOMAIN N /\ \A x \in Names : N[x] = name[x]
<1>1. ValuesRefer(name) /\ Names \subseteq DOMAIN name
  BY ValuesDoRefer DEF Parsing, NamesOK
<1>2. DOMAIN name \subseteq DOMAIN N
  BY DEF Scans, Kept
<1>3. Blank.val.t # "name"
  BY BlankIs DEF BlankFacts
<1>4. ValuesRefer(N)
  BY <1>1, <1>2, <1>3 DEF Scans, ValuesRefer, Refers
<1> QED
  BY <1>1, <1>2, <1>4 DEF Scans, ValueOK

LEMMA AssignmentLemma ==
  ASSUME Fine, NEW st, Meant(st), Assignment(st), errors' = {}
  PROVE  Fine'
<1> DEFINE x == st.x
           a == st.a
           s == curseg
           N == Scanned(name, a)
           D == [N EXCEPT ![x].defined = TRUE]
           A == Flushed(lay, a)
           v == Value(name, A, a)
           w == lay.seg[s].asked
<1>0. /\ NamesOK(name) /\ Acyclic(name) /\ ForwOK(forwlab, name) /\ LayOK(lay, Globals(name))
      /\ s \in DOMAIN lay.seg /\ seen \subseteq Names /\ PutOff(deferred, seen) /\ Parsing
  BY DEF Fine, Parsing
<1>1. x \in Names /\ IsOperand(a) /\ Operand(a)
  BY DEF Meant, Assignment
<1>2. /\ ~ name[x].defined
      /\ name' = name_assign_value(D, A, x, v)
      /\ AssignErrors(D, A, x, v) = {}
      /\ lay' = IF a.k = "dot" THEN Met(A, s) ELSE A
      /\ marks' = marks \cup (IF a.k = "dot" THEN {Mark(A, s, NameRef(x), w)} ELSE {})
      /\ forwlab' = IF a.k = "forw" THEN [forwlab EXCEPT ![a.n] = v.n] ELSE forwlab
      /\ seen' = (seen \cup {x}) \cup NamesOf(a)
      /\ UNCHANGED <<curseg, backlab, needs, deferred, uses>>
  BY DEF Assignment, ScanOperand
<1>3. Step(lay, A, Globals(name))
  BY SettledStep
<1>4. a.k = "dot" => v = PointAt(A.seg[s].point)
  BY DEF Value
<1>n. NamesOf(a) \subseteq Names
  BY <1>1 DEF NamesOf, IsOperand
<1> HIDE DEF A
<1>5. LayOK(A, Globals(name)) /\ s \in DOMAIN A.seg /\ LayKept(lay, A)
  BY <1>0, <1>3, StepSeg DEF Step
<1>6. Step(lay, lay', Globals(name)) /\ lay'.cells = A.cells
  BY <1>0, <1>2, <1>3, MetStep
<1>7. Scans(a, v, N, forwlab', A.cells)
  BY <1>0, <1>1, <1>2, <1>5, OperandIs
<1> HIDE DEF N, v, x, a, D
<1>8. ValuesRefer(N) /\ Refers(v, N) /\ x \in DOMAIN N /\ N[x] = name[x]
  BY <1>0, <1>1, <1>7, ScansRefer
<1>9. NamesOK(N) /\ Acyclic(N) /\ Kept(name, N) /\ ForwOK(forwlab', N) /\ v.t \in ValueKinds
  BY <1>7 DEF Scans
<1>10. Begun(N, x, D)
  <2>1. "defined" \in NameFields /\ "val" \in NameFields /\ "global" \in NameFields
    BY DEF NameFields
  <2>2. D = [N EXCEPT ![x]["defined"] = TRUE] /\ NameFields \subseteq DOMAIN N[x]
    BY <1>8, <1>9 DEF D, NamesOK
  <2>3. /\ Changed(N, x, D) /\ D[x]["defined"] = TRUE
        /\ \A g \in NameFields : g # "defined" => D[x][g] = N[x][g]
    BY <1>8, <2>1, <2>2, FieldSet
  <2>4. D[x].val = N[x].val /\ D[x].global = N[x].global /\ D[x].defined = TRUE
    BY <2>1, <2>3
  <2> QED
    BY <1>2, <1>8, <2>3, <2>4 DEF Begun
<1>11. Gets(N, x, v, name') /\ name'[x].val = v
  <2>1. Gets(N, x, v, name') /\ (AssignErrors(D, A, x, v) = {} => name'[x].val = v)
    BY <1>2, <1>8, <1>9, <1>10, Defines
  <2> QED
    BY <1>2, <2>1
<1>12. /\ NamesOK(name') /\ Acyclic(name') /\ Kept(N, name') /\ Changed(N, x, name')
       /\ x \in DOMAIN name' /\ name'[x].defined
  BY <1>8, <1>11 DEF Gets, Changed
<1>13. Kept(name, name')
  BY <1>9, <1>12, KeptOn
<1>14. ForwOK(forwlab', name')
  BY <1>1, <1>9, <1>12, ForwStays
<1>15. \A n \in DOMAIN name' : \/ ValueOK(name'[n].val, name', seen', lay'.cells)
                               \/ n \in DOMAIN name /\ name'[n].val = name[n].val
  <2>1. ValueOK(v, N, seen', lay'.cells)
    <3>1. ValueOK(v, N, seen \cup NamesOf(a), A.cells) /\ seen \cup NamesOf(a) \subseteq seen'
      BY <1>2, <1>7 DEF Scans
    <3> QED
      BY <1>6, <3>1 DEF ValueOK
  <2>2. \A n \in DOMAIN name' : \/ ValueOK(name'[n].val, name', seen', lay'.cells)
                                \/ n \in DOMAIN N /\ name'[n].val = N[n].val
    BY <1>8, <1>11, <2>1, OneValue
  <2>3. ValueOK(Blank.val, name', seen', lay'.cells)
    BY BlankIs DEF BlankFacts, ValueOK, Refers
  <2>4. \A n \in DOMAIN N : (n \in DOMAIN name /\ N[n] = name[n]) \/ N[n] = Blank
    BY <1>7 DEF Scans
  <2> QED
    BY <2>2, <2>3, <2>4
<1>16. LayOK(lay', Globals(name')) /\ LayKept(lay, lay') /\ curseg' \in DOMAIN lay'.seg
  <2>1. Globals(name) \subseteq Globals(name')
    BY <1>13, GlobalsStay
  <2> QED
    BY <1>0, <1>2, <1>6, <2>1, LayWider DEF Step, SameFrags
<1>17. \A m \in marks' : m \in marks \/ MarkOK(m, name', lay'.cells)
  <2>1. a.k = "dot" => MarkOK(Mark(A, s, NameRef(x), w), name', lay'.cells)
    BY <1>4, <1>5, <1>6, <1>11, <1>12, NameMarked
  <2> QED
    BY <1>2, <2>1
<1>18. PutOff(deferred', seen') /\ seen' \subseteq Names /\ seen \subseteq seen'
  BY <1>0, <1>1, <1>2, <1>n DEF PutOff
<1>19. Parsing'
  BY <1>0, <1>2, <1>12, <1>13, <1>14, <1>15, <1>16, <1>17, <1>18, Carries
<1> QED
  BY <1>12, <1>19 DEF Fine

\* A descent from what leads nowhere.
LEMMA DescentStill ==
  ASSUME NEW nm, IsFiniteSet(DOMAIN nm), NEW e, NEW go \in SUBSET DOMAIN nm, ~ Goes(e, go)
  PROVE  /\ \A k \in 0..Cardinality(DOMAIN nm) : Descent(nm, e, go)[k] = e
         /\ Bottom(nm, e, go) = e
<1> DEFINE C == Cardinality(DOMAIN nm)
           f == Descent(nm, e, go)
           T == {k \in Nat : k <= C => f[k] = e}
<1>0. C \in Nat
  BY FS_CardinalityType
<1>1. f[0] = e /\ \A k \in 1..C : f[k] = Below(nm, f[k - 1], go)
  BY DescentIs DEF Descends
<1>b. Bottom(nm, e, go) = f[C]
  BY DEF Bottom
<1>2. Below(nm, e, go) = e
  BY DEF Below, Goes
<1> HIDE DEF C, f
<1>3. 0 \in T
  BY <1>1
<1>4. ASSUME NEW k \in T  PROVE k + 1 \in T
  <2> SUFFICES ASSUME k + 1 <= C  PROVE f[k + 1] = e
    OBVIOUS
  <2>1. k + 1 \in 1..C /\ (k + 1) - 1 = k /\ k <= C
    BY <1>0
  <2> QED
    BY <1>1, <1>2, <2>1
<1>5. T \in SUBSET Nat
  OBVIOUS
<1> HIDE DEF T
<1>6. \A k \in Nat : k \in T
  BY <1>3, <1>4, <1>5, SetInduction
<1>7. \A k \in 0..C : f[k] = e
  BY <1>0, <1>6 DEF T
<1> QED
  BY <1>0, <1>7, <1>b DEF C, f

LEMMA EmitStep ==
  ASSUME NEW A, NEW G, LayOK(A, G), curseg \in DOMAIN A.seg, NEW N, NEW v, NEW rel,
         NEW C, C = emit_cmd(A, N, v, rel)
  PROVE  Step(A, C, G) /\ (v.t = "const" \/ Has(C, CurFrag(A, curseg), v))
<1>1. CASE rel
  <2>1. PICK r : r = <<v, NameRef(Noname(N))>>
    OBVIOUS
  <2>2. IsSequence(r) /\ Len(r) = 2 /\ r[1] = v
    BY <2>1, PairIs
  <2>3. C = emit_cmd_expr(A, curseg, r, FALSE, 1)
    BY <1>1, <2>1 DEF emit_cmd
  <2>4. Step(A, C, G) /\ \A i \in 1..Len(r) : Has(C, CurFrag(A, curseg), r[i])
    BY <2>2, <2>3, CommandStep
  <2>5. 1 \in 1..Len(r)
    BY <2>2
  <2> QED
    BY <2>2, <2>4, <2>5
<1>2. CASE ~ rel /\ v.t = "const"
  <2>1. C = emit_cmd_const(A, curseg, ShortSize(N, v))
    BY <1>2 DEF emit_cmd
  <2> QED
    BY <1>2, <2>1, ConstantStep
<1>3. CASE ~ rel /\ v.t # "const"
  <2>1. PICK r : r = <<v>>
    OBVIOUS
  <2>2. IsSequence(r) /\ Len(r) = 1 /\ r[1] = v
    BY <2>1, ShortSequences
  <2>3. C = emit_cmd_expr(A, curseg, r, Known(N, v), ShortSize(N, v))
    BY <1>3, <2>1 DEF emit_cmd
  <2>4. Step(A, C, G) /\ \A i \in 1..Len(r) : Has(C, CurFrag(A, curseg), r[i])
    BY <2>2, <2>3, CommandStep
  <2>5. 1 \in 1..Len(r)
    BY <2>2
  <2> QED
    BY <2>2, <2>4, <2>5
<1> QED
  BY <1>1, <1>2, <1>3

\* The noname at the end of a command gets the point, always.
Ends(N, fw, v, K) ==
  /\ NamesOK(K) /\ Acyclic(K) /\ Kept(N, K) /\ ForwOK(fw, K)
  /\ DOMAIN K = DOMAIN N \cup {Noname(N)} /\ K[Noname(N)].val = v /\ K[Noname(N)].defined
  /\ \A n \in DOMAIN N : K[n] = N[n]

LEMMA EndNamed ==
  ASSUME NEW N, NamesOK(N), Acyclic(N), ValuesRefer(N), NEW fw, ForwOK(fw, N),
         NEW C, NEW G, LayOK(C, G), G \subseteq DOMAIN N, NEW s \in DOMAIN C.seg,
         NEW v, v = PointAt(C.seg[s].point),
         NEW K, K = name_assign_value(table_add_noname(N, [Blank EXCEPT !.defined = TRUE]), C, Noname(N), v)
  PROVE  Ends(N, fw, v, K)
<1> DEFINE p == Noname(N)
           b == [Blank EXCEPT !.defined = TRUE]
           T == table_add_noname(N, b)
<1>1. p \notin DOMAIN N /\ p \notin Names /\ p # 0 /\ IsFiniteSet(DOMAIN N)
  BY FreshNoname
<1>2. /\ NameFields \subseteq DOMAIN b /\ b.defined = TRUE /\ b.global = FALSE /\ b.val = None /\ b.align = 1
      /\ None.t = "none"
  BY DEF NameFields, Blank, None
<1>3. ValueOK(v, N, {}, C.cells) /\ v.t \in ValueKinds /\ v.t = "point" /\ v.n = C.seg[s].point
  BY PointValue DEF PointAt
<1> HIDE DEF p, b
<1>4. /\ DOMAIN T = DOMAIN N \cup {p} /\ T[p] = b /\ \A n \in DOMAIN N : T[n] = N[n]
  BY <1>1 DEF table_add_noname, With, p
<1> HIDE DEF T
<1>5. IsFiniteSet(DOMAIN T)
  BY <1>1, <1>4, FS_AddElement
<1>6. Acyclic(T)
  BY <1>2, <1>4, StillAcyclic
<1>7. ValuesRefer(T) /\ Refers(v, T)
  BY <1>2, <1>3, <1>4 DEF ValuesRefer, Refers
<1>8. K = name_assign_value(T, C, p, v) /\ p \in DOMAIN T /\ NameFields \subseteq DOMAIN T[p]
  BY <1>2, <1>4 DEF T, p, b
<1>9. /\ Changed(T, p, K) /\ \A g \in NameFields : g # "val" => K[p][g] = T[p][g]
      /\ K[p].val \in {Const(0), v} /\ K[p].val # None
      /\ AssignErrors(T, C, p, v) = {} => K[p].val = v
      /\ Acyclic(K)
  <2>1. AssignsTo(T, C, p, v, K)
    BY <1>3, <1>5, <1>6, <1>7, <1>8, Assigned
  <2> QED
    BY <2>1 DEF AssignsTo
<1>10. AssignErrors(T, C, p, v) = {}
  <2>1. ~ Cyclic(T, C, p, v)
    <3>1. ~ Goes(v, DOMAIN T)
      BY <1>3 DEF Goes
    <3>2. \A k \in 0..Cardinality(DOMAIN T) : Descent(T, v, DOMAIN T)[k] = v
      BY <1>5, <3>1, DescentStill
    <3>3. NamesIn(C.cells, v) = {CurFrag(C, s)} /\ CurFrag(C, s) \in G
      BY <1>3, PointIn DEF NamesIn
    <3>4. p \notin NamesIn(C.cells, v)
      BY <1>1, <3>3
    <3>5. p \notin Mentions(T, C.cells, v)
      BY <3>2, <3>4 DEF Mentions
    <3> QED
      BY <3>5 DEF Cyclic
  <2>2. ~ Unaligned(T, C, p, v)
    BY <1>2, <1>4 DEF Unaligned
  <2> QED
    BY <2>1, <2>2 DEF AssignErrors
<1>11. K[p].val = v
  BY <1>9, <1>10
<1>12. K[p].defined = TRUE
  <2>1. "defined" \in NameFields
    BY DEF NameFields
  <2>2. K[p]["defined"] = T[p]["defined"]
    BY <1>9, <2>1
  <2> QED
    BY <1>2, <1>4, <2>2
<1>13. DOMAIN K = DOMAIN N \cup {p} /\ (\A n \in DOMAIN N : K[n] = N[n]) /\ K = [n \in DOMAIN K |-> K[n]]
  BY <1>1, <1>4, <1>9 DEF Changed
<1>14. PICK r : r = K[p] /\ RecordOK(r) /\ r.defined
  <2>1. RecordOK(K[p])
    BY <1>3, <1>9, <1>11 DEF RecordOK, Changed
  <2> QED
    BY <1>12, <2>1
<1>15. K = table_add_noname(N, r)
  <2>1. With(N, p, r) = [n \in DOMAIN N \cup {p} |-> IF n = p THEN r ELSE N[n]]
    BY DEF With
  <2>2. K = [n \in DOMAIN N \cup {p} |-> IF n = p THEN r ELSE N[n]]
    BY <1>1, <1>13, <1>14
  <2> QED
    BY <2>1, <2>2 DEF table_add_noname, p
<1>16. Adds(N, r, K)
  BY <1>14, <1>15, NonameAdded
<1>17. ForwOK(fw, K)
  BY <1>14, <1>16, ForwWith
<1> QED
  BY <1>11, <1>12, <1>13, <1>16, <1>17 DEF Adds, Ends, p

\* Values of names after an operand was scanned.
LEMMA ScansValues ==
  ASSUME NEW a, NEW v, NEW N, NEW fw, NEW c, Scans(a, v, N, fw, c), NEW nm, NEW S, NEW d
  PROVE  \A n \in DOMAIN N : \/ ValueOK(N[n].val, nm, S, d)
                             \/ n \in DOMAIN name /\ N[n].val = name[n].val
<1>1. ValueOK(Blank.val, nm, S, d)
  BY BlankIs DEF BlankFacts, ValueOK, Refers
<1> QED
  BY <1>1 DEF Scans

LEMMA CommandLemma ==
  ASSUME Fine, NEW st, Meant(st), Command(st), errors' = {}
  PROVE  Fine'
<1> DEFINE a == st.a
           s == curseg
           G == Globals(name)
           N == Scanned(name, a)
           A == Settled(a)
           v == Value(name, A, a)
           C == emit_cmd(A, N, v, st.rel)
           p == Noname(N)
           e == PointAt(C.seg[s].point)
           f == CurFrag(A, s)
           R == IF st.rel THEN Share(C, s) ELSE C
<1>0. /\ NamesOK(name) /\ Acyclic(name) /\ ForwOK(forwlab, name) /\ LayOK(lay, G)
      /\ s \in DOMAIN lay.seg /\ seen \subseteq Names /\ PutOff(deferred, seen) /\ Parsing
  BY DEF Fine, Parsing
<1>1. IsOperand(a) /\ Operand(a)
  BY DEF Meant, Command
<1>2. /\ lay' = Met(R, s)
      /\ name' = IF st.rel
                 THEN name_assign_value(table_add_noname(N, [Blank EXCEPT !.defined = TRUE]), C, p, e)
                 ELSE N
      /\ marks' = marks \cup (IF st.rel THEN {Mark(C, s, NameRef(p), 1)} ELSE {})
      /\ forwlab' = IF a.k = "forw" THEN [forwlab EXCEPT ![a.n] = v.n] ELSE forwlab
      /\ uses' = uses \cup {<<f, v>>}
      /\ seen' = seen \cup NamesOf(a)
      /\ UNCHANGED <<curseg, backlab, needs, deferred>>
  BY DEF Command, ScanOperand
<1>3. Step(lay, A, G)
  BY SettledStep
<1>n. NamesOf(a) \subseteq Names /\ G \subseteq DOMAIN name
  BY <1>1 DEF NamesOf, IsOperand, Globals
<1> HIDE DEF A, G
<1>5. LayOK(A, G) /\ s \in DOMAIN A.seg /\ LayKept(lay, A)
  BY <1>0, <1>3, StepSeg DEF Step
<1>7. Scans(a, v, N, forwlab', A.cells)
  BY <1>0, <1>1, <1>2, <1>5, OperandIs DEF G
<1> HIDE DEF N, v, a
<1>8. ValuesRefer(N) /\ Refers(v, N)
  BY <1>0, <1>7, ScansRefer
<1>9. NamesOK(N) /\ Acyclic(N) /\ Kept(name, N) /\ ForwOK(forwlab', N)
  BY <1>7 DEF Scans
<1>10. Step(A, C, G) /\ (v.t = "const" \/ Has(C, f, v))
  <2> HIDE DEF C
  <2>1. C = emit_cmd(A, N, v, st.rel)
    BY DEF C
  <2> QED
    BY <1>5, <2>1, EmitStep
<1> HIDE DEF C, f
<1>11. LayOK(C, G) /\ s \in DOMAIN C.seg /\ Step(lay, C, G)
  BY <1>0, <1>3, <1>5, <1>10, StepSeg, StepOn
<1>12. Step(C, R, G) /\ R.cells = C.cells
  <2>1. CASE st.rel
    <3>1. Step(C, Share(C, s), G)
      BY <1>11, Aside
    <3>2. Share(C, s).cells = C.cells
      BY <1>11 DEF Share, LayOK
    <3> QED
      BY <2>1, <3>1, <3>2
  <2>2. CASE ~ st.rel
    <3>1. Step(C, C, G)
      BY <1>11, LayStays
    <3> QED
      BY <2>2, <3>1
  <2> QED
    BY <2>1, <2>2
<1> HIDE DEF R
<1>13. Step(C, lay', G) /\ lay'.cells = C.cells
  BY <1>2, <1>11, <1>12, MetStep
<1>14. Step(lay, lay', G)
  BY <1>0, <1>11, <1>13, StepOn
<1>15. /\ NamesOK(name') /\ Acyclic(name') /\ Kept(N, name') /\ ForwOK(forwlab', name')
       /\ \A n \in DOMAIN name' : \/ ValueOK(name'[n].val, name', seen', lay'.cells)
                                  \/ n \in DOMAIN N /\ name'[n].val = N[n].val
       /\ \A m \in marks' : m \in marks \/ MarkOK(m, name', lay'.cells)
  <2>1. CASE ~ st.rel
    <3>1. name' = N /\ marks' = marks
      BY <1>2, <2>1
    <3> QED
      BY <1>9, <3>1 DEF Kept
  <2>2. CASE st.rel
    <3>1. /\ name' = name_assign_value(table_add_noname(N, [Blank EXCEPT !.defined = TRUE]), C, p, e)
          /\ marks' = marks \cup {Mark(C, s, NameRef(p), 1)}
      BY <1>2, <2>2
    <3>2. G \subseteq DOMAIN N
      BY <1>9, <1>n DEF Kept
    <3>3. Ends(N, forwlab', e, name')
      BY <1>8, <1>9, <1>11, <3>1, <3>2, EndNamed
    <3>4. ValueOK(e, name', seen', lay'.cells)
      <4>1. ValueOK(e, name', seen', C.cells)
        BY <1>11, PointValue
      <4> QED
        BY <1>13, <4>1
    <3> HIDE DEF p, e
    <3>5. p \in DOMAIN name' /\ name'[p].val = e /\ name'[p].defined
      BY <3>3 DEF Ends, p
    <3>6. MarkOK(Mark(C, s, NameRef(p), 1), name', lay'.cells)
      BY <1>11, <1>13, <3>5, NameMarked DEF e
    <3>7. \A n \in DOMAIN name' : \/ ValueOK(name'[n].val, name', seen', lay'.cells)
                                  \/ n \in DOMAIN N /\ name'[n].val = N[n].val
      BY <3>3, <3>4, <3>5 DEF Ends, p
    <3> QED
      BY <3>1, <3>3, <3>6, <3>7 DEF Ends
  <2> QED
    BY <2>1, <2>2
<1>16. Kept(name, name')
  BY <1>9, <1>15, KeptOn
<1>17. \A n \in DOMAIN name' : \/ ValueOK(name'[n].val, name', seen', lay'.cells)
                               \/ n \in DOMAIN name /\ name'[n].val = name[n].val
  <2>1. \A n \in DOMAIN N : \/ ValueOK(N[n].val, name', seen', lay'.cells)
                            \/ n \in DOMAIN name /\ N[n].val = name[n].val
    BY <1>7, ScansValues
  <2> QED
    BY <1>15, <2>1
<1>18. LayOK(lay', Globals(name')) /\ LayKept(lay, lay') /\ curseg' \in DOMAIN lay'.seg
  <2>1. Globals(name) \subseteq Globals(name')
    BY <1>16, GlobalsStay
  <2> QED
    BY <1>0, <1>2, <1>14, <2>1, LayWider DEF Step, SameFrags, G
<1>19. PutOff(deferred', seen') /\ seen' \subseteq Names /\ seen \subseteq seen'
  BY <1>0, <1>2, <1>n DEF PutOff
<1>20. UseOK(<<f, v>>, name', seen', lay', needs', deferred')
  <2>1. ValueOK(v, name', seen', lay'.cells)
    <3>1. ValueOK(v, N, seen', A.cells)
      BY <1>2, <1>7 DEF Scans
    <3>2. 1..Len(A.cells) \subseteq 1..Len(lay'.cells)
      BY <1>5, <1>10, <1>11, <1>13, CellsLonger DEF Step
    <3> QED
      BY <1>15, <3>1, <3>2, ValueStays DEF Kept
  <2>2. v.t = "const" \/ Has(lay', f, v)
    BY <1>10, <1>11, <1>13, HasStays DEF Step
  <2>3. Noted(f, v, name', lay', needs', deferred')
    BY <2>2 DEF Noted
  <2> QED
    BY <2>1, <2>3, UseIs
<1>21. \A u \in uses' : u \in uses \/ UseOK(u, name', seen', lay', needs', deferred')
  BY <1>2, <1>20
<1>22. Parsing'
  BY <1>0, <1>2, <1>15, <1>16, <1>17, <1>18, <1>19, <1>21, Carries
<1> QED
  BY <1>15, <1>22 DEF Fine

LEMMA DataLemma ==
  ASSUME Fine, NEW st, Meant(st), Data(st)
  PROVE  Fine'
<1> DEFINE a == st.a
           b == st.r
           s == curseg
           G == Globals(name)
           N == Scanned(name, a)
           A == Settled(a)
           v == Value(name, A, a)
           r == Value(name, A, b)
           n == IF Known(N, r) THEN Estimate(N, r) ELSE 0
           C == emit_data(A, s, st.w, v, r, Known(N, r), n)
           f == CurFrag(A, s)
<1>0. /\ NamesOK(name) /\ Acyclic(name) /\ ForwOK(forwlab, name) /\ LayOK(lay, G)
      /\ s \in DOMAIN lay.seg /\ seen \subseteq Names /\ PutOff(deferred, seen) /\ Parsing
  BY DEF Fine, Parsing
<1>1. IsOperand(a) /\ Operand(a) /\ IsOperand(b) /\ b.k \in {"const", "name"}
  BY DEF Meant, Data
<1>2. /\ lay' = Met(C, s)
      /\ name' = N
      /\ forwlab' = IF a.k = "forw" THEN [forwlab EXCEPT ![a.n] = v.n] ELSE forwlab
      /\ uses' = uses \cup {<<f, v>>, <<f, r>>}
      /\ seen' = (seen \cup NamesOf(a)) \cup NamesOf(b)
      /\ UNCHANGED <<curseg, backlab, needs, deferred, marks>>
  BY DEF Data, ScanOperand
<1>3. Step(lay, A, G)
  BY SettledStep
<1>n. NamesOf(a) \subseteq Names /\ NamesOf(b) \subseteq Names
  BY <1>1 DEF NamesOf, IsOperand
<1> HIDE DEF A, G
<1>5. LayOK(A, G) /\ s \in DOMAIN A.seg /\ LayKept(lay, A)
  BY <1>0, <1>3, StepSeg DEF Step
<1>7. Scans(a, v, N, forwlab', A.cells)
  BY <1>0, <1>1, <1>2, <1>5, OperandIs DEF G
<1>r. ValueOK(r, name, NamesOf(b), A.cells)
  <2>1. CASE b.k = "const"
    <3>1. r.t = "const"
      BY <2>1 DEF Value, Const
    <3> QED
      BY <3>1 DEF ValueOK, Refers
  <2>2. CASE b.k = "name"
    <3>1. r = NameRef(b.n) /\ r.t = "name" /\ r.n = b.n /\ b.n \in Names /\ NamesOf(b) = {b.n}
      BY <1>1, <2>2 DEF Value, NameRef, NamesOf, IsOperand
    <3>2. Names \subseteq DOMAIN name
      BY <1>0 DEF NamesOK
    <3> QED
      BY <3>1, <3>2 DEF ValueOK, Refers
  <2> QED
    BY <1>1, <2>1, <2>2
<1> HIDE DEF N, v, a, r, b, n
<1>9. NamesOK(N) /\ Acyclic(N) /\ Kept(name, N) /\ ForwOK(forwlab', N)
  BY <1>7 DEF Scans
<1>10. Step(A, C, G) /\ Has(C, f, v) /\ Has(C, f, r)
  <2>0. PICK k : k = Known(N, r)
    OBVIOUS
  <2>1. C = emit_data(A, s, st.w, v, r, k, n)
    BY <2>0
  <2> HIDE DEF C
  <2> QED
    BY <1>5, <2>1, DataStep
<1> HIDE DEF C, f
<1>11. LayOK(C, G) /\ s \in DOMAIN C.seg /\ Step(lay, C, G)
  BY <1>0, <1>3, <1>5, <1>10, StepSeg, StepOn
<1>13. Step(C, lay', G) /\ lay'.cells = C.cells
  <2>1. Step(C, C, G)
    BY <1>11, LayStays
  <2> QED
    BY <1>2, <1>11, <2>1, MetStep
<1>14. Step(lay, lay', G)
  BY <1>0, <1>11, <1>13, StepOn
<1>17. \A m \in DOMAIN name' : \/ ValueOK(name'[m].val, name', seen', lay'.cells)
                               \/ m \in DOMAIN name /\ name'[m].val = name[m].val
  BY <1>2, <1>7, ScansValues
<1>18. LayOK(lay', Globals(name')) /\ LayKept(lay, lay') /\ curseg' \in DOMAIN lay'.seg
  <2>1. Globals(name) \subseteq Globals(name')
    BY <1>2, <1>9, GlobalsStay
  <2> QED
    BY <1>0, <1>2, <1>14, <2>1, LayWider DEF Step, SameFrags, G
<1>19. PutOff(deferred', seen') /\ seen' \subseteq Names /\ seen \subseteq seen'
  BY <1>0, <1>2, <1>n DEF PutOff
<1>20. UseOK(<<f, v>>, name', seen', lay', needs', deferred') /\ UseOK(<<f, r>>, name', seen', lay', needs', deferred')
  <2>1. 1..Len(A.cells) \subseteq 1..Len(lay'.cells)
    BY <1>5, <1>10, <1>11, <1>13, CellsLonger DEF Step
  <2>2. ValueOK(v, name', seen', lay'.cells)
    <3>1. ValueOK(v, N, seen \cup NamesOf(a), A.cells) /\ seen \cup NamesOf(a) \subseteq seen'
      BY <1>2, <1>7 DEF Scans
    <3> QED
      BY <1>2, <2>1, <3>1, ValueStays
  <2>3. ValueOK(r, name', seen', lay'.cells)
    <3>1. NamesOf(b) \subseteq seen' /\ DOMAIN name \subseteq DOMAIN name'
      BY <1>2, <1>9 DEF Kept
    <3> QED
      BY <1>r, <2>1, <3>1, ValueStays
  <2>4. Has(lay', f, v) /\ Has(lay', f, r)
    BY <1>10, <1>11, <1>13, HasStays DEF Step
  <2>5. Noted(f, v, name', lay', needs', deferred') /\ Noted(f, r, name', lay', needs', deferred')
    BY <2>4 DEF Noted
  <2> QED
    BY <2>2, <2>3, <2>5, UseIs
<1>21. \A u \in uses' : u \in uses \/ UseOK(u, name', seen', lay', needs', deferred')
  BY <1>2, <1>20
<1>22. Parsing'
  BY <1>0, <1>2, <1>9, <1>17, <1>18, <1>19, <1>21, Carries
<1> QED
  BY <1>2, <1>9, <1>22 DEF Fine

LEMMA GlobalSet ==
  ASSUME NEW N, NEW x \in DOMAIN N, NameFields \subseteq DOMAIN N[x], NEW K, K = globalize_name(N, x)
  PROVE  /\ Changed(N, x, K) /\ K[x].val = N[x].val /\ K[x].global = TRUE
         /\ x \in DOMAIN K /\ NameFields \subseteq DOMAIN K[x]
<1>1. "global" \in NameFields /\ "val" \in NameFields
  BY DEF NameFields
<1>2. PICK r : r = [N[x] EXCEPT !.global = TRUE]
  OBVIOUS
<1>3. DOMAIN r = DOMAIN N[x] /\ r.global = TRUE /\ r.val = N[x].val
  BY <1>1, <1>2
<1>4. K = [N EXCEPT ![x] = r]
  BY <1>2 DEF globalize_name
<1>5. Changed(N, x, K) /\ K[x] = r
  BY <1>3, <1>4, RecordSet
<1> QED
  BY <1>3, <1>5 DEF Changed

\* A name that comes to be a fragment's.
Heads(N, x, K) ==
  Changed(N, x, K) /\ K[x].val = N[x].val /\ K[x].global = TRUE /\ K[x].defined = TRUE

LEMMA Globalized ==
  ASSUME NEW N, NamesOK(N), NEW x \in DOMAIN N, NEW g, g = globalize_name(N, x), NEW r,
         DOMAIN r = DOMAIN g[x], r.val = g[x].val, r.global = g[x].global, r.defined = TRUE,
         NEW K, K = [g EXCEPT ![x] = r]
  PROVE  Heads(N, x, K)
<1>1. NameFields \subseteq DOMAIN N[x]
  BY DEF NamesOK
<1>2. /\ Changed(N, x, g) /\ g[x].val = N[x].val /\ g[x].global = TRUE
      /\ x \in DOMAIN g /\ NameFields \subseteq DOMAIN g[x]
  BY <1>1, GlobalSet
<1>3. Changed(g, x, K) /\ K[x] = r
  BY <1>2, RecordSet
<1>4. Changed(N, x, K)
  BY <1>2, <1>3, ChangedOn
<1> QED
  BY <1>2, <1>3, <1>4 DEF Heads

\* A mark on a global name.
LEMMA GlobalMarked ==
  ASSUME NEW L, NEW s, NEW K, NEW x \in DOMAIN K, K[x].defined, K[x].global, NEW want, NEW c
  PROVE  MarkOK(Mark(L, s, NameRef(x), want), K, c)
<1>1. PICK m : m = Mark(L, s, NameRef(x), want)
  OBVIOUS
<1>2. m.val.t = "name" /\ m.val.n = x
  BY <1>1 DEF Mark, NameRef
<1>3. MarkOK(m, K, c)
  BY <1>2 DEF MarkOK, MarkFits
<1> QED
  BY <1>1, <1>3

LEMMA CommLemma ==
  ASSUME Fine, NEW st, Meant(st), Comm(st), errors' = {}
  PROVE  Fine'
<1> DEFINE x == st.x
           s == curseg
<1>0. /\ NamesOK(name) /\ Acyclic(name) /\ ForwOK(forwlab, name) /\ LayOK(lay, Globals(name))
      /\ s \in DOMAIN lay.seg /\ seen \subseteq Names /\ PutOff(deferred, seen) /\ Parsing
  BY DEF Fine, Parsing
<1>1. x \in Names /\ x \in DOMAIN name
  BY <1>0 DEF Meant, Comm, NamesOK
<1>2. PICK o : o = OpenSegment(lay, name, "bss")
  OBVIOUS
<1> DEFINE n == o.lay.seg[s].pend
           g == globalize_name(o.name, x)
           P == Met(drop_pending_alignment(o.lay, s), s)
           F == add_fragment(P, "bss", x, n)
<1>3. /\ errors' = Redefined(x)
      /\ name' = [g EXCEPT ![x] = [g[x] EXCEPT !.fragment = TRUE, !.defined = TRUE, !.common = TRUE, !.align = n]]
      /\ lay' = [swap_last_fragments(emit_common(F, st.n), "bss") EXCEPT !.seg["bss"].asked = F.seg["bss"].asked]
      /\ marks' = marks \cup {Mark(F, "bss", NameRef(x), o.lay.seg[s].asked)}
      /\ seen' = seen \cup {x}
      /\ UNCHANGED <<curseg, backlab, forwlab, needs, deferred, uses>>
  BY <1>2 DEF Comm
<1>4. ~ name[x].defined
  BY <1>3 DEF Redefined
<1>5. Opened(lay, name, "bss", forwlab, o.lay, o.name)
  BY <1>0, <1>2, Opens
<1>6. PICK M, N : M = o.lay /\ N = o.name
  OBVIOUS
<1>7. /\ NamesOK(N) /\ Acyclic(N) /\ Kept(name, N) /\ ForwOK(forwlab, N)
      /\ LayOK(M, Globals(N)) /\ LayKept(lay, M) /\ DOMAIN M.seg = DOMAIN lay.seg \cup {"bss"}
      /\ \A m \in DOMAIN N : \/ m \in DOMAIN name /\ N[m] = name[m]
                             \/ m \notin Names /\ N[m].val = None
  BY <1>5, <1>6 DEF Opened
<1>8. x \in DOMAIN N /\ N[x] = name[x]
  BY <1>1, <1>7 DEF Kept
<1> HIDE DEF x
<1>9. Changed(N, x, name') /\ name'[x].val = N[x].val /\ name'[x].global = TRUE /\ name'[x].defined = TRUE
  <2> DEFINE r == [g[x] EXCEPT !.fragment = TRUE, !.defined = TRUE, !.common = TRUE, !.align = n]
  <2>1. g = globalize_name(N, x) /\ name' = [g EXCEPT ![x] = r]
    BY <1>3, <1>6
  <2>2. NameFields \subseteq DOMAIN N[x]
    BY <1>7, <1>8 DEF NamesOK
  <2> HIDE DEF g, n
  <2>3. x \in DOMAIN g /\ NameFields \subseteq DOMAIN g[x]
    BY <1>8, <2>1, <2>2, GlobalSet
  <2>4. DOMAIN r = DOMAIN g[x] /\ r.val = g[x].val /\ r.global = g[x].global /\ r.defined = TRUE
    BY <2>3 DEF NameFields
  <2> HIDE DEF r
  <2>5. Heads(N, x, name')
    BY <1>7, <1>8, <2>1, <2>4, Globalized
  <2> QED
    BY <2>5 DEF Heads
<1>10. NamesOK(name')
  BY <1>7, <1>8, <1>9, NameChanged
<1>11. DOMAIN name' = DOMAIN N /\ (\A m \in DOMAIN N : name'[m].val = N[m].val) /\ Acyclic(name')
  BY <1>7, <1>8, <1>9, OneUnchanged
<1>12. Kept(N, name') /\ Kept(name, name')
  BY <1>4, <1>7, <1>8, <1>9, KeptUndefined, KeptOn
<1>13. ForwOK(forwlab', name')
  BY <1>1, <1>3, <1>7, <1>9, ForwStays
<1>14. x \in Globals(name') /\ LayOK(M, Globals(name')) /\ LayOK(lay, Globals(name'))
  <2>1. Globals(N) \subseteq Globals(name') /\ Globals(name) \subseteq Globals(name')
    BY <1>12, GlobalsStay
  <2> QED
    BY <1>0, <1>7, <1>8, <1>9, <1>11, <2>1, LayWider DEF Globals
<1>15. LayOK(P, Globals(name')) /\ LayKept(M, P) /\ DOMAIN P.seg = DOMAIN M.seg
  <2>1. s \in DOMAIN M.seg
    BY <1>0, <1>7
  <2>2. Step(M, drop_pending_alignment(M, s), Globals(name'))
    BY <1>14, <2>1, Aside
  <2>3. Step(M, Met(drop_pending_alignment(M, s), s), Globals(name'))
    BY <1>14, <2>1, <2>2, MetStep
  <2> QED
    BY <1>6, <2>3 DEF Step, SameFrags
<1> HIDE DEF P, n
<1>16. LayOK(F, Globals(name')) /\ LayKept(P, F) /\ DOMAIN F.seg = DOMAIN P.seg
  <2>1. "bss" \in DOMAIN P.seg
    BY <1>7, <1>15
  <2> QED
    BY <1>14, <1>15, <2>1, FragmentStarted
<1> HIDE DEF F
<1>17. Step(F, lay', Globals(name'))
  <2>1. "bss" \in DOMAIN F.seg
    BY <1>7, <1>15, <1>16
  <2> QED
    BY <1>3, <1>16, <2>1, CommonStep
<1>18. LayOK(lay', Globals(name')) /\ LayKept(lay, lay') /\ curseg' \in DOMAIN lay'.seg
  <2>1. LayOK(lay', Globals(name')) /\ LayKept(F, lay') /\ DOMAIN lay'.seg = DOMAIN F.seg
    BY <1>17 DEF Step, SameFrags
  <2>2. LayKept(lay, P)
    BY <1>7, <1>14, <1>15, LayKeptOn
  <2>3. LayKept(lay, F)
    BY <1>14, <1>15, <1>16, <2>2, LayKeptOn
  <2>4. LayKept(lay, lay')
    BY <1>14, <1>16, <2>1, <2>3, LayKeptOn
  <2> QED
    BY <1>0, <1>3, <1>7, <1>15, <1>16, <2>1, <2>4
<1>19. \A m \in DOMAIN name' : \/ ValueOK(name'[m].val, name', seen', lay'.cells)
                               \/ m \in DOMAIN name /\ name'[m].val = name[m].val
  <2>1. ValueOK(None, name', seen', lay'.cells)
    BY DEF ValueOK, Refers, None
  <2> QED
    BY <1>7, <1>11, <2>1
<1>20. MarkOK(Mark(F, "bss", NameRef(x), o.lay.seg[s].asked), name', lay'.cells)
  BY <1>8, <1>9, <1>11, GlobalMarked
<1>21. \A m \in marks' : m \in marks \/ MarkOK(m, name', lay'.cells)
  BY <1>3, <1>20
<1>22. PutOff(deferred', seen') /\ seen' \subseteq Names /\ seen \subseteq seen'
  BY <1>0, <1>1, <1>3 DEF PutOff
<1>23. Parsing'
  BY <1>0, <1>3, <1>10, <1>12, <1>13, <1>18, <1>19, <1>21, <1>22, Carries
<1> QED
  BY <1>11, <1>23 DEF Fine

LEMMA InitLemma ==
  ASSUME Init
  PROVE  AInv /\ vocab \in Vocabularies
<1> DEFINE nm == [n \in Names |-> Blank]
           K == [seg |-> <<>>, elts |-> <<>>, cells |-> <<>>, shared |-> {}, units |-> <<>>]
<1>1. /\ vocab \in Vocabularies /\ phase = "parse"
      /\ lay = add_segment(K, "head", 1)
      /\ name = table_add_noname(nm, DefaultFragment)
      /\ seen = {} /\ curseg = "head"
      /\ backlab = [d \in Digits |-> None] /\ forwlab = [d \in Digits |-> 0]
      /\ needs = {} /\ deferred = {} /\ marks = {} /\ uses = {}
  BY DEF Init
<1>2. NamesOK(nm) /\ Acyclic(nm) /\ DOMAIN nm = Names
  <2>1. 0 \in Nat /\ Names = Names \cup (1..0)
    OBVIOUS
  <2>2. DOMAIN nm = Names /\ \A n \in Names : nm[n] = Blank
    OBVIOUS
  <2>3. NamesOK(nm)
    BY <2>1, <2>2, BlankIs DEF NamesOK, BlankFacts
  <2>4. Ranks([n \in Names |-> 0], nm)
    BY <2>2, BlankIs DEF Ranks, BlankFacts
  <2> QED
    BY <2>2, <2>3, <2>4 DEF Acyclic
<1> HIDE DEF nm
<1>3. Noname(nm) = 1 /\ 1 \notin Names
  <2>1. 0 \in Nat /\ DOMAIN nm = Names \cup (1..0)
    BY <1>2
  <2>2. Noname(nm) = 0 + 1 /\ Noname(nm) \notin Names
    BY <2>1, NonameIs
  <2> QED
    BY <2>2
<1>4. Adds(nm, DefaultFragment, name)
  BY <1>1, <1>2, DefaultIs, NonameAdded DEF DefaultFacts
<1>5. NamesOK(name) /\ Acyclic(name) /\ 1 \in Globals(name) /\ DOMAIN name = Names \cup {1} /\ name[1] = DefaultFragment
  BY <1>2, <1>3, <1>4, DefaultIs DEF Adds, Globals, DefaultFacts
<1>6. LayOK(lay, Globals(name)) /\ curseg \in DOMAIN lay.seg
  <2>1. /\ DOMAIN K = {"seg", "elts", "cells", "shared", "units"}
        /\ K.seg = <<>> /\ K.elts = <<>> /\ K.cells = <<>>
    OBVIOUS
  <2> HIDE DEF K
  <2>2. DOMAIN K.seg = {} /\ 1..0 = {}
    BY <2>1
  <2>3. LayOK(K, Globals(name))
    BY <2>1, <2>2, ShortSequences DEF LayOK, CellsOK, ElementsOK, SegmentsOK
  <2>4. "head" \notin DOMAIN K.seg
    BY <2>2
  <2>5. LayOK(lay, Globals(name)) /\ DOMAIN lay.seg = DOMAIN K.seg \cup {"head"}
    BY <1>1, <1>5, <2>3, <2>4, SegmentAdded
  <2> QED
    BY <1>1, <2>5
<1>7. ValuesOK(name, seen, lay.cells)
  <2>1. \A n \in DOMAIN name : name[n].val = None
    <3>1. \A n \in Names : name[n] = Blank
      BY <1>2, <1>4 DEF Adds, nm
    <3> QED
      BY <1>5, <3>1, BlankIs, DefaultIs DEF BlankFacts, DefaultFacts
  <2>2. ValueOK(None, name, seen, lay.cells)
    BY DEF ValueOK, Refers, None
  <2> QED
    BY <2>1, <2>2 DEF ValuesOK
<1>8. BackOK(backlab, lay.cells)
  BY <1>1 DEF BackOK
<1>9. ForwOK(forwlab, name)
  <2>1. \A n \in DOMAIN name \ Names : name[n].global
    BY <1>5, DefaultIs DEF DefaultFacts
  <2> QED
    BY <1>1, <2>1 DEF ForwOK
<1>10. Parsing
  BY <1>1, <1>5, <1>6, <1>7, <1>8, <1>9 DEF Parsing, PutOff
<1>11. UsedIsNeeded
  BY <1>1 DEF UsedIsNeeded
<1> QED
  BY <1>1, <1>5, <1>10, <1>11 DEF AInv

-----------------------------------------------------------------------------
(* The end of the source.                                                  *)

\* A descent meets values of names only.
LEMMA DescentStays ==
  ASSUME NEW nm, IsFiniteSet(DOMAIN nm), NEW S, NEW c, ValuesOK(nm, S, c),
         NEW v, ValueOK(v, nm, S, c), NEW go \in SUBSET DOMAIN nm
  PROVE  ValueOK(Bottom(nm, v, go), nm, S, c)
<1> DEFINE C == Cardinality(DOMAIN nm)
           f == Descent(nm, v, go)
           T == {k \in Nat : k <= C => ValueOK(f[k], nm, S, c)}
<1>0. C \in Nat
  BY FS_CardinalityType
<1>1. f[0] = v /\ \A k \in 1..C : f[k] = Below(nm, f[k - 1], go)
  BY DescentIs DEF Descends
<1>b. Bottom(nm, v, go) = f[C]
  BY DEF Bottom
<1> HIDE DEF C, f
<1>2. 0 \in T
  BY <1>1
<1>3. ASSUME NEW k \in T  PROVE k + 1 \in T
  <2> SUFFICES ASSUME k + 1 <= C  PROVE ValueOK(f[k + 1], nm, S, c)
    OBVIOUS
  <2>1. k + 1 \in 1..C /\ (k + 1) - 1 = k /\ k <= C
    BY <1>0
  <2>2. f[k + 1] = Below(nm, f[k], go) /\ ValueOK(f[k], nm, S, c)
    BY <1>1, <2>1
  <2>3. f[k + 1] = f[k] \/ \E n \in DOMAIN nm : f[k + 1] = nm[n].val
    BY <2>2 DEF Below
  <2> QED
    BY <2>2, <2>3 DEF ValuesOK
<1>4. T \in SUBSET Nat
  OBVIOUS
<1> HIDE DEF T
<1>5. C \in T
  BY <1>0, <1>2, <1>3, <1>4, SetInduction
<1> QED
  BY <1>0, <1>5, <1>b DEF T

\* Nobody was told of an error: what is left is global.
LEMMA GlobalsLeft ==
  ASSUME Fine, check_defined(name) = {}, \A d \in Digits : forwlab[d] = 0,
         NEW v, ValueOK(v, name, seen, lay.cells)
  PROVE  \A n \in NamesLeft(name, v) : name[n].global
<1> DEFINE R == Replaced(name)
           b == Bottom(name, v, R)
<1>0. /\ NamesOK(name) /\ Acyclic(name) /\ ForwOK(forwlab, name) /\ LayOK(lay, Globals(name))
      /\ ValuesOK(name, seen, lay.cells)
  BY DEF Fine, Parsing
<1>1. IsFiniteSet(DOMAIN name) /\ 0 \notin DOMAIN name
  BY <1>0, FreshNoname
<1>2. R \in SUBSET DOMAIN name /\ \A n \in DOMAIN name : n \in R <=> name[n].val # None /\ ~ name[n].global
  BY DEF Replaced
<1> HIDE DEF R
<1>3. ValueOK(b, name, seen, lay.cells)
  BY <1>0, <1>1, <1>2, DescentStays
<1>4. ~ Goes(b, R)
  BY <1>0, <1>1, <1>2, DescentEnds
<1>5. NamesLeft(name, v) = NamesIn(lay.cells, b)
  BY DEF NamesLeft, Reduced, R
<1> HIDE DEF b
<1>6. CASE b.t = "name"
  <2>1. PICK n : n = b.n /\ n \in DOMAIN name /\ (n \in Names => n \in seen)
    BY <1>3, <1>6 DEF ValueOK, Refers
  <2>2. ASSUME ~ name[n].global  PROVE FALSE
    <3>1. name[n].val = None
      BY <1>2, <1>4, <1>6, <2>1, <2>2 DEF Goes
    <3>2. ~ name[n].defined
      BY <1>0, <2>1, <2>2, <3>1 DEF NamesOK
    <3>3. n \notin Names
      <4>1. n \in Names => n \in check_defined(name)
        BY <2>1, <2>2, <3>2 DEF check_defined
      <4> QED
        BY <4>1
    <3>4. \E d \in Digits : forwlab[d] = n
      BY <1>0, <2>1, <2>2, <3>2, <3>3 DEF ForwOK
    <3> QED
      BY <1>1, <2>1, <3>4
  <2>3. NamesLeft(name, v) = {n}
    BY <1>5, <1>6, <2>1 DEF NamesIn
  <2> QED
    BY <2>2, <2>3
<1>7. CASE b.t = "point"
  <2>1. b.n \in 1..Len(lay.cells)
    BY <1>3, <1>7 DEF ValueOK
  <2>2. lay.cells[b.n].frag \in Globals(name)
    BY <1>0, <2>1 DEF LayOK, CellsOK, CellOK
  <2>3. NamesLeft(name, v) = {lay.cells[b.n].frag}
    BY <1>5, <1>7 DEF NamesIn
  <2> QED
    BY <2>2, <2>3 DEF Globals
<1>8. CASE b.t # "name" /\ b.t # "point"
  <2>1. NamesLeft(name, v) = {}
    BY <1>5, <1>8 DEF NamesIn
  <2> QED
    BY <2>1
<1> QED
  BY <1>6, <1>7, <1>8

LEMMA RecordedHas ==
  ASSUME NEW nm, NEW S, NEW pairs, NEW f, NEW v, <<f, v>> \in pairs, NEW h \in NamesLeft(nm, v), f # h
  PROVE  <<f, h>> \in Recorded(nm, S, pairs)
<1>0. PICK q : q = <<f, v>>
  OBVIOUS
<1>1. q \in pairs /\ q[1] = f /\ q[2] = v
  BY <1>0
<1>2. PICK p : p = <<f, h>>
  OBVIOUS
<1>3. p \in {q[1]} \X NamesLeft(nm, q[2]) /\ p[1] # p[2]
  BY <1>1, <1>2
<1>4. p \in Recorded(nm, S, pairs)
  BY <1>1, <1>3 DEF Recorded
<1> QED
  BY <1>2, <1>4

LEMMA RecordedKeeps ==
  ASSUME NEW nm, NEW S, NEW pairs
  PROVE  S \subseteq Recorded(nm, S, pairs)
BY DEF Recorded

\* What a noted use needs is found at the end.
LEMMA NotedFound ==
  ASSUME Fine, NEW f, NEW v, ValueOK(v, name, seen, lay.cells), Noted(f, v, name, lay, needs, deferred),
         NEW h \in NamesLeft(name, v), f # h
  PROVE  <<f, h>> \in Recorded(name, Recorded(name, needs, Deferred), Mentioned)
<1> DEFINE R == Replaced(name)
           S == Recorded(name, needs, Deferred)
<1>0. /\ NamesOK(name) /\ LayOK(lay, Globals(name))
  BY DEF Fine, Parsing
<1>1. IsFiniteSet(DOMAIN name)
  BY <1>0, FreshNoname
<1>2. R \in SUBSET DOMAIN name /\ \A n \in DOMAIN name : n \in R <=> name[n].val # None /\ ~ name[n].global
  BY DEF Replaced
<1>3. NamesLeft(name, v) = NamesIn(lay.cells, Bottom(name, v, R))
  BY DEF NamesLeft, Reduced
<1>4. needs \subseteq S /\ S \subseteq Recorded(name, S, Mentioned)
  BY RecordedKeeps
<1> HIDE DEF R, S
<1>5. ~ Goes(v, R) => NamesLeft(name, v) = NamesIn(lay.cells, v)
  BY <1>1, <1>2, <1>3, DescentStill
<1>6. CASE v.t = "const"
  <2>1. NamesLeft(name, v) = {}
    BY <1>5, <1>6 DEF Goes, NamesIn
  <2> QED
    BY <2>1
<1>7. CASE v.t = "name" /\ name[v.n].global /\ (v.n = f \/ <<f, v.n>> \in needs)
  <2>1. NamesLeft(name, v) = {v.n}
    BY <1>2, <1>5, <1>7 DEF Goes, NamesIn
  <2>2. h = v.n /\ <<f, h>> \in needs
    BY <1>7, <2>1
  <2> QED
    BY <1>4, <2>2 DEF S
<1>8. CASE v.t = "name" /\ <<f, v.n>> \in deferred
  <2>1. v = NameRef(v.n)
    BY <1>8 DEF ValueOK, Refers
  <2>2. <<f, v>> \in Deferred
    <3>0. PICK q : q = <<f, v.n>>
      OBVIOUS
    <3>1. q \in deferred /\ q[1] = f /\ q[2] = v.n
      BY <1>8, <3>0
    <3>2. <<q[1], NameRef(q[2])>> \in Deferred
      BY <3>1 DEF Deferred
    <3> QED
      BY <2>1, <3>1, <3>2
  <2>3. <<f, h>> \in S
    BY <2>2, RecordedHas DEF S
  <2> QED
    BY <1>4, <2>3 DEF S
<1>9. CASE Has(lay, f, v)
  <2>1. PICK e \in 1..Len(lay.elts) : lay.elts[e].frag = f /\ \E i \in 1..Len(lay.elts[e].refs) : lay.elts[e].refs[i] = v
    BY <1>9 DEF Has
  <2>2. PICK i \in 1..Len(lay.elts[e].refs) : lay.elts[e].refs[i] = v
    BY <2>1
  <2>3. e \in DOMAIN lay.elts /\ i \in DOMAIN lay.elts[e].refs
    <3>1. DOMAIN lay.elts = 1..Len(lay.elts)
      BY <1>0 DEF LayOK, ElementsOK, IsSequence
    <3>2. IsSequence(lay.elts[e].refs)
      BY <1>0 DEF LayOK, ElementsOK, ElementOK
    <3>3. DOMAIN lay.elts[e].refs = 1..Len(lay.elts[e].refs)
      BY <3>2 DEF IsSequence
    <3> QED
      BY <3>1, <3>3
  <2>4. <<f, v>> \in Mentioned
    <3>1. <<f, v>> \in {<<lay.elts[e].frag, lay.elts[e].refs[j]>> : j \in DOMAIN lay.elts[e].refs}
      BY <2>1, <2>2, <2>3
    <3> QED
      BY <2>3, <3>1 DEF Mentioned
  <2> QED
    BY <2>4, RecordedHas DEF S
<1> QED
  BY <1>6, <1>7, <1>8, <1>9 DEF Noted

LEMMA EndLemma ==
  ASSUME AInv, EndOfSource
  PROVE  UsedIsNeeded'
<1> DEFINE hanging == {d \in Digits : forwlab[d] # 0}
           N == [n \in DOMAIN name |-> IF \E d \in hanging : forwlab[d] = n
                                       THEN [name[n] EXCEPT !.defined = TRUE] ELSE name[n]]
           asserted == \A q \in Deferred : \A n \in NamesLeft(N, q[2]) : N[n].global
<1>1. /\ phase = "parse" /\ name' = N
      /\ errors \subseteq errors'
      /\ hanging # {} => errors' # {}
      /\ check_defined(N) # {} => errors' # {}
      /\ phase' = IF ~ asserted THEN "aborted" ELSE IF errors' # {} THEN "failed" ELSE "parsed"
      /\ phase' = "parsed" => needs' = Recorded(N, Recorded(N, needs, Deferred), Mentioned)
      /\ UNCHANGED <<lay, marks, uses>>
  BY DEF EndOfSource
<1> HIDE DEF asserted
<1>2. CASE errors' # {}
  BY <1>1, <1>2 DEF UsedIsNeeded
<1>3. CASE errors' = {}
  <2>1. Fine
    BY <1>1, <1>3 DEF AInv, Fine
  <2>2. hanging = {} /\ check_defined(N) = {}
    BY <1>1, <1>3
  <2>3. \A d \in Digits : forwlab[d] = 0
    BY <2>2
  <2>4. N = name
    <3>1. name = [n \in DOMAIN name |-> name[n]]
      BY <2>1 DEF Fine, Parsing, NamesOK
    <3>2. N = [n \in DOMAIN name |-> name[n]]
      BY <2>2
    <3> QED
      BY <3>1, <3>2
  <2> HIDE DEF N, hanging
  <2>5. asserted
    <3> SUFFICES ASSUME NEW q \in Deferred  PROVE \A n \in NamesLeft(N, q[2]) : N[n].global
      BY DEF asserted
    <3>1. PICK p \in deferred : q = <<p[1], NameRef(p[2])>>
      BY DEF Deferred
    <3>2. p[2] \in seen /\ seen \subseteq Names /\ Names \subseteq DOMAIN name
      BY <2>1 DEF Fine, Parsing, PutOff, NamesOK
    <3>3. PICK v : v = NameRef(p[2])
      OBVIOUS
    <3>4. v.t = "name" /\ v.n = p[2] /\ q[2] = v
      BY <3>1, <3>3 DEF NameRef
    <3>5. ValueOK(v, name, seen, lay.cells)
      BY <3>2, <3>3, <3>4 DEF ValueOK, Refers
    <3> QED
      BY <2>1, <2>2, <2>3, <2>4, <3>4, <3>5, GlobalsLeft
  <2>6. phase' = "parsed" /\ needs' = Recorded(name, Recorded(name, needs, Deferred), Mentioned)
    BY <1>1, <1>3, <2>4, <2>5
  <2>7. name' = name /\ lay' = lay /\ marks' = marks /\ uses' = uses
    BY <1>1, <2>4
  <2>8. ASSUME NEW u \in uses, NEW h \in Home(u[2])  PROVE h = u[1] \/ <<u[1], h>> \in needs'
    <3>1. UseOK(u, name, seen, lay, needs, deferred)
      BY <2>1 DEF Fine, Parsing
    <3>2. ValueOK(u[2], name, seen, lay.cells) /\ Noted(u[1], u[2], name, lay, needs, deferred)
      BY <3>1 DEF UseOK
    <3>3. /\ IsFiniteSet(DOMAIN name) /\ Acyclic(name) /\ ValuesRefer(name)
          /\ \A m \in marks : MarkFits(m, name, lay.cells)
      BY <2>1, FreshNoname, ValuesDoRefer DEF Fine, Parsing, MarkOK
    <3>4. Refers(u[2], name)
      BY <3>2 DEF ValueOK
    <3>5. h \in NamesLeft(name, u[2])
      BY <2>8, <3>3, <3>4, HomeIsLeft
    <3> QED
      BY <2>1, <2>6, <3>2, <3>5, NotedFound
  <2>9. \A v : Home(v)' = Home(v)
    BY <2>7 DEF Home, MarksOf
  <2> QED
    BY <1>3, <2>6, <2>7, <2>8, <2>9 DEF UsedIsNeeded
<1> QED
  BY <1>2, <1>3

-----------------------------------------------------------------------------
(* The steps together.                                                     *)

LEMMA StatementLemma ==
  ASSUME vocab \in Vocabularies, Fine, errors' = {}, NEW st,
         \/ Label(st) \/ MiddleLabel(st) \/ DigitLabel(st)
         \/ Command(st) \/ FpuCommand(st)
         \/ Segment(st) \/ Globl(st) \/ Comm(st) \/ Need(st) \/ Slot(st)
         \/ Data(st) \/ String(st) \/ Align(st) \/ Assignment(st)
  PROVE  Fine'
<1>1. Statement(st)
  BY DEF Label, MiddleLabel, DigitLabel, Command, FpuCommand, Segment, Globl, Comm, Need, Slot, Data,
         String, Align, Assignment
<1>2. Meant(st)
  BY <1>1, StatementMeant
<1> QED
  BY <1>2, LabelLemma, MiddleLemma, DigitLemma, CommandLemma, FpuLemma, SegmentLemma, GloblLemma,
     CommLemma, NeedLemma, SlotLemma, DataLemma, StringLemma, AlignLemma, AssignmentLemma

LEMMA StepLemma ==
  ASSUME AInv, vocab \in Vocabularies, [Next]_vars
  PROVE  AInv' /\ (vocab \in Vocabularies)'
<1>1. CASE UNCHANGED vars
  <2>1. /\ phase' = phase /\ name' = name /\ lay' = lay /\ marks' = marks /\ uses' = uses
        /\ errors' = errors /\ needs' = needs /\ vocab' = vocab
    BY <1>1 DEF vars
  <2>2. \A v : Home(v)' = Home(v)
    BY <2>1 DEF Home, MarksOf
  <2>3. UsedIsNeeded'
    BY <2>1, <2>2 DEF AInv, UsedIsNeeded
  <2>4. Parsing => Parsing'
    BY <1>1 DEF vars, Parsing
  <2> QED
    BY <2>1, <2>3, <2>4 DEF AInv
<1>2. CASE EndOfSource
  <2>1. UsedIsNeeded'
    BY <1>2, EndLemma
  <2>2. phase' # "parse" /\ vocab' = vocab
    BY <1>2 DEF EndOfSource
  <2> QED
    BY <2>1, <2>2 DEF AInv
<1>3. ASSUME NEW st,
             \/ Label(st) \/ MiddleLabel(st) \/ DigitLabel(st)
             \/ Command(st) \/ FpuCommand(st)
             \/ Segment(st) \/ Globl(st) \/ Comm(st) \/ Need(st) \/ Slot(st)
             \/ Data(st) \/ String(st) \/ Align(st) \/ Assignment(st)
      PROVE  AInv' /\ (vocab \in Vocabularies)'
  <2>1. Statement(st)
    BY <1>3 DEF Label, MiddleLabel, DigitLabel, Command, FpuCommand, Segment, Globl, Comm, Need, Slot, Data,
                String, Align, Assignment
  <2>2. phase = "parse" /\ errors = {} /\ phase' = "parse" /\ vocab' = vocab
    BY <2>1 DEF Statement
  <2>3. Fine
    BY <2>2 DEF AInv, Fine
  <2>4. errors' = {} => Fine'
    BY <1>3, <2>3, StatementLemma
  <2>5. UsedIsNeeded'
    BY <2>2 DEF UsedIsNeeded
  <2> QED
    BY <2>2, <2>4, <2>5 DEF AInv, Fine
<1> QED
  BY <1>1, <1>2, <1>3 DEF Next

(* Whatever a fragment's code, data or .need mentions is in its need list  *)
(* or lies in the fragment itself at the end, and record_needs' assertion  *)
(* fails only after an undefined name was complained about (emit_cmd,      *)
(* emit_data, add_need, deferred_needs, pass_needs): for every source over *)
(* any identifiers, digital labels and statements.                         *)
THEOREM NeedsComplete == Spec => []UsedIsNeeded
<1> DEFINE IInv == AInv /\ vocab \in Vocabularies
<1>1. Init => IInv
  BY InitLemma
<1>2. IInv /\ [Next]_vars => IInv'
  BY StepLemma
<1>3. IInv => UsedIsNeeded
  BY DEF AInv
<1> HIDE DEF IInv
<1> QED
  BY <1>1, <1>2, <1>3, PTL DEF Spec

(* While ast reads and has found no error, no name is its own value by     *)
(* whatever detours (the cycle check of name_assign_value): every descent  *)
(* of expr_reduce along the values of names ends.                          *)
THEOREM ValuesAcyclic == Spec => [](phase = "parse" /\ errors = {} => Acyclic(name))
<1> DEFINE IInv == AInv /\ vocab \in Vocabularies
<1>1. Init => IInv
  BY InitLemma
<1>2. IInv /\ [Next]_vars => IInv'
  BY StepLemma
<1>3. IInv => (phase = "parse" /\ errors = {} => Acyclic(name))
  BY DEF AInv
<1> HIDE DEF IInv
<1> QED
  BY <1>1, <1>2, <1>3, PTL DEF Spec

=============================================================================
