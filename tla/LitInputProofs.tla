---------------------------- MODULE LitInputProofs ----------------------------
(***************************************************************************)
(* What the linker reads, for any object files and archives.  The numbers  *)
(* of elements: in an object file in which an empty BLOCK can only be the  *)
(* last element, every number lit reads stands for the element ast meant   *)
(* by it.  The input streams: the limit on open files does not stop the    *)
(* linker, and every reading begins at the area it is meant for.           *)
(***************************************************************************)
EXTENDS LitElements, IfileStreams, FiniteSetTheorems, DataLemmas

-----------------------------------------------------------------------------
(* The numbers of elements.                                                *)

Before(obj, place) == {p \in Places(obj) : Precedes(p, place)}
Idx(obj, place) == Cardinality(Before(obj, place))

\* The elements before a place that lit keeps.
KeptBefore(obj, place) ==
  {p \in Before(obj, place) : obj[p[1]].wanted /\ ~ IsDummy(At(obj, p))}

ETypeOK ==
  /\ object \in Objects
  /\ epos \in Nat \X Nat /\ epos[1] \in 1..(Len(object) + 1)
  /\ IF epos[1] = Len(object) + 1 THEN epos[2] = 0
     ELSE epos[2] \in 0..(Len(object[epos[1]].els) + 1)
  /\ skipping \in BOOLEAN
  /\ epos[2] # 0 => (skipping <=> ~ object[epos[1]].wanted)

\* lit has counted as ast did, up to the first empty BLOCK.
CountsAgree ==
  (\A p \in Before(object, epos) : ~ IsDummy(At(object, p)))
     => element_index = Idx(object, epos)

ElementsRead ==
  /\ DOMAIN elements = {Idx(object, p) : p \in KeptBefore(object, epos)}
  /\ \A p \in KeptBefore(object, epos) : elements[Idx(object, p)] = p

\* What is referred to has a number of its own and is going to be kept.
RefersToKept ==
  \A r \in references :
     /\ r[1] \in Places(object) /\ r[2] = Idx(object, r[1])
     /\ object[r[1][1]].wanted /\ ~ IsDummy(At(object, r[1]))

EInv == /\ ETypeOK /\ CountsAgree /\ ElementsRead /\ RefersToKept
        /\ estatus # "errors"

-----------------------------------------------------------------------------
(* Places and their numbers *)

LEMMA FragmentIs ==
  ASSUME NEW obj \in Seq(ObjFragment), NEW f \in 1..Len(obj)
  PROVE  /\ obj[f].wanted \in BOOLEAN /\ obj[f].els \in Seq(ObjElement)
         /\ Len(obj[f].els) \in Nat /\ DOMAIN obj[f].els = 1..Len(obj[f].els)
<1>1. obj[f] \in ObjFragment
  OBVIOUS
<1>2. obj[f].wanted \in BOOLEAN /\ obj[f].els \in Seq(ObjElement)
  BY <1>1 DEF ObjFragment
<1> QED
  BY <1>2

LEMMA PlacesAre ==
  ASSUME NEW obj \in Seq(ObjFragment), NEW p
  PROVE  p \in Places(obj) <=> /\ p \in Nat \X Nat
                               /\ p[1] \in 1..Len(obj) /\ p[2] \in 1..Len(obj[p[1]].els)
<1>1. /\ Len(obj) \in Nat /\ DOMAIN obj = 1..Len(obj)
      /\ \A f \in 1..Len(obj) : /\ obj[f].els \in Seq(ObjElement)
                                /\ Len(obj[f].els) \in Nat
                                /\ DOMAIN obj[f].els = 1..Len(obj[f].els)
  BY FragmentIs
<1>2. Places(obj) = UNION {{f} \X (1..Len(obj[f].els)) : f \in 1..Len(obj)}
  BY <1>1 DEF Places
<1>3. ASSUME p \in Places(obj)
      PROVE  /\ p \in Nat \X Nat
             /\ p[1] \in 1..Len(obj) /\ p[2] \in 1..Len(obj[p[1]].els)
  <2>1. PICK f \in 1..Len(obj) : p \in {f} \X (1..Len(obj[f].els))
    BY <1>2, <1>3
  <2>2. p[1] = f /\ p[2] \in 1..Len(obj[f].els) /\ p = <<p[1], p[2]>>
    BY <2>1
  <2>3. f \in Nat /\ p[2] \in Nat
    BY <1>1, <2>1, <2>2
  <2> QED
    BY <2>1, <2>2, <2>3
<1>4. ASSUME p \in Nat \X Nat, p[1] \in 1..Len(obj), p[2] \in 1..Len(obj[p[1]].els)
      PROVE  p \in Places(obj)
  <2>1. p \in {p[1]} \X (1..Len(obj[p[1]].els))
    BY <1>4
  <2> QED
    BY <1>2, <1>4, <2>1
<1> QED
  BY <1>3, <1>4

LEMMA PlacesFinite ==
  ASSUME NEW obj \in Seq(ObjFragment)
  PROVE  IsFiniteSet(Places(obj))
<1> DEFINE Upto(n) == {p \in Places(obj) : p[1] <= n}
           Fin(n) == n <= Len(obj) => IsFiniteSet(Upto(n))
           S == {n \in Nat : Fin(n)}
<1>0. /\ Len(obj) \in Nat
      /\ \A f \in 1..Len(obj) : Len(obj[f].els) \in Nat
  BY DEF ObjFragment
<1>a. \A p \in Places(obj) : /\ p \in Nat \X Nat
                             /\ p[1] \in 1..Len(obj) /\ p[2] \in 1..Len(obj[p[1]].els)
  BY PlacesAre
<1>1. Fin(0)
  <2>1. Upto(0) = {}
    BY <1>0, <1>a
  <2> QED
    BY <2>1, FS_EmptySet
<1>2. ASSUME NEW n \in Nat, Fin(n)  PROVE Fin(n + 1)
  <2> SUFFICES ASSUME n + 1 <= Len(obj)  PROVE IsFiniteSet(Upto(n + 1))
    OBVIOUS
  <2>0. n <= Len(obj) /\ n + 1 \in 1..Len(obj)
    BY <1>0
  <2>1. IsFiniteSet(Upto(n)) /\ n + 1 \in 1..Len(obj)
    BY <1>2, <2>0
  <2> DEFINE L == Len(obj[n + 1].els)
             New == {n + 1} \X (1..L)
  <2>2. IsFiniteSet(New)
    <3>1. L \in Nat
      BY <1>0, <2>1
    <3> HIDE DEF L
    <3>2. IsFiniteSet(1..L)
      BY <3>1, FS_Interval
    <3>3. IsFiniteSet({n + 1})
      BY FS_Singleton
    <3> QED
      BY <3>2, <3>3, FS_Product
  <2>3. Upto(n + 1) \subseteq Upto(n) \union New
    <3> SUFFICES ASSUME NEW p \in Places(obj), p[1] <= n + 1, ~ (p[1] <= n)
                 PROVE  p \in New
      OBVIOUS
    <3>1. p \in Nat \X Nat /\ p[1] \in Nat /\ p[2] \in 1..Len(obj[p[1]].els)
      BY <1>a
    <3>2. p[1] = n + 1
      BY <2>1, <3>1
    <3> QED
      BY <3>1, <3>2
  <2>4. IsFiniteSet(Upto(n) \union New)
    BY <2>1, <2>2, FS_Union
  <2> QED
    BY <2>3, <2>4, FS_Subset
<1>3. Fin(Len(obj))
  <2> HIDE DEF Fin
  <2>1. S \in SUBSET Nat /\ 0 \in S /\ \A n \in S : n + 1 \in S
    BY <1>1, <1>2
  <2> HIDE DEF S
  <2>2. S = Nat
    BY <2>1, SetInduction
  <2> QED
    BY <1>0, <2>2 DEF S
<1>4. Upto(Len(obj)) = Places(obj)
  BY <1>0, <1>a
<1>5. IsFiniteSet(Upto(Len(obj)))
  <2>1. Len(obj) <= Len(obj)
    BY <1>0
  <2> HIDE DEF Upto
  <2> QED
    BY <1>3, <2>1
<1> HIDE DEF Upto
<1> QED
  BY <1>4, <1>5

LEMMA IdxIs ==
  ASSUME NEW obj \in Seq(ObjFragment), NEW p
  PROVE  IsFiniteSet(Before(obj, p)) /\ Idx(obj, p) \in Nat
<1>1. Before(obj, p) \subseteq Places(obj)
  BY DEF Before
<1> QED
  BY <1>1, PlacesFinite, FS_Subset, FS_CardinalityType DEF Idx

\* Stepping over an element.
LEMMA BeforeNext ==
  ASSUME NEW obj \in Seq(ObjFragment), NEW p \in Places(obj),
         NEW q, q = <<p[1], p[2] + 1>>
  PROVE  /\ Before(obj, q) = Before(obj, p) \union {p}
         /\ p \notin Before(obj, p)
         /\ Idx(obj, q) = Idx(obj, p) + 1
<1>1. p \in Nat \X Nat /\ p[1] \in Nat /\ p[2] \in Nat /\ p = <<p[1], p[2]>>
  BY PlacesAre
<1>2. \A x \in Places(obj) : x \in Nat \X Nat /\ x[1] \in Nat /\ x[2] \in Nat /\ x = <<x[1], x[2]>>
  BY PlacesAre
<1>3. q[1] = p[1] /\ q[2] = p[2] + 1
  OBVIOUS
<1>4. \A x \in Places(obj) : Precedes(x, q) <=> Precedes(x, p) \/ x = p
  <2> SUFFICES ASSUME NEW x \in Places(obj)
               PROVE  Precedes(x, q) <=> Precedes(x, p) \/ x = p
    OBVIOUS
  <2>1. x[1] \in Nat /\ x[2] \in Nat /\ (x = p <=> x[1] = p[1] /\ x[2] = p[2])
    BY <1>1, <1>2
  <2> QED
    BY <1>1, <1>3, <2>1 DEF Precedes
<1>5. ~ Precedes(p, p)
  BY <1>1 DEF Precedes
<1>6. Before(obj, q) = Before(obj, p) \union {p} /\ p \notin Before(obj, p)
  BY <1>4, <1>5 DEF Before
<1> QED
  BY <1>6, IdxIs, FS_AddElement DEF Idx

\* Different elements have different numbers.
LEMMA IdxDiffer ==
  ASSUME NEW obj \in Seq(ObjFragment), NEW p \in Places(obj), NEW q \in Places(obj),
         Precedes(p, q)
  PROVE  Idx(obj, p) < Idx(obj, q)
<1>1. \A x \in Places(obj) : x[1] \in Nat /\ x[2] \in Nat
  BY PlacesAre
<1>2. Before(obj, p) \subseteq Before(obj, q)
  BY <1>1 DEF Before, Precedes
<1>3. p \in Before(obj, q) /\ p \notin Before(obj, p)
  BY <1>1 DEF Before, Precedes
<1>4. Before(obj, p) # Before(obj, q)
  BY <1>3
<1> QED
  BY <1>2, <1>4, IdxIs, FS_Subset DEF Idx

LEMMA IdxInjective ==
  ASSUME NEW obj \in Seq(ObjFragment), NEW p \in Places(obj), NEW q \in Places(obj),
         Idx(obj, p) = Idx(obj, q)
  PROVE  p = q
<1>1. /\ p[1] \in Nat /\ p[2] \in Nat /\ p = <<p[1], p[2]>>
      /\ q[1] \in Nat /\ q[2] \in Nat /\ q = <<q[1], q[2]>>
  BY PlacesAre
<1>2. Idx(obj, p) \in Nat /\ Idx(obj, q) \in Nat
  BY IdxIs
<1>3. ~ Precedes(p, q) /\ ~ Precedes(q, p)
  BY <1>2, IdxDiffer
<1>4. p[1] = q[1] /\ p[2] = q[2]
  BY <1>1, <1>3 DEF Precedes
<1> QED
  BY <1>1, <1>4

-----------------------------------------------------------------------------
(* Reading the records *)

LEMMA InitE == EInit => EInv
<1> SUFFICES ASSUME EInit  PROVE EInv
  OBVIOUS
<1>0. /\ object \in Objects /\ epos = <<1, 0>> /\ skipping = FALSE /\ element_index = 0
      /\ elements = [n \in {} |-> <<0, 0>>] /\ references = {} /\ estatus = "reading"
  BY DEF EInit
<1>1. object \in Seq(ObjFragment) /\ Len(object) \in Nat
  BY <1>0, ObjectsAssumption DEF IsObject
<1>2. Before(object, epos) = {}
  <2>1. \A p \in Places(object) : p[1] \in 1..Len(object) /\ p[2] \in 1..Len(object[p[1]].els)
    BY <1>1, PlacesAre
  <2>2. \A p \in Places(object) : ~ Precedes(p, epos)
    BY <1>0, <1>1, <2>1 DEF Precedes
  <2> QED
    BY <2>2 DEF Before
<1>3. ETypeOK
  <2>1. epos \in Nat \X Nat /\ epos[1] = 1 /\ epos[2] = 0 /\ 1 \in 1..(Len(object) + 1)
    BY <1>0, <1>1
  <2>2. ASSUME 1 # Len(object) + 1  PROVE 0 \in 0..(Len(object[1].els) + 1)
    <3>1. 1 \in 1..Len(object)
      BY <1>1, <2>2
    <3>2. Len(object[1].els) \in Nat
      BY <1>1, <3>1, FragmentIs
    <3> QED
      BY <3>2
  <2> QED
    BY <1>0, <2>1, <2>2 DEF ETypeOK
<1>4. CountsAgree
  BY <1>0, <1>2, FS_EmptySet DEF CountsAgree, Idx
<1>5. KeptBefore(object, epos) = {}
  BY <1>2 DEF KeptBefore
<1>6. ElementsRead
  BY <1>0, <1>5 DEF ElementsRead
<1> QED
  BY <1>0, <1>3, <1>4, <1>6 DEF EInv, RefersToKept

\* A step from one record to the next that reads no element.
LEMMA SameBefore ==
  ASSUME EInv, object' = object, element_index' = element_index, elements' = elements,
         references' = references, Before(object, epos') = Before(object, epos)
  PROVE  CountsAgree' /\ ElementsRead' /\ RefersToKept'
<1>1. Idx(object, epos') = Idx(object, epos)
  BY DEF Idx
<1>2. KeptBefore(object, epos') = KeptBefore(object, epos)
  BY DEF KeptBefore
<1>3. CountsAgree'
  BY <1>1 DEF EInv, CountsAgree
<1>4. ElementsRead'
  BY <1>2 DEF EInv, ElementsRead
<1>5. RefersToKept'
  BY DEF EInv, RefersToKept
<1> QED
  BY <1>3, <1>4, <1>5

\* The facts a step starts from.
LEMMA Here ==
  ASSUME EInv
  PROVE  /\ object \in Objects /\ object \in Seq(ObjFragment) /\ Len(object) \in Nat
         /\ IsObject(object) /\ NeedsAreWanted(object)
         /\ DOMAIN object = 1..Len(object)
         /\ \A f \in 1..Len(object) : /\ Len(object[f].els) \in Nat
                                      /\ DOMAIN object[f].els = 1..Len(object[f].els)
         /\ epos \in Nat \X Nat /\ epos[1] \in Nat /\ epos[2] \in Nat
         /\ epos = <<epos[1], epos[2]>>
<1>1. object \in Objects /\ epos \in Nat \X Nat
  BY DEF EInv, ETypeOK
<1>2. object \in Seq(ObjFragment) /\ IsObject(object) /\ NeedsAreWanted(object)
  BY <1>1, ObjectsAssumption DEF IsObject
<1>3. Len(object) \in Nat /\ DOMAIN object = 1..Len(object)
  BY <1>2
<1>4. \A f \in 1..Len(object) : object[f].els \in Seq(ObjElement)
  BY <1>2, FragmentIs
<1> QED
  BY <1>1, <1>2, <1>3, <1>4

LEMMA SwitchE == EInv /\ SwitchFragment => EInv'
<1> SUFFICES ASSUME EInv, SwitchFragment  PROVE EInv'
  OBVIOUS
<1>0. /\ epos[1] \in 1..Len(object) /\ epos[2] = 0 /\ skipping' = ~ object[epos[1]].wanted
      /\ epos' = <<epos[1], 1>> /\ object' = object /\ element_index' = element_index
      /\ elements' = elements /\ references' = references /\ estatus' = estatus
      /\ estatus # "errors"
  BY Here DEF SwitchFragment, Fragment, EInv
<1>1. Before(object, epos') = Before(object, epos)
  <2>1. \A p \in Places(object) : p[1] \in Nat /\ p[2] \in Nat /\ 1 <= p[2]
    BY Here, PlacesAre
  <2>2. \A p \in Places(object) : Precedes(p, epos') <=> Precedes(p, epos)
    BY <1>0, <2>1, Here DEF Precedes
  <2> QED
    BY <2>2 DEF Before
<1>2. CountsAgree' /\ ElementsRead' /\ RefersToKept'
  BY <1>0, <1>1, SameBefore
<1>3. ETypeOK'
  <2>1. /\ epos' \in Nat \X Nat /\ epos'[1] = epos[1] /\ epos'[2] = 1
        /\ epos[1] # Len(object) + 1 /\ epos[1] \in 1..(Len(object) + 1)
    BY <1>0, Here
  <2>2. 1 \in 0..(Len(object[epos[1]].els) + 1)
    BY <1>0, Here
  <2>3. object[epos[1]].wanted \in BOOLEAN
    BY <1>0, Here, FragmentIs
  <2> QED
    BY <1>0, <2>1, <2>2, <2>3, Here DEF ETypeOK
<1> QED
  BY <1>0, <1>2, <1>3 DEF EInv

LEMMA EndFragmentE == EInv /\ EndFragment => EInv'
<1> SUFFICES ASSUME EInv, EndFragment  PROVE EInv'
  OBVIOUS
<1>0. /\ epos[1] \in 1..Len(object) /\ epos[2] = Len(object[epos[1]].els) + 1
      /\ epos' = <<epos[1] + 1, 0>> /\ object' = object /\ element_index' = element_index
      /\ elements' = elements /\ references' = references /\ estatus' = estatus
      /\ skipping' = skipping /\ skipping \in BOOLEAN /\ estatus # "errors"
  BY Here DEF EndFragment, Fragment, EInv, ETypeOK
<1>1. Before(object, epos') = Before(object, epos)
  <2>1. \A p \in Places(object) : /\ p[1] \in Nat /\ p[2] \in Nat /\ 1 <= p[2]
                                  /\ p[1] \in 1..Len(object)
                                  /\ p[2] <= Len(object[p[1]].els)
    BY Here, PlacesAre
  <2>2. ASSUME NEW p \in Places(object)  PROVE Precedes(p, epos') <=> Precedes(p, epos)
    <3>1. p[1] = epos[1] => p[2] < epos[2]
      BY <1>0, <2>1, Here
    <3>2. epos'[1] = epos[1] + 1 /\ epos'[2] = 0
      BY <1>0
    <3> QED
      BY <2>1, <3>1, <3>2, Here DEF Precedes
  <2> QED
    BY <2>2 DEF Before
<1>2. CountsAgree' /\ ElementsRead' /\ RefersToKept'
  BY <1>0, <1>1, SameBefore
<1>3. ETypeOK'
  <2>1. /\ epos' \in Nat \X Nat /\ epos'[1] = epos[1] + 1 /\ epos'[2] = 0
        /\ epos[1] + 1 \in 1..(Len(object) + 1)
    BY <1>0, Here
  <2>2. epos[1] + 1 # Len(object) + 1 => 0 \in 0..(Len(object[epos[1] + 1].els) + 1)
    BY <1>0, <2>1, Here
  <2> QED
    BY <1>0, <2>1, <2>2, Here DEF ETypeOK
<1> QED
  BY <1>0, <1>2, <1>3 DEF EInv

\* Stepping over an element, whatever is done with it.
LEMMA Advance ==
  ASSUME EInv, AtElement, epos' = <<epos[1], epos[2] + 1>>, object' = object,
         skipping' = skipping
  PROVE  /\ epos \in Places(object) /\ Element = At(object, epos)
         /\ Before(object, epos') = Before(object, epos) \union {epos}
         /\ epos \notin Before(object, epos)
         /\ Idx(object, epos') = Idx(object, epos) + 1
         /\ skipping <=> ~ object[epos[1]].wanted
         /\ ETypeOK'
<1>0. /\ epos[1] \in 1..Len(object) /\ epos[2] \in 1..Len(object[epos[1]].els)
      /\ epos \in Nat \X Nat
  BY Here DEF AtElement, Fragment
<1>1. epos \in Places(object)
  BY <1>0, Here, PlacesAre
<1>2. Element = At(object, epos)
  BY DEF Element, Fragment, At
<1>3. /\ Before(object, epos') = Before(object, epos) \union {epos}
      /\ epos \notin Before(object, epos)
      /\ Idx(object, epos') = Idx(object, epos) + 1
  BY <1>1, Here, BeforeNext
<1>4. (skipping <=> ~ object[epos[1]].wanted) /\ skipping \in BOOLEAN
  <2>1. epos[2] # 0
    BY <1>0, Here
  <2> QED
    BY <2>1 DEF EInv, ETypeOK
<1>5. /\ epos' \in Nat \X Nat /\ epos'[1] = epos[1] /\ epos'[2] = epos[2] + 1
      /\ epos[1] \in 1..(Len(object) + 1) /\ epos[1] # Len(object) + 1
      /\ epos[2] + 1 \in 0..(Len(object[epos[1]].els) + 1)
  BY <1>0, Here
<1>6. ETypeOK'
  BY <1>4, <1>5, Here DEF ETypeOK
<1> QED
  BY <1>1, <1>2, <1>3, <1>4, <1>6

LEMMA SkipElementE == EInv /\ SkipElement => EInv'
<1> SUFFICES ASSUME EInv, SkipElement  PROVE EInv'
  OBVIOUS
<1>0. /\ AtElement /\ skipping /\ element_index' = element_index + 1
      /\ epos' = <<epos[1], epos[2] + 1>> /\ object' = object /\ skipping' = skipping
      /\ elements' = elements /\ references' = references /\ estatus' = estatus
      /\ estatus # "errors"
  BY DEF SkipElement, EInv
<1>1. /\ Before(object, epos') = Before(object, epos) \union {epos}
      /\ Idx(object, epos') = Idx(object, epos) + 1
      /\ ~ object[epos[1]].wanted /\ ETypeOK'
  BY <1>0, Advance
<1>2. CountsAgree'
  BY <1>0, <1>1 DEF CountsAgree, EInv
<1>3. KeptBefore(object, epos') = KeptBefore(object, epos)
  BY <1>1 DEF KeptBefore
<1>4. ElementsRead' /\ RefersToKept'
  BY <1>0, <1>3 DEF ElementsRead, RefersToKept, EInv
<1> QED
  BY <1>0, <1>1, <1>2, <1>4 DEF EInv

LEMMA ReadDummyE == EInv /\ ReadDummy => EInv'
<1> SUFFICES ASSUME EInv, ReadDummy  PROVE EInv'
  OBVIOUS
<1>0. /\ AtElement /\ IsDummy(Element)
      /\ epos' = <<epos[1], epos[2] + 1>> /\ object' = object /\ skipping' = skipping
      /\ element_index' = element_index
      /\ elements' = elements /\ references' = references /\ estatus' = estatus
      /\ estatus # "errors"
  BY DEF ReadDummy, EInv
<1>1. /\ Before(object, epos') = Before(object, epos) \union {epos}
      /\ IsDummy(At(object, epos)) /\ ETypeOK'
  BY <1>0, Advance
<1>2. CountsAgree'
  BY <1>0, <1>1 DEF CountsAgree
<1>3. KeptBefore(object, epos') = KeptBefore(object, epos)
  BY <1>1 DEF KeptBefore
<1>4. ElementsRead' /\ RefersToKept'
  BY <1>0, <1>3 DEF ElementsRead, RefersToKept, EInv
<1> QED
  BY <1>0, <1>1, <1>2, <1>4 DEF EInv

\* No empty BLOCK comes before another element, and none is referred to.
EmptyLast == \A obj \in Objects : EmptyIsLast(obj)

LEMMA ReadElementE == EmptyLast /\ EInv /\ ReadElement => EInv'
<1> SUFFICES ASSUME EmptyLast, EInv, ReadElement  PROVE EInv'
  OBVIOUS
<1>0. /\ AtElement /\ ~ IsDummy(Element) /\ ~ skipping
      /\ epos' = <<epos[1], epos[2] + 1>> /\ object' = object /\ skipping' = skipping
      /\ element_index' = element_index + 1 /\ estatus' = estatus
      /\ elements' = [n \in DOMAIN elements \union {element_index} |->
                        IF n = element_index THEN epos ELSE elements[n]]
      /\ estatus # "errors"
  BY DEF ReadElement, EInv
<1>1. /\ epos \in Places(object) /\ Element = At(object, epos)
      /\ Before(object, epos') = Before(object, epos) \union {epos}
      /\ epos \notin Before(object, epos)
      /\ Idx(object, epos') = Idx(object, epos) + 1
      /\ object[epos[1]].wanted /\ ETypeOK'
  BY <1>0, Advance
<1>2. element_index = Idx(object, epos)
  <2>1. EmptyIsLast(object)
    BY Here DEF EmptyLast
  <2>2. \A p \in Before(object, epos) : ~ IsDummy(At(object, p))
    BY <1>1, <2>1 DEF EmptyIsLast, Before
  <2> QED
    BY <2>2 DEF EInv, CountsAgree
<1>3. CountsAgree'
  BY <1>0, <1>1, <1>2 DEF CountsAgree
<1>4. KeptBefore(object, epos') = KeptBefore(object, epos) \union {epos}
  BY <1>0, <1>1 DEF KeptBefore
<1>5. \A p \in KeptBefore(object, epos) : Idx(object, p) # Idx(object, epos)
  <2>1. \A p \in KeptBefore(object, epos) : p \in Places(object) /\ p # epos
    BY <1>1 DEF KeptBefore, Before
  <2> QED
    BY <1>1, <2>1, Here, IdxInjective
<1>6. ElementsRead'
  <2>0. /\ DOMAIN elements = {Idx(object, p) : p \in KeptBefore(object, epos)}
        /\ \A p \in KeptBefore(object, epos) : elements[Idx(object, p)] = p
    BY DEF EInv, ElementsRead
  <2>1. DOMAIN elements' = {Idx(object, p) : p \in KeptBefore(object, epos')}
    BY <1>0, <1>2, <1>4, <2>0
  <2>2. ASSUME NEW p \in KeptBefore(object, epos')
        PROVE  elements'[Idx(object, p)] = p
    <3>1. CASE p = epos
      BY <1>0, <1>2, <3>1
    <3>2. CASE p \in KeptBefore(object, epos)
      <4>1. Idx(object, p) \in DOMAIN elements /\ elements[Idx(object, p)] = p
        BY <2>0, <3>2
      <4> QED
        BY <1>0, <1>2, <1>5, <3>2, <4>1
    <3> QED
      BY <1>4, <3>1, <3>2
  <2> QED
    BY <1>0, <2>1, <2>2 DEF ElementsRead
<1>7. RefersToKept'
  <2> SUFFICES ASSUME NEW r \in references'
               PROVE  /\ r[1] \in Places(object) /\ r[2] = Idx(object, r[1])
                      /\ object[r[1][1]].wanted /\ ~ IsDummy(At(object, r[1]))
    BY <1>0 DEF RefersToKept
  <2>0. references' = references \union {<<x, IndexOf(x)>> : x \in At(object, epos).refs}
    BY <1>1 DEF ReadElement
  <2>1. CASE r \in references
    BY <2>1 DEF EInv, RefersToKept
  <2>2. CASE r \in {<<x, IndexOf(x)>> : x \in At(object, epos).refs}
    <3>1. PICK x \in At(object, epos).refs : r = <<x, IndexOf(x)>>
      BY <2>2
    <3>2. r[1] = x /\ r[2] = Idx(object, x)
      BY <3>1 DEF IndexOf, PlacesBefore, Idx, Before
    <3>3. x \in Places(object)
      BY <1>1, Here DEF IsObject
    <3>4. object[x[1]].wanted
      BY <1>1, Here DEF NeedsAreWanted
    <3>5. ~ IsDummy(At(object, x))
      <4>1. EmptyIsLast(object)
        BY Here DEF EmptyLast
      <4> QED
        BY <1>1, <3>3, <4>1 DEF EmptyIsLast
    <3> QED
      BY <3>2, <3>3, <3>4, <3>5
  <2> QED
    BY <2>0, <2>1, <2>2
<1> QED
  BY <1>0, <1>1, <1>3, <1>6, <1>7 DEF EInv

LEMMA ReadMarkerE == EInv /\ ReadMarker => EInv'
<1> SUFFICES ASSUME EInv, ReadMarker  PROVE EInv'
  OBVIOUS
<1>0. /\ epos[1] = Len(object) + 1
      /\ object' = object /\ epos' = epos /\ skipping' = skipping
      /\ element_index' = element_index /\ elements' = elements /\ references' = references
      /\ estatus' = IF \A r \in references : r[2] \in DOMAIN elements THEN "done" ELSE "errors"
  BY DEF ReadMarker
<1>1. \A r \in references : r[2] \in DOMAIN elements
  <2> SUFFICES ASSUME NEW r \in references  PROVE r[2] \in DOMAIN elements
    OBVIOUS
  <2>1. /\ r[1] \in Places(object) /\ r[2] = Idx(object, r[1])
        /\ object[r[1][1]].wanted /\ ~ IsDummy(At(object, r[1]))
    BY DEF EInv, RefersToKept
  <2>2. Precedes(r[1], epos)
    <3>1. r[1][1] \in 1..Len(object)
      BY <2>1, Here, PlacesAre
    <3> QED
      BY <1>0, <3>1, Here DEF Precedes
  <2>3. r[1] \in KeptBefore(object, epos)
    BY <2>1, <2>2 DEF KeptBefore, Before
  <2> QED
    BY <2>1, <2>3 DEF EInv, ElementsRead
<1>2. estatus' = "done"
  BY <1>0, <1>1
<1>3. ETypeOK' /\ CountsAgree' /\ ElementsRead' /\ RefersToKept'
  BY <1>0 DEF EInv, ETypeOK, CountsAgree, ElementsRead, RefersToKept
<1> QED
  BY <1>2, <1>3 DEF EInv

\* EInv is an inductive invariant of the reading when an empty BLOCK can
\* only be the last element of the file.
THEOREM ElementsInductive == EmptyLast /\ ESpec => []EInv
<1>1. ASSUME EmptyLast, EInv, [ENext]_evars  PROVE EInv'
  <2>1. CASE UNCHANGED evars
    BY <1>1, <2>1 DEF EInv, ETypeOK, CountsAgree, ElementsRead, RefersToKept, evars
  <2> QED
    BY <1>1, <2>1, SwitchE, SkipElementE, ReadElementE, ReadDummyE, EndFragmentE, ReadMarkerE
       DEF ENext
<1>2. EmptyLast /\ EInv /\ [ENext]_evars => EInv'
  BY <1>1
<1>3. EmptyLast => EmptyLast'
  BY DEF EmptyLast
<1> QED
  BY <1>2, <1>3, InitE, PTL DEF ESpec

\* A reference lit has read stands for the element ast meant, and none is
\* left open, whatever fragments are skipped and whichever of the two comes
\* first (pass_needs, ifile_read_segments, element_by_index).
THEOREM NumbersMeanElements == EmptyLast /\ ESpec => []ReferencesMeanTheSame
<1>1. EInv => ReferencesMeanTheSame
  <2> SUFFICES ASSUME EInv  PROVE ReferencesMeanTheSame
    OBVIOUS
  <2>1. ASSUME NEW r \in references, r[2] \in DOMAIN elements
        PROVE  elements[r[2]] = r[1]
    <3>1. r[1] \in Places(object) /\ r[2] = Idx(object, r[1])
      BY DEF EInv, RefersToKept
    <3>2. PICK p \in KeptBefore(object, epos) : r[2] = Idx(object, p)
      BY <2>1 DEF EInv, ElementsRead
    <3>3. p \in Places(object) /\ elements[Idx(object, p)] = p
      BY DEF EInv, ElementsRead, KeptBefore, Before
    <3>4. p = r[1]
      BY <3>1, <3>2, <3>3, Here, IdxInjective
    <3> QED
      BY <3>2, <3>3, <3>4
  <2> QED
    BY <2>1 DEF ReferencesMeanTheSame, EInv
<1> QED
  BY <1>1, ElementsInductive, PTL

-----------------------------------------------------------------------------
(* The input streams.                                                      *)

Stream == {"null", "wild", "open"}
File == [path : DOMAIN Disk, master : Nat, lo : Nat, pos : Nat, wanted : BOOLEAN]

STypeOK ==
  /\ args \in Seq(DOMAIN Disk)
  /\ ifiles \in Seq(File)
  /\ proper \in Seq(Stream) /\ Len(proper) = Len(ifiles)
  /\ at \in Seq(Nat) /\ Len(at) = Len(ifiles)
  /\ scanning \in 0..Len(ifiles) /\ current \in Nat \ {0} /\ reading \in 0..3
  /\ ifstatus \in {"running", "fatal", "crashed", "errors"}

\* Every ifile has a stream owner, which owns itself, and no stream is open
\* in an ifile that is not an owner.
OwnersInv ==
  /\ \A i \in 1..Len(ifiles) :
       /\ ifiles[i].master \in 1..Len(ifiles)
       /\ ifiles[ifiles[i].master].master = ifiles[i].master
       /\ proper[i] = "open" => ifiles[i].master = i
  /\ scanning # 0 => ifiles[scanning].master = scanning

\* What xmalloc left is gone before the next step of a linker that goes on.
WildInv == ifstatus = "running" => \A i \in 1..Len(proper) : proper[i] # "wild"

SInv == STypeOK /\ OwnersInv /\ WildInv /\ GoesOnAtTheLimit

-----------------------------------------------------------------------------
(* Counting open streams *)

OpenSet(P) == {i \in DOMAIN P : P[i] = "open"}

LEMMA OpenFinite ==
  ASSUME NEW P \in Seq(Stream)
  PROVE  IsFiniteSet(OpenSet(P)) /\ OpenCount(P) \in Nat
<1>1. Len(P) \in Nat /\ DOMAIN P = 1..Len(P)
  OBVIOUS
<1>2. IsFiniteSet(1..Len(P))
  BY <1>1, FS_Interval
<1>3. IsFiniteSet(OpenSet(P))
  BY <1>1, <1>2, FS_Subset DEF OpenSet
<1> QED
  BY <1>3, FS_CardinalityType DEF OpenSet, OpenCount

LEMMA CountClose ==
  ASSUME NEW P \in Seq(Stream), NEW v \in 1..Len(P), P[v] = "open"
  PROVE  LET Q == [P EXCEPT ![v] = "null"] IN
         Q \in Seq(Stream) /\ Len(Q) = Len(P) /\ OpenCount(Q) = OpenCount(P) - 1
<1> DEFINE Q == [P EXCEPT ![v] = "null"]
<1>0. DOMAIN P = 1..Len(P)
  OBVIOUS
<1>1. Q \in Seq(Stream) /\ Len(Q) = Len(P)
  BY DEF Stream
<1>2. OpenSet(Q) = OpenSet(P) \ {v} /\ v \in OpenSet(P)
  BY <1>0 DEF OpenSet
<1>3. Cardinality(OpenSet(P) \ {v}) = Cardinality(OpenSet(P)) - 1
  BY <1>2, OpenFinite, FS_RemoveElement
<1> QED
  BY <1>1, <1>2, <1>3 DEF OpenSet, OpenCount

LEMMA CountOpen ==
  ASSUME NEW P \in Seq(Stream), NEW v \in 1..Len(P), P[v] # "open"
  PROVE  LET Q == [P EXCEPT ![v] = "open"] IN
         Q \in Seq(Stream) /\ Len(Q) = Len(P) /\ OpenCount(Q) = OpenCount(P) + 1
<1> DEFINE Q == [P EXCEPT ![v] = "open"]
<1>0. DOMAIN P = 1..Len(P)
  OBVIOUS
<1>1. Q \in Seq(Stream) /\ Len(Q) = Len(P)
  BY DEF Stream
<1>2. OpenSet(Q) = OpenSet(P) \union {v} /\ v \notin OpenSet(P)
  BY <1>0 DEF OpenSet
<1>3. Cardinality(OpenSet(P) \union {v}) = Cardinality(OpenSet(P)) + 1
  BY <1>2, OpenFinite, FS_AddElement
<1> QED
  BY <1>1, <1>2, <1>3 DEF OpenSet, OpenCount

LEMMA CountAppend ==
  ASSUME NEW P \in Seq(Stream), NEW x \in Stream, x # "open"
  PROVE  OpenCount(Append(P, x)) = OpenCount(P)
<1>1. OpenSet(Append(P, x)) = OpenSet(P)
  BY DEF OpenSet
<1> QED
  BY <1>1 DEF OpenSet, OpenCount

\* A set of places in a sequence that is not empty has a last one.
LEMMA LastPlace ==
  ASSUME NEW n \in Nat, NEW S \in SUBSET (1..n), S # {}
  PROVE  Max(S) \in S /\ \A y \in S : Max(S) >= y
<1> DEFINE T == {k \in 0..n : n - k \in S}
           IsMax(x) == x \in S /\ \A y \in S : x >= y
<1>1. T \in SUBSET Nat
  OBVIOUS
<1>2. T # {}
  <2>1. PICK x \in S : TRUE
    OBVIOUS
  <2>2. n - x \in 0..n /\ n - (n - x) = x
    OBVIOUS
  <2> QED
    BY <2>1, <2>2
<1>3. PICK k \in T : \A j \in T : k <= j
  <2> HIDE DEF T
  <2> QED
    BY <1>1, <1>2, LeastNat
<1>4. ASSUME NEW y \in S  PROVE n - k >= y
  <2>1. n - y \in T
    <3>1. n - y \in 0..n /\ n - (n - y) = y
      OBVIOUS
    <3> QED
      BY <3>1
  <2>2. k <= n - y
    BY <1>3, <2>1
  <2> QED
    BY <2>2
<1>5. IsMax(n - k)
  BY <1>4
<1>6. Max(S) = CHOOSE x : IsMax(x)
  BY DEF Max
<1> HIDE DEF IsMax
<1>7. IsMax(Max(S))
  BY <1>5, <1>6
<1> QED
  BY <1>7 DEF IsMax

-----------------------------------------------------------------------------
(* ifile_fopen *)

\* It goes on with the streams as they are, or with one of the open ones
\* closed, or runs into what xmalloc left; it finds a stream to close as long
\* as each open one belongs to an ifile of the list.
LEMMA FopenGoesOn ==
  ASSUME NEW P \in Seq(Stream), NEW closable \in Seq(1..Len(P)),
         OpenCount(P) <= MaxOpen,
         \A j \in 1..Len(P) : P[j] = "open" =>
            \E k \in 1..Len(closable) : closable[k] = j,
         NEW f, f = ifile_fopen(P, closable)
  PROVE  \/ f = [proper |-> P, status |-> "running"] /\ OpenCount(P) < MaxOpen
         \/ /\ f = [proper |-> P, status |-> "crashed"] /\ OpenCount(P) = MaxOpen
            /\ \E v \in 1..Len(P) : P[v] = "wild"
         \/ /\ OpenCount(P) = MaxOpen
            /\ \E v \in 1..Len(P) : P[v] = "open"
                 /\ f = [proper |-> [P EXCEPT ![v] = "null"], status |-> "running"]
<1> DEFINE has == {k \in DOMAIN closable : P[closable[k]] # "null"}
           victim == closable[Max(has)]
<1>0. /\ OpenCount(P) \in Nat /\ MaxOpen \in Nat \ {0} /\ Len(P) \in Nat
      /\ Len(closable) \in Nat /\ DOMAIN closable = 1..Len(closable)
      /\ DOMAIN P = 1..Len(P)
  BY OpenFinite, StreamsAssumption
<1>a. f = CASE OpenCount(P) < MaxOpen -> [proper |-> P, status |-> "running"]
             [] OpenCount(P) >= MaxOpen /\ has = {} -> [proper |-> P, status |-> "fatal"]
             [] OpenCount(P) >= MaxOpen /\ has # {} /\ P[victim] = "wild" ->
                    [proper |-> P, status |-> "crashed"]
             [] OTHER -> [proper |-> [P EXCEPT ![victim] = "null"], status |-> "running"]
  BY Zenon DEF ifile_fopen
<1>1. CASE OpenCount(P) < MaxOpen
  <2>1. ~ (OpenCount(P) >= MaxOpen)
    BY <1>0, <1>1
  <2> HIDE DEF has, victim
  <2> QED
    BY <1>a, <1>1, <2>1
<1>2. CASE OpenCount(P) >= MaxOpen
  <2>0. OpenCount(P) = MaxOpen /\ ~ (OpenCount(P) < MaxOpen)
    BY <1>0, <1>2
  <2>1. has # {}
    <3>1. OpenSet(P) # {}
      BY <1>0, <2>0, FS_EmptySet DEF OpenCount, OpenSet
    <3>2. PICK j \in 1..Len(P) : P[j] = "open"
      BY <1>0, <3>1 DEF OpenSet
    <3> QED
      BY <1>0, <3>2
  <2>2. Max(has) \in has
    BY <1>0, <2>1, LastPlace
  <2>3. victim \in 1..Len(P) /\ P[victim] # "null"
    BY <1>0, <2>2
  <2>4. P[victim] \in Stream
    BY <2>3
  <2>5. f = IF P[victim] = "wild" THEN [proper |-> P, status |-> "crashed"]
            ELSE [proper |-> [P EXCEPT ![victim] = "null"], status |-> "running"]
    <3> HIDE DEF has, victim
    <3> QED
      BY <1>a, <1>2, <2>0, <2>1
  <2> HIDE DEF has, victim
  <2>6. CASE P[victim] = "wild"
    BY <2>0, <2>3, <2>5, <2>6
  <2>7. CASE P[victim] # "wild"
    BY <2>0, <2>3, <2>4, <2>5, <2>7 DEF Stream
  <2> QED
    BY <2>6, <2>7
<1> QED
  BY <1>0, <1>1, <1>2

-----------------------------------------------------------------------------
(* The steps *)

LEMMA InitS == SInit => SInv
<1> SUFFICES ASSUME SInit  PROVE SInv
  OBVIOUS
<1>1. STypeOK
  BY StreamsAssumption DEF SInit, STypeOK
<1>2. OwnersInv /\ WildInv
  BY DEF SInit, OwnersInv, WildInv
<1>3. OpenCount(proper) = 0
  <2>1. OpenSet(proper) = {}
    BY DEF SInit, OpenSet
  <2> QED
    BY <2>1, FS_EmptySet DEF OpenSet, OpenCount
<1>4. GoesOnAtTheLimit
  BY <1>3, StreamsAssumption DEF SInit, GoesOnAtTheLimit
<1> QED
  BY <1>1, <1>2, <1>4 DEF SInv

LEMMA AddFileS ==
  ASSUME SInv, AddFile
  PROVE  SInv'
<1> DEFINE n == Len(ifiles) + 1
           new == [path |-> Head(args), master |-> n, lo |-> 0, pos |-> 0,
                   wanted |-> FALSE]
           fs == Append(ifiles, new)
           archive == Disk[Head(args)].archive
<1>0. PICK left \in {"null", "wild"} :
        LET f == ifile_fopen(Append(proper, left), Owners(fs)) IN
        /\ ifiles' = fs
        /\ ifstatus' = f.status
        /\ proper' = IF f.status = "running" THEN [f.proper EXCEPT ![n] = "open"]
                                             ELSE f.proper
        /\ at' = Append(at, IF archive THEN SARMAG ELSE 0)
        /\ scanning' = IF archive THEN n ELSE 0
        /\ current' = IF archive THEN n + 1 ELSE n
  BY DEF AddFile
<1> DEFINE P == Append(proper, left)
           f == ifile_fopen(P, Owners(fs))
<1>1. /\ ifstatus = "running" /\ reading = 0 /\ args # <<>>
      /\ args' = Tail(args) /\ reading' = reading
  BY DEF AddFile
<1>2. /\ STypeOK /\ OwnersInv /\ WildInv /\ OpenCount(proper) <= MaxOpen
  BY DEF SInv, GoesOnAtTheLimit
<1>3. /\ ifiles \in Seq(File) /\ Len(ifiles) \in Nat
      /\ proper \in Seq(Stream) /\ Len(proper) = Len(ifiles)
      /\ at \in Seq(Nat) /\ Len(at) = Len(ifiles)
      /\ args \in Seq(DOMAIN Disk)
  BY <1>2 DEF STypeOK
<1>4. Head(args) \in DOMAIN Disk /\ Tail(args) \in Seq(DOMAIN Disk)
  BY <1>1, <1>3, HeadTailProperties
<1>5. archive \in BOOLEAN
  BY <1>4, StreamsAssumption
<1>6. n \in Nat \ {0} /\ new \in File
  BY <1>3, <1>4 DEF File
<1> HIDE DEF new, archive
<1>7. /\ fs \in Seq(File) /\ Len(fs) = n /\ fs[n] = new
      /\ \A k \in 1..Len(ifiles) : fs[k] = ifiles[k]
  BY <1>3, <1>6
<1>8. /\ left \in Stream /\ left # "open"
      /\ P \in Seq(Stream) /\ Len(P) = n /\ P[n] = left
      /\ \A k \in 1..Len(proper) : P[k] = proper[k]
  BY <1>3 DEF Stream
<1>9. OpenCount(P) = OpenCount(proper)
  BY <1>3, <1>8, CountAppend
<1>10. new.master = n
  BY DEF new
<1> HIDE DEF fs, P
<1>11. \A k \in 1..n :
         /\ fs[k].master \in 1..n
         /\ fs[fs[k].master].master = fs[k].master
         /\ P[k] = "open" => fs[k].master = k
  <2> SUFFICES ASSUME NEW k \in 1..n
               PROVE  /\ fs[k].master \in 1..n
                      /\ fs[fs[k].master].master = fs[k].master
                      /\ P[k] = "open" => fs[k].master = k
    OBVIOUS
  <2>1. CASE k = n
    BY <1>6, <1>7, <1>10, <2>1
  <2>2. CASE k # n
    <3>1. k \in 1..Len(ifiles) /\ fs[k] = ifiles[k] /\ P[k] = proper[k]
      BY <1>3, <1>7, <1>8, <2>2
    <3>2. /\ ifiles[k].master \in 1..Len(ifiles)
          /\ ifiles[ifiles[k].master].master = ifiles[k].master
          /\ proper[k] = "open" => ifiles[k].master = k
      BY <1>2, <3>1 DEF OwnersInv
    <3> QED
      BY <1>3, <1>7, <3>1, <3>2
  <2> QED
    BY <2>1, <2>2
<1>12. Owners(fs) \in Seq(1..Len(P)) /\ Len(Owners(fs)) = n
       /\ \A k \in 1..n : Owners(fs)[k] = fs[k].master
  <2>1. DOMAIN fs = 1..n
    BY <1>6, <1>7
  <2> QED
    BY <1>6, <1>8, <1>11, <2>1 DEF Owners
<1> DEFINE Q == f.proper
<1>13. \/ f = [proper |-> P, status |-> "running"] /\ OpenCount(P) < MaxOpen
       \/ f = [proper |-> P, status |-> "crashed"] /\ OpenCount(P) = MaxOpen
       \/ /\ OpenCount(P) = MaxOpen
          /\ \E v \in 1..Len(P) : P[v] = "open"
               /\ f = [proper |-> [P EXCEPT ![v] = "null"], status |-> "running"]
  <2>1. OpenCount(P) <= MaxOpen
    BY <1>2, <1>9
  <2>2. \A j \in 1..Len(P) : P[j] = "open" =>
            \E k \in 1..Len(Owners(fs)) : Owners(fs)[k] = j
    BY <1>8, <1>11, <1>12
  <2> QED
    BY <1>8, <1>12, <2>1, <2>2, FopenGoesOn
<1>14. /\ ifiles' = fs /\ ifstatus' = f.status
       /\ proper' = IF f.status = "running" THEN [f.proper EXCEPT ![n] = "open"]
                                            ELSE f.proper
       /\ at' = Append(at, IF archive THEN SARMAG ELSE 0)
       /\ scanning' = IF archive THEN n ELSE 0
       /\ current' = IF archive THEN n + 1 ELSE n
  BY <1>0 DEF fs, P
<1> HIDE DEF f
<1>15. /\ at' \in Seq(Nat) /\ Len(at') = n
       /\ scanning' \in {0, n} /\ current' \in Nat \ {0}
  BY <1>3, <1>5, <1>6, <1>14 DEF SARMAG
<1>16. /\ OpenCount(P) \in Nat /\ MaxOpen \in Nat \ {0}
  BY <1>8, OpenFinite, StreamsAssumption
<1>17. CASE f = [proper |-> P, status |-> "crashed"] /\ OpenCount(P) = MaxOpen
  <2>1. proper' = P /\ ifstatus' = "crashed"
    BY <1>14, <1>17
  <2>2. STypeOK'
    BY <1>1, <1>4, <1>6, <1>7, <1>8, <1>14, <1>15, <2>1 DEF STypeOK
  <2>3. OwnersInv'
    BY <1>6, <1>7, <1>10, <1>11, <1>14, <1>15, <2>1 DEF OwnersInv
  <2>4. WildInv' /\ GoesOnAtTheLimit'
    BY <1>1, <1>16, <1>17, <2>1 DEF WildInv, GoesOnAtTheLimit
  <2> QED
    BY <2>2, <2>3, <2>4 DEF SInv
<1>18. ASSUME Q \in Seq(Stream), Len(Q) = n, OpenCount(Q) < MaxOpen, Q[n] = left,
              \A k \in 1..n : Q[k] = P[k] \/ Q[k] = "null",
              f.status = "running"
       PROVE  SInv'
  <2> HIDE DEF Q
  <2>0. proper' = [Q EXCEPT ![n] = "open"] /\ ifstatus' = "running"
    BY <1>14, <1>18 DEF Q
  <2>1. /\ proper' \in Seq(Stream) /\ Len(proper') = n
        /\ OpenCount(proper') = OpenCount(Q) + 1
    <3>1. n \in 1..Len(Q) /\ Q[n] # "open"
      BY <1>6, <1>8, <1>18
    <3> HIDE DEF n
    <3> QED
      BY <1>18, <2>0, <3>1, CountOpen
  <2>2. \A k \in 1..n : proper'[k] = IF k = n THEN "open" ELSE Q[k]
    BY <1>6, <1>18, <2>0
  <2>3. STypeOK'
    <3>1. scanning' \in 0..n /\ reading' \in 0..3
      BY <1>1, <1>6, <1>15
    <3> HIDE DEF n
    <3> QED
      BY <1>1, <1>4, <1>7, <1>14, <1>15, <2>0, <2>1, <3>1 DEF STypeOK
  <2>4. OwnersInv'
    <3>1. /\ ifiles' = fs /\ Len(fs) = n /\ fs[n].master = n
          /\ scanning' # 0 => scanning' = n
      BY <1>7, <1>10, <1>14, <1>15
    <3>2. \A k \in 1..n : proper'[k] = "open" => fs[k].master = k
      BY <1>11, <1>18, <2>2, <3>1
    <3> HIDE DEF n
    <3> QED
      BY <1>11, <3>1, <3>2 DEF OwnersInv
  <2>5. WildInv'
    <3>1. ASSUME NEW k \in 1..n  PROVE proper'[k] # "wild"
      <4>1. CASE k = n
        BY <2>2, <4>1
      <4>2. CASE k # n
        <5>1. k \in 1..Len(proper) /\ P[k] = proper[k]
          BY <1>3, <1>8, <4>2
        <5>2. proper[k] # "wild"
          BY <1>1, <1>2, <5>1 DEF WildInv
        <5> QED
          BY <1>18, <2>2, <4>2, <5>1, <5>2
      <4> QED
        BY <4>1, <4>2
    <3> QED
      BY <2>1, <3>1 DEF WildInv
  <2>6. GoesOnAtTheLimit'
    <3>1. OpenCount(Q) \in Nat
      BY <1>18, OpenFinite
    <3> QED
      BY <1>16, <1>18, <2>0, <2>1, <3>1 DEF GoesOnAtTheLimit
  <2> QED
    BY <2>3, <2>4, <2>5, <2>6 DEF SInv
<1>19. CASE f = [proper |-> P, status |-> "running"] /\ OpenCount(P) < MaxOpen
  BY <1>8, <1>18, <1>19
<1>20. ASSUME OpenCount(P) = MaxOpen, NEW v \in 1..Len(P), P[v] = "open",
              f = [proper |-> [P EXCEPT ![v] = "null"], status |-> "running"]
       PROVE  SInv'
  <2>1. Q = [P EXCEPT ![v] = "null"] /\ f.status = "running"
    BY <1>20
  <2> HIDE DEF Q
  <2>2. Q \in Seq(Stream) /\ Len(Q) = n /\ OpenCount(Q) = OpenCount(P) - 1
    BY <1>8, <1>20, <2>1, CountClose
  <2>3. v # n
    BY <1>8, <1>20
  <2>4. Q[n] = left /\ \A k \in 1..n : Q[k] = P[k] \/ Q[k] = "null"
    BY <1>6, <1>8, <2>1, <2>3
  <2>5. OpenCount(Q) < MaxOpen
    BY <1>16, <1>20, <2>2
  <2> QED
    BY <1>18, <2>1, <2>2, <2>4, <2>5
<1> QED
  BY <1>13, <1>17, <1>19, <1>20

LEMMA ScanMemberS ==
  ASSUME SInv, ScanMember
  PROVE  SInv'
<1>0. /\ ifstatus = "running" /\ scanning # 0
      /\ UNCHANGED <<args, scanning, current, reading, lastread, ifstatus>>
  BY DEF ScanMember
<1>1. /\ STypeOK /\ OwnersInv /\ WildInv /\ GoesOnAtTheLimit
  BY DEF SInv
<1>2. /\ ifiles \in Seq(File) /\ Len(ifiles) \in Nat /\ scanning \in 1..Len(ifiles)
      /\ proper \in Seq(Stream) /\ Len(proper) = Len(ifiles)
      /\ at \in Seq(Nat) /\ Len(at) = Len(ifiles) /\ at[scanning] \in Nat
  BY <1>0, <1>1 DEF STypeOK
<1>3. ScanPath \in DOMAIN Disk
  <2>1. ifiles[scanning] \in File
    BY <1>2
  <2> QED
    BY <2>1 DEF ScanPath, File
<1>4. PICK k \in DOMAIN Disk[ScanPath].members :
        LET m == Disk[ScanPath].members[k]
            startpos == at[scanning] + HEADER
        IN  /\ at' = [at EXCEPT ![scanning] = startpos + Padded(m.size)]
                      \o (IF m.table THEN <<>> ELSE <<0>>)
            /\ ifiles' = IF m.table THEN ifiles
                         ELSE Append(ifiles, [path |-> ScanPath, master |-> scanning,
                                lo |-> startpos, pos |-> startpos, wanted |-> FALSE])
            /\ proper' = IF m.table THEN proper ELSE Append(proper, "null")
  BY DEF ScanMember, MembersFrom
<1> DEFINE m == Disk[ScanPath].members[k]
           startpos == at[scanning] + HEADER
           new == [path |-> ScanPath, master |-> scanning, lo |-> startpos,
                   pos |-> startpos, wanted |-> FALSE]
           moved == [at EXCEPT ![scanning] = startpos + Padded(m.size)]
<1>5. m.size \in Nat /\ m.table \in BOOLEAN
  <2> DEFINE ms == Disk[ScanPath].members
             Member == [size : Nat, table : BOOLEAN]
  <2>1. ms \in Seq(Member)
    BY <1>3, StreamsAssumption
  <2>2. k \in DOMAIN ms /\ m = ms[k]
    OBVIOUS
  <2>3. ms[k] \in Member
    <3> HIDE DEF ms, Member
    <3> QED
      BY <2>1, <2>2
  <2>4. m \in Member
    BY <2>2, <2>3
  <2> HIDE DEF m
  <2> QED
    BY <2>4
<1>6. startpos \in Nat /\ startpos + Padded(m.size) \in Nat
  <2> HIDE DEF m
  <2>1. Padded(m.size) \in Nat
    BY <1>5 DEF Padded
  <2> QED
    BY <1>2, <2>1 DEF HEADER
<1>7. new \in File /\ new.master = scanning
  BY <1>2, <1>3, <1>6 DEF File
<1>8. /\ at' = moved \o (IF m.table THEN <<>> ELSE <<0>>)
      /\ ifiles' = IF m.table THEN ifiles ELSE Append(ifiles, new)
      /\ proper' = IF m.table THEN proper ELSE Append(proper, "null")
  BY <1>4
<1> HIDE DEF m, new, startpos
<1>9. moved \in Seq(Nat) /\ Len(moved) = Len(ifiles)
  BY <1>2, <1>6
<1> HIDE DEF moved
<1>10. CASE m.table
  <2>1. ifiles' = ifiles /\ proper' = proper /\ at' = moved
    BY <1>8, <1>9, <1>10
  <2> QED
    BY <1>0, <1>1, <1>2, <1>9, <2>1
    DEF SInv, STypeOK, OwnersInv, WildInv, GoesOnAtTheLimit
<1>11. CASE ~ m.table
  <2>0. /\ ifiles' = Append(ifiles, new) /\ proper' = Append(proper, "null")
        /\ at' = moved \o <<0>>
    BY <1>8, <1>11
  <2>1. /\ ifiles' \in Seq(File) /\ Len(ifiles') = Len(ifiles) + 1
        /\ ifiles'[Len(ifiles) + 1] = new
        /\ \A j \in 1..Len(ifiles) : ifiles'[j] = ifiles[j]
    BY <1>2, <1>7, <2>0
  <2>2. /\ proper' \in Seq(Stream) /\ Len(proper') = Len(ifiles) + 1
        /\ proper'[Len(ifiles) + 1] = "null"
        /\ \A j \in 1..Len(ifiles) : proper'[j] = proper[j]
    <3>0. proper \in Seq(Stream)
      BY <1>2
    <3>1. PICK x \in Stream : x = "null"
      BY DEF Stream
    <3>2. proper' = Append(proper, x)
      BY <2>0, <3>1
    <3>3. /\ proper' \in Seq(Stream) /\ Len(proper') = Len(proper) + 1
          /\ proper'[Len(proper) + 1] = x
          /\ \A j \in 1..Len(proper) : proper'[j] = proper[j]
      BY ONLY <3>0, <3>2, x \in Stream, AppendIs
    <3> QED
      BY <1>2, <3>1, <3>3
  <2>3. at' \in Seq(Nat) /\ Len(at') = Len(ifiles) + 1
    <3>1. <<0>> \in Seq(Nat) /\ Len(<<0>>) = 1
      OBVIOUS
    <3>2. at' = moved \o <<0>>
      BY <2>0
    <3> QED
      BY <1>9, <3>1, <3>2
  <2>4. OpenCount(proper') = OpenCount(proper)
    BY <1>2, <2>0, CountAppend DEF Stream
  <2>5. STypeOK'
    <3>1. scanning' \in 0..Len(ifiles')
      BY <1>0, <1>2, <2>1
    <3> QED
      BY <1>0, <1>1, <2>1, <2>2, <2>3, <3>1 DEF STypeOK
  <2>6. OwnersInv'
    <3>1. ifiles'[scanning].master = scanning /\ scanning \in 1..Len(ifiles)
      BY <1>0, <1>1, <1>2, <2>1 DEF OwnersInv
    <3>2. ASSUME NEW j \in 1..Len(ifiles')
          PROVE  /\ ifiles'[j].master \in 1..Len(ifiles')
                 /\ ifiles'[ifiles'[j].master].master = ifiles'[j].master
                 /\ proper'[j] = "open" => ifiles'[j].master = j
      <4>1. CASE j = Len(ifiles) + 1
        BY <1>2, <1>7, <2>1, <2>2, <3>1, <4>1
      <4>2. CASE j # Len(ifiles) + 1
        <5>0. Len(ifiles') = Len(ifiles) + 1 /\ Len(ifiles) \in Nat
          BY <1>2, <2>1
        <5>1. j \in 1..Len(ifiles)
          BY <4>2, <5>0
        <5>2. /\ ifiles[j].master \in 1..Len(ifiles)
              /\ ifiles[ifiles[j].master].master = ifiles[j].master
              /\ proper[j] = "open" => ifiles[j].master = j
          BY <1>1, <5>1 DEF OwnersInv
        <5> QED
          BY <1>2, <2>1, <2>2, <5>1, <5>2
      <4> QED
        BY <4>1, <4>2
    <3> QED
      BY <1>0, <3>1, <3>2 DEF OwnersInv
  <2>7. WildInv'
    <3>1. ASSUME NEW j \in 1..Len(proper')  PROVE proper'[j] # "wild"
      <4>1. j = Len(ifiles) + 1 \/ j \in 1..Len(proper)
        BY <1>2, <2>2
      <4> QED
        BY <1>0, <1>1, <1>2, <2>2, <4>1 DEF WildInv
    <3> QED
      BY <3>1 DEF WildInv
  <2>8. GoesOnAtTheLimit'
    BY <1>0, <1>1, <2>4 DEF GoesOnAtTheLimit
  <2> QED
    BY <2>5, <2>6, <2>7, <2>8 DEF SInv
<1> QED
  BY <1>10, <1>11

LEMMA ScanEndS ==
  ASSUME SInv, ScanEnd
  PROVE  SInv'
<1>1. /\ ifstatus = "running" /\ ifstatus' \in {"running", "errors"} /\ scanning' = 0
      /\ UNCHANGED <<args, ifiles, proper, at, current, reading, lastread>>
  BY DEF ScanEnd
<1>2. Len(ifiles) \in Nat
  BY DEF SInv, STypeOK
<1> QED
  BY <1>1, <1>2 DEF SInv, STypeOK, OwnersInv, WildInv, GoesOnAtTheLimit

\* A reading finds a stream: another one is closed when need be.
LEMMA ReadAreaS ==
  ASSUME SInv, ifstatus = "running", NEW n \in 1..Len(ifiles), ReadArea(n)
  PROVE  /\ ifstatus' = "running"
         /\ ifiles' \in Seq(File) /\ Len(ifiles') = Len(ifiles)
         /\ \A j \in 1..Len(ifiles) : ifiles'[j].master = ifiles[j].master
         /\ at' \in Seq(Nat) /\ Len(at') = Len(ifiles)
         /\ proper' \in Seq(Stream) /\ Len(proper') = Len(ifiles)
         /\ \A j \in 1..Len(ifiles) :
               /\ proper'[j] # "wild"
               /\ proper'[j] = "open" => ifiles[j].master = j
         /\ OpenCount(proper') <= MaxOpen
<1>0. /\ STypeOK /\ OwnersInv /\ WildInv /\ OpenCount(proper) <= MaxOpen
  BY DEF SInv, GoesOnAtTheLimit
<1>1. /\ ifiles \in Seq(File) /\ Len(ifiles) \in Nat /\ ifiles[n] \in File
      /\ proper \in Seq(Stream) /\ Len(proper) = Len(ifiles)
      /\ at \in Seq(Nat) /\ Len(at) = Len(ifiles)
  BY <1>0 DEF STypeOK
<1>2. /\ ifstatus' = Reopened(n).status /\ proper' = Reopened(n).proper
      /\ at' = [at EXCEPT ![Master(n)] = SeekTo(n) + 1]
      /\ ifiles' = [ifiles EXCEPT ![n].pos = SeekTo(n) + 1]
  BY DEF ReadArea
<1>3. /\ Master(n) \in 1..Len(ifiles) /\ ifiles[Master(n)].master = Master(n)
      /\ SeekTo(n) + 1 \in Nat
  BY <1>0, <1>1 DEF OwnersInv, Master, SeekTo, File
<1>4. /\ ifiles' \in Seq(File) /\ Len(ifiles') = Len(ifiles)
      /\ \A j \in 1..Len(ifiles) : ifiles'[j].master = ifiles[j].master
  <2> DEFINE q == SeekTo(n) + 1
             new == [ifiles[n] EXCEPT !.pos = q]
  <2>1. new \in File /\ new.master = ifiles[n].master
    BY <1>1, <1>3 DEF File
  <2>2. ifiles' = [ifiles EXCEPT ![n] = new]
    BY <1>1, <1>2
  <2> HIDE DEF new
  <2> QED
    BY <1>1, <2>1, <2>2
<1>5. at' \in Seq(Nat) /\ Len(at') = Len(ifiles)
  BY <1>1, <1>2, <1>3
<1>6. \A j \in 1..Len(ifiles) : proper[j] # "wild"
  BY <1>0, <1>1 DEF WildInv
<1>7. CASE proper[Master(n)] # "null"
  <2>1. proper' = proper /\ ifstatus' = "running"
    BY <1>2, <1>7 DEF Reopened
  <2> QED
    BY <1>0, <1>1, <1>4, <1>5, <1>6, <2>1 DEF OwnersInv
<1>8. CASE proper[Master(n)] = "null"
  <2> DEFINE f == ifile_fopen(proper, Owners(ifiles))
  <2>1. Reopened(n) = IF f.status # "running" THEN f
          ELSE [f EXCEPT !.proper = [f.proper EXCEPT ![Master(n)] = "open"]]
    BY <1>8 DEF Reopened
  <2>2. /\ Owners(ifiles) \in Seq(1..Len(proper))
        /\ Len(Owners(ifiles)) = Len(ifiles)
        /\ \A j \in 1..Len(ifiles) : Owners(ifiles)[j] = ifiles[j].master
    <3>1. DOMAIN ifiles = 1..Len(ifiles)
      BY <1>1
    <3> QED
      BY <1>0, <1>1, <3>1 DEF Owners, OwnersInv
  <2>3. \A j \in 1..Len(proper) : proper[j] = "open" =>
            \E k \in 1..Len(Owners(ifiles)) : Owners(ifiles)[k] = j
    BY <1>0, <1>1, <2>2 DEF OwnersInv
  <2>4. \/ f = [proper |-> proper, status |-> "running"] /\ OpenCount(proper) < MaxOpen
        \/ /\ OpenCount(proper) = MaxOpen
           /\ \E v \in 1..Len(proper) : proper[v] = "open"
                /\ f = [proper |-> [proper EXCEPT ![v] = "null"], status |-> "running"]
    <3>1. \/ f = [proper |-> proper, status |-> "running"] /\ OpenCount(proper) < MaxOpen
          \/ \E v \in 1..Len(proper) : proper[v] = "wild"
          \/ /\ OpenCount(proper) = MaxOpen
             /\ \E v \in 1..Len(proper) : proper[v] = "open"
                  /\ f = [proper |-> [proper EXCEPT ![v] = "null"], status |-> "running"]
      <4>1. f = ifile_fopen(proper, Owners(ifiles))
        OBVIOUS
      <4> HIDE DEF f
      <4> QED
        BY <1>0, <1>1, <2>2, <2>3, <4>1, FopenGoesOn
    <3> HIDE DEF f
    <3> QED
      BY <1>1, <1>6, <3>1
  <2> DEFINE Q == f.proper
  <2>5. f.status = "running" /\ f = [proper |-> Q, status |-> "running"]
    BY <2>4
  <2>6. /\ Q \in Seq(Stream) /\ Len(Q) = Len(ifiles) /\ OpenCount(Q) < MaxOpen
        /\ \A j \in 1..Len(ifiles) : Q[j] = proper[j] \/ Q[j] = "null"
    <3>0. OpenCount(proper) \in Nat /\ MaxOpen \in Nat
      BY <1>1, OpenFinite, StreamsAssumption
    <3>1. CASE f = [proper |-> proper, status |-> "running"] /\ OpenCount(proper) < MaxOpen
      BY <1>1, <3>1
    <3>2. ASSUME OpenCount(proper) = MaxOpen, NEW v \in 1..Len(proper), proper[v] = "open",
                 f = [proper |-> [proper EXCEPT ![v] = "null"], status |-> "running"]
          PROVE  <2>6!:
      <4>1. Q = [proper EXCEPT ![v] = "null"]
        BY <3>2
      <4> HIDE DEF Q
      <4>2. Q \in Seq(Stream) /\ Len(Q) = Len(ifiles) /\ OpenCount(Q) = OpenCount(proper) - 1
        BY <1>1, <3>2, <4>1, CountClose
      <4> QED
        BY <1>1, <3>0, <3>2, <4>1, <4>2
    <3> QED
      BY <2>4, <3>1, <3>2
  <2>7. ifstatus' = "running" /\ proper' = [Q EXCEPT ![Master(n)] = "open"]
    <3> HIDE DEF f
    <3>1. Reopened(n) = [f EXCEPT !.proper = [Q EXCEPT ![Master(n)] = "open"]]
      BY <2>1, <2>5
    <3> HIDE DEF Q
    <3> QED
      BY <1>2, <2>5, <3>1
  <2> HIDE DEF Q, f
  <2>8. Q[Master(n)] # "open"
    BY <1>3, <1>8, <2>6
  <2>9. /\ proper' \in Seq(Stream) /\ Len(proper') = Len(ifiles)
        /\ OpenCount(proper') = OpenCount(Q) + 1
    BY <1>3, <2>6, <2>7, <2>8, CountOpen
  <2>10. OpenCount(proper') <= MaxOpen
    <3>1. OpenCount(Q) \in Nat /\ MaxOpen \in Nat
      BY <2>6, OpenFinite, StreamsAssumption
    <3> QED
      BY <2>6, <2>9, <3>1
  <2>11. ASSUME NEW j \in 1..Len(ifiles)
         PROVE  /\ proper'[j] # "wild"
                /\ proper'[j] = "open" => ifiles[j].master = j
    <3>1. proper'[j] = IF j = Master(n) THEN "open" ELSE Q[j]
      BY <1>1, <1>3, <2>6, <2>7
    <3>2. proper[j] # "wild" /\ (proper[j] = "open" => ifiles[j].master = j)
      BY <1>0, <1>6 DEF OwnersInv
    <3> QED
      BY <1>3, <2>6, <3>1, <3>2
  <2> QED
    BY <1>4, <1>5, <2>7, <2>9, <2>10, <2>11
<1> QED
  BY <1>7, <1>8

\* Owners stay owners when no ifile is added.
LEMMA OwnersKept ==
  ASSUME STypeOK, OwnersInv, Len(ifiles') = Len(ifiles), scanning' = scanning,
         \A j \in 1..Len(ifiles) : ifiles'[j].master = ifiles[j].master,
         \A j \in 1..Len(ifiles) : proper'[j] = "open" => ifiles[j].master = j
  PROVE  OwnersInv'
<1>0. Len(ifiles) \in Nat /\ scanning \in 0..Len(ifiles)
  BY DEF STypeOK
<1>1. ASSUME NEW j \in 1..Len(ifiles')
      PROVE  /\ ifiles'[j].master \in 1..Len(ifiles')
             /\ ifiles'[ifiles'[j].master].master = ifiles'[j].master
             /\ proper'[j] = "open" => ifiles'[j].master = j
  <2>1. /\ ifiles[j].master \in 1..Len(ifiles)
        /\ ifiles[ifiles[j].master].master = ifiles[j].master
    BY <1>1 DEF OwnersInv
  <2>2. /\ ifiles'[j].master = ifiles[j].master
        /\ ifiles'[ifiles[j].master].master = ifiles[ifiles[j].master].master
    BY <1>1, <2>1
  <2> QED
    BY <1>1, <2>1, <2>2
<1>2. scanning' # 0 => ifiles'[scanning'].master = scanning'
  <2> SUFFICES ASSUME scanning # 0  PROVE ifiles'[scanning].master = scanning
    OBVIOUS
  <2>1. scanning \in 1..Len(ifiles) /\ ifiles[scanning].master = scanning
    BY <1>0 DEF OwnersInv
  <2> QED
    BY <2>1
<1> QED
  BY <1>1, <1>2 DEF OwnersInv

\* The rest of a step that reads an area.
LEMMA AfterReading ==
  ASSUME SInv, ifstatus = "running", NEW n \in 1..Len(ifiles), ReadArea(n),
         current' = current + 1, UNCHANGED <<args, scanning, reading>>
  PROVE  SInv'
<1>0. /\ STypeOK /\ OwnersInv /\ Len(ifiles) \in Nat
  BY DEF SInv, STypeOK
<1>1. /\ ifstatus' = "running"
      /\ ifiles' \in Seq(File) /\ Len(ifiles') = Len(ifiles)
      /\ \A j \in 1..Len(ifiles) : ifiles'[j].master = ifiles[j].master
      /\ at' \in Seq(Nat) /\ Len(at') = Len(ifiles)
      /\ proper' \in Seq(Stream) /\ Len(proper') = Len(ifiles)
      /\ \A j \in 1..Len(ifiles) :
            /\ proper'[j] # "wild"
            /\ proper'[j] = "open" => ifiles[j].master = j
      /\ OpenCount(proper') <= MaxOpen
  BY ReadAreaS
<1>2. STypeOK'
  BY <1>0, <1>1 DEF STypeOK
<1>3. OwnersInv'
  BY <1>0, <1>1, OwnersKept
<1>4. WildInv' /\ GoesOnAtTheLimit'
  BY <1>1 DEF WildInv, GoesOnAtTheLimit
<1> QED
  BY <1>2, <1>3, <1>4 DEF SInv

LEMMA SecondPassS ==
  ASSUME SInv, SecondPass
  PROVE  SInv'
<1>0. /\ STypeOK /\ OwnersInv /\ WildInv /\ GoesOnAtTheLimit
      /\ ifiles \in Seq(File) /\ Len(ifiles) \in Nat
  BY DEF SInv, STypeOK
<1>1. PICK W : ifiles' = [i \in DOMAIN ifiles |-> [ifiles[i] EXCEPT !.wanted = i \in W]]
  BY DEF SecondPass
<1>2. /\ ifstatus = "running" /\ reading' = 1 /\ current' = 1
      /\ UNCHANGED <<args, proper, at, scanning, lastread, ifstatus>>
  BY DEF SecondPass
<1>3. /\ ifiles' \in Seq(File) /\ Len(ifiles') = Len(ifiles)
      /\ \A j \in 1..Len(ifiles) : ifiles'[j].master = ifiles[j].master
  <2> DEFINE G(j) == [ifiles[j] EXCEPT !.wanted = j \in W]
  <2>1. ASSUME NEW j \in 1..Len(ifiles)
        PROVE  G(j) \in File /\ G(j).master = ifiles[j].master
    <3>1. ifiles[j] \in File /\ (j \in W) \in BOOLEAN
      BY <1>0
    <3> QED
      BY <3>1 DEF File
  <2>2. ifiles' = [j \in 1..Len(ifiles) |-> G(j)]
    BY <1>0, <1>1
  <2> HIDE DEF G
  <2> QED
    BY <1>0, <2>1, <2>2
<1>4. STypeOK'
  BY <1>0, <1>2, <1>3 DEF STypeOK
<1>5. OwnersInv'
  <2>1. \A j \in 1..Len(ifiles) : proper'[j] = "open" => ifiles[j].master = j
    BY <1>0, <1>2 DEF OwnersInv
  <2> QED
    BY <1>0, <1>2, <1>3, <2>1, OwnersKept
<1>6. WildInv' /\ GoesOnAtTheLimit'
  BY <1>0, <1>2 DEF WildInv, GoesOnAtTheLimit
<1> QED
  BY <1>4, <1>5, <1>6 DEF SInv

LEMMA NextS == SInv /\ [SNext]_svars => SInv'
<1> SUFFICES ASSUME SInv, [SNext]_svars  PROVE SInv'
  OBVIOUS
<1>0. Len(ifiles) \in Nat /\ current \in Nat \ {0}
  BY DEF SInv, STypeOK
<1>1. CASE ReadNametable
  <2>1. current \in 1..Len(ifiles)
    BY <1>0, <1>1 DEF ReadNametable
  <2> QED
    BY <1>1, <2>1, AfterReading DEF ReadNametable
<1>2. CASE ReadWanted
  <2>1. CASE ifiles[current].wanted
    <3>1. current \in 1..Len(ifiles)
      BY <1>0, <1>2 DEF ReadWanted
    <3> QED
      BY <1>2, <2>1, <3>1, AfterReading DEF ReadWanted
  <2>2. CASE ~ ifiles[current].wanted
    <3>1. /\ UNCHANGED <<ifiles, proper, at, lastread, ifstatus, args, scanning, reading>>
          /\ current' = current + 1
      BY <1>2, <2>2 DEF ReadWanted
    <3> QED
      BY <1>0, <3>1 DEF SInv, STypeOK, OwnersInv, WildInv, GoesOnAtTheLimit
  <2> QED
    BY <2>1, <2>2
<1>3. CASE NextReading
  BY <1>3 DEF NextReading, SInv, STypeOK, OwnersInv, WildInv, GoesOnAtTheLimit
<1>4. CASE UNCHANGED svars
  BY <1>4 DEF svars, SInv, STypeOK, OwnersInv, WildInv, GoesOnAtTheLimit
<1> QED
  BY <1>1, <1>2, <1>3, <1>4, AddFileS, ScanMemberS, ScanEndS, SecondPassS DEF SNext

\* Whatever files and archives are given and however few can be open at a time
\* (ifile_fopen in lit.c), the linker finds a stream it can close, opens no
\* more than it may, and comes to grief only over the stream of an ifile under
\* construction.
THEOREM LimitNeverStops == SSpec => []GoesOnAtTheLimit
<1>1. SInv => GoesOnAtTheLimit
  BY DEF SInv
<1> QED
  BY <1>1, InitS, NextS, PTL DEF SSpec

-----------------------------------------------------------------------------
(* Which member an ifile stands for, and where its next reading begins.    *)
(* fs is a list of ifiles.                                                 *)

Archive(fs, i) == Disk[fs[i].path].archive

\* The ifile of an archive itself is never read: its members are.
IsObjectFile(fs, i) == ~ Archive(fs, i) \/ fs[i].master # i

MembersSoFar(fs, o, n) == {j \in 1..n : fs[j].master = o /\ fs[j].lo > 0}

Nth(fs, i) ==
  Cardinality({j \in 1..i : fs[j].master = fs[i].master /\ (Archive(fs, i) => fs[j].lo > 0)})

StandsFor(fs, i, k) ==
  /\ ~ Disk[fs[i].path].members[k].table
  /\ Rank(fs[i].path, k) = Nth(fs, i) /\ fs[i].lo = StartOf(fs[i].path, k)

OneFile(fs, i) ==
  /\ fs[i].master \in 1..i
  /\ IF IsObjectFile(fs, i)
     THEN \E k \in DOMAIN Disk[fs[i].path].members : StandsFor(fs, i, k)
     ELSE fs[i].lo = 0

FilesInv == \A i \in 1..Len(ifiles) : OneFile(ifiles, i)

\* The stream of the archive o, at off, is behind k members, which have their
\* ifiles.
Scanned(fs, off, path, o, k) ==
  /\ off = HeaderAt(path)[k]
  /\ Rank(path, k) = Cardinality(MembersSoFar(fs, o, Len(fs)))

ScanInv ==
  scanning # 0 => /\ Archive(ifiles, scanning) /\ ifiles[scanning].master = scanning
                  /\ \E k \in 0..Len(Disk[ScanPath].members) :
                       Scanned(ifiles, at[scanning], ScanPath, scanning, k)

\* How many areas of an ifile have been read.
PosInv ==
  \A i \in 1..Len(ifiles) :
    /\ reading = 0 =>
         IF IsObjectFile(ifiles, i)
         THEN ifiles[i].pos = ifiles[i].lo + (IF i < current THEN 1 ELSE 0)
         ELSE ifiles[i].pos = 0 /\ i < current
    /\ reading \in 1..2 /\ ifiles[i].wanted =>
         /\ IsObjectFile(ifiles, i)
         /\ ifiles[i].pos = ifiles[i].lo + reading + (IF i < current THEN 1 ELSE 0)

LastInv ==
  lastread # <<>> =>
    /\ lastread[1] \in 1..Len(ifiles) /\ IsObjectFile(ifiles, lastread[1])
    /\ lastread[3] = ifiles[lastread[1]].lo + lastread[2]

PlaceInv ==
  /\ FilesInv /\ ScanInv /\ PosInv /\ LastInv
  /\ current <= Len(ifiles) + 1 /\ (reading # 0 => scanning = 0)
  /\ ifstatus # "errors"

MemberType == [size : Nat, table : BOOLEAN]

LEMMA DiskIs ==
  ASSUME NEW path \in DOMAIN Disk
  PROVE  /\ Disk[path].archive \in BOOLEAN
         /\ Disk[path].members \in Seq(MemberType)
         /\ Len(Disk[path].members) \in Nat
         /\ DOMAIN Disk[path].members = 1..Len(Disk[path].members)
         /\ \A k \in 1..Len(Disk[path].members) :
              /\ Disk[path].members[k].table \in BOOLEAN
              /\ Padded(Disk[path].members[k].size) \in Nat
         /\ ~ Disk[path].archive => /\ Len(Disk[path].members) = 1
                                    /\ ~ Disk[path].members[1].table
<1> DEFINE ms == Disk[path].members
<1>1. /\ Disk[path].archive \in BOOLEAN /\ ms \in Seq(MemberType)
      /\ ~ Disk[path].archive => Len(ms) = 1 /\ ~ ms[1].table
  BY StreamsAssumption DEF MemberType
<1> HIDE DEF ms
<1>2. Len(ms) \in Nat /\ DOMAIN ms = 1..Len(ms) /\ \A k \in 1..Len(ms) : ms[k] \in MemberType
  BY <1>1
<1>3. \A x \in MemberType : x.table \in BOOLEAN /\ x.size \in Nat
  BY DEF MemberType
<1>4. \A k \in 1..Len(ms) : ms[k].table \in BOOLEAN /\ Padded(ms[k].size) \in Nat
  <2> SUFFICES ASSUME NEW k \in 1..Len(ms)
               PROVE  ms[k].table \in BOOLEAN /\ Padded(ms[k].size) \in Nat
    OBVIOUS
  <2>1. ms[k].table \in BOOLEAN /\ ms[k].size \in Nat
    BY <1>2, <1>3
  <2> QED
    BY <2>1 DEF Padded
<1> QED
  BY <1>1, <1>2, <1>4 DEF ms

\* HeaderAt is what its recursion says.
LEMMA HeaderIs ==
  ASSUME NEW path \in DOMAIN Disk
  PROVE  /\ \A k \in 0..Len(Disk[path].members) : HeaderAt(path)[k] \in Nat
         /\ HeaderAt(path)[0] = SARMAG
         /\ \A k \in 1..Len(Disk[path].members) :
              HeaderAt(path)[k] = HeaderAt(path)[k-1] + HEADER
                                  + Padded(Disk[path].members[k].size)
<1> DEFINE ms == Disk[path].members
           n == Len(ms)
           c == [k \in 1..n |-> Padded(ms[k].size)]
           G(f, k) == IF k = 0 THEN SARMAG ELSE f[k-1] + HEADER + Padded(ms[k].size)
           Solves(f) == f = [k \in 0..n |-> G(f, k)]
           F == CHOOSE f : Solves(f)
<1>0. n \in Nat /\ \A k \in 1..n : Padded(ms[k].size) \in Nat
  BY DiskIs
<1>1. PICK f : AreTotals(f, n, SARMAG, HEADER, c)
  <2>1. c \in [1..n -> Nat]
    BY <1>0
  <2>2. SARMAG \in Nat /\ HEADER \in Nat
    BY DEF SARMAG, HEADER
  <2> HIDE DEF c, n
  <2> QED
    BY <1>0, <2>1, <2>2, TotalsExist
<1>2. \A k \in 0..n : f[k] = G(f, k)
  <2>1. \A k \in 0..n : k # 0 => k \in 1..n /\ c[k] = Padded(ms[k].size)
    BY <1>0
  <2> HIDE DEF c, n, ms
  <2> QED
    BY <1>1, <2>1 DEF AreTotals
<1>3. Solves(f)
  <2> HIDE DEF G, n
  <2> QED
    BY <1>1, <1>2 DEF AreTotals
<1>4. HeaderAt(path) = F
  BY DEF HeaderAt
<1>5. Solves(F)
  <2> HIDE DEF Solves
  <2> QED
    BY <1>3
<1> HIDE DEF F
<1>6. \A k \in 0..n : F[k] = G(F, k)
  <2> HIDE DEF G, n
  <2> QED
    BY <1>5
<1>7. F[0] = SARMAG /\ \A k \in 1..n : F[k] = F[k-1] + HEADER + Padded(ms[k].size)
  <2>1. 0 \in 0..n /\ \A k \in 1..n : k \in 0..n /\ k # 0
    BY <1>0
  <2> HIDE DEF ms, n
  <2> QED
    BY <1>6, <2>1
<1>8. \A k \in 0..n : F[k] \in Nat
  <2> DEFINE T == {k \in Nat : k <= n => F[k] \in Nat}
  <2>1. 0 \in T
    BY <1>7 DEF SARMAG
  <2>2. ASSUME NEW k \in T  PROVE k + 1 \in T
    <3> SUFFICES ASSUME k + 1 <= n  PROVE F[k+1] \in Nat
      OBVIOUS
    <3>1. k \in Nat /\ k <= n /\ k + 1 \in 1..n /\ (k + 1) - 1 = k
      BY <1>0
    <3>2. F[k] \in Nat /\ Padded(ms[k+1].size) \in Nat
      BY <1>0, <3>1
    <3>3. F[k+1] = F[k] + HEADER + Padded(ms[k+1].size)
      BY <1>7, <3>1
    <3> QED
      BY <3>2, <3>3 DEF HEADER
  <2>3. T = Nat
    <3>1. T \in SUBSET Nat
      OBVIOUS
    <3> HIDE DEF T
    <3> QED
      BY <2>1, <2>2, <3>1, SetInduction
  <2> QED
    BY <1>0, <2>3
<1> QED
  BY <1>4, <1>7, <1>8

\* Headers come one after the other.
LEMMA HeaderGrows ==
  ASSUME NEW path \in DOMAIN Disk, NEW j \in Nat, NEW k \in Nat, j < k,
         k <= Len(Disk[path].members)
  PROVE  HeaderAt(path)[j] < HeaderAt(path)[k]
<1> DEFINE n == Len(Disk[path].members)
           H(m) == HeaderAt(path)[m]
           T == {d \in Nat : j + d + 1 <= n => H(j) < H(j + d + 1)}
<1>0. n \in Nat
  BY DiskIs
<1>1. ASSUME NEW m \in Nat, m + 1 <= n  PROVE H(m) \in Nat /\ H(m+1) \in Nat /\ H(m) < H(m+1)
  <2>1. m + 1 \in 1..n /\ m \in 0..n /\ m + 1 \in 0..n /\ (m + 1) - 1 = m
    BY <1>0, <1>1
  <2>2. H(m+1) = H(m) + HEADER + Padded(Disk[path].members[m+1].size)
    BY <2>1, HeaderIs
  <2>3. H(m) \in Nat /\ H(m+1) \in Nat /\ Padded(Disk[path].members[m+1].size) \in Nat
    BY <2>1, HeaderIs, DiskIs
  <2> QED
    BY <2>2, <2>3 DEF HEADER
<1> HIDE DEF H, n
<1>2. 0 \in T
  BY <1>1
<1>3. ASSUME NEW d \in T  PROVE d + 1 \in T
  <2> SUFFICES ASSUME j + (d + 1) + 1 <= n  PROVE H(j) < H(j + (d + 1) + 1)
    OBVIOUS
  <2>0. d \in Nat /\ (j + d + 1 <= n => H(j) < H(j + d + 1))
    OBVIOUS
  <2>1. PICK m \in Nat : m = j + d + 1 /\ m + 1 = j + (d + 1) + 1
    BY <2>0
  <2>2. m + 1 <= n /\ m <= n
    BY <1>0, <2>1
  <2>3. H(j) < H(m)
    BY <2>0, <2>1, <2>2
  <2>4. H(m) \in Nat /\ H(m+1) \in Nat /\ H(m) < H(m+1)
    BY <1>1, <2>2
  <2>5. H(j) \in Nat
    BY <1>0, <1>1, <2>0, <2>1, <2>2
  <2> QED
    BY <2>1, <2>3, <2>4, <2>5
<1>4. T = Nat
  <2>1. T \in SUBSET Nat
    OBVIOUS
  <2> HIDE DEF T
  <2> QED
    BY <1>2, <1>3, <2>1, SetInduction
<1>5. k - j - 1 \in Nat /\ j + (k - j - 1) + 1 = k
  OBVIOUS
<1>6. k <= n
  BY DEF n
<1>7. H(j) < H(k)
  BY <1>4, <1>5, <1>6
<1> QED
  BY <1>7 DEF H

\* Passing a member.
LEMMA RankNext ==
  ASSUME NEW path \in DOMAIN Disk
  PROVE  /\ Rank(path, 0) = 0
         /\ \A k \in 1..Len(Disk[path].members) :
              /\ Rank(path, k - 1) \in Nat
              /\ Rank(path, k) = Rank(path, k - 1)
                                 + (IF Disk[path].members[k].table THEN 0 ELSE 1)
<1> DEFINE R(k) == {j \in 1..k : ~ Disk[path].members[j].table}
<1>1. Rank(path, 0) = 0
  <2>1. R(0) = {}
    OBVIOUS
  <2> QED
    BY <2>1, FS_EmptySet DEF Rank
<1>2. ASSUME NEW k \in 1..Len(Disk[path].members)
      PROVE  /\ Rank(path, k - 1) \in Nat
             /\ Rank(path, k) = Rank(path, k - 1)
                                + (IF Disk[path].members[k].table THEN 0 ELSE 1)
  <2>0. k \in Nat /\ k - 1 \in Nat /\ k \notin 1..(k-1) /\ 1..k = 1..(k-1) \union {k}
    BY DiskIs
  <2>1. IsFiniteSet(R(k - 1))
    <3>1. IsFiniteSet(1..(k-1))
      BY <2>0, FS_Interval
    <3> QED
      BY <3>1, FS_Subset
  <2>2. R(k) = IF Disk[path].members[k].table THEN R(k-1) ELSE R(k-1) \union {k}
    BY <2>0
  <2>3. k \notin R(k - 1)
    BY <2>0
  <2>4. Rank(path, k - 1) = Cardinality(R(k-1)) /\ Rank(path, k) = Cardinality(R(k))
    BY DEF Rank
  <2> HIDE DEF R
  <2>5. Cardinality(R(k-1)) \in Nat
    BY <2>1, FS_CardinalityType
  <2>6. Cardinality(R(k-1) \union {k}) = Cardinality(R(k-1)) + 1
    BY <2>1, <2>3, FS_AddElement
  <2> QED
    BY <2>2, <2>4, <2>5, <2>6
<1> QED
  BY <1>1, <1>2

\* gs has the ifiles of fs, perhaps read on, and perhaps more.
SameFiles(fs, gs) ==
  /\ Len(fs) \in Nat /\ Len(gs) \in Nat /\ Len(fs) <= Len(gs)
  /\ \A j \in 1..Len(fs) : /\ gs[j].path = fs[j].path /\ gs[j].master = fs[j].master
                           /\ gs[j].lo = fs[j].lo

LEMMA FilesSame ==
  ASSUME NEW fs, NEW gs, SameFiles(fs, gs), NEW i \in 1..Len(fs)
  PROVE  /\ IsObjectFile(gs, i) <=> IsObjectFile(fs, i)
         /\ OneFile(fs, i) => OneFile(gs, i)
<1>0. /\ Len(fs) \in Nat /\ i \in Nat
      /\ \A j \in 1..Len(fs) : /\ gs[j].path = fs[j].path /\ gs[j].master = fs[j].master
                               /\ gs[j].lo = fs[j].lo
  BY DEF SameFiles
<1>1. IsObjectFile(gs, i) <=> IsObjectFile(fs, i)
  BY <1>0 DEF IsObjectFile, Archive
<1>2. Nth(gs, i) = Nth(fs, i)
  <2>1. \A j \in 1..i : j \in 1..Len(fs)
    BY <1>0
  <2>2. {j \in 1..i : gs[j].master = gs[i].master /\ (Archive(gs, i) => gs[j].lo > 0)}
        = {j \in 1..i : fs[j].master = fs[i].master /\ (Archive(fs, i) => fs[j].lo > 0)}
    BY <1>0, <2>1 DEF Archive
  <2> QED
    BY <2>2 DEF Nth
<1>3. \A k : StandsFor(fs, i, k) <=> StandsFor(gs, i, k)
  BY <1>0, <1>2 DEF StandsFor
<1> QED
  BY <1>0, <1>1, <1>3 DEF OneFile

\* What stays when ifiles are only read on or added.
LEMMA KeptFiles ==
  ASSUME PlaceInv, SameFiles(ifiles, ifiles'), lastread' = lastread
  PROVE  /\ \A i \in 1..Len(ifiles) : OneFile(ifiles', i)
         /\ LastInv'
<1>1. \A i \in 1..Len(ifiles) : OneFile(ifiles, i)
  BY DEF PlaceInv, FilesInv
<1>2. \A i \in 1..Len(ifiles) : OneFile(ifiles', i)
  BY <1>1, FilesSame
<1>3. LastInv'
  <2> SUFFICES ASSUME lastread # <<>>
               PROVE  /\ lastread[1] \in 1..Len(ifiles') /\ IsObjectFile(ifiles', lastread[1])
                      /\ lastread[3] = ifiles'[lastread[1]].lo + lastread[2]
    BY DEF LastInv
  <2>1. /\ lastread[1] \in 1..Len(ifiles) /\ IsObjectFile(ifiles, lastread[1])
        /\ lastread[3] = ifiles[lastread[1]].lo + lastread[2]
    BY DEF PlaceInv, LastInv
  <2>2. IsObjectFile(ifiles', lastread[1])
    BY <2>1, FilesSame
  <2>3. /\ lastread[1] \in 1..Len(ifiles')
        /\ ifiles'[lastread[1]].lo = ifiles[lastread[1]].lo
    BY <2>1 DEF SameFiles
  <2> QED
    BY <2>1, <2>2, <2>3
<1> QED
  BY <1>2, <1>3

LEMMA FopenStatus ==
  ASSUME NEW P, NEW closable
  PROVE  ifile_fopen(P, closable).status \in {"running", "fatal", "crashed"}
<1> DEFINE has == {i \in DOMAIN closable : P[closable[i]] # "null"}
           victim == closable[Max(has)]
           A == OpenCount(P) < MaxOpen
           B == OpenCount(P) >= MaxOpen /\ has = {}
           C == OpenCount(P) >= MaxOpen /\ has # {} /\ P[victim] = "wild"
           R == [proper |-> P, status |-> "running"]
           S == [proper |-> P, status |-> "fatal"]
           T == [proper |-> P, status |-> "crashed"]
           U == [proper |-> [P EXCEPT ![victim] = "null"], status |-> "running"]
<1>1. ifile_fopen(P, closable) = CASE A -> R [] B -> S [] C -> T [] OTHER -> U
  BY Zenon DEF ifile_fopen
<1>2. /\ R.status = "running" /\ S.status = "fatal" /\ T.status = "crashed"
      /\ U.status = "running"
  OBVIOUS
<1> HIDE DEF A, B, C, R, S, T, U
<1>3. \/ ifile_fopen(P, closable) = R \/ ifile_fopen(P, closable) = S
      \/ ifile_fopen(P, closable) = T \/ ifile_fopen(P, closable) = U
  BY <1>1
<1> QED
  BY <1>2, <1>3

LEMMA InitP == SInit => PlaceInv
<1> SUFFICES ASSUME SInit  PROVE PlaceInv
  OBVIOUS
<1>1. /\ ifiles = <<>> /\ Len(ifiles) = 0 /\ scanning = 0 /\ lastread = <<>>
      /\ current = 1 /\ reading = 0 /\ ifstatus = "running"
  BY DEF SInit
<1>2. \A i \in 1..Len(ifiles) : FALSE
  BY <1>1
<1> QED
  BY <1>1, <1>2 DEF PlaceInv, FilesInv, ScanInv, PosInv, LastInv

LEMMA AddFileP ==
  ASSUME SInv, PlaceInv, AddFile
  PROVE  PlaceInv'
<1> DEFINE n == Len(ifiles) + 1
           path == Head(args)
           new == [path |-> path, master |-> n, lo |-> 0, pos |-> 0, wanted |-> FALSE]
           archive == Disk[path].archive
<1>0. /\ ifstatus' \in {"running", "fatal", "crashed"}
      /\ ifiles' = Append(ifiles, new)
      /\ at' = Append(at, IF archive THEN SARMAG ELSE 0)
      /\ scanning' = IF archive THEN n ELSE 0
      /\ current' = IF archive THEN n + 1 ELSE n
      /\ reading = 0 /\ reading' = 0 /\ args # <<>> /\ current > Len(ifiles)
      /\ lastread' = lastread
  BY FopenStatus DEF AddFile
<1>1. /\ ifiles \in Seq(File) /\ Len(ifiles) \in Nat /\ at \in Seq(Nat)
      /\ Len(at) = Len(ifiles) /\ args \in Seq(DOMAIN Disk) /\ current \in Nat
  BY DEF SInv, STypeOK
<1>2. path \in DOMAIN Disk
  BY <1>0, <1>1
<1>3. /\ archive \in BOOLEAN
      /\ ~ archive => Len(Disk[path].members) = 1 /\ ~ Disk[path].members[1].table
      /\ DOMAIN Disk[path].members = 1..Len(Disk[path].members)
      /\ Len(Disk[path].members) \in Nat
  BY <1>2, DiskIs
<1> HIDE DEF path
<1>4. /\ new \in File /\ new.path = path /\ new.master = n /\ new.lo = 0 /\ new.pos = 0
  BY <1>1, <1>2 DEF File
<1> HIDE DEF new
<1>5. /\ Len(ifiles') = n /\ ifiles'[n] = new
      /\ \A j \in 1..Len(ifiles) : ifiles'[j] = ifiles[j]
  BY <1>0, <1>1, <1>4
<1>6. SameFiles(ifiles, ifiles')
  BY <1>1, <1>5 DEF SameFiles
<1>7. (\A i \in 1..Len(ifiles) : OneFile(ifiles', i)) /\ LastInv'
  BY <1>0, <1>6, KeptFiles
<1>8. \A j \in 1..n : ifiles'[j].master = n => j = n
  <2> SUFFICES ASSUME NEW j \in 1..n, j # n  PROVE ifiles'[j].master # n
    OBVIOUS
  <2>1. j \in 1..Len(ifiles)
    BY <1>1
  <2>2. ifiles'[j].master \in 1..j
    BY <1>7, <2>1 DEF OneFile
  <2> QED
    BY <1>1, <2>1, <2>2
<1>9. Archive(ifiles', n) = archive /\ (IsObjectFile(ifiles', n) <=> ~ archive)
  BY <1>4, <1>5 DEF Archive, IsObjectFile
<1>10. OneFile(ifiles', n)
  <2>0. n \in 1..n /\ ifiles'[n].master = n
    BY <1>1, <1>4, <1>5
  <2>1. CASE archive
    BY <1>4, <1>5, <1>9, <2>0, <2>1 DEF OneFile
  <2>2. CASE ~ archive
    <3>1. Nth(ifiles', n) = 1
      <4>1. {j \in 1..n : /\ ifiles'[j].master = ifiles'[n].master
                          /\ (Archive(ifiles', n) => ifiles'[j].lo > 0)} = {n}
        BY <1>8, <1>9, <2>0, <2>2
      <4> QED
        BY <4>1, FS_Singleton DEF Nth
    <3>2. Rank(path, 1) = 1
      <4>1. 1 \in 1..Len(Disk[path].members) /\ 1 - 1 = 0
        BY <1>3, <2>2
      <4>2. /\ Rank(path, 0) = 0
            /\ Rank(path, 1) = Rank(path, 1 - 1)
                               + (IF Disk[path].members[1].table THEN 0 ELSE 1)
        BY <1>2, <4>1, RankNext
      <4> QED
        BY <1>3, <2>2, <4>1, <4>2
    <3>3. StartOf(path, 1) = 0
      BY <2>2 DEF StartOf
    <3>4. StandsFor(ifiles', n, 1)
      BY <1>3, <1>4, <1>5, <2>2, <3>1, <3>2, <3>3 DEF StandsFor
    <3>5. 1 \in DOMAIN Disk[ifiles'[n].path].members
      BY <1>3, <1>4, <1>5, <2>2
    <3> QED
      BY <1>9, <2>0, <2>2, <3>4, <3>5 DEF OneFile
  <2> QED
    BY <2>1, <2>2
<1>11. FilesInv'
  <2>1. \A i \in 1..n : i = n \/ i \in 1..Len(ifiles)
    BY <1>1
  <2> QED
    BY <1>5, <1>7, <1>10, <2>1 DEF FilesInv
<1>12. ScanInv'
  <2>1. CASE ~ archive
    BY <1>0, <2>1 DEF ScanInv
  <2>2. CASE archive
    <3>0. scanning' = n
      BY <1>0, <2>2
    <3>1. MembersSoFar(ifiles', n, n) = {}
      BY <1>4, <1>5, <1>8 DEF MembersSoFar
    <3>2. Cardinality(MembersSoFar(ifiles', n, n)) = 0
      BY <3>1, FS_EmptySet
    <3>3. at'[n] = SARMAG
      <4>1. SARMAG \in Nat /\ at' = Append(at, SARMAG)
        BY <1>0, <2>2 DEF SARMAG
      <4> QED
        BY <1>1, <4>1
    <3>4. Rank(path, 0) = 0 /\ HeaderAt(path)[0] = SARMAG
      BY <1>2, RankNext, HeaderIs
    <3>5. ScanPath' = path
      BY <1>4, <1>5, <3>0 DEF ScanPath
    <3>6. 0 \in 0..Len(Disk[path].members)
      BY <1>3
    <3>7. Scanned(ifiles', at'[n], path, n, 0)
      BY <1>5, <3>2, <3>3, <3>4 DEF Scanned
    <3>8. Archive(ifiles', n) /\ ifiles'[n].master = n
      BY <1>4, <1>5, <1>9, <2>2
    <3> QED
      BY <3>0, <3>5, <3>6, <3>7, <3>8 DEF ScanInv
  <2> QED
    BY <1>3, <2>1, <2>2
<1>13. PosInv'
  <2>1. ASSUME NEW i \in 1..n
        PROVE  IF IsObjectFile(ifiles', i)
               THEN ifiles'[i].pos = ifiles'[i].lo + (IF i < current' THEN 1 ELSE 0)
               ELSE ifiles'[i].pos = 0 /\ i < current'
    <3>1. CASE i = n
      <4>1. CASE archive
        BY <1>0, <1>1, <1>4, <1>5, <1>9, <3>1, <4>1
      <4>2. CASE ~ archive
        BY <1>0, <1>1, <1>4, <1>5, <1>9, <3>1, <4>2
      <4> QED
        BY <4>1, <4>2
    <3>2. CASE i # n
      <4>1. i \in 1..Len(ifiles) /\ i < current
        BY <1>0, <1>1, <3>2
      <4>2. i < current'
        BY <1>0, <1>1, <1>3, <4>1
      <4>3. IF IsObjectFile(ifiles, i)
            THEN ifiles[i].pos = ifiles[i].lo + (IF i < current THEN 1 ELSE 0)
            ELSE ifiles[i].pos = 0 /\ i < current
        BY <1>0, <4>1 DEF PlaceInv, PosInv
      <4>4. IsObjectFile(ifiles', i) <=> IsObjectFile(ifiles, i)
        BY <1>6, <4>1, FilesSame
      <4> QED
        BY <1>5, <4>1, <4>2, <4>3, <4>4
    <3> QED
      BY <3>1, <3>2
  <2> QED
    BY <1>0, <1>5, <2>1 DEF PosInv
<1>14. current' <= Len(ifiles') + 1
  BY <1>0, <1>1, <1>3, <1>5
<1> QED
  BY <1>0, <1>7, <1>11, <1>12, <1>13, <1>14 DEF PlaceInv

\* Turning over the headers: the archive's own stream finds the next member.
LEMMA ScanMemberP ==
  ASSUME SInv, PlaceInv, ScanMember
  PROVE  PlaceInv'
<1> DEFINE path == ScanPath
           o == scanning
           ms == Disk[path].members
           n == Len(ifiles) + 1
<1>0. /\ o # 0 /\ ifstatus = "running"
      /\ UNCHANGED <<args, scanning, current, reading, lastread, ifstatus>>
  BY DEF ScanMember
<1>1. /\ ifiles \in Seq(File) /\ Len(ifiles) \in Nat /\ o \in 1..Len(ifiles)
      /\ at \in Seq(Nat) /\ Len(at) = Len(ifiles) /\ at[o] \in Nat /\ current \in Nat
  BY <1>0 DEF SInv, STypeOK
<1>2. path = ifiles[o].path /\ path \in DOMAIN Disk
  <2>1. ifiles[o] \in File
    BY <1>1
  <2> QED
    BY <2>1 DEF ScanPath, File
<1>3. /\ Len(ms) \in Nat /\ DOMAIN ms = 1..Len(ms)
      /\ \A k \in 1..Len(ms) : ms[k].table \in BOOLEAN /\ Padded(ms[k].size) \in Nat
  BY <1>2, DiskIs
<1>4. /\ Disk[path].archive /\ ifiles[o].master = o /\ (reading # 0 => o = 0)
      /\ current <= n
  BY <1>0, <1>2 DEF PlaceInv, ScanInv, Archive
<1>5. PICK k \in MembersFrom(path, at[o]) :
        /\ at' = [at EXCEPT ![o] = at[o] + HEADER + Padded(ms[k].size)]
                  \o (IF ms[k].table THEN <<>> ELSE <<0>>)
        /\ ifiles' = IF ms[k].table THEN ifiles
                     ELSE Append(ifiles, [path |-> path, master |-> o,
                            lo |-> at[o] + HEADER, pos |-> at[o] + HEADER, wanted |-> FALSE])
  BY DEF ScanMember
<1>6. k \in 1..Len(ms) /\ StartOf(path, k) = at[o] + HEADER
  BY <1>3, <1>5 DEF MembersFrom
<1>7. PICK j \in 0..Len(ms) : Scanned(ifiles, at[o], path, o, j)
  BY <1>0 DEF PlaceInv, ScanInv
<1> DEFINE H(x) == HeaderAt(path)[x]
           startpos == at[o] + HEADER
           moved == [at EXCEPT ![o] = startpos + Padded(ms[k].size)]
           new == [path |-> path, master |-> o, lo |-> startpos, pos |-> startpos,
                   wanted |-> FALSE]
           sofar == MembersSoFar(ifiles, o, Len(ifiles))
<1>8. at[o] = H(j) /\ Rank(path, j) = Cardinality(sofar)
  BY <1>7 DEF Scanned
<1>9. /\ \A x \in 0..Len(ms) : H(x) \in Nat
      /\ H(k) = H(k - 1) + HEADER + Padded(ms[k].size)
  BY <1>2, <1>6, HeaderIs
<1>10. \A x, y \in 0..Len(ms) : x < y => H(x) < H(y)
  <2> SUFFICES ASSUME NEW x \in 0..Len(ms), NEW y \in 0..Len(ms), x < y
               PROVE  H(x) < H(y)
    OBVIOUS
  <2>1. x \in Nat /\ y \in Nat /\ y <= Len(ms)
    BY <1>3
  <2> QED
    BY <1>2, <2>1, HeaderGrows
<1>11. StartOf(path, k) = H(k - 1) + HEADER
  BY <1>4 DEF StartOf
<1>12. Rank(path, k) = Rank(path, k - 1) + (IF ms[k].table THEN 0 ELSE 1)
  BY <1>2, <1>6, RankNext
<1>13. at' = moved \o (IF ms[k].table THEN <<>> ELSE <<0>>)
  BY <1>5
<1>14. ifiles' = IF ms[k].table THEN ifiles ELSE Append(ifiles, new)
  BY <1>5
<1> HIDE DEF path, ms, H, sofar
<1>15. j = k - 1 /\ startpos = StartOf(path, k) /\ startpos + Padded(ms[k].size) = H(k)
  <2>1. k - 1 \in 0..Len(ms) /\ j \in Int /\ k \in Int
    BY <1>3, <1>6
  <2>2. H(k - 1) = H(j)
    <3>1. H(k - 1) \in Nat /\ H(j) \in Nat
      BY <1>9, <2>1
    <3> QED
      BY <1>1, <1>6, <1>8, <1>11, <3>1 DEF HEADER
  <2>3. ~ (j < k - 1) /\ ~ (k - 1 < j)
    <3>1. H(j) \in Nat
      BY <1>9
    <3> QED
      BY <1>10, <2>1, <2>2, <3>1
  <2> QED
    BY <1>6, <1>8, <1>9, <2>1, <2>2, <2>3
<1>16. startpos \in Nat /\ startpos > 0
  BY <1>1 DEF HEADER
<1>17. H(k) \in Nat
  BY <1>3, <1>6, <1>9
<1>18. moved \in Seq(Nat) /\ Len(moved) = Len(ifiles) /\ moved[o] = H(k)
  BY <1>1, <1>15, <1>17
<1>19. at'[o] = H(k)
  BY <1>1, <1>13, <1>18
<1>20. IsFiniteSet(sofar) /\ Cardinality(sofar) \in Nat /\ \A x \in sofar : x \in 1..Len(ifiles)
  <2>1. sofar \subseteq 1..Len(ifiles) /\ IsFiniteSet(1..Len(ifiles))
    BY <1>1, FS_Interval DEF sofar, MembersSoFar
  <2> QED
    BY <2>1, FS_Subset, FS_CardinalityType
<1>21. CASE ms[k].table
  <2>1. ifiles' = ifiles
    BY <1>14, <1>21
  <2>2. Scanned(ifiles', at'[o], path, o, k)
    BY <1>8, <1>12, <1>15, <1>19, <1>20, <1>21, <2>1 DEF Scanned, H, sofar
  <2>3. k \in 0..Len(ms)
    BY <1>3, <1>6
  <2>4. ScanInv'
    <3>1. ScanPath' = path
      BY <1>0, <2>1 DEF ScanPath, path
    <3>2. Archive(ifiles, o) /\ ifiles[o].master = o
      BY <1>2, <1>4 DEF Archive
    <3> QED
      BY <1>0, <2>1, <2>2, <2>3, <3>1, <3>2 DEF ScanInv, ms
  <2> QED
    BY <1>0, <2>1, <2>4 DEF PlaceInv, FilesInv, PosInv, LastInv
<1>22. CASE ~ ms[k].table
  <2>0. new \in File /\ new.path = path /\ new.master = o /\ new.lo = startpos
        /\ new.pos = startpos /\ new.wanted = FALSE
    BY <1>1, <1>2, <1>16 DEF File
  <2>1. ifiles' = Append(ifiles, new)
    BY <1>14, <1>22
  <2> HIDE DEF new
  <2>2. /\ Len(ifiles') = n /\ ifiles'[n] = new
        /\ \A x \in 1..Len(ifiles) : ifiles'[x] = ifiles[x]
    BY <1>1, <2>0, <2>1
  <2>3. SameFiles(ifiles, ifiles')
    BY <1>1, <2>2 DEF SameFiles
  <2>4. (\A i \in 1..Len(ifiles) : OneFile(ifiles', i)) /\ LastInv'
    BY <1>0, <2>3, KeptFiles
  <2>5. Archive(ifiles', n) /\ o # n /\ IsObjectFile(ifiles', n)
    BY <1>1, <1>4, <2>0, <2>2 DEF Archive, IsObjectFile
  <2>6. MembersSoFar(ifiles', o, n) = sofar \union {n}
    <3>1. 1..n = 1..Len(ifiles) \union {n}
      BY <1>1
    <3>2. ifiles'[n].master = o /\ ifiles'[n].lo > 0
      BY <1>16, <2>0, <2>2
    <3> QED
      BY <2>2, <3>1, <3>2 DEF MembersSoFar, sofar
  <2>7. Cardinality(sofar \union {n}) = Rank(path, k)
    <3>1. n \notin sofar
      BY <1>1, <1>20
    <3>2. Cardinality(sofar \union {n}) = Cardinality(sofar) + 1
      BY <1>20, <3>1, FS_AddElement
    <3> QED
      BY <1>8, <1>12, <1>15, <1>20, <1>22, <3>2
  <2>8. Nth(ifiles', n) = Rank(path, k)
    <3>1. {x \in 1..n : /\ ifiles'[x].master = ifiles'[n].master
                        /\ (Archive(ifiles', n) => ifiles'[x].lo > 0)}
          = MembersSoFar(ifiles', o, n)
      BY <2>0, <2>2, <2>5 DEF MembersSoFar
    <3> QED
      BY <2>6, <2>7, <3>1 DEF Nth
  <2>9. OneFile(ifiles', n)
    <3>1. StandsFor(ifiles', n, k)
      BY <1>15, <1>22, <2>0, <2>2, <2>8 DEF StandsFor, ms
    <3>2. k \in DOMAIN Disk[ifiles'[n].path].members
      BY <1>3, <1>6, <2>0, <2>2 DEF ms
    <3>3. ifiles'[n].master \in 1..n
      BY <1>1, <2>0, <2>2
    <3> QED
      BY <2>5, <3>1, <3>2, <3>3 DEF OneFile
  <2>10. FilesInv'
    <3>1. \A i \in 1..n : i = n \/ i \in 1..Len(ifiles)
      BY <1>1
    <3> QED
      BY <2>2, <2>4, <2>9, <3>1 DEF FilesInv
  <2>11. ScanInv'
    <3>1. Scanned(ifiles', at'[o], path, o, k)
      BY <1>19, <2>2, <2>6, <2>7 DEF Scanned, H
    <3>2. ifiles'[o] = ifiles[o]
      BY <1>1, <2>2
    <3>3. ScanPath' = path
      BY <1>0, <1>2, <3>2 DEF ScanPath
    <3>4. Archive(ifiles', o) /\ ifiles'[o].master = o
      BY <1>2, <1>4, <3>2 DEF Archive
    <3>5. k \in 0..Len(ms)
      BY <1>3, <1>6
    <3> QED
      BY <1>0, <3>1, <3>3, <3>4, <3>5 DEF ScanInv, ms
  <2>12. PosInv'
    <3>0. reading = 0 /\ reading' = 0 /\ current' = current
      BY <1>0, <1>4
    <3>1. ASSUME NEW i \in 1..n
          PROVE  IF IsObjectFile(ifiles', i)
                 THEN ifiles'[i].pos = ifiles'[i].lo + (IF i < current' THEN 1 ELSE 0)
                 ELSE ifiles'[i].pos = 0 /\ i < current'
      <4>1. CASE i = n
        <5>1. ~ (n < current)
          BY <1>1, <1>4
        <5>2. ifiles'[n].pos = startpos /\ ifiles'[n].lo = startpos
          BY <2>0, <2>2
        <5> HIDE DEF n, startpos
        <5> QED
          BY <1>16, <2>5, <3>0, <4>1, <5>1, <5>2
      <4>2. CASE i # n
        <5>1. i \in 1..Len(ifiles)
          BY <1>1, <4>2
        <5>2. IF IsObjectFile(ifiles, i)
              THEN ifiles[i].pos = ifiles[i].lo + (IF i < current THEN 1 ELSE 0)
              ELSE ifiles[i].pos = 0 /\ i < current
          BY <3>0, <5>1 DEF PlaceInv, PosInv
        <5>3. IsObjectFile(ifiles', i) <=> IsObjectFile(ifiles, i)
          BY <2>3, <5>1, FilesSame
        <5> QED
          BY <2>2, <3>0, <5>1, <5>2, <5>3
      <4> QED
        BY <4>1, <4>2
    <3> QED
      BY <2>2, <3>0, <3>1 DEF PosInv
  <2>13. current' <= Len(ifiles') + 1
    BY <1>0, <1>1, <1>4, <2>2
  <2> QED
    BY <1>0, <1>4, <2>4, <2>10, <2>11, <2>12, <2>13 DEF PlaceInv
<1> QED
  BY <1>3, <1>6, <1>21, <1>22

\* The headers end where the archive does.
LEMMA ScanEndP ==
  ASSUME SInv, PlaceInv, ScanEnd
  PROVE  PlaceInv'
<1> DEFINE path == ScanPath
           o == scanning
           ms == Disk[path].members
<1>0. /\ o # 0 /\ MembersFrom(path, at[o]) = {} /\ scanning' = 0
      /\ ifstatus' = IF at[o] = EndOf(path) THEN "running" ELSE "errors"
      /\ UNCHANGED <<args, ifiles, proper, at, current, reading, lastread>>
  BY DEF ScanEnd
<1>1. o \in 1..Len(ifiles) /\ ifiles \in Seq(File)
  BY <1>0 DEF SInv, STypeOK
<1>2. path = ifiles[o].path /\ path \in DOMAIN Disk
  <2>1. ifiles[o] \in File
    BY <1>1
  <2> QED
    BY <2>1 DEF ScanPath, File
<1>3. Len(ms) \in Nat /\ DOMAIN ms = 1..Len(ms)
  BY <1>2, DiskIs
<1>4. Disk[path].archive
  BY <1>0, <1>2 DEF PlaceInv, ScanInv, Archive
<1>5. PICK j \in 0..Len(ms) : Scanned(ifiles, at[o], path, o, j)
  BY <1>0 DEF PlaceInv, ScanInv
<1>6. at[o] = HeaderAt(path)[j]
  BY <1>5 DEF Scanned
<1>7. j = Len(ms)
  <2> SUFFICES ASSUME j # Len(ms)  PROVE FALSE
    OBVIOUS
  <2>1. j + 1 \in 1..Len(ms) /\ (j + 1) - 1 = j
    BY <1>3
  <2>2. StartOf(path, j + 1) = at[o] + HEADER
    BY <1>4, <1>6, <2>1 DEF StartOf
  <2>3. j + 1 \in MembersFrom(path, at[o])
    BY <1>3, <2>1, <2>2 DEF MembersFrom
  <2> QED
    BY <1>0, <2>3
<1>8. ifstatus' = "running"
  BY <1>0, <1>6, <1>7 DEF EndOf
<1> QED
  BY <1>0, <1>8 DEF PlaceInv, FilesInv, ScanInv, PosInv, LastInv

\* A reading at its place moves its own ifile on, and no other.
LEMMA ReadAreaP ==
  ASSUME SInv, PlaceInv, ifstatus = "running", scanning = 0, current \in 1..Len(ifiles),
         ReadArea(current), current' = current + 1, UNCHANGED <<args, scanning, reading>>,
         IsObjectFile(ifiles, current),
         ifiles[current].pos = ifiles[current].lo + reading, reading \in 0..2
  PROVE  PlaceInv'
<1> DEFINE n == current
           q == ifiles[n].pos + 1
           new == [ifiles[n] EXCEPT !.pos = q]
<1>0. /\ ifiles \in Seq(File) /\ Len(ifiles) \in Nat /\ ifiles[n] \in File /\ n \in Nat
  BY DEF SInv, STypeOK
<1>1. /\ ifiles' = [ifiles EXCEPT ![n].pos = ifiles[n].pos + 1]
      /\ lastread' = <<n, reading, ifiles[n].pos>>
  BY DEF ReadArea, SeekTo
<1>2. ifstatus' = "running"
  <2> HIDE DEF n
  <2>1. n \in 1..Len(ifiles) /\ ReadArea(n)
    BY DEF n
  <2> QED
    BY <2>1, ReadAreaS
<1>3. /\ new \in File /\ new.path = ifiles[n].path /\ new.master = ifiles[n].master
      /\ new.lo = ifiles[n].lo /\ new.pos = ifiles[n].pos + 1
  <2>1. q \in Nat
    BY <1>0 DEF File
  <2>2. /\ new \in File /\ new.path = ifiles[n].path /\ new.master = ifiles[n].master
        /\ new.lo = ifiles[n].lo /\ new.pos = q
    <3> HIDE DEF q
    <3> QED
      BY <1>0, <2>1 DEF File
  <2> QED
    BY <2>2
<1>4. ifiles' = [ifiles EXCEPT ![n] = new]
  BY <1>0, <1>1
<1> HIDE DEF new
<1>5. /\ Len(ifiles') = Len(ifiles) /\ ifiles'[n] = new
      /\ \A j \in 1..Len(ifiles) : j # n => ifiles'[j] = ifiles[j]
  BY <1>0, <1>3, <1>4
<1>6. SameFiles(ifiles, ifiles')
  <2> SUFFICES ASSUME NEW j \in 1..Len(ifiles)
               PROVE  /\ ifiles'[j].path = ifiles[j].path
                      /\ ifiles'[j].master = ifiles[j].master /\ ifiles'[j].lo = ifiles[j].lo
    BY <1>0, <1>5 DEF SameFiles
  <2>1. CASE j = n
    BY <1>3, <1>5, <2>1
  <2>2. CASE j # n
    BY <1>5, <2>2
  <2> QED
    BY <2>1, <2>2
<1>7. FilesInv'
  <2>1. \A i \in 1..Len(ifiles) : OneFile(ifiles, i)
    BY DEF PlaceInv, FilesInv
  <2>2. \A i \in 1..Len(ifiles) : OneFile(ifiles', i)
    BY <1>6, <2>1, FilesSame
  <2> QED
    BY <1>5, <2>2 DEF FilesInv
<1>8. LastInv'
  <2>1. IsObjectFile(ifiles', n)
    BY <1>6, FilesSame
  <2>2. /\ lastread'[1] = n /\ lastread'[2] = reading /\ lastread'[3] = ifiles[n].pos
    BY <1>1
  <2>3. /\ n \in 1..Len(ifiles') /\ ifiles[n].pos = ifiles'[n].lo + reading
    BY <1>3, <1>5
  <2> HIDE DEF n
  <2> QED
    BY <2>1, <2>2, <2>3 DEF LastInv
<1>9. PosInv'
  <2>1. ASSUME NEW i \in 1..Len(ifiles)
        PROVE  /\ reading = 0 =>
                    IF IsObjectFile(ifiles', i)
                    THEN ifiles'[i].pos = ifiles'[i].lo + (IF i < n + 1 THEN 1 ELSE 0)
                    ELSE ifiles'[i].pos = 0 /\ i < n + 1
               /\ reading \in 1..2 /\ ifiles'[i].wanted =>
                    /\ IsObjectFile(ifiles', i)
                    /\ ifiles'[i].pos = ifiles'[i].lo + reading + (IF i < n + 1 THEN 1 ELSE 0)
    <3>0. IsObjectFile(ifiles', i) <=> IsObjectFile(ifiles, i)
      BY <1>6, FilesSame
    <3>1. CASE i = n
      <4>1. /\ ifiles'[i].pos = ifiles'[i].lo + reading + 1 /\ IsObjectFile(ifiles', i)
            /\ ifiles'[i].lo \in Nat
        BY <1>0, <1>3, <1>5, <3>0, <3>1 DEF File
      <4>2. i < n + 1
        BY <1>0, <3>1
      <4> QED
        BY <4>1, <4>2
    <3>2. CASE i # n
      <4>1. ifiles'[i] = ifiles[i] /\ (i < n + 1 <=> i < n)
        BY <1>0, <1>5, <3>2
      <4>2. /\ reading = 0 =>
                 IF IsObjectFile(ifiles, i)
                 THEN ifiles[i].pos = ifiles[i].lo + (IF i < n THEN 1 ELSE 0)
                 ELSE ifiles[i].pos = 0 /\ i < n
            /\ reading \in 1..2 /\ ifiles[i].wanted =>
                 /\ IsObjectFile(ifiles, i)
                 /\ ifiles[i].pos = ifiles[i].lo + reading + (IF i < n THEN 1 ELSE 0)
        BY DEF PlaceInv, PosInv
      <4> QED
        BY <3>0, <4>1, <4>2
    <3> QED
      BY <3>1, <3>2
  <2> QED
    BY <1>5, <2>1 DEF PosInv
<1>10. ScanInv' /\ current' <= Len(ifiles') + 1 /\ (reading' # 0 => scanning' = 0)
  BY <1>0, <1>5 DEF ScanInv
<1> QED
  BY <1>2, <1>7, <1>8, <1>9, <1>10 DEF PlaceInv

LEMMA SecondPassP ==
  ASSUME SInv, PlaceInv, SecondPass
  PROVE  PlaceInv'
<1>0. /\ reading = 0 /\ scanning = 0 /\ current > Len(ifiles) /\ reading' = 1 /\ current' = 1
      /\ UNCHANGED <<args, proper, at, scanning, lastread, ifstatus>>
  BY DEF SecondPass
<1>1. /\ ifiles \in Seq(File) /\ Len(ifiles) \in Nat /\ current \in Nat
      /\ DOMAIN ifiles = 1..Len(ifiles)
  BY DEF SInv, STypeOK
<1>2. PICK W \in SUBSET {i \in DOMAIN ifiles : ifiles[i].pos > 0} :
        ifiles' = [i \in DOMAIN ifiles |-> [ifiles[i] EXCEPT !.wanted = i \in W]]
  BY DEF SecondPass
<1>3. ASSUME NEW j \in 1..Len(ifiles)
      PROVE  /\ ifiles'[j].path = ifiles[j].path /\ ifiles'[j].master = ifiles[j].master
             /\ ifiles'[j].lo = ifiles[j].lo /\ ifiles'[j].pos = ifiles[j].pos
             /\ (ifiles'[j].wanted => ifiles[j].pos > 0)
  <2>1. ifiles[j] \in File
    BY <1>1
  <2>2. ifiles'[j] = [ifiles[j] EXCEPT !.wanted = j \in W]
    BY <1>1, <1>2
  <2>3. /\ ifiles'[j].path = ifiles[j].path /\ ifiles'[j].master = ifiles[j].master
        /\ ifiles'[j].lo = ifiles[j].lo /\ ifiles'[j].pos = ifiles[j].pos
    BY <2>1, <2>2 DEF File
  <2>4. ifiles'[j].wanted <=> j \in W
    BY <2>1, <2>2, Zenon DEF File
  <2>5. j \in W => ifiles[j].pos > 0
    BY <1>2
  <2> QED
    BY <2>3, <2>4, <2>5
<1>4. Len(ifiles') = Len(ifiles)
  <2>1. ifiles' \in Seq(File)
    BY SecondPassS DEF SInv, STypeOK
  <2>2. DOMAIN ifiles' = 1..Len(ifiles)
    BY <1>1, <1>2
  <2> QED
    BY <1>1, <2>1, <2>2
<1>5. SameFiles(ifiles, ifiles')
  BY <1>1, <1>3, <1>4 DEF SameFiles
<1>6. FilesInv' /\ LastInv'
  BY <1>0, <1>4, <1>5, KeptFiles DEF FilesInv
<1>7. PosInv'
  <2>1. ASSUME NEW i \in 1..Len(ifiles), ifiles'[i].wanted
        PROVE  /\ IsObjectFile(ifiles', i) /\ ~ (i < 1)
               /\ ifiles'[i].pos = ifiles'[i].lo + 1 + 0
    <3>1. IsObjectFile(ifiles', i) <=> IsObjectFile(ifiles, i)
      BY <1>5, FilesSame
    <3>2. i < current /\ ifiles[i].lo \in Nat
      <4>1. ifiles[i] \in File
        BY <1>1
      <4> QED
        BY <1>0, <1>1, <4>1 DEF File
    <3>3. IF IsObjectFile(ifiles, i)
          THEN ifiles[i].pos = ifiles[i].lo + (IF i < current THEN 1 ELSE 0)
          ELSE ifiles[i].pos = 0 /\ i < current
      BY <1>0 DEF PlaceInv, PosInv
    <3>4. ifiles[i].pos > 0 /\ ifiles'[i].pos = ifiles[i].pos /\ ifiles'[i].lo = ifiles[i].lo
      BY <1>3, <2>1
    <3> QED
      BY <3>1, <3>2, <3>3, <3>4
  <2> QED
    BY <1>0, <1>4, <2>1 DEF PosInv
<1> QED
  BY <1>0, <1>1, <1>4, <1>6, <1>7 DEF PlaceInv, ScanInv

LEMMA NextP == SInv /\ PlaceInv /\ [SNext]_svars => PlaceInv'
<1> SUFFICES ASSUME SInv, PlaceInv, [SNext]_svars  PROVE PlaceInv'
  OBVIOUS
<1>0. Len(ifiles) \in Nat /\ current \in Nat \ {0} /\ ifiles \in Seq(File)
  BY DEF SInv, STypeOK
<1>1. CASE ReadNametable
  <2>1. /\ current \in 1..Len(ifiles) /\ reading = 0 /\ ~ (current < current)
        /\ ifiles[current] \in File
    BY <1>0, <1>1 DEF ReadNametable
  <2>2. IF IsObjectFile(ifiles, current)
        THEN ifiles[current].pos = ifiles[current].lo + (IF current < current THEN 1 ELSE 0)
        ELSE ifiles[current].pos = 0 /\ current < current
    BY <2>1 DEF PlaceInv, PosInv
  <2>3. IsObjectFile(ifiles, current) /\ ifiles[current].pos = ifiles[current].lo + reading
    BY <2>1, <2>2
  <2> QED
    BY <1>1, <2>1, <2>3, ReadAreaP DEF ReadNametable
<1>2. CASE ReadWanted
  <2>0. /\ current \in 1..Len(ifiles) /\ reading \in 1..2 /\ ~ (current < current)
        /\ ifiles[current] \in File /\ scanning = 0
    BY <1>0, <1>2 DEF ReadWanted, PlaceInv
  <2>1. CASE ifiles[current].wanted
    <3>1. /\ IsObjectFile(ifiles, current)
          /\ ifiles[current].pos
             = ifiles[current].lo + reading + (IF current < current THEN 1 ELSE 0)
      BY <2>0, <2>1 DEF PlaceInv, PosInv
    <3>2. ifiles[current].pos = ifiles[current].lo + reading /\ reading \in 0..2
      BY <2>0, <3>1 DEF File
    <3> QED
      BY <1>2, <2>0, <2>1, <3>1, <3>2, ReadAreaP DEF ReadWanted
  <2>2. CASE ~ ifiles[current].wanted
    <3>1. /\ UNCHANGED <<ifiles, proper, at, lastread, ifstatus, args, scanning, reading>>
          /\ current' = current + 1
      BY <1>2, <2>2 DEF ReadWanted
    <3>2. PosInv'
      <4>1. ASSUME NEW i \in 1..Len(ifiles), ifiles[i].wanted
            PROVE  /\ IsObjectFile(ifiles, i)
                   /\ ifiles[i].pos
                      = ifiles[i].lo + reading + (IF i < current + 1 THEN 1 ELSE 0)
        <5>1. i # current /\ (i < current + 1 <=> i < current)
          BY <1>0, <2>2, <4>1
        <5> QED
          BY <2>0, <4>1, <5>1 DEF PlaceInv, PosInv
      <4> QED
        BY <2>0, <3>1, <4>1 DEF PosInv
    <3>3. current' <= Len(ifiles') + 1
      BY <1>0, <2>0, <3>1
    <3> QED
      BY <3>1, <3>2, <3>3 DEF PlaceInv, FilesInv, ScanInv, ScanPath, LastInv
  <2> QED
    BY <2>1, <2>2
<1>3. CASE NextReading
  <2>1. /\ reading \in 1..2 /\ current > Len(ifiles) /\ reading' = reading + 1 /\ current' = 1
        /\ UNCHANGED <<args, ifiles, proper, at, scanning, lastread, ifstatus>>
    BY <1>3 DEF NextReading
  <2>2. PosInv'
    <3>1. ASSUME NEW i \in 1..Len(ifiles), ifiles[i].wanted
          PROVE  /\ IsObjectFile(ifiles, i) /\ ~ (i < 1)
                 /\ ifiles[i].pos = ifiles[i].lo + (reading + 1) + 0
      <4>0. ifiles[i] \in File
        BY <1>0
      <4>1. i < current /\ ifiles[i].lo \in Nat
        BY <1>0, <2>1, <4>0 DEF File
      <4>2. /\ IsObjectFile(ifiles, i)
            /\ ifiles[i].pos = ifiles[i].lo + reading + (IF i < current THEN 1 ELSE 0)
        BY <2>1, <3>1 DEF PlaceInv, PosInv
      <4> QED
        BY <2>1, <4>1, <4>2
    <3> QED
      BY <2>1, <3>1 DEF PosInv
  <2> QED
    BY <1>0, <2>1, <2>2 DEF PlaceInv, FilesInv, ScanInv, ScanPath, LastInv
<1>4. CASE UNCHANGED svars
  BY <1>4 DEF svars, PlaceInv, FilesInv, ScanInv, ScanPath, PosInv, LastInv
<1> QED
  BY <1>1, <1>2, <1>3, <1>4, AddFileP, ScanMemberP, ScanEndP, SecondPassP DEF SNext

\* Whatever archives are given, however their streams are closed, reopened and
\* shared by their members (ifi->pos, ifile_open_archive and the three readings
\* in lit.c), every reading begins at the area it is meant for of the member its
\* ifile stands for, and no archive is taken for a damaged one.
THEOREM ReadingsHit == SSpec => []ReadsItsPlace
<1>1. SInv /\ PlaceInv => ReadsItsPlace
  <2> SUFFICES ASSUME SInv, PlaceInv  PROVE ReadsItsPlace
    OBVIOUS
  <2>1. ASSUME lastread # <<>>
        PROVE  \E k \in DOMAIN Disk[ifiles[lastread[1]].path].members :
                 /\ ~ Disk[ifiles[lastread[1]].path].members[k].table
                 /\ Rank(ifiles[lastread[1]].path, k) = NthOf(lastread[1])
                 /\ lastread[3] = StartOf(ifiles[lastread[1]].path, k) + lastread[2]
    <3> DEFINE i == lastread[1]
    <3>1. /\ i \in 1..Len(ifiles) /\ IsObjectFile(ifiles, i)
          /\ lastread[3] = ifiles[i].lo + lastread[2]
      BY <2>1 DEF PlaceInv, LastInv
    <3>2. PICK k \in DOMAIN Disk[ifiles[i].path].members : StandsFor(ifiles, i, k)
      BY <3>1 DEF PlaceInv, FilesInv, OneFile
    <3>3. NthOf(i) = Nth(ifiles, i)
      BY DEF NthOf, Nth, Master, Archive
    <3> QED
      BY <3>1, <3>2, <3>3 DEF StandsFor
  <2> QED
    BY <2>1 DEF ReadsItsPlace, PlaceInv
<1>2. SInit => SInv /\ PlaceInv
  BY InitS, InitP
<1>3. SInv /\ PlaceInv /\ [SNext]_svars => SInv' /\ PlaceInv'
  BY NextS, NextP
<1> QED
  BY <1>1, <1>2, <1>3, PTL DEF SSpec
=============================================================================
