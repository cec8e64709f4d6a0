------------------------------ MODULE ImageProofs ------------------------------
(***************************************************************************)
(* Proofs about the bytes of an image.                                     *)
(*                                                                         *)
(* The passes over the chain of elements: for every chain and every        *)
(* block_threshold no byte of the program changes, and the elements that   *)
(* expressions refer to keep their place and their size.                   *)
(*                                                                         *)
(* What ast writes and dast reads: cmd_size foresees the length of what    *)
(* cmd_generate writes, the prefix loop of disassemble undoes the one of   *)
(* cmd_generate for every 32-bit word, and whatever the size of the buffer *)
(* the listing shows the program, however long it is.                      *)
(***************************************************************************)
EXTENDS Chain, Dast, DataLemmas

-----------------------------------------------------------------------------
(* Part 1: the chain of elements.                                          *)

\* What the image is made of, whatever ByteOf makes of a word.
Cells == [later : BOOLEAN, b : Int \union {ByteOf(w, j) : w \in Int, j \in Nat}]

Values == [name : BOOLEAN, c : Int]
Blocks == [tag : {"BLOCK"}, id : Nat, ref : BOOLEAN, bytes : Seq(Cells)]
Datas == [tag : {"DATA"}, id : Nat, ref : BOOLEAN, width : {1, 2, 4},
          value : Values, count : Nat]
Cmds == [tag : {"CMD"}, id : Nat, ref : BOOLEAN, known : BOOLEAN, code : Seq(Cells)]
Elements == Blocks \union Datas \union Cmds

\* The contents of the elements of a chain.
ContentsOf(ch) == [j \in DOMAIN ch |-> Contents(ch[j])]

\* Every element of o that is referred to is in ch, in its place.
Kept(o, ch) ==
  \A j \in DOMAIN o : o[j].ref =>
     \E k \in DOMAIN ch :
        /\ ch[k].ref /\ ch[k].id = o[j].id
        /\ Offset(ch, k) = Offset(o, j)
        /\ Len(Contents(ch[k])) = Len(Contents(o[j]))

\* No two blocks free to merge stand side by side among the first n elements.
MergedUpTo(n) ==
  \A k \in 1..(n - 1) : k < Len(chain) =>
     (chain[k].tag = "BLOCK" /\ chain[k + 1].tag = "BLOCK"
        => chain[k].ref \/ chain[k + 1].ref)

CTypeOK ==
  /\ chain \in Seq(Elements) /\ orig \in Seq(Elements)
  /\ phase \in {"canonicalize", "unroll", "merge", "done"}
  /\ at \in Nat /\ 1 <= at /\ at <= Len(chain) + 1

CInv ==
  /\ CTypeOK
  /\ ImagePreserved
  /\ Kept(orig, chain)
  /\ phase = "merge" => MergedUpTo(at)
  /\ phase = "done" => MergedUpTo(Len(chain))

-----------------------------------------------------------------------------
(* What an element comes to *)

LEMMA ElementsAre ==
  /\ ChainElement \subseteq Elements
  /\ \A el \in Elements : el.tag \in {"BLOCK", "DATA", "CMD"}
  /\ \A el \in Elements : el.tag = "BLOCK" => el \in Blocks
  /\ \A el \in Elements : el.tag = "DATA" => el \in Datas
  /\ \A el \in Elements : el.tag = "CMD" => el \in Cmds
<1>1. Seq(Cell) \subseteq Seq(Cells)
  <2>1. Cell \subseteq Cells
    BY DEF Cell, Cells
  <2> QED
    BY <2>1, SeqMonotonic
<1> DEFINE B == [tag : {"BLOCK"}, id : Nat, ref : BOOLEAN, bytes : Seq(Cell)]
           C == [tag : {"CMD"}, id : Nat, ref : BOOLEAN, known : BOOLEAN, code : Seq(Cell)]
<1>2. B \subseteq Blocks
  BY <1>1 DEF Blocks
<1>3. C \subseteq Cmds
  BY <1>1 DEF Cmds
<1>4. ChainElement = B \union Datas \union C
  BY DEF ChainElement, Datas, Values
<1>5. ChainElement \subseteq Elements
  BY <1>2, <1>3, <1>4 DEF Elements
<1>6. /\ \A el \in Blocks : el.tag = "BLOCK"
      /\ \A el \in Datas : el.tag = "DATA"
      /\ \A el \in Cmds : el.tag = "CMD"
  BY DEF Blocks, Datas, Cmds
<1> QED
  BY <1>5, <1>6 DEF Elements

LEMMA ItemType ==
  ASSUME NEW v \in Values, NEW w \in {1, 2, 4}
  PROVE  Item(w, v) \in Seq(Cells) /\ Len(Item(w, v)) = w
<1> DEFINE G(j) == IF v.name THEN [later |-> TRUE, b |-> 4 * v.c + j]
                   ELSE [later |-> FALSE, b |-> ByteOf(v.c, j - 1)]
<1>0. v.name \in BOOLEAN /\ v.c \in Int
  BY DEF Values
<1>1. ASSUME NEW j \in 1..w  PROVE G(j) \in Cells
  <2>1. CASE v.name
    BY <1>0, <2>1 DEF Cells
  <2>2. CASE ~ v.name
    <3>1. j - 1 \in Nat
      OBVIOUS
    <3>2. ByteOf(v.c, j - 1) \in {ByteOf(x, y) : x \in Int, y \in Nat}
      BY <1>0, <3>1
    <3> QED
      BY <2>2, <3>2 DEF Cells
  <2> QED
    BY <1>0, <2>1, <2>2
<1>2. Item(w, v) = [j \in 1..w |-> G(j)]
  BY DEF Item
<1> HIDE DEF G
<1>3. w \in Nat
  OBVIOUS
<1> QED
  BY <1>1, <1>2, <1>3

\* The contents of DATA are its item over and over.
LEMMA DataContents ==
  ASSUME NEW el \in Datas
  PROVE  /\ Contents(el) = FlattenSeq(Rep(el.count, Item(el.width, el.value)))
         /\ el.count \in Nat /\ el.width \in {1, 2, 4} /\ el.value \in Values
         /\ Item(el.width, el.value) \in Seq(Cells)
<1>1. /\ el.tag = "DATA" /\ el.count \in Nat /\ el.width \in {1, 2, 4}
      /\ el.value \in Values
  BY DEF Datas
<1> QED
  BY <1>1, ItemType DEF Contents, Rep

LEMMA FlattenType ==
  ASSUME NEW D, NEW s \in Seq(Seq(D))
  PROVE  FlattenSeq(s) \in Seq(D)
<1>1. PICK P : IsParts(P, s, D) /\ FlattenSeq(s) = P[Len(s)]
  BY FlattenParts
<1>2. Len(s) \in 0..Len(s)
  OBVIOUS
<1> QED
  BY <1>1, <1>2 DEF IsParts

LEMMA ContentsType ==
  ASSUME NEW el \in Elements
  PROVE  Contents(el) \in Seq(Cells)
<1>1. CASE el.tag = "BLOCK"
  <2>1. el.bytes \in Seq(Cells)
    BY <1>1, ElementsAre DEF Blocks
  <2> QED
    BY <1>1, <2>1 DEF Contents
<1>2. CASE el.tag = "DATA"
  <2>0. el \in Datas
    BY <1>2, ElementsAre
  <2> DEFINE it == Item(el.width, el.value)
  <2>1. /\ Contents(el) = FlattenSeq(Rep(el.count, it)) /\ el.count \in Nat
        /\ it \in Seq(Cells)
    BY <2>0, DataContents
  <2> HIDE DEF it
  <2>2. Rep(el.count, it) \in Seq(Seq(Cells))
    BY <2>1, RepIs
  <2> QED
    BY <2>1, <2>2, FlattenType
<1>3. CASE el.tag = "CMD"
  <2>1. el.code \in Seq(Cells)
    BY <1>3, ElementsAre DEF Cmds
  <2> QED
    BY <1>3, <2>1 DEF Contents
<1> QED
  BY <1>1, <1>2, <1>3, ElementsAre

\* pass_canonicalize leaves the bytes alone: all of them are the same.
LEMMA CanonicalSame ==
  ASSUME NEW el \in Datas, ~ el.value.name, el.width > 1,
         byteable(el.value.c, el.width),
         NEW new, new = [el EXCEPT !.count = @ * el.width, !.width = 1]
  PROVE  /\ new \in Datas /\ new.id = el.id /\ new.ref = el.ref
         /\ Contents(new) = Contents(el)
<1> DEFINE w == el.width
           n == el.count
           v == el.value
           x == [later |-> FALSE, b |-> ByteOf(v.c, 0)]
<1>0. w \in {1, 2, 4} /\ n \in Nat /\ v \in Values /\ v.c \in Int /\ n * w \in Nat
  BY DEF Datas, Values
<1>1. /\ new \in Datas /\ new.id = el.id /\ new.ref = el.ref
      /\ new.count = n * w /\ new.width = 1 /\ new.value = v
  BY <1>0 DEF Datas
<1>2. x \in Cells
  <2>1. ByteOf(v.c, 0) \in {ByteOf(y, z) : y \in Int, z \in Nat}
    BY <1>0
  <2> QED
    BY <2>1 DEF Cells
<1>3. \A u \in 1..w : ByteOf(v.c, u) = ByteOf(v.c, 0)
  BY DEF byteable
<1>4. ASSUME NEW u \in {1, 2, 4}, u <= w  PROVE Item(u, v) = Rep(u, x)
  <2>1. ASSUME NEW j \in 1..u  PROVE ByteOf(v.c, j - 1) = ByteOf(v.c, 0)
    <3>1. j - 1 = 0 \/ j - 1 \in 1..w
      BY <1>0, <1>4
    <3> QED
      BY <1>3, <3>1
  <2>2. Item(u, v) = [j \in 1..u |-> [later |-> FALSE, b |-> ByteOf(v.c, j - 1)]]
    BY DEF Item
  <2>3. [j \in 1..u |-> [later |-> FALSE, b |-> ByteOf(v.c, j - 1)]] = [j \in 1..u |-> x]
    BY <2>1
  <2> QED
    BY <2>2, <2>3 DEF Rep
<1>5. Item(w, v) = Rep(w, x) /\ Item(1, v) = Rep(1, x)
  BY <1>0, <1>4
<1>6. Contents(el) = FlattenSeq(Rep(n, Item(w, v)))
  BY DataContents
<1>7. Contents(new) = FlattenSeq(Rep(new.count, Item(new.width, new.value)))
  BY <1>1, DataContents
<1> HIDE DEF x, w, n, v
<1>8. FlattenSeq(Rep(n, Rep(w, x))) = Rep(n * w, x)
  BY <1>0, <1>2, RepFlat
<1>9. FlattenSeq(Rep(n * w, Rep(1, x))) = Rep((n * w) * 1, x)
  BY <1>0, <1>2, RepFlat
<1>10. (n * w) * 1 = n * w
  BY <1>0
<1> QED
  BY <1>1, <1>5, <1>6, <1>7, <1>8, <1>9, <1>10

\* pass_unroll makes a block of the bytes there are.
LEMMA UnrolledSame ==
  ASSUME NEW el \in Elements
  PROVE  /\ Unrolled(el) \in Elements
         /\ Unrolled(el).id = el.id /\ Unrolled(el).ref = el.ref
         /\ Contents(Unrolled(el)) = Contents(el)
<1> DEFINE B == Block(el.id, el.ref, Contents(el))
<1>0. el.id \in Nat /\ el.ref \in BOOLEAN
  BY DEF Elements, Blocks, Datas, Cmds
<1>1. Contents(el) \in Seq(Cells)
  BY ContentsType
<1>2. /\ B \in Blocks /\ B.tag = "BLOCK" /\ B.id = el.id /\ B.ref = el.ref
      /\ B.bytes = Contents(el)
  BY <1>0, <1>1 DEF Block, Blocks
<1> HIDE DEF B
<1>3. B \in Elements /\ Contents(B) = Contents(el)
  BY <1>2 DEF Elements, Contents
<1>4. Unrolled(el) = B \/ Unrolled(el) = el
  <2>1. el.tag = "DATA" => el.tag # "CMD"
    OBVIOUS
  <2> QED
    BY DEF Unrolled, B
<1> QED
  BY <1>2, <1>3, <1>4

\* The bytes of two DATA with the same item are those of one with both counts.
LEMMA MergedDataSame ==
  ASSUME NEW a \in Datas, NEW b \in Datas, a.value = b.value, a.width = b.width,
         NEW new, new = [a EXCEPT !.count = @ + b.count]
  PROVE  /\ new \in Datas /\ new.tag = a.tag /\ new.ref = a.ref
         /\ Contents(new) = Contents(a) \o Contents(b)
<1>1. /\ new \in Datas /\ new.tag = a.tag /\ new.ref = a.ref
      /\ new.count = a.count + b.count /\ new.width = a.width /\ new.value = a.value
  BY DEF Datas
<1> DEFINE it == Item(a.width, a.value)
<1>2. /\ Contents(a) = FlattenSeq(Rep(a.count, it))
      /\ Contents(b) = FlattenSeq(Rep(b.count, it))
      /\ Contents(new) = FlattenSeq(Rep(a.count + b.count, it))
      /\ a.count \in Nat /\ b.count \in Nat /\ it \in Seq(Cells)
  BY <1>1, DataContents
<1> HIDE DEF it
<1> QED
  BY <1>1, <1>2, RepJoin

LEMMA MergedBlockSame ==
  ASSUME NEW a \in Blocks, NEW b \in Blocks,
         NEW new, new = [a EXCEPT !.bytes = @ \o b.bytes]
  PROVE  /\ new \in Blocks /\ new.tag = a.tag /\ new.ref = a.ref
         /\ Contents(new) = Contents(a) \o Contents(b)
<1>1. a.bytes \in Seq(Cells) /\ b.bytes \in Seq(Cells) /\ a.tag = "BLOCK" /\ b.tag = "BLOCK"
  BY DEF Blocks
<1>2. a.bytes \o b.bytes \in Seq(Cells)
  BY <1>1, ConcatProperties
<1>3. /\ new \in Blocks /\ new.tag = a.tag /\ new.ref = a.ref
      /\ new.bytes = a.bytes \o b.bytes
  BY <1>2 DEF Blocks
<1> QED
  BY <1>1, <1>3 DEF Contents

-----------------------------------------------------------------------------
(* What a chain comes to *)

LEMMA ContentsOfIs ==
  ASSUME NEW ch \in Seq(Elements)
  PROVE  /\ ContentsOf(ch) \in Seq(Seq(Cells)) /\ Len(ContentsOf(ch)) = Len(ch)
         /\ \A j \in 1..Len(ch) : ContentsOf(ch)[j] = Contents(ch[j])
         /\ Image(ch) = FlattenSeq(ContentsOf(ch))
<1>1. Len(ch) \in Nat /\ DOMAIN ch = 1..Len(ch) /\ \A j \in 1..Len(ch) : ch[j] \in Elements
  OBVIOUS
<1>2. ContentsOf(ch) = [j \in 1..Len(ch) |-> Contents(ch[j])]
  BY <1>1 DEF ContentsOf
<1>3. \A j \in 1..Len(ch) : Contents(ch[j]) \in Seq(Cells)
  BY <1>1, ContentsType
<1>4. Image(ch) = FlattenSeq(ContentsOf(ch))
  BY Zenon DEF Image, ContentsOf
<1>5. ContentsOf(ch) \in [1..Len(ch) -> Seq(Cells)]
  BY <1>2, <1>3
<1> QED
  BY <1>1, <1>2, <1>4, <1>5

\* The offset of an element is the length of the part before it.
LEMMA OffsetIs ==
  ASSUME NEW ch \in Seq(Elements), NEW P, IsParts(P, ContentsOf(ch), Cells),
         NEW k \in 1..Len(ch)
  PROVE  Offset(ch, k) = Len(P[k - 1])
<1> DEFINE sub == SubSeq(ch, 1, k - 1)
<1>0. Len(ch) \in Nat /\ k - 1 \in 0..Len(ch) /\ k \in Nat
  OBVIOUS
<1>1. /\ sub \in Seq(Elements) /\ Len(sub) = k - 1
      /\ \A j \in 1..(k - 1) : sub[j] = ch[j]
  BY <1>0
<1> HIDE DEF sub
<1>2. /\ ContentsOf(ch) \in Seq(Seq(Cells)) /\ Len(ContentsOf(ch)) = Len(ch)
      /\ \A j \in 1..Len(ch) : ContentsOf(ch)[j] = Contents(ch[j])
  BY ContentsOfIs
<1>3. /\ ContentsOf(sub) \in Seq(Seq(Cells)) /\ Len(ContentsOf(sub)) = Len(sub)
      /\ \A j \in 1..Len(sub) : ContentsOf(sub)[j] = Contents(sub[j])
      /\ Image(sub) = FlattenSeq(ContentsOf(sub))
  BY <1>1, ContentsOfIs
<1>4. \A j \in 1..(k - 1) : ContentsOf(sub)[j] = ContentsOf(ch)[j]
  <2> SUFFICES ASSUME NEW j \in 1..(k - 1)
               PROVE  ContentsOf(sub)[j] = ContentsOf(ch)[j]
    OBVIOUS
  <2>1. j \in 1..Len(ch) /\ j \in 1..Len(sub)
    BY <1>0, <1>1
  <2> QED
    BY <1>1, <1>2, <1>3, <2>1
<1>5. FlattenSeq(ContentsOf(sub)) = P[k - 1]
  <2> DEFINE s == ContentsOf(ch)
             t == ContentsOf(sub)
  <2>1. PICK m \in 0..Len(s) : m = k - 1 /\ Len(t) = m
    BY <1>0, <1>1, <1>2, <1>3
  <2>2. \A j \in 1..m : t[j] = s[j]
    BY <1>4, <2>1
  <2>3. s \in Seq(Seq(Cells)) /\ t \in Seq(Seq(Cells)) /\ IsParts(P, s, Cells)
    BY <1>2, <1>3
  <2> HIDE DEF s, t
  <2>4. FlattenSeq(t) = P[m]
    <3>1. IsStart(t, m, s, Cells)
      BY <2>1, <2>2, <2>3 DEF IsStart
    <3> QED
      BY <2>3, <3>1, FlattenPrefix
  <2> QED
    BY <2>1, <2>4 DEF t
<1> QED
  BY <1>3, <1>5 DEF Offset, sub

\* A pass may put an element of the same bytes in the place of another.
LEMMA ReplaceStep ==
  ASSUME NEW ch \in Seq(Elements), NEW p \in 1..Len(ch), NEW el \in Elements,
         el.id = ch[p].id, el.ref = ch[p].ref, Contents(el) = Contents(ch[p]),
         NEW new, new = [ch EXCEPT ![p] = el], NEW o
  PROVE  /\ new \in Seq(Elements) /\ Len(new) = Len(ch)
         /\ Image(new) = Image(ch)
         /\ Kept(o, ch) => Kept(o, new)
<1>0. Len(ch) \in Nat /\ DOMAIN ch = 1..Len(ch)
  OBVIOUS
<1>1. /\ new \in Seq(Elements) /\ Len(new) = Len(ch)
      /\ \A j \in 1..Len(ch) : new[j] = IF j = p THEN el ELSE ch[j]
      /\ DOMAIN new = DOMAIN ch
  OBVIOUS
<1>2. \A j \in 1..Len(ch) : /\ new[j].id = ch[j].id /\ new[j].ref = ch[j].ref
                            /\ Contents(new[j]) = Contents(ch[j])
  BY <1>1
<1>3. ContentsOf(new) = ContentsOf(ch)
  <2>1. /\ ContentsOf(new) = [j \in 1..Len(ch) |-> Contents(new[j])]
        /\ ContentsOf(ch) = [j \in 1..Len(ch) |-> Contents(ch[j])]
    BY <1>0, <1>1 DEF ContentsOf
  <2> QED
    BY <1>2, <2>1
<1>4. Image(new) = Image(ch)
  BY <1>1, <1>3, ContentsOfIs
<1>5. \A k \in 1..Len(ch) : Offset(new, k) = Offset(ch, k)
  <2> SUFFICES ASSUME NEW k \in 1..Len(ch)  PROVE Offset(new, k) = Offset(ch, k)
    OBVIOUS
  <2>1. PICK P : IsParts(P, ContentsOf(ch), Cells)
    BY ContentsOfIs, FlattenParts
  <2>2. Offset(ch, k) = Len(P[k-1])
    BY <2>1, OffsetIs
  <2>3. Offset(new, k) = Len(P[k-1])
    <3>1. IsParts(P, ContentsOf(new), Cells)
      BY <1>3, <2>1
    <3>2. new \in Seq(Elements) /\ k \in 1..Len(new)
      BY <1>1
    <3> QED
      BY ONLY <3>1, <3>2, OffsetIs
  <2> QED
    BY <2>2, <2>3
<1>6. Kept(o, ch) => Kept(o, new)
  <2> SUFFICES ASSUME Kept(o, ch), NEW j \in DOMAIN o, o[j].ref
               PROVE  \E k \in DOMAIN new :
                        /\ new[k].ref /\ new[k].id = o[j].id
                        /\ Offset(new, k) = Offset(o, j)
                        /\ Len(Contents(new[k])) = Len(Contents(o[j]))
    BY DEF Kept
  <2>1. PICK k \in DOMAIN ch :
           /\ ch[k].ref /\ ch[k].id = o[j].id
           /\ Offset(ch, k) = Offset(o, j)
           /\ Len(Contents(ch[k])) = Len(Contents(o[j]))
    BY DEF Kept
  <2>2. k \in 1..Len(ch) /\ k \in DOMAIN new
    BY <1>0, <1>1
  <2> QED
    BY <1>2, <1>5, <2>1, <2>2
<1> QED
  BY <1>1, <1>4, <1>6

\* new is ch with elements p and p + 1 made one, el.
IsMerge(new, ch, p, el) ==
  /\ new \in Seq(Elements) /\ Len(new) = Len(ch) - 1
  /\ \A j \in 1..(p - 1) : new[j] = ch[j]
  /\ new[p] = el /\ Contents(el) = Contents(ch[p]) \o Contents(ch[p + 1])
  /\ \A j \in (p + 1)..Len(new) : new[j] = ch[j + 1]

LEMMA MergeStep ==
  ASSUME NEW ch \in Seq(Elements), NEW p \in 1..(Len(ch) - 1),
         NEW new, NEW el, IsMerge(new, ch, p, el), ~ ch[p].ref, ~ ch[p + 1].ref, NEW o
  PROVE  /\ Image(new) = Image(ch)
         /\ Kept(o, ch) => Kept(o, new)
<1>0. /\ Len(ch) \in Nat /\ DOMAIN ch = 1..Len(ch) /\ p \in Nat
      /\ 1 <= p /\ p + 1 <= Len(ch)
  OBVIOUS
<1>1. /\ new \in Seq(Elements) /\ Len(new) = Len(ch) - 1 /\ Len(ch) = Len(new) + 1
      /\ DOMAIN new = 1..Len(new) /\ Len(new) \in Nat
  BY <1>0 DEF IsMerge
<1>2. /\ \A j \in 1..(p - 1) : new[j] = ch[j]
      /\ Contents(new[p]) = Contents(ch[p]) \o Contents(ch[p + 1])
      /\ \A j \in (p + 1)..Len(new) : new[j] = ch[j + 1]
  BY DEF IsMerge
<1> DEFINE s == ContentsOf(ch)
           t == ContentsOf(new)
<1>3. /\ s \in Seq(Seq(Cells)) /\ Len(s) = Len(ch)
      /\ \A j \in 1..Len(ch) : s[j] = Contents(ch[j])
      /\ Image(ch) = FlattenSeq(s)
  BY ContentsOfIs
<1>4. /\ t \in Seq(Seq(Cells)) /\ Len(t) = Len(new)
      /\ \A j \in 1..Len(new) : t[j] = Contents(new[j])
      /\ Image(new) = FlattenSeq(t)
  BY <1>1, ContentsOfIs
<1>5. PICK P : IsParts(P, s, Cells)
  BY <1>3, FlattenParts
<1> HIDE DEF s, t
<1> DEFINE Q == Joined(P, p, Len(t))
<1>6. IsParts(Q, t, Cells)
  <2>0. p \in 1..(Len(s) - 1) /\ Len(t) = Len(s) - 1
    BY <1>0, <1>1, <1>3, <1>4
  <2>1. \A j \in 1..(p - 1) : t[j] = s[j]
    <3> SUFFICES ASSUME NEW j \in 1..(p - 1)  PROVE t[j] = s[j]
      OBVIOUS
    <3>1. j \in 1..Len(ch) /\ j \in 1..Len(new)
      BY <1>0, <1>1
    <3> QED
      BY <1>2, <1>3, <1>4, <3>1
  <2>2. t[p] = s[p] \o s[p+1]
    <3>1. p \in 1..Len(ch) /\ p + 1 \in 1..Len(ch) /\ p \in 1..Len(new)
      BY <1>0, <1>1
    <3> QED
      BY <1>2, <1>3, <1>4, <3>1
  <2>3. \A j \in (p + 1)..Len(t) : t[j] = s[j+1]
    <3> SUFFICES ASSUME NEW j \in (p + 1)..Len(t)  PROVE t[j] = s[j+1]
      OBVIOUS
    <3>1. j + 1 \in 1..Len(ch) /\ j \in 1..Len(new) /\ j \in (p + 1)..Len(new)
      BY <1>0, <1>1, <1>4
    <3> QED
      BY <1>2, <1>3, <1>4, <3>1
  <2> QED
    BY <1>3, <1>4, <1>5, <2>0, <2>1, <2>2, <2>3, PartsJoin
<1>7. \A k \in 0..Len(new) : Q[k] = IF k < p THEN P[k] ELSE P[k+1]
  BY <1>4 DEF Joined
<1> HIDE DEF Q
<1>8. Image(new) = Image(ch)
  <2>1. Image(ch) = P[Len(ch)]
    BY <1>3, <1>5, FlattenIsLast
  <2>2. Image(new) = Q[Len(new)]
    BY <1>4, <1>6, FlattenIsLast
  <2>3. Len(new) \in 0..Len(new) /\ ~ (Len(new) < p) /\ Len(new) + 1 = Len(ch)
    BY <1>0, <1>1
  <2> QED
    BY <1>7, <2>1, <2>2, <2>3
<1>9. \A k \in 1..Len(ch) : Offset(ch, k) = Len(P[k-1])
  BY <1>5, OffsetIs DEF s
<1>10. \A k \in 1..Len(new) : Offset(new, k) = Len(Q[k-1])
  BY <1>1, <1>6, OffsetIs DEF t
<1>11. Kept(o, ch) => Kept(o, new)
  <2> SUFFICES ASSUME Kept(o, ch), NEW j \in DOMAIN o, o[j].ref
               PROVE  \E k \in DOMAIN new :
                        /\ new[k].ref /\ new[k].id = o[j].id
                        /\ Offset(new, k) = Offset(o, j)
                        /\ Len(Contents(new[k])) = Len(Contents(o[j]))
    BY DEF Kept
  <2>1. PICK k \in DOMAIN ch :
           /\ ch[k].ref /\ ch[k].id = o[j].id
           /\ Offset(ch, k) = Offset(o, j)
           /\ Len(Contents(ch[k])) = Len(Contents(o[j]))
    BY DEF Kept
  <2>2. k \in 1..Len(ch) /\ k # p /\ k # p + 1
    BY <1>0, <2>1
  <2>3. CASE k < p
    <3>1. /\ k \in 1..(p - 1) /\ k \in 1..Len(new) /\ k - 1 \in 0..Len(new)
          /\ k - 1 < p
      BY <1>0, <1>1, <2>2, <2>3
    <3>2. new[k] = ch[k]
      BY <1>2, <3>1
    <3>3. Offset(new, k) = Offset(ch, k)
      BY <1>7, <1>9, <1>10, <2>2, <3>1
    <3> QED
      BY <1>1, <2>1, <3>1, <3>2, <3>3
  <2>4. CASE p + 1 < k
    <3>1. PICK l \in (p + 1)..Len(new) : l = k - 1 /\ l + 1 = k
      BY <1>0, <1>1, <2>2, <2>4
    <3>2. l \in 1..Len(new) /\ l - 1 \in 0..Len(new) /\ ~ (l - 1 < p) /\ l - 1 + 1 = k - 1
      BY <1>0, <1>1, <3>1
    <3>3. new[l] = ch[k]
      BY <1>2, <3>1
    <3>4. Q[l-1] = P[l-1+1]
      BY <1>7, <3>2
    <3>5. Offset(new, l) = Offset(ch, k)
      BY <1>9, <1>10, <2>2, <3>2, <3>4
    <3> QED
      BY <1>1, <2>1, <3>2, <3>3, <3>5
  <2> QED
    BY <1>0, <2>2, <2>3, <2>4
<1> QED
  BY <1>8, <1>11

LEMMA MergeIs ==
  ASSUME NEW ch \in Seq(Elements), NEW p \in 1..(Len(ch) - 1), NEW el \in Elements,
         Contents(el) = Contents(ch[p]) \o Contents(ch[p + 1]),
         NEW new, new = RemoveAt([ch EXCEPT ![p] = el], p + 1)
  PROVE  IsMerge(new, ch, p, el)
<1> DEFINE m == [ch EXCEPT ![p] = el]
<1>0. /\ Len(ch) \in Nat /\ p \in Nat /\ 1 <= p /\ p + 1 <= Len(ch)
      /\ p + 1 \in 1..Len(ch)
  OBVIOUS
<1>1. /\ m \in Seq(Elements) /\ Len(m) = Len(ch)
      /\ \A j \in 1..Len(ch) : m[j] = IF j = p THEN el ELSE ch[j]
  OBVIOUS
<1> HIDE DEF m
<1>2. PICK i : i = p + 1 /\ i - 1 = p /\ i \in 1..Len(m)
  <2>1. (p + 1) - 1 = p /\ p + 1 \in 1..Len(m)
    BY <1>0, <1>1
  <2> QED
    BY ONLY <2>1
<1>3. /\ new \in Seq(Elements) /\ Len(new) = Len(m) - 1
      /\ \A j \in 1..(i - 1) : new[j] = m[j]
      /\ \A j \in i..Len(new) : new[j] = m[j + 1]
  <2>1. new = RemoveAt(m, i)
    BY <1>2 DEF m
  <2>2. m \in Seq(Elements) /\ i \in 1..Len(m)
    BY <1>1, <1>2
  <2> QED
    BY ONLY <2>1, <2>2, RemoveAtIs
<1>4. \A j \in 1..(p - 1) : new[j] = ch[j]
  <2> SUFFICES ASSUME NEW j \in 1..(p - 1)  PROVE new[j] = ch[j]
    OBVIOUS
  <2>1. j \in 1..(i - 1) /\ j \in 1..Len(ch) /\ j # p
    BY <1>0, <1>2
  <2> QED
    BY <1>1, <1>3, <2>1
<1>5. \A j \in (p + 1)..Len(new) : new[j] = ch[j + 1]
  <2> SUFFICES ASSUME NEW j \in (p + 1)..Len(new)  PROVE new[j] = ch[j + 1]
    OBVIOUS
  <2>1. j \in i..Len(new) /\ j + 1 \in 1..Len(ch) /\ j + 1 # p
    BY <1>0, <1>1, <1>2, <1>3
  <2> QED
    BY <1>1, <1>3, <2>1
<1>6. new[p] = el
  <2>1. p \in 1..(i - 1) /\ p \in 1..Len(ch)
    BY <1>0, <1>2
  <2> QED
    BY <1>1, <1>3, <2>1
<1> QED
  BY <1>0, <1>1, <1>3, <1>4, <1>5, <1>6 DEF IsMerge

-----------------------------------------------------------------------------
(* The passes *)

LEMMA InitC == CInit => CInv
<1> SUFFICES ASSUME CInit  PROVE CInv
  OBVIOUS
<1>1. orig \in Seq(Elements)
  <2>1. ChainElement \subseteq Elements /\ orig \in Seq(ChainElement)
    BY ElementsAre, ChainAssumption DEF CInit
  <2>2. Seq(ChainElement) \subseteq Seq(Elements)
    BY <2>1, SeqMonotonic
  <2> QED
    BY <2>1, <2>2
<1>2. /\ chain = orig /\ at = 1 /\ Len(orig) \in Nat
      /\ phase \in {"canonicalize", "unroll"}
  BY <1>1 DEF CInit
<1>3. Kept(orig, chain)
  BY <1>2 DEF Kept
<1>4. CTypeOK
  BY <1>1, <1>2 DEF CTypeOK
<1> QED
  BY <1>2, <1>3, <1>4 DEF CInv, ImagePreserved

\* What every step of a pass has to keep.
Keeps ==
  /\ chain' \in Seq(Elements) /\ Image(chain') = Image(chain)
  /\ Kept(orig, chain) => Kept(orig, chain')

LEMMA CanonicalizeC == CInv /\ Canonicalize => CInv'
<1> SUFFICES ASSUME CInv, Canonicalize  PROVE CInv'
  OBVIOUS
<1>0. /\ chain \in Seq(Elements) /\ orig \in Seq(Elements) /\ orig' = orig
      /\ phase = "canonicalize" /\ phase' = phase /\ at \in 1..Len(chain) /\ at' = at + 1
      /\ Len(chain) \in Nat /\ Kept(orig, chain) /\ Image(chain) = Image(orig)
  BY DEF CInv, CTypeOK, Canonicalize, ImagePreserved
<1> DEFINE el == chain[at]
           new == [el EXCEPT !.count = @ * el.width, !.width = 1]
<1>1. Keeps /\ Len(chain') = Len(chain)
  <2>1. CASE /\ el.tag = "DATA" /\ ~ el.value.name /\ el.width > 1
             /\ byteable(el.value.c, el.width)
    <3>1. el \in Datas /\ el \in Elements
      BY <1>0, <2>1, ElementsAre
    <3>2. /\ new \in Datas /\ new.id = el.id /\ new.ref = el.ref
          /\ Contents(new) = Contents(el)
      BY <2>1, <3>1, CanonicalSame
    <3>3. chain' = [chain EXCEPT ![at] = new]
      BY <2>1 DEF Canonicalize, Replace
    <3> HIDE DEF new
    <3>4. new \in Elements
      BY <3>2 DEF Elements
    <3>5. /\ chain' \in Seq(Elements) /\ Len(chain') = Len(chain)
          /\ Image(chain') = Image(chain)
          /\ Kept(orig, chain) => Kept(orig, chain')
      BY <1>0, <3>2, <3>3, <3>4, ReplaceStep
    <3> QED
      BY <3>5 DEF Keeps
  <2>2. CASE ~ (/\ el.tag = "DATA" /\ ~ el.value.name /\ el.width > 1
                /\ byteable(el.value.c, el.width))
    <3>1. chain' = chain
      BY <2>2 DEF Canonicalize
    <3> QED
      BY <1>0, <3>1 DEF Keeps
  <2> QED
    BY <2>1, <2>2
<1>2. CTypeOK'
  BY <1>0, <1>1 DEF CTypeOK, Keeps
<1>3. ImagePreserved' /\ Kept(orig, chain)'
  BY <1>0, <1>1 DEF ImagePreserved, Keeps
<1> QED
  BY <1>0, <1>2, <1>3 DEF CInv

LEMMA UnrollC == CInv /\ Unroll => CInv'
<1> SUFFICES ASSUME CInv, Unroll  PROVE CInv'
  OBVIOUS
<1>0. /\ chain \in Seq(Elements) /\ orig \in Seq(Elements) /\ orig' = orig
      /\ phase = "unroll" /\ phase' = phase /\ at \in 1..Len(chain) /\ at' = at + 1
      /\ Len(chain) \in Nat /\ Kept(orig, chain) /\ Image(chain) = Image(orig)
      /\ chain[at] \in Elements
      /\ chain' = [chain EXCEPT ![at] = Unrolled(chain[at])]
  BY DEF CInv, CTypeOK, Unroll, Replace, ImagePreserved
<1> DEFINE new == Unrolled(chain[at])
<1>1. /\ new \in Elements /\ new.id = chain[at].id /\ new.ref = chain[at].ref
      /\ Contents(new) = Contents(chain[at]) /\ chain' = [chain EXCEPT ![at] = new]
  BY <1>0, UnrolledSame
<1> HIDE DEF new
<1>2. /\ chain' \in Seq(Elements) /\ Len(chain') = Len(chain)
      /\ Image(chain') = Image(chain)
      /\ Kept(orig, chain) => Kept(orig, chain')
  BY <1>0, <1>1, ReplaceStep
<1>3. CTypeOK'
  BY <1>0, <1>2 DEF CTypeOK
<1>4. ImagePreserved' /\ Kept(orig, chain)'
  BY <1>0, <1>2 DEF ImagePreserved
<1> QED
  BY <1>0, <1>3, <1>4 DEF CInv

LEMMA MergeDataC == CInv /\ MergeData => CInv'
<1> SUFFICES ASSUME CInv, MergeData  PROVE CInv'
  OBVIOUS
<1>0. /\ chain \in Seq(Elements) /\ orig \in Seq(Elements) /\ orig' = orig
      /\ phase = "unroll" /\ phase' = phase /\ at \in Nat /\ 1 <= at /\ at' = at
      /\ Len(chain) \in Nat /\ Kept(orig, chain) /\ Image(chain) = Image(orig)
  BY DEF CInv, CTypeOK, MergeData, ImagePreserved
<1> DEFINE a == chain[at]
           b == chain[at + 1]
           new == [a EXCEPT !.count = @ + b.count]
<1>1. /\ at < Len(chain) /\ ~ a.ref /\ ~ b.ref /\ a.tag = "DATA" /\ b.tag = "DATA"
      /\ a.value = b.value /\ a.width = b.width
      /\ chain' = RemoveAt([chain EXCEPT ![at] = new], at + 1)
  BY DEF MergeData, SameData, FreeToMerge
<1>2. at \in 1..(Len(chain) - 1) /\ at \in 1..Len(chain) /\ at + 1 \in 1..Len(chain)
  BY <1>0, <1>1
<1>3. a \in Datas /\ b \in Datas
  BY <1>0, <1>1, <1>2, ElementsAre
<1>4. new \in Datas /\ Contents(new) = Contents(a) \o Contents(b)
  BY <1>1, <1>3, MergedDataSame
<1> HIDE DEF new
<1>5. new \in Elements
  BY <1>4 DEF Elements
<1>6. IsMerge(chain', chain, at, new)
  BY <1>0, <1>1, <1>2, <1>4, <1>5, MergeIs
<1>7. Image(chain') = Image(chain) /\ (Kept(orig, chain) => Kept(orig, chain'))
  BY <1>0, <1>1, <1>2, <1>6, MergeStep
<1>8. chain' \in Seq(Elements) /\ Len(chain') = Len(chain) - 1
  BY <1>6 DEF IsMerge
<1>9. CTypeOK'
  BY <1>0, <1>2, <1>8 DEF CTypeOK
<1>10. ImagePreserved' /\ Kept(orig, chain)'
  BY <1>0, <1>7 DEF ImagePreserved
<1> QED
  BY <1>0, <1>9, <1>10 DEF CInv

LEMMA MergeBlocksC == CInv /\ MergeBlocks => CInv'
<1> SUFFICES ASSUME CInv, MergeBlocks  PROVE CInv'
  OBVIOUS
<1>0. /\ chain \in Seq(Elements) /\ orig \in Seq(Elements) /\ orig' = orig
      /\ phase = "merge" /\ phase' = phase /\ at \in Nat /\ 1 <= at /\ at' = at
      /\ Len(chain) \in Nat /\ Kept(orig, chain) /\ Image(chain) = Image(orig)
      /\ MergedUpTo(at)
  BY DEF CInv, CTypeOK, MergeBlocks, ImagePreserved
<1> DEFINE a == chain[at]
           b == chain[at + 1]
           new == [a EXCEPT !.bytes = @ \o b.bytes]
<1>1. /\ at < Len(chain) /\ ~ a.ref /\ ~ b.ref /\ a.tag = "BLOCK" /\ b.tag = "BLOCK"
      /\ chain' = RemoveAt([chain EXCEPT ![at] = new], at + 1)
  BY DEF MergeBlocks, FreeToMerge
<1>2. at \in 1..(Len(chain) - 1) /\ at \in 1..Len(chain) /\ at + 1 \in 1..Len(chain)
  BY <1>0, <1>1
<1>3. a \in Blocks /\ b \in Blocks
  BY <1>0, <1>1, <1>2, ElementsAre
<1>4. /\ new \in Blocks /\ new.tag = a.tag /\ new.ref = a.ref
      /\ Contents(new) = Contents(a) \o Contents(b)
  BY <1>3, MergedBlockSame
<1> HIDE DEF new
<1>5. new \in Elements
  BY <1>4 DEF Elements
<1>6. IsMerge(chain', chain, at, new)
  <2>1. /\ chain \in Seq(Elements) /\ at \in 1..(Len(chain) - 1) /\ new \in Elements
        /\ Contents(new) = Contents(chain[at]) \o Contents(chain[at + 1])
        /\ chain' = RemoveAt([chain EXCEPT ![at] = new], at + 1)
    BY <1>0, <1>1, <1>2, <1>4, <1>5
  <2> QED
    BY <2>1, MergeIs
<1>7. Image(chain') = Image(chain) /\ (Kept(orig, chain) => Kept(orig, chain'))
  BY <1>0, <1>1, <1>2, <1>6, MergeStep
<1>8. /\ chain' \in Seq(Elements) /\ Len(chain') = Len(chain) - 1
      /\ \A j \in 1..(at - 1) : chain'[j] = chain[j]
      /\ chain'[at] = new
  BY <1>6 DEF IsMerge
<1>9. CTypeOK'
  BY <1>0, <1>2, <1>8 DEF CTypeOK
<1>10. ImagePreserved' /\ Kept(orig, chain)'
  BY <1>0, <1>7 DEF ImagePreserved
<1>11. MergedUpTo(at)'
  <2>1. \A j \in 1..at : chain'[j].tag = chain[j].tag /\ chain'[j].ref = chain[j].ref
    <3> SUFFICES ASSUME NEW j \in 1..at
                 PROVE  chain'[j].tag = chain[j].tag /\ chain'[j].ref = chain[j].ref
      OBVIOUS
    <3>1. CASE j = at
      BY <1>4, <1>8, <3>1
    <3>2. CASE j # at
      <4>1. j \in 1..(at - 1)
        BY <1>0, <3>2
      <4> QED
        BY <1>8, <4>1
    <3> QED
      BY <3>1, <3>2
  <2> SUFFICES ASSUME NEW k \in 1..(at - 1),
                      chain'[k].tag = "BLOCK", chain'[k + 1].tag = "BLOCK"
               PROVE  chain'[k].ref \/ chain'[k + 1].ref
    BY <1>0 DEF MergedUpTo
  <2>2. k \in 1..at /\ k + 1 \in 1..at /\ k < Len(chain)
    BY <1>0, <1>1
  <2>3. chain[k].tag = "BLOCK" /\ chain[k + 1].tag = "BLOCK"
    BY <2>1, <2>2
  <2>4. chain[k].ref \/ chain[k + 1].ref
    BY <1>0, <2>2, <2>3 DEF MergedUpTo
  <2> QED
    BY <2>1, <2>2, <2>4
<1> QED
  BY <1>0, <1>9, <1>10, <1>11 DEF CInv

LEMMA MergeNextC == CInv /\ MergeNext => CInv'
<1> SUFFICES ASSUME CInv, MergeNext  PROVE CInv'
  OBVIOUS
<1>0. /\ chain \in Seq(Elements) /\ orig \in Seq(Elements) /\ orig' = orig
      /\ phase = "merge" /\ phase' = phase /\ at \in 1..Len(chain) /\ at' = at + 1
      /\ Len(chain) \in Nat /\ chain' = chain /\ MergedUpTo(at)
      /\ ~ FreeToMerge("BLOCK") /\ Kept(orig, chain) /\ ImagePreserved
  BY DEF CInv, CTypeOK, MergeNext
<1>1. CTypeOK'
  BY <1>0 DEF CTypeOK
<1>2. ImagePreserved' /\ Kept(orig, chain)'
  BY <1>0 DEF ImagePreserved
<1>3. MergedUpTo(at)'
  <2> SUFFICES ASSUME NEW k \in 1..at, k < Len(chain),
                      chain[k].tag = "BLOCK", chain[k + 1].tag = "BLOCK"
               PROVE  chain[k].ref \/ chain[k + 1].ref
    <3>1. at' - 1 = at
      BY <1>0
    <3> QED
      BY <1>0, <3>1 DEF MergedUpTo
  <2>1. CASE k = at
    BY <1>0, <2>1 DEF FreeToMerge
  <2>2. CASE k # at
    <3>1. k \in 1..(at - 1)
      BY <1>0, <2>2
    <3> QED
      BY <1>0, <3>1 DEF MergedUpTo
  <2> QED
    BY <2>1, <2>2
<1> QED
  BY <1>0, <1>1, <1>2, <1>3 DEF CInv

LEMMA NextPassC == CInv /\ NextPass => CInv'
<1> SUFFICES ASSUME CInv, NextPass  PROVE CInv'
  OBVIOUS
<1>0. /\ chain \in Seq(Elements) /\ orig \in Seq(Elements) /\ orig' = orig
      /\ phase \in {"canonicalize", "unroll", "merge"} /\ at = Len(chain) + 1 /\ at' = 1
      /\ Len(chain) \in Nat /\ chain' = chain
      /\ Kept(orig, chain) /\ ImagePreserved
      /\ phase = "merge" => MergedUpTo(at)
      /\ phase' = CASE phase = "canonicalize" -> "unroll"
                    [] phase = "unroll" -> "merge"
                    [] phase = "merge" -> "done"
  BY DEF CInv, CTypeOK, NextPass
<1>1. /\ phase' \in {"unroll", "merge", "done"}
      /\ phase' = "done" => phase = "merge"
  BY <1>0
<1>2. CTypeOK'
  BY <1>0, <1>1 DEF CTypeOK
<1>3. ImagePreserved' /\ Kept(orig, chain)'
  BY <1>0 DEF ImagePreserved
<1>4. MergedUpTo(at)'
  BY <1>0 DEF MergedUpTo
<1>5. phase' = "done" => MergedUpTo(Len(chain))'
  <2> SUFFICES ASSUME MergedUpTo(at)  PROVE MergedUpTo(Len(chain))'
    BY <1>0, <1>1
  <2>1. \A k \in 1..(Len(chain) - 1) : k \in 1..(at - 1)
    BY <1>0
  <2> QED
    BY <1>0, <2>1 DEF MergedUpTo
<1> QED
  BY <1>2, <1>3, <1>4, <1>5 DEF CInv

\* CInv is an inductive invariant of the passes.
THEOREM ChainInductive == CSpec => []CInv
<1>1. CInv /\ [CNext]_cvars => CInv'
  <2> SUFFICES ASSUME CInv, [CNext]_cvars  PROVE CInv'
    OBVIOUS
  <2>1. CASE UNCHANGED cvars
    BY <2>1 DEF CInv, CTypeOK, ImagePreserved, MergedUpTo, cvars
  <2> QED
    BY <2>1, CanonicalizeC, MergeDataC, UnrollC, MergeBlocksC, MergeNextC, NextPassC
       DEF CNext
<1> QED
  BY <1>1, InitC, PTL DEF CSpec

\* Whatever the chain, the tool and the threshold, pass_canonicalize,
\* pass_unroll and pass_merge leave every byte of the program as it was.
THEOREM BytesStay == CSpec => []ImagePreserved
<1>1. CInv => ImagePreserved
  BY DEF CInv
<1> QED
  BY <1>1, ChainInductive, PTL

\* An element that expressions refer to goes on being where it was and as
\* long as it was, and after pass_merge no two blocks are left that could
\* have been one.
THEOREM ReferredStay == CSpec => []ReferencesHold
<1>1. CInv => ReferencesHold
  <2> SUFFICES ASSUME CInv  PROVE ReferencesHold
    OBVIOUS
  <2>1. Kept(orig, chain) /\ (phase = "done" => MergedUpTo(Len(chain)))
        /\ Len(chain) \in Nat
    BY DEF CInv, CTypeOK
  <2>2. \A j \in DOMAIN orig : orig[j].ref =>
          \E k \in DOMAIN chain :
             /\ chain[k].id = orig[j].id
             /\ Offset(chain, k) = Offset(orig, j)
             /\ Len(Contents(chain[k])) = Len(Contents(orig[j]))
    BY <2>1 DEF Kept
  <2>3. ASSUME phase = "done", NEW k \in 1..(Len(chain) - 1),
               chain[k].tag = "BLOCK", chain[k + 1].tag = "BLOCK"
        PROVE  chain[k].ref \/ chain[k + 1].ref
    <3>1. k < Len(chain)
      BY <2>1
    <3> QED
      BY <2>1, <2>3, <3>1 DEF MergedUpTo
  <2> QED
    BY <2>2, <2>3 DEF ReferencesHold
<1> QED
  BY <1>1, ChainInductive, PTL

-----------------------------------------------------------------------------
(* Part 2: the encoder and the disassembler.                               *)

-----------------------------------------------------------------------------
(* What cmd_size foresees is what cmd_generate writes.                     *)

CodeBytes(op) == {Byte(o, x) : o \in {"pfix", "nfix", op}, x \in Int}

\* The prefix bytes and the command byte are as many as cmd_size says.
LEMMA PrefixLength ==
  ASSUME NEW op, NEW arg \in Int
  PROVE  /\ PrefixBytes(arg) \in Seq(CodeBytes(op))
         /\ Len(PrefixBytes(arg)) + 1 = cmd_size(arg)
<1>w. \A k \in 1..7 : Weight[k] \in Int /\ Weight[k] >= 16 /\ Weight[k] > 0
  BY DEF Weight
<1>n. ASSUME NEW a \in Int, NEW j \in 0..7  PROVE Nibble(a, j) \in Int
  <2>1. CASE j = 0
    BY <2>1 DEF Nibble
  <2>2. CASE j # 0
    <3>1. j \in 1..7
      BY <2>2
    <3>2. a \div Weight[j] \in Int
      BY <1>w, <3>1
    <3> QED
      BY <2>2, <3>2 DEF Nibble
  <2> QED
    BY <2>1, <2>2
<1>1. CASE arg >= 0
  <2> DEFINE n == Shifts(arg)
  <2>1. n \in 0..7
    BY ShiftsMonotonic
  <2>2. PrefixBytes(arg) = [i \in 1..n |-> Byte("pfix", Nibble(arg, n + 1 - i))]
    BY <1>1 DEF PrefixBytes
  <2>3. cmd_size(arg) = 1 + n
    BY <1>1 DEF cmd_size
  <2> HIDE DEF n
  <2>4. \A i \in 1..n : Byte("pfix", Nibble(arg, n + 1 - i)) \in CodeBytes(op)
    <3> SUFFICES ASSUME NEW i \in 1..n
                 PROVE  Byte("pfix", Nibble(arg, n + 1 - i)) \in CodeBytes(op)
      OBVIOUS
    <3>1. n + 1 - i \in 0..7
      BY <2>1
    <3>2. Nibble(arg, n + 1 - i) \in Int
      BY <1>n, <3>1
    <3> QED
      BY <3>2 DEF CodeBytes
  <2>5. n \in Nat
    BY <2>1
  <2> QED
    BY <2>2, <2>3, <2>4, <2>5
<1>2. CASE arg < 0
  <2> DEFINE C == Compl(arg)
             A == {k \in 2..7 : C >= Weight[k]}
             B == {k \in 1..7 : C >= Weight[k]}
             n == Cardinality(A) + 1
  <2>0. C \in Int /\ C >= 0 /\ (arg >= -16 <=> C < 16)
    BY <1>2 DEF Compl
  <2>1. PrefixBytes(arg) = [i \in 1..n |->
                IF i = 1 THEN Byte("nfix", Nibble(C, n))
                         ELSE Byte("pfix", Nibble(arg, n + 1 - i))]
    BY <1>2 DEF PrefixBytes
  <2>2. cmd_size(arg) = 1 + (IF arg >= -16 THEN 1 ELSE 0) + Cardinality(B)
    BY <1>2 DEF cmd_size, Shifts
  <2> HIDE DEF C
  <2>3. /\ IsFiniteSet(B) /\ IsFiniteSet(A)
        /\ Cardinality(B) \in 0..7 /\ Cardinality(A) \in Nat
    <3>1. A \subseteq B /\ B \subseteq 1..7
      OBVIOUS
    <3>2. IsFiniteSet(1..7) /\ Cardinality(1..7) = 7
      BY SevenShifts
    <3>3. IsFiniteSet(B) /\ Cardinality(B) <= 7
      BY <3>1, <3>2, FS_Subset
    <3>4. IsFiniteSet(A)
      BY <3>1, <3>3, FS_Subset
    <3>5. Cardinality(A) \in Nat /\ Cardinality(B) \in Nat
      BY <3>3, <3>4, FS_CardinalityType
    <3> QED
      BY <3>3, <3>4, <3>5
  <2>4. Cardinality(B) = (IF arg >= -16 THEN 0 ELSE 1) + Cardinality(A)
    <3>1. CASE arg >= -16
      <4>1. A = {} /\ B = {}
        BY <1>w, <2>0, <3>1
      <4> QED
        BY <3>1, <4>1, FS_EmptySet
    <3>2. CASE ~ (arg >= -16)
      <4>1. C >= Weight[1]
        BY <2>0, <3>2 DEF Weight
      <4>2. B = A \union {1} /\ 1 \notin A
        BY <4>1
      <4>3. Cardinality(B) = Cardinality(A) + 1
        BY <2>3, <4>2, FS_AddElement
      <4> QED
        BY <2>3, <3>2, <4>3
    <3> QED
      BY <3>1, <3>2
  <2> HIDE DEF A, B
  <2>5. n \in 1..7 /\ n \in Nat
    <3>1. arg >= -16 => Cardinality(A) <= 6
      BY <1>w, <2>0, <2>3, <2>4, ShiftsOfNibble DEF B, Shifts
    <3> QED
      BY <2>3, <2>4, <3>1
  <2>6. cmd_size(arg) = 1 + n
    BY <2>2, <2>3, <2>4
  <2> HIDE DEF n
  <2> DEFINE F(i) == IF i = 1 THEN Byte("nfix", Nibble(C, n))
                     ELSE Byte("pfix", Nibble(arg, n + 1 - i))
  <2>7. \A i \in 1..n : F(i) \in CodeBytes(op)
    <3> SUFFICES ASSUME NEW i \in 1..n  PROVE F(i) \in CodeBytes(op)
      OBVIOUS
    <3>1. n + 1 - i \in 0..7 /\ n \in 0..7
      BY <2>5
    <3>2. Nibble(arg, n + 1 - i) \in Int /\ Nibble(C, n) \in Int
      BY <1>n, <2>0, <3>1
    <3> QED
      BY <3>2 DEF CodeBytes
  <2>8. PrefixBytes(arg) = [i \in 1..n |-> F(i)]
    BY <2>1
  <2> HIDE DEF F
  <2> QED
    BY <2>5, <2>6, <2>7, <2>8
<1> QED
  BY <1>1, <1>2

\* ast and lit lay a program out with cmd_size and write it with cmd_generate:
\* for every argument the two agree on the length of the shortest code, and a
\* slot is filled exactly when it is wide enough (shared/cmd.c).
THEOREM SizeIsLength ==
  ASSUME NEW op, NEW arg \in Int
  PROVE  /\ Len(cmd_generate(op, arg, 0)) = cmd_size(arg)
         /\ \A slot \in 1..CMD_MAXLEN :
              Len(cmd_generate(op, arg, slot)) = IF cmd_size(arg) <= slot THEN slot ELSE 0
<1> DEFINE B == CodeBytes(op)
           pre == PrefixBytes(arg)
           code == Append(pre, Byte(op, Nibble(arg, 0)))
           Fill(slot) == [i \in 1..(slot - Len(code)) |-> Byte("pfix", 0)]
<1>1. cmd_size(arg) \in 1..8
  BY CmdSizeType
<1>2. code \in Seq(B) /\ Len(code) = cmd_size(arg)
  <2>1. pre \in Seq(B) /\ Len(pre) + 1 = cmd_size(arg)
    BY PrefixLength
  <2>2. Byte(op, Nibble(arg, 0)) \in B
    <3>1. Nibble(arg, 0) \in Int
      BY DEF Nibble
    <3> QED
      BY <3>1 DEF CodeBytes
  <2>3. PICK b \in B : code = Append(pre, b)
    BY <2>2
  <2> HIDE DEF B, pre, code
  <2> QED
    BY <2>1, <2>3
<1>3. /\ cmd_generate(op, arg, 0) = IF Len(code) > 8 THEN <<>> ELSE Fill(0) \o code
      /\ \A slot \in Nat \ {0} : cmd_generate(op, arg, slot) =
           IF Len(code) > slot THEN <<>> ELSE Fill(slot) \o code
  BY DEF cmd_generate, TooNarrow, CMD_MAXLEN
<1>4. \A slot \in Nat : /\ slot >= Len(code) => Fill(slot) \in Seq(B) /\ Len(Fill(slot)) = slot - Len(code)
                        /\ slot = 0 => Fill(slot) = <<>>
  <2>1. Byte("pfix", 0) \in B
    BY DEF CodeBytes
  <2> HIDE DEF B, code
  <2>2. ASSUME NEW slot \in Nat, slot >= Len(code)
        PROVE  Fill(slot) \in Seq(B) /\ Len(Fill(slot)) = slot - Len(code)
    <3>1. slot - Len(code) \in Nat
      BY <1>1, <1>2, <2>2
    <3> QED
      BY <2>1, <3>1
  <2>3. Fill(0) = <<>>
    <3>1. 1..(0 - Len(code)) = {}
      BY <1>1, <1>2
    <3> QED
      BY <3>1
  <2> QED
    BY <2>2, <2>3
<1> HIDE DEF code, Fill, B
<1>5. Len(cmd_generate(op, arg, 0)) = cmd_size(arg)
  <2>0. ~ (Len(code) > 8)
    BY <1>1, <1>2
  <2>1. cmd_generate(op, arg, 0) = <<>> \o code
    BY <1>3, <1>4, <2>0
  <2>2. <<>> \o code = code
    BY <1>2, ConcatEmptySeq
  <2> QED
    BY <1>2, <2>1, <2>2
<1>6. ASSUME NEW slot \in 1..CMD_MAXLEN
      PROVE  Len(cmd_generate(op, arg, slot)) = IF cmd_size(arg) <= slot THEN slot ELSE 0
  <2>0. slot \in Nat \ {0}
    BY DEF CMD_MAXLEN
  <2>1. CASE cmd_size(arg) <= slot
    <3>1. cmd_generate(op, arg, slot) = Fill(slot) \o code
      <4>1. ~ (Len(code) > slot)
        BY <1>1, <1>2, <2>0, <2>1
      <4> QED
        BY <1>3, <2>0, <4>1
    <3>2. Fill(slot) \in Seq(B) /\ Len(Fill(slot)) = slot - Len(code)
      BY <1>1, <1>2, <1>4, <2>0, <2>1
    <3>3. Len(Fill(slot) \o code) = Len(Fill(slot)) + Len(code)
      BY <1>2, <3>2
    <3> QED
      BY <1>1, <1>2, <2>0, <2>1, <3>1, <3>2, <3>3
  <2>2. CASE ~ (cmd_size(arg) <= slot)
    <3>1. cmd_generate(op, arg, slot) = <<>>
      <4>1. Len(code) > slot
        BY <1>1, <1>2, <2>0, <2>2
      <4> QED
        BY <1>3, <2>0, <4>1
    <3> QED
      BY <2>2, <3>1
  <2> QED
    BY <2>1, <2>2
<1> QED
  BY <1>5, <1>6

-----------------------------------------------------------------------------
(* The digits of a word.                                                   *)

\* What is left of a word after j shifts by four bits.
Shifted(a, j) == IF j = 0 THEN a ELSE a \div Weight[j]

\* One more shift is one more division, the bits in between are a nibble.
LEMMA OneMoreShift ==
  ASSUME NEW a \in Int, NEW j \in 0..6
  PROVE  /\ Shifted(a, j) \in Int /\ Shifted(a, j + 1) \in Int
         /\ Shifted(a, j) = 16 * Shifted(a, j + 1) + Nibble(a, j)
<1>1. CASE j = 0
  BY <1>1 DEF Shifted, Nibble, Weight
<1>2. CASE j = 1
  BY <1>2 DEF Shifted, Nibble, Weight
<1>3. CASE j = 2
  BY <1>3 DEF Shifted, Nibble, Weight
<1>4. CASE j = 3
  BY <1>4 DEF Shifted, Nibble, Weight
<1>5. CASE j = 4
  BY <1>5 DEF Shifted, Nibble, Weight
<1>6. CASE j = 5
  BY <1>6 DEF Shifted, Nibble, Weight
<1>7. CASE j = 6
  BY <1>7 DEF Shifted, Nibble, Weight
<1> QED
  BY <1>1, <1>2, <1>3, <1>4, <1>5, <1>6, <1>7

\* Shifts commute with the complement.
LEMMA ShiftedCompl ==
  ASSUME NEW a \in Int, NEW j \in 0..7
  PROVE  Shifted(Compl(a), j) \in Int /\ Shifted(a, j) = Compl(Shifted(Compl(a), j))
<1>1. CASE j = 0
  BY <1>1 DEF Shifted, Compl
<1>2. CASE j = 1
  BY <1>2 DEF Shifted, Compl, Weight
<1>3. CASE j = 2
  BY <1>3 DEF Shifted, Compl, Weight
<1>4. CASE j = 3
  BY <1>4 DEF Shifted, Compl, Weight
<1>5. CASE j = 4
  BY <1>5 DEF Shifted, Compl, Weight
<1>6. CASE j = 5
  BY <1>6 DEF Shifted, Compl, Weight
<1>7. CASE j = 6
  BY <1>7 DEF Shifted, Compl, Weight
<1>8. CASE j = 7
  BY <1>8 DEF Shifted, Compl, Weight
<1> QED
  BY <1>1, <1>2, <1>3, <1>4, <1>5, <1>6, <1>7, <1>8

\* Between which powers of 16 a word lies that is shifted n times.
LEMMA ShiftsIs ==
  ASSUME NEW a \in Int, 0 <= a, a <= INT_MAX
  PROVE  \E n \in 0..7 :
           /\ Shifts(a) = n
           /\ Cardinality({k \in 2..7 : a >= Weight[k]}) = (IF n = 0 THEN 0 ELSE n - 1)
           /\ 0 <= Shifted(a, n) /\ Shifted(a, n) <= 15
           /\ n > 0 => Shifted(a, n) >= 1
           /\ n = 0 => Shifted(a, 1) = 0
<1> DEFINE F(i, j) == IF i > j THEN 0 ELSE j - i + 1
           Up(n) == (n = 0 \/ a >= Weight[n]) /\ (n = 7 \/ a < Weight[n + 1])
<1>1. PICK n \in 0..7 : Up(n)
  <2>1. Up(0) \/ Up(1) \/ Up(2) \/ Up(3) \/ Up(4) \/ Up(5) \/ Up(6) \/ Up(7)
    BY DEF Weight
  <2> QED
    BY <2>1
<1>2. {k \in 1..7 : a >= Weight[k]} = 1..n /\ {k \in 2..7 : a >= Weight[k]} = 2..n
  <2>1. ASSUME NEW k \in 1..7  PROVE a >= Weight[k] <=> k <= n
    <3>1. /\ Weight[k] \in Int
          /\ n # 0 /\ k <= n => Weight[k] <= Weight[n]
          /\ n # 7 /\ k > n => Weight[k] >= Weight[n + 1]
          /\ n # 0 => Weight[n] \in Int
          /\ n # 7 => Weight[n + 1] \in Int
      <4>1. \A i, j \in 1..7 : i <= j => Weight[i] <= Weight[j]
        BY DEF Weight
      <4>2. \A i \in 1..7 : Weight[i] \in Int
        BY DEF Weight
      <4>3. n # 0 => n \in 1..7
        OBVIOUS
      <4>4. n # 7 => n + 1 \in 1..7
        OBVIOUS
      <4> QED
        BY <4>1, <4>2, <4>3, <4>4
    <3> QED
      BY <1>1, <3>1
  <2> QED
    BY <2>1
<1>3. \A i, j \in Int : Cardinality(i..j) = F(i, j)
  BY FS_Interval
<1>4. F(1, n) = n /\ F(2, n) = (IF n = 0 THEN 0 ELSE n - 1)
  OBVIOUS
<1> HIDE DEF F
<1>5. Shifts(a) = n /\ Cardinality({k \in 2..7 : a >= Weight[k]}) = (IF n = 0 THEN 0 ELSE n - 1)
  <2>1. 1 \in Int /\ 2 \in Int /\ n \in Int
    OBVIOUS
  <2>2. Cardinality(1..n) = F(1, n) /\ Cardinality(2..n) = F(2, n)
    BY <1>3, <2>1
  <2> QED
    BY <1>2, <1>4, <2>2 DEF Shifts
<1>6. /\ 0 <= Shifted(a, n) /\ Shifted(a, n) <= 15
      /\ n > 0 => Shifted(a, n) >= 1
      /\ n = 0 => Shifted(a, 1) = 0
  <2>0. CASE n = 0
    BY <1>1, <2>0 DEF Shifted, Weight
  <2>1. CASE n = 1
    BY <1>1, <2>1 DEF Shifted, Weight
  <2>2. CASE n = 2
    BY <1>1, <2>2 DEF Shifted, Weight
  <2>3. CASE n = 3
    BY <1>1, <2>3 DEF Shifted, Weight
  <2>4. CASE n = 4
    BY <1>1, <2>4 DEF Shifted, Weight
  <2>5. CASE n = 5
    BY <1>1, <2>5 DEF Shifted, Weight
  <2>6. CASE n = 6
    BY <1>1, <2>6 DEF Shifted, Weight
  <2>7. CASE n = 7
    BY <1>1, <2>7 DEF Shifted, Weight, INT_MAX
  <2> QED
    BY <2>0, <2>1, <2>2, <2>3, <2>4, <2>5, <2>6, <2>7
<1> QED
  BY <1>5, <1>6

\* The bytes of the shortest code of a word: np prefixes, of which the first
\* is not pfix 0, and after i of them the digits of the word from the i-th.
IsCode(a, pre, np) ==
  /\ np \in 0..7
  /\ pre = [i \in 1..np |-> pre[i]]
  /\ \A i \in 1..np : IsPrefix1(pre[i]) /\ pre[i].nibble \in Int
  /\ np > 0 => pre[1] # Byte("pfix", 0)
  /\ np > 0 => Accumulate(0, pre[1]) = 16 * Shifted(a, np)
  /\ \A i \in 2..np : Accumulate(16 * Shifted(a, np + 2 - i), pre[i]) = 16 * Shifted(a, np + 1 - i)
  /\ np = 0 => Nibble(a, 0) = a

LEMMA PrefixesAre ==
  ASSUME NEW a, Word(a)
  PROVE  \E np : IsCode(a, PrefixBytes(a), np)
<1>a. a \in Int /\ Compl(INT_MAX) <= a /\ a <= INT_MAX
  BY DEF Word
<1>b. \A j \in 0..7, x \in Int : Nibble(x, j) = Shifted(x, j) % 16
  BY DEF Nibble, Shifted
<1>c. ASSUME NEW j \in 0..6
      PROVE  Accumulate(16 * Shifted(a, j + 1), Byte("pfix", Nibble(a, j))) = 16 * Shifted(a, j)
  <2>1. /\ Shifted(a, j) \in Int /\ Shifted(a, j + 1) \in Int
        /\ Shifted(a, j) = 16 * Shifted(a, j + 1) + Nibble(a, j)
    BY <1>a, OneMoreShift
  <2>2. Accumulate(16 * Shifted(a, j + 1), Byte("pfix", Nibble(a, j))) =
          (16 * Shifted(a, j + 1) + Nibble(a, j)) * 16
    BY DEF Accumulate, Byte
  <2> QED
    BY <2>1, <2>2
<1>d. \A j \in 0..7 : Nibble(a, j) \in Int /\ Shifted(a, j) \in Int
  <2> SUFFICES ASSUME NEW j \in 0..7  PROVE Nibble(a, j) \in Int /\ Shifted(a, j) \in Int
    OBVIOUS
  <2>1. Shifted(a, j) \in Int
    <3>1. CASE j = 7
      BY <1>a, <3>1 DEF Shifted, Weight
    <3>2. CASE j # 7
      <4>1. j \in 0..6
        BY <3>2
      <4> QED
        BY <1>a, <4>1, OneMoreShift
    <3> QED
      BY <3>1, <3>2
  <2> QED
    BY <1>a, <1>b, <2>1
<1>1. CASE a >= 0
  <2>1. PICK n \in 0..7 : /\ Shifts(a) = n
                          /\ 0 <= Shifted(a, n) /\ Shifted(a, n) <= 15
                          /\ n > 0 => Shifted(a, n) >= 1
    BY <1>1, <1>a, ShiftsIs
  <2> DEFINE pre == PrefixBytes(a)
  <2>2. pre = [i \in 1..n |-> Byte("pfix", Nibble(a, n + 1 - i))]
    BY <1>1, <2>1 DEF PrefixBytes
  <2> HIDE DEF pre
  <2>3. \A i \in 1..n : pre[i].op = "pfix" /\ pre[i].nibble = Nibble(a, n + 1 - i)
    BY <2>2 DEF Byte
  <2>4. Nibble(a, n) = Shifted(a, n)
    BY <1>a, <1>b, <1>d, <2>1
  <2>5. n > 0 => pre[1] # Byte("pfix", 0) /\ Accumulate(0, pre[1]) = 16 * Shifted(a, n)
    <3> SUFFICES ASSUME n > 0
                 PROVE  pre[1] # Byte("pfix", 0) /\ Accumulate(0, pre[1]) = 16 * Shifted(a, n)
      OBVIOUS
    <3>1. pre[1].op = "pfix" /\ pre[1].nibble = Shifted(a, n)
      BY <2>3, <2>4
    <3>2. Accumulate(0, pre[1]) = (0 + Shifted(a, n)) * 16
      BY <3>1 DEF Accumulate
    <3> QED
      BY <1>d, <2>1, <3>1, <3>2 DEF Byte
  <2>6. ASSUME NEW i \in 2..n
        PROVE  Accumulate(16 * Shifted(a, n + 2 - i), pre[i]) = 16 * Shifted(a, n + 1 - i)
    <3>1. pre[i] = Byte("pfix", Nibble(a, n + 1 - i))
      BY <2>2
    <3>2. n + 1 - i \in 0..6 /\ n + 1 - i + 1 = n + 2 - i
      BY <2>1
    <3> QED
      BY <1>c, <3>1, <3>2
  <2>7. n = 0 => Nibble(a, 0) = a
    BY <2>4 DEF Shifted
  <2>8. pre = [i \in 1..n |-> pre[i]]
    BY <2>2
  <2>9. \A i \in 1..n : IsPrefix1(pre[i]) /\ pre[i].nibble \in Int
    BY <1>d, <2>3 DEF IsPrefix1
  <2>10. IsCode(a, pre, n)
    BY <2>1, <2>5, <2>6, <2>7, <2>8, <2>9 DEF IsCode
  <2> QED
    BY <2>10 DEF pre
<1>2. CASE a < 0
  <2>0. Compl(a) \in Int /\ 0 <= Compl(a) /\ Compl(a) <= INT_MAX
    BY <1>2, <1>a DEF Compl, INT_MAX
  <2> DEFINE C == Compl(a)
  <2>1. PICK m \in 0..7 : /\ Cardinality({k \in 2..7 : C >= Weight[k]}) = (IF m = 0 THEN 0 ELSE m - 1)
                          /\ 0 <= Shifted(C, m) /\ Shifted(C, m) <= 15
                          /\ m = 0 => Shifted(C, 1) = 0
    BY <2>0, ShiftsIs
  <2> DEFINE n == IF m = 0 THEN 1 ELSE m
             pre == PrefixBytes(a)
  <2>2. /\ n \in 1..7 /\ n \in 0..7 /\ n > 0 /\ n # 0
        /\ 0 <= Shifted(C, n) /\ Shifted(C, n) <= 15
        /\ Cardinality({k \in 2..7 : C >= Weight[k]}) + 1 = n
    BY <2>1
  <2> HIDE DEF n
  <2>3. pre = [i \in 1..n |-> IF i = 1 THEN Byte("nfix", Nibble(C, n))
                              ELSE Byte("pfix", Nibble(a, n + 1 - i))]
    <3>1. ~ (a >= 0)
      BY <1>a, <1>2
    <3> QED
      BY <2>2, <3>1, Zenon DEF PrefixBytes
  <2> HIDE DEF pre, C
  <2>4. C \in Int /\ Shifted(C, n) \in Int /\ Shifted(a, n) = Compl(Shifted(C, n))
    <3>1. a \in Int /\ n \in 0..7
      BY <1>a, <2>2
    <3>2. Shifted(C, n) \in Int /\ Shifted(a, n) = Compl(Shifted(C, n))
      BY ONLY <3>1, ShiftedCompl DEF C
    <3> QED
      BY <2>0, <3>2 DEF C
  <2>5. Nibble(C, n) = Shifted(C, n)
    BY <1>b, <2>2, <2>4
  <2>6. pre[1] = Byte("nfix", Shifted(C, n))
    BY <2>2, <2>3, <2>5
  <2>7. pre[1] # Byte("pfix", 0) /\ Accumulate(0, pre[1]) = 16 * Shifted(a, n)
    <3>1. Accumulate(0, pre[1]) = Compl(0 + Shifted(C, n)) * 16
      BY <2>6 DEF Accumulate, Byte
    <3>2. pre[1] # Byte("pfix", 0)
      BY <2>6 DEF Byte
    <3> QED
      BY <2>4, <3>1, <3>2 DEF Compl
  <2>8. ASSUME NEW i \in 2..n
        PROVE  Accumulate(16 * Shifted(a, n + 2 - i), pre[i]) = 16 * Shifted(a, n + 1 - i)
    <3>1. pre[i] = Byte("pfix", Nibble(a, n + 1 - i))
      BY <2>2, <2>3
    <3>2. n + 1 - i \in 0..6 /\ n + 1 - i + 1 = n + 2 - i
      BY <2>2
    <3> QED
      BY <1>c, <3>1, <3>2
  <2>9. pre = [i \in 1..n |-> pre[i]]
    BY <2>3
  <2>10. ASSUME NEW i \in 1..n  PROVE IsPrefix1(pre[i]) /\ pre[i].nibble \in Int
    <3>1. CASE i = 1
      BY <2>4, <2>6, <3>1 DEF IsPrefix1, Byte
    <3>2. CASE i # 1
      <4>1. pre[i] = Byte("pfix", Nibble(a, n + 1 - i)) /\ n + 1 - i \in 0..7
        BY <2>2, <2>3, <3>2
      <4> QED
        BY <1>d, <4>1 DEF IsPrefix1, Byte
    <3> QED
      BY <3>1, <3>2
  <2>11. IsCode(a, pre, n)
    BY <2>2, <2>7, <2>8, <2>9, <2>10, Zenon DEF IsCode
  <2> QED
    BY <2>11 DEF pre
<1> QED
  BY <1>1, <1>2, <1>a

-----------------------------------------------------------------------------
(* The prefix loop of disassemble.                                         *)

\* What oreg is in front of each byte.
IsOreg(f, bytes, p) ==
  f = [k \in 0..(p - 1) |-> IF k = 0 THEN 0 ELSE Accumulate(f[k - 1], bytes[k])]

LEMMA OregIs ==
  ASSUME NEW bytes, NEW p \in Nat \ {0}, NEW f, IsOreg(f, bytes, p)
  PROVE  Oreg(bytes, p) = f[p - 1] + bytes[p].nibble
<1> DEFINE g == CHOOSE g : IsOreg(g, bytes, p)
<1>1. IsOreg(g, bytes, p)
  OBVIOUS
<1>2. Oreg(bytes, p) = g[p - 1] + bytes[p].nibble
  BY DEF Oreg, IsOreg
<1> HIDE DEF g
<1> DEFINE S == {k \in Nat : k <= p - 1 => f[k] = g[k]}
<1>3. 0 \in S
  BY <1>1 DEF IsOreg
<1>4. \A n \in S : n + 1 \in S
  <2> SUFFICES ASSUME NEW n \in S, n + 1 <= p - 1  PROVE f[n + 1] = g[n + 1]
    OBVIOUS
  <2>1. f[n] = g[n] /\ n \in Nat /\ n + 1 \in 0..(p - 1) /\ n + 1 # 0 /\ (n + 1) - 1 = n
    OBVIOUS
  <2>2. f[n + 1] = Accumulate(f[(n + 1) - 1], bytes[n + 1])
    BY <2>1 DEF IsOreg
  <2>3. g[n + 1] = Accumulate(g[(n + 1) - 1], bytes[n + 1])
    BY <1>1, <2>1 DEF IsOreg
  <2> QED
    BY <2>1, <2>2, <2>3
<1>5. S = Nat
  <2>1. S \in SUBSET Nat
    OBVIOUS
  <2> HIDE DEF S
  <2> QED
    BY <1>3, <1>4, <2>1, SetInduction
<1>6. p - 1 \in S
  BY <1>5
<1>7. f[p - 1] = g[p - 1]
  BY <1>6
<1> QED
  BY <1>2, <1>7

\* A byte on its own: no prefix is added up.
LEMMA OregAlone ==
  ASSUME NEW bytes
  PROVE  Oreg(bytes, 1) = 0 + bytes[1].nibble
<1> DEFINE f == [k \in 0..(1 - 1) |-> 0]
<1>1. IsOreg(f, bytes, 1)
  BY DEF IsOreg
<1>2. f[1 - 1] = 0
  OBVIOUS
<1>3. 1 \in Nat \ {0}
  OBVIOUS
<1> HIDE DEF f
<1> QED
  BY <1>1, <1>2, <1>3, OregIs

\* The prefixes of a word and its last nibble give the word again.
LEMMA OregOfCode ==
  ASSUME NEW a, Word(a), NEW pre, NEW np, IsCode(a, pre, np), NEW bytes,
         \A i \in 1..np : bytes[i] = pre[i],
         bytes[np + 1].nibble = Nibble(a, 0)
  PROVE  Oreg(bytes, np + 1) = a
<1>0. /\ np \in 0..7 /\ np \in Nat /\ a \in Int /\ np + 1 \in Nat \ {0} /\ (np + 1) - 1 = np
  BY DEF IsCode, Word
<1> DEFINE V(k) == IF k = 0 THEN 0 ELSE 16 * Shifted(a, np + 1 - k)
           f == [k \in 0..((np + 1) - 1) |-> V(k)]
<1>1. ASSUME NEW k \in 0..np
      PROVE  V(k) = IF k = 0 THEN 0 ELSE Accumulate(V(k - 1), bytes[k])
  <2>1. CASE k = 0
    BY <2>1
  <2>2. CASE k = 1
    <3>1. V(k) = 16 * Shifted(a, np) /\ V(k - 1) = 0 /\ bytes[k] = pre[1] /\ np > 0
      BY <1>0, <2>2
    <3> QED
      BY <2>2, <3>1 DEF IsCode
  <2>3. CASE k > 1
    <3>1. k \in 2..np /\ k \in 1..np /\ k - 1 # 0 /\ np + 1 - (k - 1) = np + 2 - k /\ k # 0
      BY <1>0, <2>3
    <3>2. V(k) = 16 * Shifted(a, np + 1 - k) /\ V(k - 1) = 16 * Shifted(a, np + 2 - k)
      BY <3>1
    <3> HIDE DEF V
    <3> QED
      BY <3>1, <3>2 DEF IsCode
  <2> QED
    BY <1>0, <2>1, <2>2, <2>3
<1>2. IsOreg(f, bytes, np + 1)
  <2>1. \A k \in 0..((np + 1) - 1) : f[k] = V(k)
    OBVIOUS
  <2>2. ASSUME NEW k \in 0..((np + 1) - 1)
        PROVE  V(k) = IF k = 0 THEN 0 ELSE Accumulate(f[k - 1], bytes[k])
    <3>0. k \in 0..np
      BY <1>0
    <3>1. CASE k = 0
      BY <3>1
    <3>2. CASE k # 0
      <4>1. k - 1 \in 0..((np + 1) - 1)
        BY <1>0, <3>2
      <4>2. f[k - 1] = V(k - 1)
        BY <2>1, <4>1
      <4> HIDE DEF f, V
      <4> QED
        BY <1>1, <3>0, <3>2, <4>2
    <3> QED
      BY <3>1, <3>2
  <2>3. f = [k \in 0..((np + 1) - 1) |-> V(k)]
    OBVIOUS
  <2> HIDE DEF f, V
  <2> QED
    BY <2>2, <2>3, Zenon DEF IsOreg
<1>3. f[(np + 1) - 1] = V(np)
  BY <1>0
<1> HIDE DEF f
<1>4. Oreg(bytes, np + 1) = V(np) + Nibble(a, 0)
  BY <1>0, <1>2, <1>3, OregIs
<1>5. V(np) + Nibble(a, 0) = a
  <2>1. CASE np = 0
    <3>1. Nibble(a, 0) = a /\ V(np) = 0
      BY <2>1 DEF IsCode
    <3> HIDE DEF V
    <3> QED
      BY <1>0, <3>1
  <2>2. CASE np # 0
    <3>1. V(np) = 16 * Shifted(a, 1)
      BY <1>0, <2>2
    <3>2. /\ Shifted(a, 0) = 16 * Shifted(a, 0 + 1) + Nibble(a, 0) /\ Shifted(a, 0) = a
      BY <1>0, OneMoreShift DEF Shifted
    <3>3. 0 + 1 = 1
      OBVIOUS
    <3> HIDE DEF V
    <3> QED
      BY <3>1, <3>2, <3>3
  <2> QED
    BY <2>1, <2>2
<1> QED
  BY <1>4, <1>5

-----------------------------------------------------------------------------
(* The line disassemble makes of the start of the buffer.                  *)

\* The bytes of a dump, whatever their four bits.
FunctionCode == {"pfix", "nfix"} \union {c.op : c \in Commands}
AnyByte == [op : FunctionCode, nibble : Int]

\* The part of the buffer disassemble looks at.
IsWindow(win, bytes) ==
  /\ win \in Seq(AnyByte) /\ Len(win) \in Nat /\ Len(win) <= Len(bytes) /\ Len(win) <= 8
  /\ Len(win) = 8 \/ Len(win) = Len(bytes)
  /\ DOMAIN win = 1..Len(win)
  /\ \A i \in 1..Len(win) : win[i] = bytes[i]
  /\ Len(bytes) \in Nat

LEMMA WindowIs ==
  ASSUME NEW bytes \in Seq(AnyByte)
  PROVE  IsWindow(SubSeq(bytes, 1, IF Len(bytes) > CMD_MAXLEN THEN CMD_MAXLEN ELSE Len(bytes)), bytes)
<1> DEFINE win == SubSeq(bytes, 1, IF Len(bytes) > CMD_MAXLEN THEN CMD_MAXLEN ELSE Len(bytes))
<1> DEFINE n == IF Len(bytes) > 8 THEN 8 ELSE Len(bytes)
<1>1. n \in 0..Len(bytes) /\ n <= 8 /\ (n = 8 \/ n = Len(bytes))
  OBVIOUS
<1>2. win = SubSeq(bytes, 1, n)
  BY DEF CMD_MAXLEN
<1>5. IsWindow(win, bytes) => IsWindow(SubSeq(bytes, 1, IF Len(bytes) > CMD_MAXLEN THEN CMD_MAXLEN ELSE Len(bytes)), bytes)
  OBVIOUS
<1> HIDE DEF n, win
<1>3. win \in Seq(AnyByte) /\ Len(win) = n
  BY <1>1, <1>2, Halves
<1>4. ASSUME NEW i \in 1..n  PROVE win[i] = bytes[i]
  <2>1. i \in 1..(n - 1 + 1) /\ 1 + i - 1 = i /\ 1 \in 1..(Len(bytes) + 1) /\ n \in (1 - 1)..Len(bytes)
    BY <1>1
  <2>2. \A j \in 1..(n - 1 + 1) : SubSeq(bytes, 1, n)[j] = bytes[1 + j - 1]
    BY ONLY bytes \in Seq(AnyByte), <2>1, SubSeqProperties
  <2> QED
    BY <1>2, <2>1, <2>2
<1>6. IsWindow(win, bytes)
  BY <1>1, <1>3, <1>4 DEF IsWindow
<1> QED
  BY <1>5, <1>6

\* A line is at least one byte and at most the buffer.
LEMMA LineSize ==
  ASSUME NEW bytes \in Seq(AnyByte), Len(bytes) > 0
  PROVE  disassemble(bytes).size \in 1..Len(bytes) /\ disassemble(bytes).size <= 8
<1> DEFINE win == SubSeq(bytes, 1, IF Len(bytes) > CMD_MAXLEN THEN CMD_MAXLEN ELSE Len(bytes))
           ends == {i \in DOMAIN win : ~ IsPrefix1(win[i])}
           alone == win[1] = Byte("pfix", 0) \/ ends = {}
           p == IF alone THEN 1 ELSE Min(ends)
<1>1. disassemble(bytes).size = p
  BY DEF disassemble
<1>w. IsWindow(win, bytes)
  BY WindowIs, Zenon
<1> HIDE DEF win
<1>2. /\ Len(win) \in Nat /\ Len(win) <= Len(bytes) /\ Len(win) <= 8 /\ DOMAIN win = 1..Len(win)
      /\ Len(win) >= 1
  BY <1>w DEF IsWindow
<1>3. ends \subseteq 1..Len(win)
  BY <1>2
<1> HIDE DEF ends
<1>4. ~ alone => Min(ends) \in 1..Len(win)
  <2>1. ends # {} => \E x \in ends : \A y \in ends : x <= y
    <3>1. ends \in SUBSET Nat
      BY <1>2, <1>3
    <3> QED
      BY <3>1, LeastNat
  <2> QED
    BY <1>3, <2>1 DEF Min
<1> QED
  BY <1>1, <1>2, <1>4

\* A pfix 0 has a line of its own.
LEMMA LineOfPad ==
  ASSUME NEW bytes \in Seq(AnyByte), Len(bytes) > 0, bytes[1] = Byte("pfix", 0)
  PROVE  /\ disassemble(bytes).op = "pfix" /\ disassemble(bytes).arg = 0
         /\ disassemble(bytes).size = 1
<1> DEFINE win == SubSeq(bytes, 1, IF Len(bytes) > CMD_MAXLEN THEN CMD_MAXLEN ELSE Len(bytes))
           ends == {i \in DOMAIN win : ~ IsPrefix1(win[i])}
           alone == win[1] = Byte("pfix", 0) \/ ends = {}
           p == IF alone THEN 1 ELSE Min(ends)
           fpu == win[p].op = "ldc" /\ Oreg(win, p) \in FpuCodes /\ FollowedByFpentry(win, p)
<1>1. disassemble(bytes) = [op |-> IF fpu THEN "fpu" ELSE win[p].op, arg |-> Oreg(win, p), size |-> p]
  BY DEF disassemble
<1>w. IsWindow(win, bytes)
  BY WindowIs, Zenon
<1> HIDE DEF win
<1>2. Len(win) \in Nat /\ Len(win) >= 1 /\ \A i \in 1..Len(win) : win[i] = bytes[i]
  BY <1>w DEF IsWindow
<1>3. win[1] = Byte("pfix", 0)
  BY <1>2
<1>4. p = 1
  BY <1>3
<1> HIDE DEF p
<1>5. win[p].op = "pfix" /\ win[1].nibble = 0
  BY <1>3, <1>4 DEF Byte
<1>6. Oreg(win, p) = 0
  BY <1>4, <1>5, OregAlone
<1>7. ~ fpu
  BY <1>5
<1> QED
  BY <1>1, <1>4, <1>5, <1>6, <1>7

ShowsLine(bytes, op, a, np) ==
  /\ \/ disassemble(bytes).op = op
     \/ /\ disassemble(bytes).op = "fpu" /\ op = "ldc" /\ a \in FpuCodes
        /\ np + 3 <= Len(bytes)
        /\ bytes[np + 2] = Byte("pfix", 0) /\ bytes[np + 3] = Byte("opr", 11)
  /\ disassemble(bytes).arg = a
  /\ disassemble(bytes).size = np + 1

\* A code makes one line with what it was made of, unless what looks like the
\* entry code of the fpu comes next.
LEMMA LineOfCode ==
  ASSUME NEW bytes \in Seq(AnyByte), NEW a, Word(a), NEW pre, NEW np, IsCode(a, pre, np),
         np + 1 <= Len(bytes),
         \A i \in 1..np : bytes[i] = pre[i],
         NEW op, op \notin {"pfix", "nfix"},
         bytes[np + 1] = Byte(op, Nibble(a, 0))
  PROVE  ShowsLine(bytes, op, a, np)
<1> DEFINE win == SubSeq(bytes, 1, IF Len(bytes) > CMD_MAXLEN THEN CMD_MAXLEN ELSE Len(bytes))
           ends == {i \in DOMAIN win : ~ IsPrefix1(win[i])}
           alone == win[1] = Byte("pfix", 0) \/ ends = {}
           p == IF alone THEN 1 ELSE Min(ends)
           fpu == win[p].op = "ldc" /\ Oreg(win, p) \in FpuCodes /\ FollowedByFpentry(win, p)
<1>0. np \in 0..7 /\ np \in Nat
  BY DEF IsCode
<1>1. disassemble(bytes) = [op |-> IF fpu THEN "fpu" ELSE win[p].op, arg |-> Oreg(win, p), size |-> p]
  BY DEF disassemble
<1>w. IsWindow(win, bytes)
  BY WindowIs, Zenon
<1> HIDE DEF win
<1>2. /\ Len(win) \in Nat /\ Len(win) <= Len(bytes) /\ DOMAIN win = 1..Len(win)
      /\ Len(win) = 8 \/ Len(win) = Len(bytes)
      /\ \A i \in 1..Len(win) : win[i] = bytes[i]
  BY <1>w DEF IsWindow
<1>3. np + 1 <= Len(win) /\ \A i \in 1..np : win[i] = pre[i]
  BY <1>0, <1>2
<1>4. win[np + 1] = Byte(op, Nibble(a, 0))
  <2>1. np + 1 \in 1..Len(win)
    BY <1>0, <1>3
  <2> QED
    BY <1>2, <2>1
<1>5. win[np + 1].op = op /\ win[np + 1].nibble = Nibble(a, 0) /\ ~ IsPrefix1(win[np + 1])
  BY <1>4 DEF Byte, IsPrefix1
<1>6. /\ np + 1 \in ends /\ \A i \in ends : np + 1 <= i
      /\ ends \subseteq Int
  <2>1. \A i \in 1..np : IsPrefix1(win[i])
    BY <1>3 DEF IsCode
  <2> QED
    BY <1>0, <1>2, <1>3, <1>5, <2>1
<1>7. ~ alone
  <2>1. CASE np = 0
    BY <1>5, <1>6, <2>1 DEF Byte
  <2>2. CASE np # 0
    <3>1. win[1] = pre[1] /\ np > 0
      BY <1>0, <1>3, <2>2
    <3> QED
      BY <1>6, <3>1 DEF IsCode
  <2> QED
    BY <2>1, <2>2
<1> HIDE DEF ends
<1>8. Min(ends) = np + 1
  <2>1. \A x \in ends : (\A y \in ends : x <= y) => x = np + 1
    BY <1>0, <1>6
  <2> QED
    BY <1>6, <2>1 DEF Min
<1>9. p = np + 1
  BY <1>7, <1>8
<1> HIDE DEF p
<1>10. Oreg(win, p) = a
  BY <1>3, <1>5, <1>9, OregOfCode
<1>11. ASSUME FollowedByFpentry(win, np + 1)
       PROVE  /\ np + 3 <= Len(bytes)
              /\ bytes[np + 2] = Byte("pfix", 0) /\ bytes[np + 3] = Byte("opr", 11)
  <2>1. /\ np + 1 + 2 <= Len(win) /\ win[np + 1 + 1] = Byte("pfix", (FPENTRY \div 256) % 16)
        /\ win[np + 1 + 2] = Byte("opr", FPENTRY % 16)
    BY <1>11 DEF FollowedByFpentry
  <2>2. (FPENTRY \div 256) % 16 = 0 /\ FPENTRY % 16 = 11
    BY DEF FPENTRY
  <2>3. np + 1 + 1 = np + 2 /\ np + 1 + 2 = np + 3 /\ np + 2 \in 1..Len(win) /\ np + 3 \in 1..Len(win)
    BY <1>0, <1>2, <2>1
  <2>4. bytes[np + 2] = Byte("pfix", 0) /\ bytes[np + 3] = Byte("opr", 11)
    BY <1>2, <2>1, <2>2, <2>3
  <2>5. np + 3 <= Len(bytes)
    BY <1>0, <1>2, <2>3
  <2> QED
    BY <2>4, <2>5
<1>12. ASSUME fpu
       PROVE  /\ op = "ldc" /\ a \in FpuCodes /\ np + 3 <= Len(bytes)
              /\ bytes[np + 2] = Byte("pfix", 0) /\ bytes[np + 3] = Byte("opr", 11)
  BY <1>5, <1>9, <1>10, <1>11, <1>12
<1> HIDE DEF fpu
<1>13. /\ \/ disassemble(bytes).op = op
          \/ /\ disassemble(bytes).op = "fpu" /\ op = "ldc" /\ a \in FpuCodes
             /\ np + 3 <= Len(bytes)
             /\ bytes[np + 2] = Byte("pfix", 0) /\ bytes[np + 3] = Byte("opr", 11)
       /\ disassemble(bytes).arg = a
       /\ disassemble(bytes).size = np + 1
  BY <1>1, <1>5, <1>9, <1>10, <1>12
<1> QED
  BY <1>13 DEF ShowsLine

-----------------------------------------------------------------------------
(* Sequences put together.                                                 *)

LEMMA JoinedIs ==
  ASSUME NEW D, NEW a \in Seq(D), NEW b \in Seq(D), NEW s, s = a \o b
  PROVE  /\ s \in Seq(D) /\ Len(s) = Len(a) + Len(b)
         /\ \A i \in 1..Len(a) : s[i] = a[i]
         /\ \A i \in 1..Len(b) : s[Len(a) + i] = b[i]
<1>1. s \in Seq(D) /\ Len(s) = Len(a) + Len(b)
  BY ConcatProperties
<1>2. \A i \in 1..Len(a) : s[i] = a[i]
  OBVIOUS
<1>3. ASSUME NEW i \in 1..Len(b)  PROVE s[Len(a) + i] = b[i]
  <2>1. Len(a) \in Nat /\ Len(b) \in Nat /\ i \in Nat
    OBVIOUS
  <2>2. /\ Len(a) + i \in 1..(Len(a) + Len(b)) /\ ~ (Len(a) + i <= Len(a))
        /\ Len(a) + i - Len(a) = i
    BY <2>1
  <2> QED
    BY <2>2, ConcatProperties
<1> QED
  BY <1>1, <1>2, <1>3

-----------------------------------------------------------------------------
(* The bytes of the program.                                               *)

Code(c) == cmd_generate(c.op, c.arg, c.slot)

\* s is q bytes of padding, np prefixes and the byte of the command.
IsLaid(c, s, q, np) ==
  /\ s \in Seq(AnyByte) /\ q \in Nat /\ Len(s) = q + np + 1 /\ cmd_size(c.arg) = np + 1
  /\ IsCode(c.arg, PrefixBytes(c.arg), np)
  /\ \A i \in 1..q : s[i] = Byte("pfix", 0)
  /\ \A i \in 1..np : s[q + i] = PrefixBytes(c.arg)[i]
  /\ s[q + np + 1] = Byte(c.op, Nibble(c.arg, 0))
  /\ c.slot = 0 => q = 0
  /\ c.slot # 0 => c.slot = q + np + 1

\* What cmd_generate makes of a command ast can have.
LEMMA CodeLaid ==
  ASSUME NEW c \in Commands
  PROVE  \E q, np : IsLaid(c, Code(c), q, np)
<1>1. /\ Word(c.arg) /\ c.arg \in Int
      /\ c.slot = 0 \/ c.slot \in cmd_size(c.arg)..CMD_MAXLEN
  BY CommandsAssumption, Zenon DEF Word
<1>b. ASSUME NEW b \in CodeBytes(c.op)  PROVE b \in AnyByte
  <2>1. PICK o \in {"pfix", "nfix", c.op}, x \in Int : b = Byte(o, x)
    BY DEF CodeBytes
  <2>2. o \in FunctionCode
    BY DEF FunctionCode
  <2> QED
    BY <2>1, <2>2 DEF AnyByte, Byte
<1> DEFINE pre == PrefixBytes(c.arg)
           last == Byte(c.op, Nibble(c.arg, 0))
           code == Append(pre, last)
           fill == [i \in 1..(c.slot - Len(code)) |-> Byte("pfix", 0)]
<1>2. PICK np : IsCode(c.arg, pre, np)
  BY <1>1, PrefixesAre
<1>3. pre \in Seq(AnyByte) /\ Len(pre) + 1 = cmd_size(c.arg)
  <2>1. pre \in Seq(CodeBytes(c.op)) /\ Len(pre) + 1 = cmd_size(c.arg)
    BY <1>1, PrefixLength
  <2>2. CodeBytes(c.op) \subseteq AnyByte
    BY <1>b
  <2> HIDE DEF pre
  <2>3. \A i \in 1..Len(pre) : pre[i] \in AnyByte
    BY <2>1, <2>2
  <2> QED
    BY <2>1, <2>3
<1>4. np \in 0..7 /\ np \in Nat /\ Len(pre) = np /\ cmd_size(c.arg) = np + 1
  <2>1. np \in 0..7 /\ pre = [i \in 1..np |-> pre[i]]
    BY <1>2 DEF IsCode
  <2> HIDE DEF pre
  <2>2. DOMAIN pre = 1..np
    BY <2>1
  <2> QED
    BY <1>3, <2>1, <2>2
<1>5. last \in AnyByte
  <2>1. Nibble(c.arg, 0) \in Int
    BY <1>1 DEF Nibble
  <2> QED
    BY <1>b, <2>1 DEF CodeBytes
<1>6. Code(c) = IF Len(code) > (IF c.slot # 0 THEN c.slot ELSE CMD_MAXLEN) THEN <<>> ELSE fill \o code
  BY Zenon DEF Code, cmd_generate, TooNarrow
<1>c. code = Append(pre, last)
  OBVIOUS
<1> HIDE DEF pre, last, code
<1>7. /\ code \in Seq(AnyByte) /\ Len(code) = np + 1 /\ code[np + 1] = last
      /\ \A i \in 1..np : code[i] = pre[i]
  BY ONLY <1>3, <1>4, <1>5, <1>c, AppendIs
<1>8. ~ (Len(code) > (IF c.slot # 0 THEN c.slot ELSE CMD_MAXLEN))
  <2>1. CASE c.slot = 0
    BY <1>4, <1>7, <2>1 DEF CMD_MAXLEN
  <2>2. CASE c.slot # 0
    BY <1>1, <1>3, <1>4, <1>7, <2>2
  <2> QED
    BY <2>1, <2>2
<1> DEFINE q == IF c.slot = 0 THEN 0 ELSE c.slot - Len(code)
<1>9. q \in Nat /\ (c.slot = 0 => q = 0) /\ (c.slot # 0 => c.slot = q + np + 1)
  <2>1. CASE c.slot = 0
    BY <2>1
  <2>2. CASE c.slot # 0
    BY <1>1, <1>3, <1>4, <1>7, <2>2
  <2> QED
    BY <2>1, <2>2
<1>10. 1..(c.slot - Len(code)) = 1..q
  <2>1. CASE c.slot = 0
    <3>1. 1..(0 - Len(code)) = {} /\ 1..0 = {}
      BY <1>4, <1>7
    <3> QED
      BY <2>1, <3>1
  <2>2. CASE c.slot # 0
    BY <2>2
  <2> QED
    BY <2>1, <2>2
<1> HIDE DEF q
<1>11. fill = Rep(q, Byte("pfix", 0))
  BY <1>10 DEF Rep
<1>12. /\ fill \in Seq(AnyByte) /\ Len(fill) = q /\ \A i \in 1..q : fill[i] = Byte("pfix", 0)
  <2>1. Byte("pfix", 0) \in AnyByte
    BY <1>b DEF CodeBytes
  <2> HIDE DEF fill
  <2> QED
    BY ONLY <1>9, <1>11, <2>1, RepIs
<1> HIDE DEF fill
<1> DEFINE s == Code(c)
<1>13. s = fill \o code
  BY <1>6, <1>8, Zenon
<1> HIDE DEF s
<1>14. /\ s \in Seq(AnyByte) /\ Len(s) = q + np + 1
       /\ \A i \in 1..q : s[i] = Byte("pfix", 0)
       /\ \A i \in 1..(np + 1) : s[q + i] = code[i]
  <2>1. /\ s \in Seq(AnyByte) /\ Len(s) = Len(fill) + Len(code)
        /\ \A i \in 1..Len(fill) : s[i] = fill[i]
        /\ \A i \in 1..Len(code) : s[Len(fill) + i] = code[i]
    BY ONLY <1>7, <1>12, <1>13, JoinedIs
  <2> QED
    <3>1. Len(fill) = q /\ Len(code) = np + 1 /\ q \in Nat /\ np \in Nat
      BY <1>4, <1>7, <1>9, <1>12
    <3>2. Len(s) = q + np + 1
      BY ONLY <2>1, <3>1
    <3>3. \A i \in 1..q : s[i] = Byte("pfix", 0)
      <4>1. \A i \in 1..q : s[i] = fill[i] /\ fill[i] = Byte("pfix", 0)
        BY ONLY <1>12, <2>1, <3>1, Zenon
      <4> QED
        BY ONLY <4>1, Zenon
    <3>4. \A i \in 1..(np + 1) : s[q + i] = code[i]
      BY ONLY <2>1, <3>1, Zenon
    <3> QED
      BY ONLY <2>1, <3>2, <3>3, <3>4, Zenon
<1>15. \A i \in 1..np : s[q + i] = pre[i]
  BY <1>4, <1>7, <1>14
<1>16. s[q + np + 1] = last
  <2>1. np + 1 \in 1..(np + 1) /\ q + (np + 1) = q + np + 1
    BY <1>4, <1>9
  <2> QED
    BY <1>7, <1>14, <2>1
<1>17. IsLaid(c, s, q, np)
  BY <1>2, <1>4, <1>9, <1>14, <1>15, <1>16 DEF IsLaid, pre, last
<1> QED
  BY <1>17 DEF s

\* What looks like the entry code of the fpu is an opr 11 in a slot.
LEMMA NoFpentry ==
  ASSUME NEW c \in Commands
  PROVE  /\ Code(c) \in Seq(AnyByte) /\ Len(Code(c)) \in Nat /\ Len(Code(c)) >= 1
         /\ Code(c)[1] = Byte("pfix", 0) 
              => Len(Code(c)) >= 2 /\ (Code(c)[2] = Byte("opr", 11) => PaddedFpentry(c))
<1>1. PICK q, np : IsLaid(c, Code(c), q, np)
  BY CodeLaid
<1> DEFINE s == Code(c)
<1>2. /\ s \in Seq(AnyByte) /\ q \in Nat /\ Len(s) = q + np + 1
      /\ IsCode(c.arg, PrefixBytes(c.arg), np)
      /\ \A i \in 1..q : s[i] = Byte("pfix", 0)
      /\ \A i \in 1..np : s[q + i] = PrefixBytes(c.arg)[i]
      /\ s[q + np + 1] = Byte(c.op, Nibble(c.arg, 0))
      /\ c.slot # 0 => c.slot = q + np + 1
      /\ c.slot = 0 => q = 0
  BY <1>1 DEF IsLaid
<1>3. c.op \notin {"pfix", "nfix"}
  BY CommandsAssumption, Zenon
<1>4. /\ np \in 0..7
      /\ np > 0 => PrefixBytes(c.arg)[1] # Byte("pfix", 0)
      /\ np > 0 => IsPrefix1(PrefixBytes(c.arg)[1])
      /\ np = 0 => Nibble(c.arg, 0) = c.arg
  BY <1>2 DEF IsCode
<1> HIDE DEF s
<1>5. /\ s \in Seq(AnyByte) /\ Len(s) \in Nat /\ Len(s) >= 1
      /\ s[1] = Byte("pfix", 0) => Len(s) >= 2 /\ (s[2] = Byte("opr", 11) => PaddedFpentry(c))
  <2>1. CASE q = 0
    <3>1. CASE np = 0
      <4>1. s[1] = Byte(c.op, Nibble(c.arg, 0))
        BY <1>2, <2>1, <3>1
      <4> QED
        BY <1>2, <1>3, <2>1, <3>1, <4>1 DEF Byte
    <3>2. CASE np > 0
      <4>1. s[1] = PrefixBytes(c.arg)[1]
        BY <1>2, <1>4, <2>1, <3>2
      <4> QED
        BY <1>2, <1>4, <2>1, <3>2, <4>1
    <3> QED
      BY <1>4, <3>1, <3>2
  <2>2. CASE q = 1
    <3>1. CASE np = 0
      <4>1. s[2] = Byte(c.op, Nibble(c.arg, 0)) /\ c.slot = 2 /\ Nibble(c.arg, 0) = c.arg
        BY <1>2, <1>4, <2>2, <3>1
      <4> QED
        BY <1>2, <1>3, <2>2, <3>1, <4>1 DEF Byte, PaddedFpentry
    <3>2. CASE np > 0
      <4>1. s[2] = PrefixBytes(c.arg)[1]
        BY <1>2, <1>4, <2>2, <3>2
      <4>2. s[2].op # "opr"
        BY <1>4, <3>2, <4>1 DEF IsPrefix1
      <4>3. Byte("opr", 11).op = "opr"
        BY DEF Byte
      <4> QED
        BY <1>2, <1>4, <2>2, <3>2, <4>2, <4>3
    <3> QED
      BY <1>4, <3>1, <3>2
  <2>3. CASE q >= 2
    <3>1. s[2] = Byte("pfix", 0)
      BY <1>2, <2>3
    <3>2. s[2] # Byte("opr", 11)
      BY <3>1 DEF Byte
    <3> QED
      BY <1>2, <1>4, <2>3, <3>2
  <2> QED
    BY <1>2, <2>1, <2>2, <2>3
<1> QED
  BY <1>5 DEF s

\* Where the commands are in a dump: the k-th from st[k-1] on.
IsDump(prog, all, st) ==
  /\ all \in Seq(AnyByte)
  /\ st \in [0..Len(prog) -> Nat] /\ st[0] = 0
  /\ \A k \in 0..Len(prog) : st[k] <= Len(all)
  /\ \A k \in 1..Len(prog) : st[k] = st[k - 1] + Len(Code(prog[k]))
  /\ \A k \in 1..Len(prog) : \A i \in 1..Len(Code(prog[k])) :
        all[st[k - 1] + i] = Code(prog[k])[i]
  /\ \A i \in (st[Len(prog)] + 1)..Len(all) : all[i].op = "pfix"

LEMMA EncodedIsDump ==
  ASSUME NEW prog \in Seq(Commands), NEW tail \in Seq(AnyByte),
         \A i \in 1..Len(tail) : tail[i].op = "pfix"
  PROVE  \E st : IsDump(prog, Encode(prog) \o tail, st)
<1> DEFINE s == [i \in DOMAIN prog |-> Code(prog[i])]
           n == Len(prog)
<1>0. n \in Nat /\ DOMAIN prog = 1..n /\ \A i \in 1..n : prog[i] \in Commands
  OBVIOUS
<1>1. Encode(prog) = FlattenSeq(s)
  BY Zenon DEF Encode, Code
<1>2. s \in Seq(Seq(AnyByte)) /\ Len(s) = n /\ \A k \in 1..n : s[k] = Code(prog[k])
  <2>1. \A i \in 1..n : Code(prog[i]) \in Seq(AnyByte)
    BY <1>0, NoFpentry
  <2>2. s = [i \in 1..n |-> Code(prog[i])]
    BY <1>0
  <2> HIDE DEF s, n
  <2>3. s \in [1..n -> Seq(AnyByte)]
    BY <2>1, <2>2
  <2> QED
    BY <1>0, <2>2, <2>3
<1> HIDE DEF s, n
<1>3. PICK P : IsParts(P, s, AnyByte) /\ FlattenSeq(s) = P[Len(s)]
  BY <1>2, FlattenParts
<1>4. /\ P \in [0..n -> Seq(AnyByte)] /\ P[0] = <<>>
      /\ \A k \in 1..n : P[k] = P[k-1] \o s[k]
  BY <1>2, <1>3 DEF IsParts
<1> DEFINE all == Encode(prog) \o tail
           st == [k \in 0..n |-> Len(P[k])]
<1>5. /\ all \in Seq(AnyByte) /\ Len(all) = Len(P[n]) + Len(tail)
      /\ \A i \in 1..Len(P[n]) : all[i] = P[n][i]
      /\ \A i \in 1..Len(tail) : all[Len(P[n]) + i] = tail[i]
  <2>1. P[n] \in Seq(AnyByte) /\ Encode(prog) = P[n]
    BY <1>0, <1>1, <1>2, <1>3, <1>4
  <2> QED
    BY <2>1
<1>6. ASSUME NEW k \in 0..n
      PROVE  /\ P[k] \in Seq(AnyByte) /\ Len(P[k]) \in Nat /\ Len(P[k]) <= Len(P[n]) /\ Len(P[n]) \in Nat
             /\ \A i \in 1..Len(P[k]) : P[n][i] = P[k][i]
  <2>1. BeginsWith(P[Len(s)], P[k], AnyByte)
    BY <1>2, <1>3, PartsGrow
  <2>2. PICK t \in Seq(AnyByte) : P[n] = P[k] \o t
    BY <1>2, <2>1 DEF BeginsWith
  <2>3. P[k] \in Seq(AnyByte) /\ P[n] \in Seq(AnyByte)
    BY <1>0, <1>4
  <2> QED
    BY <2>2, <2>3
<1>7. ASSUME NEW k \in 1..n
      PROVE  /\ Len(P[k]) = Len(P[k-1]) + Len(Code(prog[k]))
             /\ \A i \in 1..Len(Code(prog[k])) : all[Len(P[k-1]) + i] = Code(prog[k])[i]
  <2>1. k \in 0..n /\ k - 1 \in 0..n
    BY <1>0
  <2>2. P[k-1] \in Seq(AnyByte) /\ s[k] \in Seq(AnyByte) /\ P[k] = P[k-1] \o s[k] /\ s[k] = Code(prog[k])
    <3>1. s[k] = Code(prog[k]) /\ Code(prog[k]) \in Seq(AnyByte)
      BY <1>0, <1>2, NoFpentry
    <3> QED
      BY <1>4, <2>1, <3>1
  <2>3. PICK u, v, w : u = P[k-1] /\ v = s[k] /\ w = P[k]
    OBVIOUS
  <2>4. u \in Seq(AnyByte) /\ v \in Seq(AnyByte) /\ w = u \o v /\ v = Code(prog[k])
    BY <2>2, <2>3
  <2>5. Len(w) = Len(u) + Len(v) /\ \A i \in 1..Len(v) : w[Len(u) + i] = v[i]
    BY ONLY <2>4, JoinedIs
  <2>6. /\ Len(w) <= Len(P[n]) /\ Len(P[n]) \in Nat /\ Len(u) \in Nat /\ Len(w) \in Nat
        /\ \A j \in 1..Len(w) : P[n][j] = w[j]
    BY <1>6, <2>1, <2>3
  <2>7. ASSUME NEW i \in 1..Len(v)  PROVE all[Len(u) + i] = v[i]
    <3>1. Len(v) \in Nat
      BY <2>4
    <3>2. Len(u) + i \in 1..Len(w) /\ Len(u) + i \in 1..Len(P[n])
      BY <2>5, <2>6, <3>1
    <3> QED
      BY <1>5, <2>5, <2>6, <3>2
  <2> HIDE DEF all
  <2> QED
    BY <2>3, <2>4, <2>5, <2>7
<1>8. IsDump(prog, all, st)
  <2> HIDE DEF all
  <2>1. st \in [0..n -> Nat] /\ \A k \in 0..n : st[k] = Len(P[k])
    BY <1>6
  <2>2. st[0] = 0
    BY <1>0, <1>4, <2>1
  <2>3. Len(P[n]) \in Nat /\ Len(tail) \in Nat /\ n \in 0..n
    BY <1>0, <1>6
  <2> HIDE DEF st
  <2>4. \A k \in 0..n : st[k] <= Len(all)
    <3> SUFFICES ASSUME NEW k \in 0..n  PROVE st[k] <= Len(all)
      OBVIOUS
    <3>1. Len(P[k]) \in Nat /\ Len(P[k]) <= Len(P[n])
      BY <1>6
    <3> QED
      BY <1>5, <2>1, <2>3, <3>1
  <2>5. ASSUME NEW k \in 1..n
        PROVE  /\ st[k] = st[k-1] + Len(Code(prog[k]))
               /\ \A i \in 1..Len(Code(prog[k])) : all[st[k-1] + i] = Code(prog[k])[i]
    <3>1. k \in 0..n /\ k - 1 \in 0..n
      BY <1>0
    <3> QED
      BY <1>7, <2>1, <3>1
  <2>6. ASSUME NEW i \in (st[n] + 1)..Len(all)  PROVE all[i].op = "pfix"
    <3>1. i - Len(P[n]) \in 1..Len(tail) /\ Len(P[n]) + (i - Len(P[n])) = i
      BY <1>5, <2>1, <2>3
    <3>2. all[i] = tail[i - Len(P[n])]
      BY <1>5, <3>1
    <3> QED
      BY <3>1, <3>2
  <2>7. n = Len(prog)
    BY DEF n
  <2>8. all \in Seq(AnyByte)
    BY <1>5
  <2> QED
    BY <2>1, <2>2, <2>4, <2>5, <2>6, <2>7, <2>8 DEF IsDump
<1> QED
  BY <1>8

-----------------------------------------------------------------------------
(* The invariant.                                                          *)

\* b is what the buffer holds, f what is left of the file, from pos on.
AtPos(all, pos, b, f) ==
  /\ pos \in Nat /\ b \in Seq(AnyByte) /\ f \in Seq(AnyByte)
  /\ pos + Len(b) + Len(f) = Len(all)
  /\ \A i \in 1..Len(b) : b[i] = all[pos + i]
  /\ \A i \in 1..Len(f) : f[i] = all[pos + Len(b) + i]

\* The next command has been shown up to some of its padding.
InCommand(prog, st, c, pos) ==
  IF c < Len(prog) THEN st[c] <= pos /\ pos + cmd_size(prog[c + 1].arg) <= st[c + 1]
                   ELSE st[Len(prog)] <= pos

IsLines(lines) == Len(lines) \in Nat /\ lines = [j \in 1..Len(lines) |-> lines[j]]

Matches(prog, lines) ==
  \A j \in 1..Len(lines) :
     ~ IsPad(lines[j]) /\ Shown(lines, j) <= Len(prog) =>
       /\ ShownAs(prog, Shown(lines, j), lines[j].op)
       /\ lines[j].arg = prog[Shown(lines, j)].arg

Position(prog, lines, b, f) ==
  \E all, st, pos : /\ IsDump(prog, all, st) /\ AtPos(all, pos, b, f)
                    /\ InCommand(prog, st, Shown(lines, Len(lines)), pos)

DInv ==
  /\ program \in Seq(Commands)
  /\ eof => infile = <<>>
  /\ IsLines(listing)
  /\ Matches(program, listing)
  /\ Position(program, listing, buf, infile)
  /\ buf = <<>> /\ listing # <<>> /\ ~ eof => listing[Len(listing)].size = CMD_MAXLEN

-----------------------------------------------------------------------------
(* One line more.                                                          *)

LEMMA ShownFinite ==
  ASSUME NEW lines, NEW j \in Nat
  PROVE  /\ IsFiniteSet({k \in 1..j : ~ IsPad(lines[k])})
         /\ Shown(lines, j) \in Nat
<1>1. IsFiniteSet(1..j)
  BY FS_Interval
<1>2. {k \in 1..j : ~ IsPad(lines[k])} \subseteq 1..j
  OBVIOUS
<1>3. IsFiniteSet({k \in 1..j : ~ IsPad(lines[k])})
  BY <1>1, <1>2, FS_Subset
<1> QED
  BY <1>3, FS_CardinalityType DEF Shown

OneMore(lines, x, new) ==
  /\ IsLines(new) /\ Len(new) = Len(lines) + 1 /\ new[Len(new)] = x
  /\ \A j \in 1..Len(lines) : new[j] = lines[j] /\ Shown(new, j) = Shown(lines, j)
  /\ Shown(new, Len(new)) = Shown(lines, Len(lines)) + (IF IsPad(x) THEN 0 ELSE 1)

LEMMA OneLineMore ==
  ASSUME NEW lines, IsLines(lines), NEW x, NEW new, new = Append(lines, x)
  PROVE  OneMore(lines, x, new)
<1> DEFINE n == Len(lines)
           D == {lines[j] : j \in 1..n} \union {x}
<1>0. n \in Nat /\ lines = [j \in 1..n |-> lines[j]]
  BY DEF IsLines
<1>1. lines \in Seq(D) /\ x \in D
  <2>1. \A j \in 1..n : lines[j] \in D
    OBVIOUS
  <2>2. x \in D
    OBVIOUS
  <2> HIDE DEF n, D
  <2>3. lines \in [1..n -> D]
    BY <1>0, <2>1
  <2> QED
    BY <1>0, <2>2, <2>3
<1> HIDE DEF D
<1>2. /\ new \in Seq(D) /\ Len(new) = n + 1 /\ new[n + 1] = x
      /\ \A j \in 1..n : new[j] = lines[j]
  BY <1>1, AppendIs
<1> HIDE DEF n
<1>3. IsLines(new)
  BY <1>0, <1>2 DEF IsLines
<1>4. ASSUME NEW j \in 1..n  PROVE Shown(new, j) = Shown(lines, j)
  <2>1. \A k \in 1..j : new[k] = lines[k]
    BY <1>0, <1>2
  <2>2. {k \in 1..j : ~ IsPad(new[k])} = {k \in 1..j : ~ IsPad(lines[k])}
    BY <2>1
  <2> QED
    BY <2>2 DEF Shown
<1>5. Shown(new, n + 1) = Shown(lines, n) + (IF IsPad(x) THEN 0 ELSE 1)
  <2> DEFINE A == {k \in 1..n : ~ IsPad(lines[k])}
             B == {k \in 1..(n + 1) : ~ IsPad(new[k])}
  <2>1. IsFiniteSet(A) /\ Cardinality(A) \in Nat
    BY <1>0, ShownFinite DEF Shown
  <2>2. CASE IsPad(x)
    <3>1. B = A
      BY <1>0, <1>2, <2>2
    <3> HIDE DEF A, B
    <3>2. Cardinality(B) = Cardinality(A) + 0
      BY <2>1, <3>1
    <3> QED
      BY <2>2, <3>2 DEF Shown, A, B
  <2>3. CASE ~ IsPad(x)
    <3>1. B = A \union {n + 1} /\ n + 1 \notin A
      BY <1>0, <1>2, <2>3
    <3> HIDE DEF A, B
    <3>2. Cardinality(B) = Cardinality(A) + 1
      BY <2>1, <3>1, FS_AddElement
    <3> QED
      BY <2>3, <3>2 DEF Shown, A, B
  <2> QED
    BY <2>2, <2>3
<1> QED
  BY <1>2, <1>3, <1>4, <1>5 DEF n, OneMore

\* While commands are left to be shown, the next line is padding or the next
\* command.
LEMMA NextLine ==
  ASSUME NEW prog \in Seq(Commands), NEW all, NEW st, IsDump(prog, all, st),
         NEW pos, NEW b, NEW f, AtPos(all, pos, b, f), Len(b) >= 8 \/ f = <<>>,
         NEW c \in Nat, c < Len(prog), InCommand(prog, st, c, pos)
  PROVE  \/ /\ IsPad(disassemble(b)) /\ disassemble(b).size = 1
            /\ pos + 1 + cmd_size(prog[c + 1].arg) <= st[c + 1]
         \/ /\ ~ IsPad(disassemble(b)) /\ pos + disassemble(b).size = st[c + 1]
            /\ ShownAs(prog, c + 1, disassemble(b).op) /\ disassemble(b).arg = prog[c + 1].arg
<1> DEFINE n == Len(prog)
           cmd == prog[c + 1]
           s == Code(cmd)
<1>0. /\ n \in Nat /\ c + 1 \in 1..n /\ c + 1 \in 0..n /\ c \in 0..n /\ cmd \in Commands
      /\ (c + 1) - 1 = c
  OBVIOUS
<1>1. PICK q, np : IsLaid(cmd, s, q, np)
  BY <1>0, CodeLaid
<1>2. /\ s \in Seq(AnyByte) /\ q \in Nat /\ Len(s) = q + np + 1 /\ cmd_size(cmd.arg) = np + 1
      /\ IsCode(cmd.arg, PrefixBytes(cmd.arg), np)
      /\ \A i \in 1..q : s[i] = Byte("pfix", 0)
      /\ \A i \in 1..np : s[q + i] = PrefixBytes(cmd.arg)[i]
      /\ s[q + np + 1] = Byte(cmd.op, Nibble(cmd.arg, 0))
  BY <1>1 DEF IsLaid
<1>3. np \in 0..7
  BY <1>2 DEF IsCode
<1> HIDE DEF s, cmd, n
<1>4. /\ all \in Seq(AnyByte) /\ st[c] \in Nat /\ st[c + 1] \in Nat /\ st[c + 1] <= Len(all)
      /\ st[c + 1] = st[c] + Len(s)
      /\ \A i \in 1..Len(s) : all[st[c] + i] = s[i]
  BY <1>0 DEF IsDump, s, cmd, n
<1>5. /\ pos \in Nat /\ b \in Seq(AnyByte) /\ f \in Seq(AnyByte) /\ pos + Len(b) + Len(f) = Len(all)
      /\ \A i \in 1..Len(b) : b[i] = all[pos + i]
  BY DEF AtPos
<1>6. st[c] <= pos /\ pos + np + 1 <= st[c + 1]
  <2>1. st[c] <= pos /\ pos + cmd_size(cmd.arg) <= st[c + 1]
    BY DEF InCommand, cmd
  <2> QED
    BY <1>2, <1>3, <1>5, <2>1
<1>7. Len(b) \in Nat /\ Len(f) \in Nat /\ Len(all) \in Nat /\ Len(b) >= np + 1 /\ Len(b) > 0
  <2>1. Len(b) \in Nat /\ Len(f) \in Nat /\ Len(all) \in Nat
    BY <1>4, <1>5
  <2>2. CASE Len(b) >= 8
    BY <1>3, <2>1, <2>2
  <2>3. CASE f = <<>>
    <3>1. Len(f) = 0
      BY <2>3
    <3> QED
      BY <1>3, <1>4, <1>5, <1>6, <2>1, <3>1
  <2> QED
    BY <2>1, <2>2, <2>3
<1>10. /\ st[c] \in Nat /\ st[c + 1] \in Nat /\ pos \in Nat /\ q \in Nat /\ np \in 0..7
       /\ Len(s) = q + np + 1 /\ st[c + 1] = st[c] + Len(s) /\ st[c] <= pos
       /\ Len(b) \in Nat /\ Len(f) \in Nat /\ Len(all) \in Nat /\ Len(b) >= np + 1
       /\ pos + Len(b) + Len(f) = Len(all)
  BY <1>2, <1>3, <1>4, <1>5, <1>6, <1>7
<1>11. PICK lo, hi, ls, lb, lf, la \in Nat :
         /\ lo = st[c] /\ hi = st[c + 1] /\ ls = Len(s)
         /\ lb = Len(b) /\ lf = Len(f) /\ la = Len(all)
  <2>1. Len(s) \in Nat
    BY <1>2
  <2> QED
    BY <1>10, <2>1
<1>12. /\ ls = q + np + 1 /\ hi = lo + ls /\ lo <= pos /\ lb >= np + 1 /\ pos + lb + lf = la
       /\ pos \in Nat /\ q \in Nat /\ np \in 0..7
  BY <1>10, <1>11, Zenon
<1>8. CASE pos + np + 1 < st[c + 1]
  <2> DEFINE i == pos - lo + 1
  <2>0. pos + np + 1 < hi
    BY <1>8, <1>11, Zenon
  <2>1. i \in 1..q /\ i \in 1..ls /\ lo + i = pos + 1
    BY ONLY <1>12, <2>0, lo \in Nat, hi \in Nat, ls \in Nat
  <2> HIDE DEF i
  <2>2. b[1] = Byte("pfix", 0)
    <3>1. b[1] = all[pos + 1]
      BY <1>5, <1>7
    <3>2. all[st[c] + i] = Byte("pfix", 0)
      BY <1>2, <1>4, <1>11, <2>1
    <3> QED
      BY <1>11, <2>1, <3>1, <3>2
  <2>3. /\ disassemble(b).op = "pfix" /\ disassemble(b).arg = 0 /\ disassemble(b).size = 1
    BY <1>5, <1>7, <2>2, LineOfPad
  <2>4. pos + 1 + cmd_size(cmd.arg) <= st[c + 1]
    BY <1>2, <1>3, <1>4, <1>5, <1>8
  <2> QED
    BY <2>3, <2>4 DEF IsPad, cmd
<1>9. CASE pos + np + 1 = st[c + 1]
  <2>1. pos = st[c] + q
    BY ONLY <1>9, <1>10
  <2>2. ASSUME NEW i \in 1..(np + 1)  PROVE b[i] = s[q + i]
    <3>0. pos = lo + q
      BY <1>11, <2>1, Zenon
    <3>1. i \in 1..lb /\ q + i \in 1..ls /\ pos + i = lo + (q + i)
      BY ONLY <1>12, <3>0, i \in 1..(np + 1), lo \in Nat, lb \in Nat, ls \in Nat
    <3>2. b[i] = all[pos + i] /\ all[st[c] + (q + i)] = s[q + i]
      BY <1>4, <1>5, <1>11, <3>1
    <3> QED
      BY <1>11, <3>1, <3>2
  <2>3. ASSUME NEW i \in 1..np  PROVE b[i] = PrefixBytes(cmd.arg)[i]
    <3>1. i \in 1..(np + 1)
      BY <1>3
    <3>2. b[i] = s[q + i] /\ s[q + i] = PrefixBytes(cmd.arg)[i]
      BY <1>2, <2>2, <3>1, Zenon
    <3> QED
      BY <3>2
  <2>4. b[np + 1] = Byte(cmd.op, Nibble(cmd.arg, 0))
    <3>1. np + 1 \in 1..(np + 1) /\ q + (np + 1) = q + np + 1
      BY <1>2, <1>3
    <3> QED
      BY <1>2, <2>2, <3>1
  <2>5. ASSUME np + 3 <= Len(b), b[np + 2] = Byte("pfix", 0), b[np + 3] = Byte("opr", 11)
        PROVE  c + 1 < Len(prog) /\ PaddedFpentry(prog[c + 2])
    <3>0. np + 3 <= lb /\ pos + np + 1 = hi
      BY <1>9, <1>11, <2>5, Zenon
    <3>1. /\ np + 2 \in 1..lb /\ np + 3 \in 1..lb
          /\ pos + (np + 2) = hi + 1 /\ pos + (np + 3) = hi + 2
          /\ hi + 2 <= la
      BY ONLY <1>12, <3>0, hi \in Nat, la \in Nat, lb \in Nat, lf \in Nat
    <3>2. all[st[c + 1] + 1] = Byte("pfix", 0) /\ all[st[c + 1] + 2] = Byte("opr", 11)
      BY <1>5, <1>11, <2>5, <3>1
    <3>3. CASE c + 1 < n
      <4> DEFINE d == prog[c + 2]
                 u == Code(d)
      <4>1. c + 2 \in 1..n /\ (c + 2) - 1 = c + 1
        BY <1>0, <3>3
      <4>2. d \in Commands
        BY <4>1 DEF n
      <4>3. \A i \in 1..Len(u) : all[st[c + 1] + i] = u[i]
        BY <4>1 DEF IsDump, n
      <4>4. /\ u \in Seq(AnyByte) /\ Len(u) \in Nat /\ Len(u) >= 1
            /\ u[1] = Byte("pfix", 0)
                 => Len(u) >= 2 /\ (u[2] = Byte("opr", 11) => PaddedFpentry(d))
        BY <4>2, NoFpentry
      <4> HIDE DEF u
      <4>5. u[1] = Byte("pfix", 0)
        BY <3>2, <4>3, <4>4
      <4>6. 2 \in 1..Len(u) /\ (u[2] = Byte("opr", 11) => PaddedFpentry(d))
        BY <4>4, <4>5
      <4> QED
        BY <3>2, <3>3, <4>3, <4>6 DEF n
    <3>4. CASE ~ (c + 1 < n)
      <4>1. c + 1 = n
        BY <1>0, <3>4
      <4>2. \A i \in (st[n] + 1)..Len(all) : all[i].op = "pfix"
        BY DEF IsDump, n
      <4>3. st[c + 1] + 2 \in (st[n] + 1)..Len(all)
        <5>1. hi + 2 \in (hi + 1)..la
          BY ONLY <3>1, hi \in Nat, la \in Nat
        <5> QED
          BY <1>11, <4>1, <5>1
      <4>4. Byte("opr", 11).op = "opr"
        BY DEF Byte
      <4> QED
        BY <3>2, <4>2, <4>3, <4>4
    <3> QED
      BY <3>3, <3>4
  <2>6. cmd.op \notin {"pfix", "nfix"} /\ Word(cmd.arg)
    BY <1>0, CommandsAssumption, Zenon
  <2>7. /\ ShownAs(prog, c + 1, disassemble(b).op) /\ disassemble(b).arg = cmd.arg
        /\ disassemble(b).size = np + 1 /\ disassemble(b).op \in {cmd.op, "fpu"}
    <3>1. PICK pre : pre = PrefixBytes(cmd.arg)
      OBVIOUS
    <3>2. PICK a, op : a = cmd.arg /\ op = cmd.op
      OBVIOUS
    <3>3. /\ Word(a) /\ IsCode(a, pre, np) /\ \A i \in 1..np : b[i] = pre[i]
          /\ op \notin {"pfix", "nfix"} /\ b[np + 1] = Byte(op, Nibble(a, 0))
      BY <1>2, <2>3, <2>4, <2>6, <3>1, <3>2
    <3>4. np + 1 <= Len(b)
      BY ONLY <1>10
    <3>5. /\ \/ disassemble(b).op = op
             \/ /\ disassemble(b).op = "fpu" /\ op = "ldc" /\ a \in FpuCodes
                /\ np + 3 <= Len(b)
                /\ b[np + 2] = Byte("pfix", 0) /\ b[np + 3] = Byte("opr", 11)
          /\ disassemble(b).arg = a /\ disassemble(b).size = np + 1
      <4>1. ShowsLine(b, op, a, np)
        BY ONLY <1>5, <3>3, <3>4, LineOfCode
      <4> QED
        BY ONLY <4>1 DEF ShowsLine
    <3>6. ShownAs(prog, c + 1, disassemble(b).op)
      <4>1. CASE disassemble(b).op = op
        BY <3>2, <4>1 DEF ShownAs, cmd
      <4>2. CASE disassemble(b).op # op
        <5>1. c + 1 < Len(prog) /\ PaddedFpentry(prog[c + 2]) /\ c + 1 + 1 = c + 2
          BY <2>5, <3>5, <4>2
        <5> QED
          BY <3>2, <3>5, <4>2, <5>1 DEF ShownAs, cmd
      <4> QED
        BY <4>1, <4>2
    <3> QED
      BY <3>2, <3>5, <3>6
  <2>8. pos + (np + 1) = st[c + 1]
    BY <1>3, <1>5, <1>9
  <2>9. ~ IsPad(disassemble(b))
    BY <2>6, <2>7 DEF IsPad
  <2> QED
    BY <2>7, <2>8, <2>9 DEF cmd
<1> QED
  BY <1>3, <1>4, <1>5, <1>6, <1>8, <1>9

-----------------------------------------------------------------------------
(* The steps.                                                              *)

LEMMA InitD == DInit => DInv
<1> SUFFICES ASSUME DInit  PROVE DInv
  OBVIOUS
<1>1. program \in Seq(Commands)
  <2>1. PICK m \in 0..MaxCommands : program \in [1..m -> Commands]
    BY Zenon DEF DInit, BoundedSeq, SeqOf
  <2>2. CASE m \in Nat
    BY <2>1, <2>2
  <2>3. CASE m \notin Nat
    BY <2>1, <2>3
  <2> QED
    BY <2>2, <2>3
<1>2. PICK t \in 0..MaxTail : infile = Encode(program) \o [i \in 1..t |-> Byte("pfix", i)]
  BY DEF DInit
<1> DEFINE tail == [i \in 1..t |-> Byte("pfix", i)]
<1>3. tail \in Seq(AnyByte) /\ \A i \in 1..Len(tail) : tail[i].op = "pfix"
  <2>1. \A i \in 1..t : Byte("pfix", i) \in AnyByte /\ Byte("pfix", i).op = "pfix"
    BY DEF AnyByte, FunctionCode, Byte
  <2>2. t \in Nat
    OBVIOUS
  <2>3. tail \in [1..t -> AnyByte] /\ \A i \in 1..t : tail[i] = Byte("pfix", i)
    BY <2>1
  <2> HIDE DEF tail
  <2>4. tail \in Seq(AnyByte) /\ Len(tail) = t
    BY <2>2, <2>3
  <2> QED
    BY <2>1, <2>3, <2>4
<1>4. infile = Encode(program) \o tail
  BY <1>2
<1> HIDE DEF tail
<1>5. PICK st : IsDump(program, infile, st)
  BY <1>1, <1>3, <1>4, EncodedIsDump
<1>6. buf = <<>> /\ eof = FALSE /\ listing = <<>>
  BY DEF DInit
<1>7. infile \in Seq(AnyByte) /\ st[0] = 0
  BY <1>5 DEF IsDump
<1>8. AtPos(infile, 0, buf, infile)
  <2>1. Len(buf) = 0 /\ buf \in Seq(AnyByte) /\ Len(infile) \in Nat
    BY <1>6, <1>7
  <2>2. 0 + Len(buf) + Len(infile) = Len(infile)
    BY <2>1
  <2>3. \A i \in 1..Len(buf) : buf[i] = infile[0 + i]
    BY <2>1
  <2>4. \A i \in 1..Len(infile) : infile[i] = infile[0 + Len(buf) + i]
    BY <2>1
  <2> QED
    BY <1>7, <2>1, <2>2, <2>3, <2>4 DEF AtPos
<1>9. IsLines(listing) /\ Len(listing) = 0
  BY <1>6 DEF IsLines
<1>10. Shown(listing, Len(listing)) = 0
  <2>1. {k \in 1..0 : ~ IsPad(listing[k])} = {}
    OBVIOUS
  <2> QED
    BY <1>9, <2>1, FS_EmptySet DEF Shown
<1>11. InCommand(program, st, 0, 0)
  <2>0. Len(program) \in Nat
    BY <1>1
  <2>1. CASE 0 < Len(program)
    <3>1. 1 \in 1..Len(program) /\ 0 + 1 = 1 /\ 1 - 1 = 0
      BY <2>0, <2>1
    <3>2. st[1] = 0 + Len(Code(program[1])) /\ program[1] \in Commands
      BY <1>1, <1>5, <1>7, <3>1 DEF IsDump
    <3>3. PICK q, np : IsLaid(program[1], Code(program[1]), q, np)
      BY <3>2, CodeLaid
    <3>4. q \in Nat /\ np \in 0..7 /\ Len(Code(program[1])) = q + np + 1 /\ cmd_size(program[1].arg) = np + 1
      BY <3>3 DEF IsLaid, IsCode
    <3>5. 0 + cmd_size(program[0 + 1].arg) <= st[0 + 1]
      BY <3>1, <3>2, <3>4
    <3> QED
      BY <1>7, <2>1, <3>5 DEF InCommand
  <2>2. CASE ~ (0 < Len(program))
    <3>1. Len(program) = 0
      BY <2>0, <2>2
    <3> QED
      BY <1>7, <2>2, <3>1 DEF InCommand
  <2> QED
    BY <2>1, <2>2
<1>12. Position(program, listing, buf, infile)
  BY <1>5, <1>8, <1>10, <1>11 DEF Position
<1>13. Matches(program, listing)
  BY <1>9 DEF Matches
<1> QED
  BY <1>1, <1>6, <1>9, <1>12, <1>13 DEF DInv

LEMMA RefillD == DInv /\ Refill => DInv'
<1> SUFFICES ASSUME DInv, Refill  PROVE DInv'
  OBVIOUS
<1>1. PICK all, st, pos : /\ IsDump(program, all, st) /\ AtPos(all, pos, buf, infile)
                          /\ InCommand(program, st, Shown(listing, Len(listing)), pos)
  BY DEF DInv, Position
<1>2. /\ pos \in Nat /\ buf \in Seq(AnyByte) /\ infile \in Seq(AnyByte)
      /\ pos + Len(buf) + Len(infile) = Len(all)
      /\ \A i \in 1..Len(buf) : buf[i] = all[pos + i]
      /\ \A i \in 1..Len(infile) : infile[i] = all[pos + Len(buf) + i]
  BY <1>1 DEF AtPos
<1> DEFINE n == IF Len(infile) < BUFSIZ THEN Len(infile) ELSE BUFSIZ
<1>3. /\ buf' = buf \o SubSeq(infile, 1, n) /\ infile' = SubSeq(infile, n + 1, Len(infile))
      /\ eof' = (n < BUFSIZ) /\ program' = program /\ listing' = listing
      /\ buf # <<>> \/ listing = <<>>
  BY DEF Refill, Fread
<1>4. n \in 0..Len(infile) /\ (n < BUFSIZ => n = Len(infile))
  BY <1>2, DastAssumption
<1> HIDE DEF n
<1>5. PICK x, y, g, h : /\ x = SubSeq(infile, 1, n) /\ y = SubSeq(infile, n + 1, Len(infile))
                        /\ g = infile /\ h = buf
  OBVIOUS
<1>6. /\ x \in Seq(AnyByte) /\ y \in Seq(AnyByte) /\ Len(x) = n /\ g = x \o y /\ h \in Seq(AnyByte)
  BY <1>2, <1>4, <1>5, Halves
<1>j. /\ Len(g) = Len(x) + Len(y)
      /\ \A i \in 1..Len(x) : g[i] = x[i]
      /\ \A i \in 1..Len(y) : g[Len(x) + i] = y[i]
  BY ONLY <1>6, JoinedIs
<1>7. /\ Len(infile) = Len(x) + Len(y)
      /\ \A i \in 1..Len(x) : infile[i] = x[i]
      /\ \A i \in 1..Len(y) : infile[Len(x) + i] = y[i]
  BY <1>5, <1>j, Zenon
<1>8. PICK b, f : b = buf' /\ f = infile'
  OBVIOUS
<1>9. b = h \o x /\ f = y
  BY <1>3, <1>5, <1>8
<1>k. /\ b \in Seq(AnyByte) /\ Len(b) = Len(h) + Len(x)
      /\ \A i \in 1..Len(h) : b[i] = h[i]
      /\ \A i \in 1..Len(x) : b[Len(h) + i] = x[i]
  <2>1. h \in Seq(AnyByte) /\ x \in Seq(AnyByte) /\ b = h \o x
    BY <1>6, <1>9
  <2> QED
    BY ONLY <2>1, JoinedIs
<1>10. /\ b \in Seq(AnyByte) /\ Len(b) = Len(buf) + Len(x)
       /\ \A i \in 1..Len(buf) : b[i] = buf[i]
       /\ \A i \in 1..Len(x) : b[Len(buf) + i] = x[i]
  BY <1>5, <1>k, Zenon
<1>11. PICK lx, ly, lb \in Nat : lx = Len(x) /\ ly = Len(y) /\ lb = Len(buf)
  <2>1. Len(x) \in Nat /\ Len(y) \in Nat
    BY <1>6
  <2>2. Len(buf) \in Nat
    BY <1>2
  <2> QED
    BY <2>1, <2>2
<1>12. Len(infile) = lx + ly /\ Len(b) = lb + lx /\ Len(f) = ly
  BY <1>7, <1>9, <1>10, <1>11
<1>13. AtPos(all, pos, b, f)
  <2>1. pos + Len(b) + Len(f) = Len(all)
    <3>1. pos + lb + (lx + ly) = Len(all)
      BY <1>2, <1>11, <1>12
    <3>2. pos + (lb + lx) + ly = pos + lb + (lx + ly)
      BY ONLY <1>2, lb \in Nat, lx \in Nat, ly \in Nat
    <3> QED
      BY <1>12, <3>1, <3>2, Zenon
  <2>2. ASSUME NEW i \in 1..(lb + lx)  PROVE b[i] = all[pos + i]
    <3>1. CASE i <= lb
      <4>1. i \in 1..lb
        BY <3>1
      <4> QED
        BY <1>2, <1>10, <1>11, <4>1
    <3>2. CASE ~ (i <= lb)
      <4>1. i - lb \in 1..lx /\ i - lb \in 1..(lx + ly) /\ lb + (i - lb) = i /\ pos + lb + (i - lb) = pos + i
        BY ONLY <1>2, <3>2, i \in 1..(lb + lx), lb \in Nat, lx \in Nat, ly \in Nat
      <4>2. b[lb + (i - lb)] = x[i - lb] /\ x[i - lb] = infile[i - lb]
        BY <1>7, <1>10, <1>11, <4>1
      <4>3. infile[i - lb] = all[pos + lb + (i - lb)]
        BY <1>2, <1>11, <1>12, <4>1
      <4> QED
        BY <4>1, <4>2, <4>3
    <3> QED
      BY <3>1, <3>2
  <2>3. ASSUME NEW i \in 1..ly  PROVE f[i] = all[pos + (lb + lx) + i]
    <3>1. lx + i \in 1..(lx + ly) /\ pos + lb + (lx + i) = pos + (lb + lx) + i
      BY ONLY <1>2, i \in 1..ly, lb \in Nat, lx \in Nat, ly \in Nat
    <3>2. infile[lx + i] = y[i]
      BY <1>7, <1>11
    <3>3. infile[lx + i] = all[pos + lb + (lx + i)]
      BY <1>2, <1>11, <1>12, <3>1
    <3> QED
      BY <1>9, <3>1, <3>2, <3>3
  <2>4. /\ \A i \in 1..Len(b) : b[i] = all[pos + i]
        /\ \A i \in 1..Len(f) : f[i] = all[pos + Len(b) + i]
    BY <1>12, <2>2, <2>3, Zenon
  <2> QED
    BY <1>2, <1>6, <1>9, <1>10, <2>1, <2>4, Zenon DEF AtPos
<1>14. Position(program, listing, b, f)
  BY <1>1, <1>13, Zenon DEF Position
<1>15. Position(program, listing, buf, infile)'
  BY <1>3, <1>8, <1>14, Zenon
<1>16. eof' => infile' = <<>>
  <2> SUFFICES ASSUME eof'  PROVE infile' = <<>>
    OBVIOUS
  <2>1. n < BUFSIZ
    BY <1>3
  <2>2. lx = lx + ly
    BY <1>4, <1>6, <1>11, <1>12, <2>1, Zenon
  <2>3. Len(y) = 0
    BY <1>11, <2>2
  <2>4. y = infile'
    BY <1>8, <1>9
  <2> QED
    BY <1>6, <2>3, <2>4
<1>17. buf' = <<>> => listing' = <<>>
  <2> SUFFICES ASSUME buf' = <<>>, buf # <<>>  PROVE FALSE
    BY <1>3
  <2>1. Len(b) = 0
    BY <1>8
  <2>2. Len(buf) = 0
    <3>1. lb + lx = 0
      BY <1>12, <2>1
    <3>2. lb = 0
      BY ONLY <3>1, lb \in Nat, lx \in Nat
    <3> QED
      BY <1>11, <3>2
  <2> QED
    BY <1>2, <2>2
<1>18. program' \in Seq(Commands) /\ IsLines(listing)' /\ Matches(program, listing)'
  BY <1>3 DEF DInv
<1> QED
  BY <1>15, <1>16, <1>17, <1>18 DEF DInv

LEMMA PrintLineD == DInv /\ PrintLine => DInv'
<1> SUFFICES ASSUME DInv, PrintLine  PROVE DInv'
  OBVIOUS
<1>1. PICK all, st, pos : /\ IsDump(program, all, st) /\ AtPos(all, pos, buf, infile)
                          /\ InCommand(program, st, Shown(listing, Len(listing)), pos)
  BY DEF DInv, Position
<1>2. /\ pos \in Nat /\ buf \in Seq(AnyByte) /\ infile \in Seq(AnyByte)
      /\ pos + Len(buf) + Len(infile) = Len(all)
      /\ \A i \in 1..Len(buf) : buf[i] = all[pos + i]
      /\ \A i \in 1..Len(infile) : infile[i] = all[pos + Len(buf) + i]
  BY <1>1 DEF AtPos
<1>3. PICK das, prog, lines : das = disassemble(buf) /\ prog = program /\ lines = listing
  OBVIOUS
<1>4. /\ listing' = Append(lines, das) /\ buf' = SubSeq(buf, das.size + 1, Len(buf))
      /\ program' = prog /\ infile' = infile /\ eof' = eof /\ buf # <<>>
      /\ Len(buf) < CMD_MAXLEN => eof
  BY <1>3, Zenon DEF PrintLine, NeedsRefill
<1>5. /\ prog \in Seq(Commands) /\ (eof => infile = <<>>)
      /\ IsLines(lines) /\ Matches(prog, lines)
  BY <1>3, Zenon DEF DInv
<1>6. PICK new : new = Append(lines, das)
  OBVIOUS
<1>7. /\ IsLines(new) /\ Len(new) = Len(lines) + 1 /\ new[Len(new)] = das
      /\ \A j \in 1..Len(lines) : new[j] = lines[j] /\ Shown(new, j) = Shown(lines, j)
      /\ Shown(new, Len(new)) = Shown(lines, Len(lines)) + (IF IsPad(das) THEN 0 ELSE 1)
  <2>1. IsLines(lines)
    BY <1>5
  <2>2. OneMore(lines, das, new)
    BY <1>6, <2>1, OneLineMore
  <2> QED
    BY <2>2, Zenon DEF OneMore
<1>8. PICK c, n \in Nat : c = Shown(lines, Len(lines)) /\ n = Len(lines)
  BY <1>5, ShownFinite DEF IsLines
<1>9. Len(buf) \in Nat /\ Len(buf) > 0 /\ das.size \in 1..Len(buf) /\ das.size <= 8
  <2>1. Len(buf) \in Nat /\ Len(buf) > 0
    BY <1>2, <1>4
  <2> QED
    BY <1>2, <1>3, <2>1, LineSize
<1>10. PICK x, y, g : /\ x = SubSeq(buf, 1, das.size) /\ y = SubSeq(buf, das.size + 1, Len(buf))
                      /\ g = buf
  OBVIOUS
<1>11. /\ x \in Seq(AnyByte) /\ y \in Seq(AnyByte) /\ Len(x) = das.size /\ g = x \o y
  <2>1. das.size \in 0..Len(buf)
    BY <1>9
  <2> QED
    BY <1>2, <1>10, <2>1, Halves
<1>12. /\ Len(g) = Len(x) + Len(y)
       /\ \A i \in 1..Len(y) : g[Len(x) + i] = y[i]
  <2>1. x \in Seq(AnyByte) /\ y \in Seq(AnyByte) /\ g = x \o y
    BY <1>11
  <2> QED
    BY ONLY <2>1, JoinedIs
<1>13. PICK lx, ly, lf \in Nat : lx = das.size /\ ly = Len(y) /\ lf = Len(infile)
  <2>1. Len(y) \in Nat /\ das.size \in Nat
    BY <1>9, <1>11
  <2>2. Len(infile) \in Nat
    BY <1>2
  <2> QED
    BY <2>1, <2>2
<1>14. Len(buf) = lx + ly /\ Len(x) = lx
  BY <1>10, <1>11, <1>12, <1>13
<1>15. AtPos(all, pos + lx, y, infile)
  <2>0. pos + lx \in Nat
    BY <1>2, <1>13
  <2>1. pos + lx + Len(y) + Len(infile) = Len(all)
    <3>1. pos + (lx + ly) + lf = Len(all)
      BY <1>2, <1>13, <1>14, Zenon
    <3>2. pos + lx + ly + lf = pos + (lx + ly) + lf
      BY ONLY <1>2, lx \in Nat, ly \in Nat, lf \in Nat
    <3> QED
      BY <1>13, <3>1, <3>2, Zenon
  <2>2. ASSUME NEW i \in 1..ly  PROVE y[i] = all[pos + lx + i]
    <3>1. lx + i \in 1..(lx + ly) /\ pos + (lx + i) = pos + lx + i
      BY ONLY <1>2, i \in 1..ly, lx \in Nat, ly \in Nat
    <3>2. g[lx + i] = y[i]
      BY <1>12, <1>13, <1>14, Zenon
    <3>3. buf[lx + i] = all[pos + (lx + i)]
      BY <1>2, <1>14, <3>1, Zenon
    <3> QED
      BY <1>10, <3>1, <3>2, <3>3, Zenon
  <2>3. ASSUME NEW i \in 1..lf  PROVE infile[i] = all[pos + lx + ly + i]
    <3>1. pos + (lx + ly) + i = pos + lx + ly + i
      BY ONLY <1>2, i \in 1..lf, lx \in Nat, ly \in Nat
    <3>2. infile[i] = all[pos + (lx + ly) + i]
      BY <1>2, <1>13, <1>14, Zenon
    <3> QED
      BY <3>1, <3>2, Zenon
  <2>4. /\ \A i \in 1..Len(y) : y[i] = all[pos + lx + i]
        /\ \A i \in 1..Len(infile) : infile[i] = all[pos + lx + Len(y) + i]
    BY <1>13, <2>2, <2>3, Zenon
  <2> QED
    BY <1>2, <1>11, <2>0, <2>1, <2>4, Zenon DEF AtPos
<1>16. PICK d \in Nat : d = Shown(new, Len(new)) /\ d = c + (IF IsPad(das) THEN 0 ELSE 1)
  BY <1>7, <1>8
<1>17. Len(prog) \in Nat
  BY <1>5
<1>18. /\ InCommand(prog, st, d, pos + lx)
       /\ ~ IsPad(das) /\ d <= Len(prog) => ShownAs(prog, d, das.op) /\ das.arg = prog[d].arg
  <2>1. InCommand(prog, st, c, pos) /\ IsDump(prog, all, st)
    BY <1>1, <1>3, <1>8, Zenon
  <2>2. CASE c < Len(prog)
    <3>1. Len(buf) >= 8 \/ infile = <<>>
      BY <1>4, <1>5, <1>9 DEF CMD_MAXLEN
    <3>2. AtPos(all, pos, buf, infile)
      BY <1>1
    <3>3. \/ /\ IsPad(das) /\ das.size = 1
             /\ pos + 1 + cmd_size(prog[c + 1].arg) <= st[c + 1]
          \/ /\ ~ IsPad(das) /\ pos + das.size = st[c + 1]
             /\ ShownAs(prog, c + 1, das.op) /\ das.arg = prog[c + 1].arg
      BY <1>3, <1>5, <1>8, <2>1, <2>2, <3>1, <3>2, NextLine
    <3>4. c + 1 \in 1..Len(prog) /\ c \in 0..Len(prog) /\ c + 1 \in 0..Len(prog)
      BY <1>17, <2>2
    <3>5. st[c] \in Nat /\ st[c + 1] \in Nat
      BY <2>1, <3>4 DEF IsDump
    <3>6. CASE IsPad(das)
      <4>1. das.size = 1 /\ pos + 1 + cmd_size(prog[c + 1].arg) <= st[c + 1]
        BY <3>3, <3>6, Zenon
      <4>2. d = c /\ lx = 1
        BY <1>8, <1>13, <1>16, <3>6, <4>1
      <4>3. st[c] <= pos
        BY <2>1, <2>2 DEF InCommand
      <4>4. st[c] <= pos + 1
        BY ONLY <1>2, <3>5, <4>3
      <4> QED
        BY <2>2, <3>6, <4>1, <4>2, <4>4, Zenon DEF InCommand
    <3>7. CASE ~ IsPad(das)
      <4>1. pos + das.size = st[c + 1] /\ ShownAs(prog, c + 1, das.op) /\ das.arg = prog[c + 1].arg
        BY <3>3, <3>7, Zenon
      <4>2. d = c + 1 /\ pos + lx = st[d]
        BY <1>13, <1>16, <3>7, <4>1
      <4>3. st[d] \in Nat
        BY <3>5, <4>2
      <4>4. CASE d < Len(prog)
        <5>1. d + 1 \in 1..Len(prog) /\ (d + 1) - 1 = d
          BY <1>17, <4>4
        <5>2. prog[d + 1] \in Commands /\ st[d + 1] = st[d] + Len(Code(prog[d + 1]))
          BY <1>5, <2>1, <5>1 DEF IsDump
        <5>3. PICK q, np : IsLaid(prog[d + 1], Code(prog[d + 1]), q, np)
          BY <5>2, CodeLaid
        <5>4. /\ q \in Nat /\ np \in 0..7 /\ Len(Code(prog[d + 1])) = q + np + 1
              /\ cmd_size(prog[d + 1].arg) = np + 1
          BY <5>3 DEF IsLaid, IsCode
        <5>5. st[d] <= st[d] /\ st[d] + cmd_size(prog[d + 1].arg) <= st[d + 1]
          BY <4>3, <5>2, <5>4
        <5>6. InCommand(prog, st, d, pos + lx)
          BY <4>2, <4>4, <5>5, Zenon DEF InCommand
        <5> QED
          BY <4>1, <4>2, <5>6, Zenon
      <4>5. CASE ~ (d < Len(prog))
        <5>1. d = Len(prog)
          BY <1>17, <3>4, <4>2, <4>5
        <5>2. st[Len(prog)] <= pos + lx
          BY <4>2, <4>3, <5>1
        <5>3. InCommand(prog, st, d, pos + lx)
          BY <4>5, <5>2, Zenon DEF InCommand
        <5> QED
          BY <4>1, <4>2, <5>3, Zenon
      <4> QED
        BY <4>4, <4>5
    <3> QED
      BY <3>6, <3>7
  <2>3. CASE ~ (c < Len(prog))
    <3>1. ~ (d < Len(prog)) /\ (~ IsPad(das) => ~ (d <= Len(prog)))
      BY <1>8, <1>16, <1>17, <2>3
    <3>2. st[Len(prog)] <= pos /\ st[Len(prog)] \in Nat
      BY <1>17, <2>1, <2>3 DEF InCommand, IsDump
    <3>3. st[Len(prog)] <= pos + lx
      BY ONLY <1>2, <3>2, lx \in Nat
    <3>4. InCommand(prog, st, d, pos + lx)
      BY <3>1, <3>3, Zenon DEF InCommand
    <3> QED
      BY <3>1, <3>4, Zenon
  <2> QED
    BY <2>2, <2>3
<1>19. Position(prog, new, y, infile)
  <2>1. IsDump(prog, all, st)
    BY <1>1, <1>3
  <2>2. InCommand(prog, st, Shown(new, Len(new)), pos + lx)
    BY <1>16, <1>18, Zenon
  <2> QED
    BY <1>15, <2>1, <2>2, Zenon DEF Position
<1>20. Matches(prog, new)
  <2> SUFFICES ASSUME NEW j \in 1..Len(new), ~ IsPad(new[j]), Shown(new, j) <= Len(prog)
               PROVE  /\ ShownAs(prog, Shown(new, j), new[j].op)
                      /\ new[j].arg = prog[Shown(new, j)].arg
    BY DEF Matches
  <2>1. Len(new) = n + 1
    BY <1>7, <1>8
  <2>2. CASE j = n + 1
    <3>1. new[j] = das /\ Shown(new, j) = d
      BY <1>7, <1>16, <2>1, <2>2, Zenon
    <3> QED
      BY <1>18, <3>1, Zenon
  <2>3. CASE j # n + 1
    <3>1. j \in 1..Len(lines)
      BY <1>8, <2>1, <2>3
    <3>2. new[j] = lines[j] /\ Shown(new, j) = Shown(lines, j)
      BY <1>7, <3>1
    <3> QED
      BY <1>5, <3>1, <3>2, Zenon DEF Matches
  <2> QED
    BY <2>2, <2>3
<1>21. listing' = new /\ buf' = y /\ program' = prog
  BY <1>4, <1>6, <1>10
<1>22. ASSUME buf' = <<>>, ~ eof  PROVE listing'[Len(listing')].size = CMD_MAXLEN
  <2>1. ly = 0
    BY <1>13, <1>21, <1>22
  <2>2. Len(buf) >= 8
    BY <1>4, <1>9, <1>22 DEF CMD_MAXLEN
  <2>3. lx = 8
    BY <1>9, <1>13, <1>14, <2>1, <2>2
  <2> QED
    BY <1>7, <1>13, <1>21, <2>3, Zenon DEF CMD_MAXLEN
<1>23. Position(program, listing, buf, infile)'
  BY <1>4, <1>19, <1>21, Zenon
<1>24. IsLines(listing)' /\ Matches(program, listing)'
  BY <1>7, <1>20, <1>21, Zenon
<1> QED
  BY <1>4, <1>5, <1>21, <1>22, <1>23, <1>24, Zenon DEF DInv

LEMMA NextD == DInv /\ [DNext]_dvars => DInv'
<1>1. DInv /\ UNCHANGED dvars => DInv'
  BY DEF DInv, dvars
<1> QED
  BY <1>1, RefillD, PrintLineD DEF DNext

\* When the program has been read to its end, every command has been shown.
LEMMA ShownIsProgram == DInv => ListingIsProgram
<1> SUFFICES ASSUME DInv  PROVE ListingIsProgram
  OBVIOUS
<1>0. program \in Seq(Commands) /\ Len(program) \in Nat /\ DOMAIN program = 1..Len(program)
  BY DEF DInv
<1>1. DOMAIN listing = 1..Len(listing) /\ Len(listing) \in Nat
  BY DEF DInv, IsLines
<1>2. \A j \in DOMAIN listing :
        LET i == Shown(listing, j)
        IN  ~ IsPad(listing[j]) /\ i <= Len(program) =>
              ShownAs(program, i, listing[j].op) /\ listing[j].arg = program[i].arg
  BY <1>1, Zenon DEF DInv, Matches
<1>3. ASSUME buf = <<>>, listing # <<>>
      PROVE  \/ Len(program) <= Shown(listing, Len(listing))
             \/ ~ eof /\ listing[Len(listing)].size = CMD_MAXLEN
  <2>1. CASE ~ eof
    BY <1>3, <2>1 DEF DInv
  <2>2. CASE eof
    <3>1. infile = <<>>
      BY <2>2 DEF DInv
    <3>2. PICK all, st, pos : /\ IsDump(program, all, st) /\ AtPos(all, pos, buf, infile)
                              /\ InCommand(program, st, Shown(listing, Len(listing)), pos)
      BY DEF DInv, Position
    <3>3. PICK c \in Nat : c = Shown(listing, Len(listing))
      BY <1>1, ShownFinite
    <3>4. pos \in Nat /\ pos = Len(all)
      BY <1>3, <3>1, <3>2 DEF AtPos
    <3>5. CASE c < Len(program)
      <4>1. c + 1 \in 0..Len(program) /\ c + 1 \in 1..Len(program)
        BY <1>0, <3>5
      <4>2. st[c + 1] \in Nat /\ st[c + 1] <= Len(all)
        BY <3>2, <4>1 DEF IsDump
      <4>3. pos + cmd_size(program[c + 1].arg) <= st[c + 1]
        BY <3>2, <3>3, <3>5 DEF InCommand
      <4>4. cmd_size(program[c + 1].arg) \in 1..8
        <5>1. program[c + 1] \in Commands
          BY <1>0, <4>1
        <5>2. program[c + 1].arg \in Int
          BY <5>1, CommandsAssumption, Zenon DEF Word
        <5> QED
          BY <5>2, CmdSizeType
      <4> QED
        BY <3>4, <4>2, <4>3, <4>4
    <3> QED
      BY <1>0, <3>3, <3>5
  <2> QED
    BY <2>1, <2>2
<1>4. ASSUME NEW i \in DOMAIN program
      PROVE  LET c == program[i] IN
             /\ Len(cmd_generate(c.op, c.arg, 0)) = cmd_size(c.arg)
             /\ \A slot \in 1..CMD_MAXLEN :
                  Len(cmd_generate(c.op, c.arg, slot)) =
                    (IF cmd_size(c.arg) <= slot THEN slot ELSE 0)
  <2>1. program[i] \in Commands
    BY <1>0
  <2>2. program[i].arg \in Int
    BY <2>1, CommandsAssumption, Zenon DEF Word
  <2> QED
    BY <2>2, SizeIsLength
<1> QED
  BY <1>2, <1>3, <1>4, Zenon DEF ListingIsProgram

\* Whatever the program, the buffer and what follows the program, dast lists
\* the opcodes and arguments ast was given, in their order and all of them
\* (but for the opcode of a ldc in front of a padded opr 11), unless a command of eight bytes uses up the buffer exactly (dast.c).
THEOREM DumpIsListed == DSpec => []ListingIsProgram
<1>1. DSpec => []DInv
  BY InitD, NextD, PTL DEF DSpec
<1> QED
  BY <1>1, ShownIsProgram, PTL

=============================================================================
