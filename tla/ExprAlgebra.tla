---------------------------- MODULE ExprAlgebra ----------------------------
(***************************************************************************)
(* The algebra of expressions (shared/expr.c): the constructors the parser *)
(* calls, expr_reduce, which every expression goes through before it is    *)
(* written, and expr_estimate, from whose bounds commands get their sizes. *)
(* A word has Bits bits, 32 in the program; with fewer, sums overflow.     *)
(***************************************************************************)
EXTENDS LitFormat, Bitwise

CONSTANTS Bits,
          NameTable,   \* number |-> [global, align, val]; val may be Null
          ElementSize, \* number |-> [lo, hi]: el->size, constant if lo = hi
          NameValues   \* number |-> values considered for a name without one

ASSUME BitsAssumption == Bits \in 2..31
ASSUME AlignAssumption ==
    \A n \in DOMAIN NameValues : \A v \in NameValues[n] : v % NameTable[n].align = 0

CONST_MAX == 2 ^ (Bits - 1) - 1
CONST_MIN == -(2 ^ (Bits - 1))
Wrap(n) == ((n - CONST_MIN) % (2 ^ Bits)) + CONST_MIN

Null == [tag |-> -1]
Const(c) == Leaf(Tag.CONST, <<c>>)
IsConst(e) == e.tag = Tag.CONST
ConstOf(e) == e.nums[1]
IsConstOf(e, c) == IsConst(e) /\ ConstOf(e) = c
IsLeaf(e) == e.tag \in Leaves
Commutative == {Tag.PLUS, Tag.MUL, Tag.AND, Tag.XOR, Tag.OR, Tag.ANDAND, Tag.OROR}

-----------------------------------------------------------------------------
(* eval.                                                                    *)

Unsigned(n) == n % (2 ^ Bits)
BitAnd(a, b) == Wrap(Unsigned(a) & Unsigned(b))

Truth(b) == IF b THEN 1 ELSE 0
Magnitude(n) == IF n < 0 THEN -n ELSE n
Quotient(l, r) == LET q == Magnitude(l) \div Magnitude(r)
                  IN  IF (l < 0) = (r < 0) THEN q ELSE -q

eval(tag, l, r) ==
    CASE tag = Tag.NEG    -> Wrap(-r)
      [] tag = Tag.NOT    -> Truth(r = 0)
      [] tag = Tag.COMPL  -> -r - 1
      [] tag = Tag.MINUS  -> Wrap(l - r)
      [] tag = Tag.PLUS   -> Wrap(l + r)
      [] tag = Tag.MUL    -> Wrap(l * r)
      [] tag = Tag.DIV    -> IF r = 0 THEN l ELSE Wrap(Quotient(l, r))
      [] tag = Tag.REM    -> IF r = 0 THEN l ELSE l - r * Quotient(l, r)
      [] tag = Tag.AND    -> BitAnd(l, r)
      [] tag = Tag.XOR    -> Wrap(Unsigned(l) ^^ Unsigned(r))
      [] tag = Tag.OR     -> Wrap(Unsigned(l) | Unsigned(r))
      [] tag = Tag.LT     -> Truth(l < r)
      [] tag = Tag.LE     -> Truth(l <= r)
      [] tag = Tag.GT     -> Truth(l > r)
      [] tag = Tag.GE     -> Truth(l >= r)
      [] tag = Tag.EQ     -> Truth(l = r)
      [] tag = Tag.NE     -> Truth(l # r)
      [] tag = Tag.ANDAND -> Truth(l # 0 /\ r # 0)
      [] tag = Tag.OROR   -> Truth(l # 0 \/ r # 0)

-----------------------------------------------------------------------------
(* Constructors.  own says that the caller is the only owner of e1.         *)

PlusConst(e) == e.tag = Tag.PLUS /\ IsConst(e.r)

expr_binop(op, e1, own, e2) ==
    LET swap == op \in Commutative /\ IsConst(e1)
        a == IF swap THEN e2 ELSE e1
        b == IF swap THEN e1 ELSE e2
    IN  IF IsConst(e1) /\ IsConst(e2) THEN Const(eval(op, ConstOf(e1), ConstOf(e2)))
        ELSE IF op = Tag.PLUS /\ PlusConst(a) /\ IsConst(b)
        THEN Binop(op, a.l, Const(Wrap(ConstOf(a.r) + ConstOf(b))))
        ELSE IF op = Tag.PLUS /\ PlusConst(a) /\ own /\ ~ swap
        THEN Binop(op, Binop(op, a.l, b), a.r)
        ELSE Binop(op, a, b)

expr_unop(op, e) ==
    IF op = Tag.NEG THEN expr_binop(Tag.MINUS, Const(0), FALSE, e)
    ELSE IF IsConst(e) THEN Const(eval(op, 0, ConstOf(e)))
    ELSE Unop(op, e)

\* Two ELSUMs, or RANGEs, are never counted equal.
RECURSIVE expr_equal(_, _)
expr_equal(e, f) ==
    /\ e.tag = f.tag
    /\ CASE e.tag \in {Tag.CONST, Tag.NAME, Tag.ELEMENT} -> e.nums = f.nums
         [] e.tag \in {Tag.ELSUM, Tag.RANGE} -> FALSE
         [] e.tag \in Unary -> expr_equal(e.r, f.r)
         [] OTHER -> expr_equal(e.r, f.r) /\ expr_equal(e.l, f.l)

\* e & (n-1) if it can be told, n if it can not; n is a power of two.
RECURSIVE CheckAlignment(_, _)
CheckAlignment(e, n) ==
    CASE IsConst(e) -> ConstOf(e) % n
      [] e.tag = Tag.NAME ->
           LET np == NameTable[e.nums[1]]
           IN  IF np.align >= n THEN 0
               ELSE IF np.val # Null /\ ~ np.global THEN CheckAlignment(np.val, n) ELSE n
      [] e.tag \in {Tag.PLUS, Tag.MINUS} ->
           LET l == CheckAlignment(e.l, n)
               r == CheckAlignment(e.r, n)
           IN  IF l = n \/ r = n THEN n
               ELSE IF e.tag = Tag.PLUS THEN (l + r) % n ELSE (l - r) % n
      [] OTHER -> n

-----------------------------------------------------------------------------
(* substract_elsums: occurrences of the same element cancel.  The order of  *)
(* the elements in an ELSUM says nothing.                                   *)

Without(s, t) == FoldLeft(LAMBDA rest, x : RemoveFirst(rest, x), s, t)

substract_elsums(s, t) ==
    LET l == Without(s, t)
        r == Without(t, s)
    IN  CASE l = <<>> /\ r = <<>> -> Null
          [] r = <<>> -> Leaf(Tag.ELSUM, l)
          [] l = <<>> -> expr_unop(Tag.NEG, Leaf(Tag.ELSUM, r))
          [] OTHER    -> Binop(Tag.MINUS, Leaf(Tag.ELSUM, l), Leaf(Tag.ELSUM, r))

-----------------------------------------------------------------------------
(* scan1 takes the operands of the right subtree one by one, and scan2      *)
(* looks for a partner of such an item in the left one, top.  hit: e is a   *)
(* replacement (Null: nothing is left); own: a node nobody else refers to.  *)

Sums == {Tag.PLUS, Tag.MINUS}
GoesDeeper(e, op) == e.tag = op \/ (op \in Sums /\ e.tag \in Sums)

\* A plausible bug (mutant): a subtrahend's own subtrahends keep the sign.
SameOp(e, op) == op

\* What becomes of op to the right of e.
RightOp(e, op) ==
    IF e.tag # Tag.MINUS THEN op
    ELSE IF op = Tag.MINUS THEN Tag.PLUS ELSE Tag.MINUS

Found(e, own) == [e |-> e, hit |-> TRUE, own |-> own]
Nothing(e) == [e |-> e, hit |-> FALSE, own |-> FALSE]

\* l and r: what scan2 found in the operands of e; it looks for one partner.
HitBelow(e, l, r) ==
    CASE l.hit /\ l.e # Null -> Found(expr_binop(e.tag, l.e, l.own, e.r), TRUE)
      [] l.hit /\ l.e = Null -> IF e.tag = Tag.MINUS THEN Found(expr_unop(Tag.NEG, e.r), TRUE)
                                ELSE Found(e.r, FALSE)
      [] ~ l.hit /\ r.hit -> IF r.e = Null THEN Found(e.l, FALSE)
                             ELSE Found(expr_binop(e.tag, e.l, TRUE, r.e), TRUE)
      [] OTHER -> Nothing(e)

RECURSIVE scan2(_, _, _)
scan2(e, op, item) ==
    IF GoesDeeper(e, op)
    THEN HitBelow(e, scan2(e.l, op, item), scan2(e.r, RightOp(e, op), item))
    ELSE CASE IsConst(e) /\ IsConst(item) -> Found(Const(eval(op, ConstOf(e), ConstOf(item))), TRUE)
           [] op \in {Tag.MINUS, Tag.XOR} /\ expr_equal(e, item) -> Found(Null, FALSE)
           [] op = Tag.MINUS /\ e.tag = Tag.ELSUM /\ item.tag = Tag.ELSUM
              /\ ToSet(e.nums) \cap ToSet(item.nums) # {} ->
                Found(substract_elsums(e.nums, item.nums), TRUE)
           [] OTHER -> Nothing(e)

\* The result also has the left subtree, and lost: of a difference the left
\* operand found its partner, and the right one stays without its sign.
WithTop(res, top, lost) ==
    [e |-> res.e, hit |-> res.hit, own |-> res.own, top |-> top, lost |-> lost]

\* l and r: what scan1 has left of the operands of e.
Left(e, l, r) ==
    CASE ~ l.hit /\ ~ r.hit -> Nothing(e)
      [] (l.hit \/ r.hit) /\ l.e = Null -> Found(r.e, r.own)
      [] l.e # Null /\ r.e = Null -> Found(l.e, l.own)
      [] OTHER -> Found(expr_binop(e.tag, l.e, l.own, r.e), TRUE)

Rejoined(e, l, r) ==
    WithTop(Left(e, l, r), r.top,
            l.lost \/ r.lost \/ (l.e = Null /\ r.e # Null /\ e.tag = Tag.MINUS))

Item(e, found) ==
    WithTop([found EXCEPT !.e = IF found.hit THEN Null ELSE e, !.own = FALSE], found.e, FALSE)

RECURSIVE scan1(_, _, _)
ScanRight(e, op, l) == Rejoined(e, l, scan1(e.r, RightOp(e, op), l.top))
scan1(e, op, top) ==
    IF top = Null THEN WithTop(Nothing(e), top, FALSE)
    ELSE IF GoesDeeper(e, op) THEN ScanRight(e, op, scan1(e.l, op, top))
    ELSE Item(e, scan2(top, op, e))

-----------------------------------------------------------------------------
(* expr_reduce_trivia, on an operator node whose operands are reduced: the  *)
(* result, and odd: the ways it has of not meaning the same, or of calling  *)
(* abort (eval of COLON).                                                   *)

Plain(e) == [e |-> e, odd |-> {}]

NeutralZero == {Tag.MINUS, Tag.PLUS, Tag.XOR, Tag.OR, Tag.OROR}

\* (<aligned name> + 1) & 3 => 1
Masked(l, c) == \E k \in 1..(Bits - 2) : c = 2 ^ k - 1 /\ CheckAlignment(l, c + 1) < c + 1

BinaryTrivia(e) ==
    LET l == e.l
        r == e.r
    IN  CASE e.tag \in NeutralZero /\ IsConstOf(r, 0) ->
               [e |-> l, odd |-> IF e.tag = Tag.OROR THEN {"truth"} ELSE {}]
          [] e.tag \in {Tag.MUL, Tag.DIV} /\ IsConstOf(r, 1) -> Plain(l)
          [] e.tag \in {Tag.MUL, Tag.AND} /\ IsConstOf(r, 0) -> Plain(Const(0))
          [] e.tag = Tag.ANDAND /\ IsConst(r) /\ ~ IsConstOf(r, 0) -> [e |-> l, odd |-> {"truth"}]
          [] e.tag = Tag.AND /\ IsConstOf(r, -1) -> Plain(l)
          [] e.tag = Tag.QUEST /\ IsConst(l) -> Plain(IF ConstOf(l) # 0 THEN r.l ELSE r.r)
          [] e.tag \in {Tag.DIV, Tag.REM} /\ IsConstOf(r, 0) -> Plain(l)
          [] e.tag = Tag.AND /\ IsConst(r) /\ Masked(l, ConstOf(r)) ->
               Plain(Const(CheckAlignment(l, ConstOf(r) + 1)))
          [] OTHER -> Plain(e)

expr_reduce_trivia(e) ==
    IF e.tag \in Unary
    THEN Plain(IF IsConst(e.r) THEN Const(eval(e.tag, 0, ConstOf(e.r))) ELSE e)
    ELSE IF IsConst(e.l) /\ IsConst(e.r)
    THEN IF e.tag = Tag.COLON THEN [e |-> e, odd |-> {"abort"}]
         ELSE Plain(Const(eval(e.tag, ConstOf(e.l), ConstOf(e.r))))
    ELSE BinaryTrivia(IF e.tag \in Commutative /\ IsConst(e.l) THEN Binop(e.tag, e.r, e.l) ELSE e)

Associative == {Tag.PLUS, Tag.MINUS, Tag.AND, Tag.XOR, Tag.OR}

\* s: what scan1 has left of both operands of e.
Remains(e, s) ==
    CASE s.top = Null /\ s.e = Null -> Const(0)
      [] s.top = Null /\ s.e # Null -> IF e.tag = Tag.MINUS THEN Binop(e.tag, Const(0), s.e) ELSE s.e
      [] s.top # Null /\ s.e = Null -> s.top
      [] OTHER -> Binop(e.tag, s.top, s.e)

Signed(e, s) == [e |-> Remains(e, s), odd |-> IF s.lost THEN {"lost_sign"} ELSE {}]

Associate(e) == Signed(e, scan1(e.r, e.tag, e.l))

FixedSize(k) == ElementSize[k].lo = ElementSize[k].hi
SizeSum(s) == Wrap(FoldLeft(LAMBDA n, k : n + ElementSize[k].lo, 0, s))

\* The elements of known size add up to a constant.
expr_reduce_elsum(e) ==
    LET fixed == SelectSeq(e.nums, FixedSize)
        loose == SelectSeq(e.nums, LAMBDA k : ~ FixedSize(k))
    IN  CASE loose = <<>> -> Const(SizeSum(fixed))
          [] fixed = <<>> -> e
          [] OTHER -> Binop(Tag.PLUS, Leaf(Tag.ELSUM, loose), Const(SizeSum(fixed)))

\* What is lifted to the place of a leaf.
Lifted(e) ==
    CASE e.tag = Tag.ELSUM -> expr_reduce_elsum(e)
      [] e.tag = Tag.ELEMENT /\ FixedSize(e.nums[1]) -> Const(ElementSize[e.nums[1]].lo)
      [] OTHER -> e

Associated(t) ==
    IF t.e.tag \in Associative THEN [Associate(t.e) EXCEPT !.odd = @ \cup t.odd] ELSE t

\* l and r: the operands of e, reduced.
ReducedNode(e, l, r) ==
    Associated([expr_reduce_trivia(IF e.tag \in Unary THEN Unop(e.tag, r.e)
                                   ELSE Binop(e.tag, l.e, r.e))
                  EXCEPT !.odd = @ \cup l.odd \cup r.odd])

RECURSIVE expr_reduce(_)
ReduceLifted(e) ==
    IF IsLeaf(e) THEN Plain(e)
    ELSE ReducedNode(e, IF e.tag \in Unary THEN Plain(Null) ELSE expr_reduce(e.l), expr_reduce(e.r))
expr_reduce(e) ==
    IF e.tag = Tag.NAME /\ NameTable[e.nums[1]].val # Null /\ ~ NameTable[e.nums[1]].global
    THEN expr_reduce(NameTable[e.nums[1]].val)
    ELSE ReduceLifted(Lifted(e))

-----------------------------------------------------------------------------
(* expr_estimate: the least and the greatest value, and odd: bounds that    *)
(* are wrong, of a difference that overflows unnoticed and of a mask with   *)
(* all bits set.                                                            *)

Bounds(lo, hi) == [lo |-> lo, hi |-> hi, odd |-> {}]
Widest == Bounds(CONST_MIN, CONST_MAX)

\* A plausible bug (mutant).
NeverOverflows(a, b) == FALSE

sum_overflows(a, b) == \/ a > 0 /\ b > 0 /\ Wrap(a + b) < 0
                       \/ a < 0 /\ b < 0 /\ Wrap(a + b) >= 0

\* Elements of known size are added without a look at overflow.
expr_estimate_elsum(s) ==
    FoldLeft(LAMBDA acc, k :
               IF acc = Widest \/ (~ FixedSize(k) /\ \/ sum_overflows(acc.lo, ElementSize[k].lo)
                                                     \/ sum_overflows(acc.hi, ElementSize[k].hi))
               THEN Widest
               ELSE Bounds(Wrap(acc.lo + ElementSize[k].lo), Wrap(acc.hi + ElementSize[k].hi)),
             Bounds(0, 0), s)

\* 0x0000000f and suchlike.
IsMask(e) == IsConst(e) /\ BitAnd(ConstOf(e), Wrap(ConstOf(e) + 1)) = 0
MaskRange(c) == [lo |-> 0, hi |-> c, odd |-> IF c < 0 THEN {"mask"} ELSE {}]

DifferenceOf(l, r) ==
    LET lo == l.lo - r.hi
        hi == l.hi - r.lo
    IN  IF \/ r.lo = CONST_MIN
           \/ sum_overflows(l.lo, r.lo) \/ sum_overflows(l.hi, r.hi) THEN Widest
        ELSE [lo |-> Wrap(lo), hi |-> Wrap(hi),
              odd |-> l.odd \cup r.odd \cup
                      (IF lo < CONST_MIN \/ hi > CONST_MAX THEN {"minus"} ELSE {})]

SumOf(l, r) ==
    IF sum_overflows(l.lo, r.lo) \/ sum_overflows(l.hi, r.hi) THEN Widest
    ELSE [lo |-> Wrap(l.lo + r.lo), hi |-> Wrap(l.hi + r.hi), odd |-> l.odd \cup r.odd]

RECURSIVE expr_estimate(_)
expr_estimate(e) ==
    CASE IsConst(e) -> Bounds(ConstOf(e), ConstOf(e))
      [] e.tag = Tag.ELEMENT -> Bounds(ElementSize[e.nums[1]].lo, ElementSize[e.nums[1]].hi)
      [] e.tag = Tag.RANGE -> Bounds(e.nums[1], e.nums[2])
      [] e.tag = Tag.ELSUM -> expr_estimate_elsum(e.nums)
      [] e.tag = Tag.NAME -> LET np == NameTable[e.nums[1]]
                             IN  IF np.val = Null \/ np.global THEN Widest ELSE expr_estimate(np.val)
      [] e.tag = Tag.NOT -> Bounds(0, 1)
      [] e.tag = Tag.MINUS -> DifferenceOf(expr_estimate(e.l), expr_estimate(e.r))
      [] e.tag = Tag.PLUS -> SumOf(expr_estimate(e.l), expr_estimate(e.r))
      [] e.tag = Tag.AND /\ IsMask(e.r) -> MaskRange(ConstOf(e.r))
      [] e.tag = Tag.AND /\ ~ IsMask(e.r) /\ IsMask(e.l) -> MaskRange(ConstOf(e.l))
      [] OTHER -> Widest

-----------------------------------------------------------------------------
(* What an expression means in a world: once the linker has given the names *)
(* values and the elements sizes.                                           *)

Worlds ==
    LET sizes == UNION {ElementSize[k].lo..ElementSize[k].hi : k \in DOMAIN ElementSize}
    IN  [value : {v \in [DOMAIN NameValues -> UNION Range(NameValues)] :
                    \A n \in DOMAIN v : v[n] \in NameValues[n]},
         size : {z \in [DOMAIN ElementSize -> sizes] :
                    \A k \in DOMAIN z : z[k] \in {ElementSize[k].lo, ElementSize[k].hi}}]

RECURSIVE Meaning(_, _)
Meaning(e, w) ==
    CASE IsConst(e) -> ConstOf(e)
      [] e.tag = Tag.NAME -> LET np == NameTable[e.nums[1]]
                             IN  IF np.val = Null THEN w.value[e.nums[1]] ELSE Meaning(np.val, w)
      [] e.tag = Tag.ELEMENT -> w.size[e.nums[1]]
      [] e.tag = Tag.ELSUM -> Wrap(FoldLeft(LAMBDA n, k : n + w.size[k], 0, e.nums))
      [] e.tag \in Unary -> eval(e.tag, 0, Meaning(e.r, w))
      [] e.tag = Tag.QUEST -> Meaning(IF Meaning(e.l, w) # 0 THEN e.r.l ELSE e.r.r, w)
      [] OTHER -> eval(e.tag, Meaning(e.l, w), Meaning(e.r, w))
=============================================================================
