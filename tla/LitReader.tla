----------------------------- MODULE LitReader -----------------------------
(***************************************************************************)
(* lit_in_expr (shared/litin.c): lit and litdump read back the expressions *)
(* of an object file, one tag at a time, building trees on a stack.  What  *)
(* is in the file is what ast reduced the source's expressions to.         *)
(***************************************************************************)
EXTENDS ExprAlgebra

CONSTANTS Exprs,     \* expressions as they stand in a file
          Sources,   \* expressions as the parser builds them
          MaxExprs   \* bound: expressions in a row

ASSUME ReaderAssumption == MaxExprs \in Nat \ {0}

VARIABLES source,    \* the expression of the source, or none
          written,   \* the expressions in the file
          stray,     \* a tag in front of them that does not belong there
          file,      \* its bytes
          pos,       \* the byte to be read next
          estack,    \* trees built so far of the current expression
          result,    \* expressions returned
          status     \* "reading", "fatal"

ivars == <<source, written, stray, file, pos, estack, result, status>>

(* Some expressions in a row, or the reduced form of one. *)
IInit == /\ \/ /\ written \in BoundedSeq(Exprs, MaxExprs) \ {<<>>}
               /\ stray \in BoundedSeq({Tag.NEG, Tag.PLUS, LIT_EXPR_END, EXPR_TAG_COUNT}, 1)
               /\ stray # <<>> => Len(written) = 1
               /\ source = <<>>
            \/ /\ \E e \in Sources : LET red == expr_reduce(e) IN
                    "abort" \notin red.odd /\ source = <<e>> /\ written = <<red.e>>
               /\ stray = <<>>
         /\ file = Numbers(stray) \o FlattenSeq([j \in DOMAIN written |-> lit_out_expr(written[j])])
         /\ pos = 1 /\ estack = <<>> /\ result = <<>>
         /\ status = "reading"

(* The record the file has at pos. *)
Here == ReadNumber(file, pos)
Reading == status = "reading" /\ pos <= Len(file)

RECURSIVE NumbersUntilMinusOne(_)
NumbersUntilMinusOne(p) ==
    LET n == ReadNumber(file, p)
        rest == NumbersUntilMinusOne(n.next)
    IN  IF n.num = -1 THEN [nums |-> <<>>, next |-> n.next]
        ELSE [nums |-> <<n.num>> \o rest.nums, next |-> rest.next]

LeafNumbers(tag, p) ==
    LET a == ReadNumber(file, p)
        b == ReadNumber(file, a.next)
    IN  CASE tag = Tag.ELSUM -> NumbersUntilMinusOne(p)
          [] tag = Tag.RANGE -> [nums |-> <<a.num, b.num>>, next |-> b.next]
          [] OTHER           -> [nums |-> <<a.num>>, next |-> a.next]

PushLeaf ==
    /\ Reading /\ Here.num \in Leaves
    /\ LET l == LeafNumbers(Here.num, Here.next) IN
         /\ estack' = Append(estack, Leaf(Here.num, l.nums))
         /\ pos' = l.next
    /\ UNCHANGED <<source, written, stray, file, result, status>>

ApplyUnary ==
    /\ Reading /\ Here.num \in Unary
    /\ estack # <<>>
    /\ estack' = Append(Front(estack), Unop(Here.num, Last(estack)))
    /\ pos' = Here.next
    /\ UNCHANGED <<source, written, stray, file, result, status>>

IsBinary(t) == t \in 0..(EXPR_TAG_COUNT - 1) /\ t \notin Leaves \union Unary

(* A plausible bug (mutant): the operands change places. *)
Swapped(tag, below, top) == Binop(tag, top, below)

Combine(tag, below, top) == Binop(tag, below, top)

ApplyBinary ==
    /\ Reading /\ IsBinary(Here.num)
    /\ Len(estack) >= 2
    /\ LET n == Len(estack) IN
         estack' = Append(SubSeq(estack, 1, n - 2), Combine(Here.num, estack[n - 1], estack[n]))
    /\ pos' = Here.next
    /\ UNCHANGED <<source, written, stray, file, result, status>>

EndExpr ==
    /\ Reading /\ Here.num = LIT_EXPR_END
    /\ Len(estack) = 1
    /\ result' = Append(result, estack[1])
    /\ estack' = <<>>
    /\ pos' = Here.next
    /\ UNCHANGED <<source, written, stray, file, status>>

(* The messages about tags, operands and a premature LIT_EXPR_END. *)
Fatal ==
    /\ Reading
    /\ \/ Here.num \in Unary /\ estack = <<>>
       \/ IsBinary(Here.num) /\ Len(estack) < 2
       \/ Here.num = LIT_EXPR_END /\ Len(estack) # 1
       \/ Here.num \notin (0..(EXPR_TAG_COUNT - 1)) \union {LIT_EXPR_END}
    /\ status' = "fatal"
    /\ UNCHANGED <<source, written, stray, file, pos, estack, result>>

INext == PushLeaf \/ ApplyUnary \/ ApplyBinary \/ EndExpr \/ Fatal

ISpec == IInit /\ [][INext]_ivars

-----------------------------------------------------------------------------
(* lit gets back the expressions ast had in memory, in their order and     *)
(* whatever numbers and operators are in them, and stops at the byte where *)
(* the next record starts (lit_out_expr against lit_in_expr); from a file  *)
(* with an operator too many it gets nothing.                              *)
ReadsBack ==
    IF stray = <<>>
    THEN /\ IsPrefix(result, written)
         /\ status # "fatal"
         /\ pos > Len(file) => result = written
    ELSE result = <<>>

(* expr.h has expr_reduce make "an equivalent transformation": what lit    *)
(* gets to link means, whatever values the names and sizes the elements    *)
(* get, what the source says.  Not so, and told apart by odd: a difference *)
(* behind a minus of which only the left operand cancels, and || 0 and     *)
(* && 1, which keep a number that is not a truth value.                    *)
ReducedMeansTheSame ==
    source # <<>> /\ result # <<>> /\ expr_reduce(source[1]).odd = {} =>
       \A w \in Worlds : Meaning(result[1], w) = Meaning(source[1], w)

(* The bounds expr_estimate gives before and after the reduction, from     *)
(* which a command gets its first and its largest size, hold the value the *)
(* expression will have, also where sums overflow a word.  Not so, and     *)
(* told apart by odd: the difference whose bounds overflow, which are      *)
(* tested as a sum's, and the mask -1.                                     *)
EstimateBounds ==
    source # <<>> /\ result # <<>> =>
       \A e \in {source[1], result[1]} :
          LET est == expr_estimate(e)
          IN  est.odd = {} => \A w \in Worlds : Meaning(e, w) \in est.lo..est.hi
=============================================================================
