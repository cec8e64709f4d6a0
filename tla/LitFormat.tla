----------------------------- MODULE LitFormat -----------------------------
(***************************************************************************)
(* How numbers and expressions are written in LIT files (shared/litout.c), *)
(* and how both readers, shared/litin.c for object files and               *)
(* startups/shared/litload.c for loadable ones, take a number apart.       *)
(* Numbers are 32-bit words here, the target's.                            *)
(***************************************************************************)
EXTENDS Integers, SequencesExt

(* The tags of enum expr_tag, without the shifts LSH and RSH.              *)
Tag == [CONST |-> 0, NAME |-> 1, NEG |-> 2, NOT |-> 3, COMPL |-> 4,
        MINUS |-> 5, PLUS |-> 6, MUL |-> 9, DIV |-> 10, REM |-> 11,
        AND |-> 12, XOR |-> 13, OR |-> 14, LT |-> 15, LE |-> 16, GT |-> 17,
        GE |-> 18, EQ |-> 19, NE |-> 20, ANDAND |-> 21, OROR |-> 22,
        QUEST |-> 23, COLON |-> 24, RANGE |-> 25, ELEMENT |-> 26, ELSUM |-> 27]

EXPR_TAG_COUNT == 28
LIT_EXPR_END == 250

Leaves == {Tag.CONST, Tag.NAME, Tag.RANGE, Tag.ELEMENT, Tag.ELSUM}
Unary == {Tag.NEG, Tag.NOT, Tag.COMPL}

(* An expression: a leaf with its numbers, or an operator with operands.   *)
Leaf(tag, nums) == [tag |-> tag, nums |-> nums]
Unop(tag, r) == [tag |-> tag, r |-> r]
Binop(tag, l, r) == [tag |-> tag, l |-> l, r |-> r]
questop(cond, yes, no) == Binop(Tag.QUEST, cond, Binop(Tag.COLON, yes, no))

Byte4(n, j) == (n \div (256 ^ j)) % 256

(* Small negative numbers are written complemented behind a 255, the rest  *)
(* in one, two, three or five bytes.                                       *)
lit_out_number(number) ==
    LET inverted == number < 0 /\ number >= -65536
        v == IF inverted THEN -number - 1 ELSE number
    IN  (IF inverted THEN <<255>> ELSE <<>>)
        \o CASE v \in 0..250 -> <<v>>
             [] v \in 251..255 -> <<251, v>>
             [] v \in 256..65535 -> <<252, Byte4(v, 0), Byte4(v, 1)>>
             [] OTHER -> <<253, Byte4(v, 0), Byte4(v, 1), Byte4(v, 2), Byte4(v, 3)>>

Numbers(nums) == FlattenSeq([j \in DOMAIN nums |-> lit_out_number(nums[j])])

lit_out_string(bytes) == lit_out_number(Len(bytes)) \o bytes

RECURSIVE Polish(_)
(* Reverse Polish order; the numbers of an ELSUM end in -1. *)
Polish(e) ==
    CASE e.tag \in Leaves -> <<e.tag>> \o e.nums \o (IF e.tag = Tag.ELSUM THEN <<-1>> ELSE <<>>)
      [] e.tag \in Unary  -> Polish(e.r) \o <<e.tag>>
      [] OTHER            -> Polish(e.l) \o Polish(e.r) \o <<e.tag>>

lit_out_expr(e) == Numbers(Polish(e) \o <<LIT_EXPR_END>>)

-----------------------------------------------------------------------------
(* The number at position p of a file, and where the next one starts.  The *)
(* upper byte of four carries the sign.  The readers complain of 254 and   *)
(* of a second 255, which the writer never writes there.                   *)
ReadNumber(file, p) ==
    LET inverted == file[p] = 255
        q == IF inverted THEN p + 1 ELSE p
        Up(j) == file[q + 1 + j] * (256 ^ j)
        top == IF file[q + 4] > 127 THEN file[q + 4] - 256 ELSE file[q + 4]
        v == CASE file[q] \in 0..250 -> file[q]
               [] file[q] = 251 -> Up(0)
               [] file[q] = 252 -> Up(0) + Up(1)
               [] file[q] = 253 -> Up(0) + Up(1) + Up(2) + top * 16777216
               [] OTHER -> 0
        width == CASE file[q] = 251 -> 1 [] file[q] = 252 -> 2 [] file[q] = 253 -> 4
                   [] OTHER -> 0
    IN  [num |-> IF inverted THEN -v - 1 ELSE v,
         next |-> q + 1 + width]
=============================================================================
