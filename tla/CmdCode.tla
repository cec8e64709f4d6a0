------------------------------- MODULE CmdCode -------------------------------
(***************************************************************************)
(* The encoding of transputer direct commands (shared/cmd.c).  A command   *)
(* byte carries four bits of argument; a longer argument is built up by    *)
(* pfix and nfix bytes in front of it.  cmd_size predicts the length,      *)
(* cmd_generate writes the bytes: the assembler lays code out with the     *)
(* first and emits it with the second.                                     *)
(***************************************************************************)
EXTENDS Integers, FiniteSets, Sequences

CMD_MAXLEN == 8

\* 16^k for the seven shifts by four bits that a 32-bit word allows.
Weight == <<16, 256, 4096, 65536, 1048576, 16777216, 268435456>>

\* How often `while (a = a >> 4)' goes round for a nonnegative word a.
Shifts(a) == Cardinality({k \in 1..7 : a >= Weight[k]})

\* ~a of a two's complement word.
Compl(a) == -a - 1

\* A plausible bug (mutant).
SizeWithoutSignByte(arg) ==
    1 + Shifts(IF arg < 0 THEN Compl(arg) ELSE arg)

cmd_size(arg) ==
    IF arg < 0
    THEN 1 + (IF arg >= -16 THEN 1 ELSE 0) + Shifts(Compl(arg))
    ELSE 1 + Shifts(arg)

\* The size range of a command whose argument lies in lo..hi, shared by
\* emit_cmd and pass_optimize_offsets.  cmd_size is not monotonic in its
\* argument, hence the case of a range that includes 0.
SizeLo(lo, hi) ==
    LET a == cmd_size(lo)
        b == cmd_size(hi)
    IN  IF lo <= 0 /\ hi >= 0 THEN 1 ELSE IF a < b THEN a ELSE b

SizeHi(lo, hi) ==
    LET a == cmd_size(lo)
        b == cmd_size(hi)
    IN  IF a > b THEN a ELSE b

\* A command byte: its function code and its four bits.
Byte(op, nibble) == [op |-> op, nibble |-> nibble]

\* Bits 4j .. 4j+3 of a word; \div and % of TLA+ round as >> and & do.
Nibble(arg, j) == (IF j = 0 THEN arg ELSE arg \div Weight[j]) % 16

\* The prefix bytes, most significant first.  A negative argument ends the
\* loop one digit early, at (arg >> 4) < 16, and starts with an nfix.
PrefixBytes(arg) ==
    IF arg >= 0
    THEN LET n == Shifts(arg)
         IN  [i \in 1..n |-> Byte("pfix", Nibble(arg, n + 1 - i))]
    ELSE LET n == Cardinality({k \in 2..7 : Compl(arg) >= Weight[k]}) + 1
         IN  [i \in 1..n |->
                IF i = 1 THEN Byte("nfix", Nibble(Compl(arg), n))
                         ELSE Byte("pfix", Nibble(arg, n + 1 - i))]

TooNarrow == <<>>

\* slot = 0 asks for the shortest code; otherwise the code is padded to the
\* slot with pfix 0, and TooNarrow stands for the result -1.
cmd_generate(opcode, arg, slot) ==
    LET code == Append(PrefixBytes(arg), Byte(opcode, Nibble(arg, 0)))
        pad  == [i \in 1..(slot - Len(code)) |-> Byte("pfix", 0)]
    IN  IF Len(code) > (IF slot # 0 THEN slot ELSE CMD_MAXLEN) THEN TooNarrow
        ELSE pad \o code

=============================================================================
