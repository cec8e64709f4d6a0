-------------------------------- MODULE Dast --------------------------------
(***************************************************************************)
(* The disassembler (dast/dast.c, dast/disassemble.c) reading the bytes    *)
(* the encoder of CmdCode wrote.  Commands of a program are laid out one   *)
(* after the other, perhaps followed by bare prefix bytes (data, or a cut  *)
(* dump); dast reads them through a buffer it tops up whenever fewer than  *)
(* CMD_MAXLEN bytes are left in it.                                        *)
(***************************************************************************)
EXTENDS CmdCode, SequencesExt

CONSTANTS BUFSIZ,       \* bytes one fread returns at most
          Commands,     \* records [op, arg, slot]: what ast was given
          MaxCommands,  \* bound: length of the program
          MaxTail,      \* bound: bare prefix bytes after the program
          FpuCodes      \* arguments that tab_fpu has a mnemonic for

ASSUME DastAssumption == BUFSIZ \in Nat /\ BUFSIZ >= CMD_MAXLEN

\* A 32-bit word.
INT_MAX == 2147483647
Word(a) == a \in Int /\ Compl(INT_MAX) <= a /\ a <= INT_MAX

\* What ast writes for a command: prefixes are its own business, an argument
\* is a 32-bit word, and a slot that the passes have reserved is wide enough
\* (CommandsFit of Relax).
ASSUME CommandsAssumption ==
    \A c \in Commands :
       /\ c.op \notin {"pfix", "nfix"}
       /\ Word(c.arg)
       /\ c.slot = 0 \/ c.slot \in cmd_size(c.arg)..CMD_MAXLEN

VARIABLES program,  \* the commands assembled
          infile,   \* bytes of stdin not read yet
          buf,      \* bufp[0 .. bufcount-1]
          eof,      \* feof (stdin)
          listing   \* the lines printed: records [op, arg, size]

dvars == <<program, infile, buf, eof, listing>>

FPENTRY == 171

Encode(prog) ==
    FlattenSeq([i \in DOMAIN prog |->
                  cmd_generate(prog[i].op, prog[i].arg, prog[i].slot)])

IsPrefix1(b) == b.op \in {"pfix", "nfix"}

\* One turn of the prefix loop; oreg has its low four bits clear.
Accumulate(oreg, b) ==
    IF b.op = "pfix" THEN (oreg + b.nibble) * 16
                     ELSE Compl(oreg + b.nibble) * 16

\* The prefix loop over bytes[1 .. p-1], and the four bits of bytes[p].
Oreg(bytes, p) ==
    LET oreg[k \in 0..(p - 1)] ==
          IF k = 0 THEN 0 ELSE Accumulate(oreg[k - 1], bytes[k])
    IN  oreg[p - 1] + bytes[p].nibble

\* `OPCODE_FPENTRY >> 8' shifts the whole code out.
FollowedByFpentry(bytes, p) ==
    /\ p + 2 <= Len(bytes)
    /\ bytes[p + 1] = Byte("pfix", (FPENTRY \div 256) % 16)
    /\ bytes[p + 2] = Byte("opr", FPENTRY % 16)

\* disassemble (buf, buflen): the line for the command at the start of buf.
disassemble(bytes) ==
    LET win   == SubSeq(bytes, 1, IF Len(bytes) > CMD_MAXLEN THEN CMD_MAXLEN
                                  ELSE Len(bytes))
        ends  == {i \in DOMAIN win : ~ IsPrefix1(win[i])}
        alone == win[1] = Byte("pfix", 0) \/ ends = {}
        p     == IF alone THEN 1 ELSE Min(ends)
    IN  [op   |-> IF /\ win[p].op = "ldc" /\ Oreg(win, p) \in FpuCodes
                     /\ FollowedByFpentry(win, p)
                  THEN "fpu" ELSE win[p].op,
         arg  |-> Oreg(win, p),
         size |-> p]

\* fread (..., BUFSIZ, stdin); feof is set by a read that comes short.
Fread(into) ==
    LET n == IF Len(infile) < BUFSIZ THEN Len(infile) ELSE BUFSIZ
    IN  /\ buf' = into \o SubSeq(infile, 1, n)
        /\ infile' = SubSeq(infile, n + 1, Len(infile))
        /\ eof' = (n < BUFSIZ)

\* A plausible bug (mutant).
RefillWhenEmpty == buf = <<>> /\ ~ eof

NeedsRefill == Len(buf) < CMD_MAXLEN /\ ~ eof

DInit ==
    /\ program \in BoundedSeq(Commands, MaxCommands) \ {<<>>}
    /\ \E t \in 0..MaxTail :
         infile = Encode(program) \o [i \in 1..t |-> Byte("pfix", i)]
    /\ buf = <<>> /\ eof = FALSE /\ listing = <<>>

\* The first fread, and the memcpy and fread of the loop; an empty buffer
\* ends the loop even when feof has not been seen, hence listing = <<>>.
Refill ==
    /\ NeedsRefill
    /\ buf # <<>> \/ listing = <<>>
    /\ Fread(buf)
    /\ UNCHANGED <<program, listing>>

PrintLine ==
    /\ ~ NeedsRefill
    /\ buf # <<>>
    /\ LET das == disassemble(buf)
       IN  /\ listing' = Append(listing, das)
           /\ buf' = SubSeq(buf, das.size + 1, Len(buf))
    /\ UNCHANGED <<program, infile, eof>>

DNext == Refill \/ PrintLine

DSpec == DInit /\ [][DNext]_dvars

-----------------------------------------------------------------------------
\* A slot is filled up with pfix 0, and dast gives each a line of its own.
IsPad(line) == line.op = "pfix" /\ line.arg = 0

PaddedFpentry(c) == c.op = "opr" /\ c.arg = 11 /\ c.slot = 2

\* How many of the first j lines are not padding.
Shown(lines, j) == Cardinality({k \in 1..j : ~ IsPad(lines[k])})

\* What stands for command i in the listing: its opcode, but for a ldc in front
\* of an opr 11 in a .slot of two bytes, which is taken for the entry of the fpu.
ShownAs(prog, i, op) ==
    \/ op = prog[i].op
    \/ /\ op = "fpu" /\ prog[i].op = "ldc" /\ prog[i].arg \in FpuCodes
       /\ i < Len(prog) /\ PaddedFpentry(prog[i + 1])

\* The listing of an assembled program shows the opcodes and arguments the
\* program was written with, whatever buffer boundary falls inside a command
\* and however cmd_generate had to prefix the argument, and when dast is done
\* it shows all of them, unless the loop has ended at a command that used up
\* a full buffer.  The code is as long as it was laid out: cmd_size and
\* cmd_generate agree on every argument, and a slot is used exactly when it
\* is wide enough.
ListingIsProgram ==
 /\ \A j \in DOMAIN listing :
      LET i == Shown(listing, j)
      IN  ~ IsPad(listing[j]) /\ i <= Len(program) =>
            ShownAs(program, i, listing[j].op) /\ listing[j].arg = program[i].arg
 /\ buf = <<>> /\ listing # <<>> =>
      \/ Len(program) <= Shown(listing, Len(listing))
      \/ ~ eof /\ listing[Len(listing)].size = CMD_MAXLEN
 /\ \A i \in DOMAIN program : LET c == program[i] IN
      /\ Len(cmd_generate(c.op, c.arg, 0)) = cmd_size(c.arg)
      /\ \A slot \in 1..CMD_MAXLEN :
           Len(cmd_generate(c.op, c.arg, slot)) =
             (IF cmd_size(c.arg) <= slot THEN slot ELSE 0)

=============================================================================
