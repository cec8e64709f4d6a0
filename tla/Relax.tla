-------------------------------- MODULE Relax --------------------------------
(***************************************************************************)
(* The offset optimizer that ast and lit share (shared/ments.c).           *)
(*                                                                         *)
(* A fragment is a chain of elements.  What is of constant size when it is *)
(* emitted only contributes a constant to the expressions of the others;   *)
(* the elements below are the loosely defined ones: commands whose         *)
(* argument is an expression over the sizes of elements, and the DATA that *)
(* .align leaves.  The size of such an element is a range lo..hi; passes   *)
(* narrow the ranges, each from the ranges of the others, until a pass     *)
(* narrows nothing or there have been maxpasses of them.  lit then freezes *)
(* what is left at its upper bound; ast leaves it to lit.                  *)
(***************************************************************************)
EXTENDS CmdCode

CONSTANTS N,         \* loosely defined elements in the chain
          Programs,  \* the chains considered: functions from Elements
          Tools,     \* a subset of {"ast", "lit"}
          Widest,    \* cmd_size of the least and the greatest word
          maxpasses  \* the limit -p sets

Elements == 1..N

\* A command: its argument, as expr_reduce leaves it, is c plus the sizes of
\* the elements in pos minus the sizes of those in neg.  An element may be in
\* both: an ELEMENT is not cancelled against an ELSUM.  slot is the argument
\* of .slot, 0 without one.
IsCommand(e) ==
    /\ e.kind = "cmd"
    /\ e.pos \subseteq Elements /\ e.neg \subseteq Elements
    /\ e.c \in Int /\ e.slot \in 0..CMD_MAXLEN

\* An .align: c constant bytes and all elements before it lie between it and
\* the start of the fragment, and known says whether the fragment's own
\* alignment suffices to compute with.
IsAlign(e) ==
    /\ e.kind = "align"
    /\ e.c \in Nat /\ e.to \in {2, 4, 8, 16} /\ e.known \in BOOLEAN

ASSUME SizeAssumption == N \in Nat /\ maxpasses \in Nat
ASSUME WidestAssumption == Widest \in Nat /\ Widest >= CMD_MAXLEN
ASSUME ToolsAssumption == Tools \subseteq {"ast", "lit"}
ASSUME ProgramsAssumption ==
    \A prog \in Programs : \A k \in Elements :
        IsCommand(prog[k]) \/ IsAlign(prog[k])

VARIABLES prog,     \* the chain being assembled or linked
          tool,     \* which program is running
          lo, hi,   \* el->size of every element
          phase,    \* the pass main is in
          at,       \* the element the pass has come to
          passes,   \* optimization passes begun
          nshrinks, \* sizes narrowed by the current pass
          settled,  \* the last pass narrowed nothing
          errors    \* an error message was issued

vars == <<prog, tool, lo, hi, phase, at, passes, nshrinks, settled, errors>>

control == <<passes, nshrinks, settled>>

IsConst(k) == lo[k] = hi[k]

\* No element is longer: a command, or the filling of the widest alignment.
Longest == Widest + 16

\* The bytes the elements in S occupy when their sizes are sz: one pair for
\* every byte, so that their number is the sum of the sizes.
Bytes(S, sz) == {b \in S \X (1..Longest) : b[2] <= sz[b[1]]}

Room(S, sz) == Cardinality(Bytes(S, sz))

\* expr_estimate of a reduced argument: interval arithmetic.
ArgLo(e, l, h) == e.c + Room(e.pos, l) - Room(e.neg, h)
ArgHi(e, l, h) == e.c + Room(e.pos, h) - Room(e.neg, l)

\* A plausible bug (mutant).
PadNotMasked(e, k, sz) == e.to - (e.c + Room(1..(k - 1), sz))

\* The bytes .align has to fill in: (align - point) & (align - 1).
Pad(e, k, sz) == (e.to - (e.c + Room(1..(k - 1), sz))) % e.to

\* expr_reduce makes the argument, or the count, a constant.
ArgIsConst(k) == \A j \in prog[k].pos \cup prog[k].neg : IsConst(j)
PadIsConst(k) == prog[k].known /\ \A j \in 1..(k - 1) : IsConst(j)

\* The sizes a command may have when the elements' sizes are in l..h.
CmdLo(e, l, h) == SizeLo(ArgLo(e, l, h), ArgHi(e, l, h))
CmdHi(e, l, h) == SizeHi(ArgLo(e, l, h), ArgHi(e, l, h))

\* The size range pass_optimize_offsets recomputes for element k.
NewLo(k) ==
    IF prog[k].kind = "cmd" THEN CmdLo(prog[k], lo, hi)
    ELSE IF PadIsConst(k) THEN Pad(prog[k], k, lo) ELSE 0

NewHi(k) ==
    IF prog[k].kind = "cmd" THEN CmdHi(prog[k], lo, hi)
    ELSE IF PadIsConst(k) THEN Pad(prog[k], k, lo) ELSE prog[k].to - 1

\* `ranges should never grow'
Narrows(k) == NewLo(k) >= lo[k] /\ NewHi(k) <= hi[k]

\* emit_cmd cannot estimate an argument with names in it, so its command may
\* have any size unless .slot fixes it; emit_align knows what it may need.
EmittedLo(e) == IF e.kind = "align" THEN 0 ELSE IF e.slot # 0 THEN e.slot ELSE 1
EmittedHi(e) == IF e.kind = "align" THEN e.to - 1
                ELSE IF e.slot # 0 THEN e.slot ELSE Widest

Init ==
    /\ prog \in Programs /\ tool \in Tools
    /\ lo = [k \in Elements |-> EmittedLo(prog[k])]
    /\ hi = [k \in Elements |-> EmittedHi(prog[k])]
    /\ phase = "between" /\ at = 1
    /\ passes = 0 /\ nshrinks = 0 /\ settled = FALSE
    /\ errors = FALSE

StartPass ==
    /\ phase = "between" /\ passes < maxpasses /\ ~ settled
    /\ phase' = "optimize" /\ at' = 1
    /\ passes' = passes + 1 /\ nshrinks' = 0
    /\ UNCHANGED <<prog, tool, lo, hi, settled, errors>>

SkipConst ==
    /\ phase = "optimize" /\ at \in Elements
    /\ IsConst(at)
    /\ at' = at + 1
    /\ UNCHANGED <<prog, tool, lo, hi, phase, control, errors>>

\* The loop body of pass_optimize_offsets; a failed assertion aborts.
Recompute ==
    /\ phase = "optimize" /\ at \in Elements
    /\ ~ IsConst(at)
    /\ IF Narrows(at)
       THEN /\ lo' = [lo EXCEPT ![at] = NewLo(at)]
            /\ hi' = [hi EXCEPT ![at] = NewHi(at)]
            /\ nshrinks' = IF lo' = lo /\ hi' = hi THEN nshrinks
                           ELSE nshrinks + 1
            /\ at' = at + 1
            /\ UNCHANGED phase
       ELSE /\ phase' = "aborted"
            /\ UNCHANGED <<lo, hi, nshrinks, at>>
    /\ UNCHANGED <<prog, tool, passes, settled, errors>>

\* A plausible bug (mutant).
EndPassEarly ==
    /\ phase = "optimize" /\ at = N + 1
    /\ phase' = "between" /\ settled' = (nshrinks <= 1)
    /\ UNCHANGED <<prog, tool, lo, hi, at, passes, nshrinks, errors>>

\* A plausible bug (mutant).
EndPassNeverSettles ==
    /\ phase = "optimize" /\ at = N + 1
    /\ phase' = "between" /\ settled' = FALSE
    /\ UNCHANGED <<prog, tool, lo, hi, at, passes, nshrinks, errors>>

EndPass ==
    /\ phase = "optimize" /\ at = N + 1
    /\ phase' = "between" /\ settled' = (nshrinks = 0)
    /\ UNCHANGED <<prog, tool, lo, hi, at, passes, nshrinks, errors>>

\* A plausible bug (mutant).
AstFreezesToo ==
    /\ phase = "between"
    /\ settled \/ passes = maxpasses
    /\ phase' = "freeze" /\ at' = 1
    /\ UNCHANGED <<prog, tool, lo, hi, control, errors>>

EndOptimization ==
    /\ phase = "between"
    /\ settled \/ passes = maxpasses
    /\ phase' = IF tool = "lit" THEN "freeze" ELSE "unroll"
    /\ at' = 1
    /\ UNCHANGED <<prog, tool, lo, hi, control, errors>>

\* A plausible bug (mutant).
FrozenAtLowerBound(k) == lo[k]

\* The size of a loose command for good.
FrozenSize(k) == hi[k]

\* pass_freeze: commands get constant sizes, DATA an expression.
pass_freeze ==
    /\ phase = "freeze"
    /\ lo' = [k \in Elements |-> IF prog[k].kind = "cmd" THEN FrozenSize(k)
                                 ELSE lo[k]]
    /\ hi' = [k \in Elements |-> IF prog[k].kind = "cmd" THEN FrozenSize(k)
                                 ELSE hi[k]]
    /\ phase' = "reduce" /\ at' = 1
    /\ UNCHANGED <<prog, tool, control, errors>>

\* pass_reduce: the DATA left loose get their sizes from what is before them.
ReduceElement ==
    /\ phase = "reduce" /\ at \in Elements
    /\ IF prog[at].kind = "align" /\ PadIsConst(at)
       THEN /\ lo' = [lo EXCEPT ![at] = Pad(prog[at], at, lo)]
            /\ hi' = [hi EXCEPT ![at] = Pad(prog[at], at, lo)]
       ELSE UNCHANGED <<lo, hi>>
    /\ at' = at + 1
    /\ UNCHANGED <<prog, tool, phase, control, errors>>

EndReduce ==
    /\ phase = "reduce" /\ at = N + 1
    /\ phase' = "unroll" /\ at' = 1
    /\ UNCHANGED <<prog, tool, lo, hi, control, errors>>

\* What an element turned into a BLOCK must have, asserted by
\* element_block_make_space.
BecomesBlock(k) == IF prog[k].kind = "cmd" THEN ArgIsConst(k) ELSE PadIsConst(k)

\* cmd_generate into the space laid out for it.
Fits(k) == cmd_size(ArgLo(prog[k], lo, hi)) <= lo[k]

\* The loop body of pass_unroll: what is not a constant yet stays as it is.
UnrollElement ==
    /\ phase = "unroll" /\ at \in Elements
    /\ IF BecomesBlock(at) /\ ~ IsConst(at)
       THEN phase' = "aborted" /\ UNCHANGED <<at, errors>>
       ELSE /\ errors' = (errors \/ /\ prog[at].kind = "cmd"
                                    /\ ArgIsConst(at) /\ ~ Fits(at))
            /\ at' = at + 1
            /\ UNCHANGED phase
    /\ UNCHANGED <<prog, tool, lo, hi, control>>

EndUnroll ==
    /\ phase = "unroll" /\ at = N + 1
    /\ phase' = IF errors THEN "failed" ELSE "written"
    /\ UNCHANGED <<prog, tool, lo, hi, at, control, errors>>

Next ==
    \/ StartPass \/ SkipConst \/ Recompute \/ EndPass \/ EndOptimization
    \/ pass_freeze \/ ReduceElement \/ EndReduce
    \/ UnrollElement \/ EndUnroll

Spec == Init /\ [][Next]_vars

-----------------------------------------------------------------------------
Phases == {"between", "optimize", "freeze", "reduce", "unroll",
           "written", "failed", "aborted"}

\* The shape of the state.
TypeOK ==
    /\ tool \in Tools
    /\ lo \in [Elements -> 0..Longest] /\ hi \in [Elements -> 0..Longest]
    /\ \A k \in Elements : lo[k] <= hi[k]
    /\ phase \in Phases /\ at \in 1..(N + 1)
    /\ passes \in 0..maxpasses /\ nshrinks \in 0..N
    /\ settled \in BOOLEAN /\ errors \in BOOLEAN

\* The assertions of pass_optimize_offsets: a range recomputed from ranges
\* that have narrowed since the last pass, its own among them, never grows.
RangesNeverGrow ==
    phase = "optimize" /\ at \in Elements /\ ~ IsConst(at) => Narrows(at)

\* A command written by pass_unroll fits the space that was laid out for it,
\* be it frozen at its upper bound while the others moved: only a .slot of
\* the programmer's can be too narrow.
CommandsFit == errors => \E k \in Elements : prog[k].kind = "cmd" /\ prog[k].slot # 0

\* When the passes ran until nothing changed, and always in lit, every element
\* pass_unroll turns into a BLOCK has a constant size.
SettledUnrolls == phase = "aborted" => tool = "ast" /\ ~ settled

\* The object file ast writes wastes no prefix: a command whose argument came
\* out constant occupies exactly what the argument needs.
NoWastedPrefix ==
    \A k \in Elements :
      /\ phase = "written" /\ tool = "ast"
      /\ prog[k].kind = "cmd" /\ prog[k].slot = 0
      /\ ArgIsConst(k)
      => cmd_size(ArgLo(prog[k], lo, hi)) = lo[k]

\* The uncertainty in sizes between l and h.
Slack(l, h) == Room(Elements, h) - Room(Elements, l)

\* Without a limit the passes would end too: each but the last removes some of
\* the uncertainty there was when the elements were emitted.
PassesPayOff ==
    phase = "between" /\ ~ settled =>
      passes <= Slack([k \in Elements |-> EmittedLo(prog[k])],
                      [k \in Elements |-> EmittedHi(prog[k])]) - Slack(lo, hi)
=============================================================================
