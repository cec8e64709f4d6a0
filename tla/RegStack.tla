------------------------------ MODULE RegStack ------------------------------
(***************************************************************************)
(* The register stack converter of the transputer compiler                 *)
(* (gcc-2.7.2/reg-stack2.c).  Up to this pass the compiler takes the       *)
(* registers for a flat file of virtual registers; the pass finds out      *)
(* which of them live where (stack_reg_life_analysis) and then, block by   *)
(* block, places them on the two register stacks, with code in front of    *)
(* instructions, behind them, and in front of labels to make all ways into *)
(* a block agree on one order (convert_regs).  At last the converted       *)
(* function runs on the machine, next to the one with virtual registers.   *)
(***************************************************************************)
EXTENDS T800Shuffle, FiniteSetsExt, TLC

CONSTANTS Programs,   \* the functions considered
          RegOrder    \* the virtual registers by number

ASSUME OrderAssumption == ToSet(RegOrder) = Regs /\ Len(RegOrder) = Cardinality(Regs)

(* An instruction, as analyse_insn and record_reg_life_pat see it:         *)
(*   kind   "insn", "call", "jump", "return"                               *)
(*   id     where it is in the function: block and index                   *)
(*   in     its inputs: register, the places it may take on its stack, and *)
(*          whether the machine pops it, and does so when it jumps         *)
(*   out    the registers it pushes, the new top first                     *)
(*   clob   registers it clobbers                                          *)
(*   move   it copies one register of a stack to another                   *)
(*   dead, unused   the notes REG_DEAD and REG_UNUSED                      *)
(* A function is a sequence of blocks [ins, to, falls]: its instructions,  *)
(* the blocks its last one jumps to, and whether control may drop into the *)
(* next block; and the modes of its floating registers.                    *)

VARIABLES
  prog,      \* the function
  insns,     \* the instructions of each block, with notes, as reordered
  phase,     \* life, convert, run, done, aborted, zero_init
  blk,       \* the current block, 0 when all are done
  stack_in,  \* block_stack_in[].reg_set: registers live at its start
  out_set,   \* block_out_reg_set
  order,     \* block_stack_in[]: the stacks at its start, or Unset
  at,        \* the current instruction of the block
  group,     \* the last instruction of the group it is in
  stk,       \* reg_stack, behind the instruction before
  jstk,      \* jump_stack, behind the jump when it is taken
  code,      \* [block -> seq of [before, after]]: code around instructions
  agree,     \* [block -> seq of code in front of its label]
  odd,       \* what has come up that the shuffling code gets wrong
  file,      \* the run: contents of the virtual registers
  mach,      \* contents of the machine's
  turn,      \* tells the values of one time around a loop from the next
  same       \* the machine has had every input where it belongs

lifeVars == <<insns, blk, stack_in, out_set>>
convVars == <<order, at, group, stk, jstk, code, agree, odd>>
runVars == <<file, mach, turn, same>>
vars == <<prog, phase, lifeVars, convVars, runVars>>

Unset == [i |-> <<"unset">>, f |-> <<>>]
Blocks == DOMAIN prog.blocks

Src(x) == {x.in[j].reg : j \in DOMAIN x.in}
Dest(x) == {x.out[j].reg : j \in DOMAIN x.out}
PoppedInputs(x) == {p.reg : p \in {q \in ToSet(x.in) : q.pop \/ q.jpop}}

-----------------------------------------------------------------------------
(* Life analysis.                                                          *)

(* One step of record_reg_life: what lives before x. *)
LifeBefore(x, live) == (live \ Dest(x)) \union Src(x)

(* What lives behind instruction j, found from the end of the block on. *)
LiveAfter(ins, j, out) ==
    LET live[n \in 0..Len(ins)] ==
          IF n = 0 THEN out ELSE LifeBefore(ins[Len(ins) + 1 - n], live[n - 1])
    IN  live[Len(ins) - j]

Noted(x, live) == [x EXCEPT !.dead = Src(x) \ (Dest(x) \union live),
                            !.unused = (Dest(x) \union x.clob) \ live]

(* Registers live behind an instruction that destroys them. *)
InitSet(x, live) == (live \ Dest(x)) \cap (x.clob \union PoppedInputs(x))

LabelRefs(p, b) == {j \in DOMAIN p.blocks : b \in ToSet(p.blocks[j].to)}

(* A plausible bug (mutant): a loop is not analysed again. *)
PropagateOnce(c, ref, in) ==
    IF ref < c.blk THEN [c EXCEPT !.out[ref] = @ \union in[c.blk]] ELSE c

(* A plausible bug (mutant): the analysis is started again in any case. *)
PropagateAlways(c, ref, in) ==
    IF ref < c.blk THEN [c EXCEPT !.out[ref] = @ \union in[c.blk]]
    ELSE [c EXCEPT !.out[ref] = @ \union in[c.blk], !.blk = ref, !.restart = TRUE]

(* One reference of the label.  c is [blk, out, restart, stale]: once a    *)
(* block is to be analysed again the loop goes on with what lives at the   *)
(* start of that one, so that the references left get something else than  *)
(* what lives at their label.                                              *)
Propagate(c, ref, in) ==
    LET d == [c EXCEPT !.out[ref] = @ \union in[c.blk],
                       !.stale = @ \/ (c.restart /\ ~ in[c.blk] \subseteq c.out[ref])]
    IN  IF ref < c.blk THEN d
        ELSE IF in[c.blk] \subseteq c.out[ref] THEN c
        ELSE [d EXCEPT !.blk = ref, !.restart = TRUE]

(* The loop over the references of block b's label, the one of the last    *)
(* block first.                                                            *)
OverRefs(b, in) ==
    LET last == Len(prog.blocks)
        over[n \in 0..last] ==
          IF n = 0 THEN [blk |-> b, out |-> out_set, restart |-> FALSE, stale |-> FALSE]
          ELSE IF last + 1 - n \in LabelRefs(prog, b) THEN Propagate(over[n - 1], last + 1 - n, in)
          ELSE over[n - 1]
    IN  over[last]

(* A plausible bug (mutant): a BARRIER is not noticed. *)
DropsInAlways(p, b) == b > 1

DropsIn(p, b) == b > 1 /\ p.blocks[b - 1].falls

(* One turn of the loop in stack_reg_life_analysis. *)
VisitBlock ==
    /\ phase = "life" /\ blk > 0
    /\ LET live == [j \in DOMAIN insns[blk] |-> LiveAfter(insns[blk], j, out_set[blk])]
           in == [stack_in EXCEPT ![blk] = LiveAfter(insns[blk], 0, out_set[blk])]
           c == OverRefs(blk, in)
       IN  /\ insns' = [insns EXCEPT ![blk] = [j \in DOMAIN @ |-> Noted(@[j], live[j])]]
           /\ stack_in' = in
           /\ out_set' = IF ~ c.restart /\ DropsIn(prog, blk)
                         THEN [c.out EXCEPT ![blk - 1] = @ \union in[blk]] ELSE c.out
           /\ blk' = IF c.restart THEN c.blk ELSE blk - 1
           /\ phase' = IF \A j \in DOMAIN live : InitSet(insns[blk][j], live[j]) = {}
                       THEN phase ELSE "zero_init"
           /\ odd' = odd \union IF c.stale THEN {"stale"} ELSE {}
    /\ UNCHANGED <<prog, order, at, group, stk, jstk, code, agree, runVars>>

(* Registers that live at the start of the function would be set to zero.  *)
EndLife ==
    /\ phase = "life" /\ blk = 0
    /\ phase' = IF stack_in[1] = {} THEN "convert" ELSE "zero_init"
    /\ blk' = 1
    /\ UNCHANGED <<prog, insns, stack_in, out_set, convVars, runVars>>

-----------------------------------------------------------------------------
(* Placing the registers for one instruction.                              *)

InputsHere(x, st) == Src(x) \subseteq RegSet(st)
PlaceOf(st, r) == CHOOSE p \in DOMAIN st[Stackno(r)] : st[Stackno(r)][p] = r

(* Rule 2: the popped inputs of a stack are together at its top. *)
check_rule_2(x, pos) ==
    \A k \in {"i", "f"} :
       LET popped == {pos[j] : j \in {n \in DOMAIN x.in : x.in[n].pop /\ Stackno(x.in[n].reg) = k}}
       IN  popped = 1..Cardinality(popped)

Placements(x, st) ==
    {pos \in [DOMAIN x.in -> 1..3] :
        /\ \A j \in DOMAIN x.in : /\ pos[j] <= Len(st[Stackno(x.in[j].reg)])
                                  /\ pos[j] \in x.in[j].cls
        /\ \A j, n \in DOMAIN x.in :
              j # n /\ Stackno(x.in[j].reg) = Stackno(x.in[n].reg) => pos[j] # pos[n]
        /\ check_rule_2(x, pos)}

(* The search tries the present place of an input first, then the others   *)
(* from the top, and goes through the places of the last input fastest.    *)
TriedAt(x, st, pos) ==
    FoldLeft(LAMBDA n, j : 4 * n + IF pos[j] = PlaceOf(st, x.in[j].reg) THEN 0 ELSE pos[j],
             0, [j \in DOMAIN x.in |-> j])

place_inputs(x, st) ==
    CHOOSE pos \in Placements(x, st) :
       \A other \in Placements(x, st) : TriedAt(x, st, pos) <= TriedAt(x, st, other)

(* The other registers stay where they are if the place is free, and fill  *)
(* the free places from the top if it is not.                              *)
PlaceStack(x, st, pos, k) ==
    LET taken == {j \in DOMAIN x.in : Stackno(x.in[j].reg) = k}
        placed == [p \in {pos[j] : j \in taken} |->
                     x.in[CHOOSE j \in taken : pos[j] = p].reg]
        others == {p \in DOMAIN st[k] : st[k][p] \notin Src(x)}
        stay == others \ DOMAIN placed
        homeless == SetToSortSeq(others \cap DOMAIN placed, <)
        free == SetToSortSeq(DOMAIN st[k] \ (DOMAIN placed \union stay), <)
    IN  [p \in DOMAIN st[k] |->
           IF p \in DOMAIN placed THEN placed[p]
           ELSE IF p \in stay THEN st[k][p]
           ELSE st[k][homeless[CHOOSE n \in DOMAIN free : free[n] = p]]]

place_regs(x, st, pos) == [i |-> PlaceStack(x, st, pos, "i"), f |-> PlaceStack(x, st, pos, "f")]

PopCount(x, k, jump) ==
    Cardinality({j \in DOMAIN x.in :
        Stackno(x.in[j].reg) = k /\ IF jump THEN x.in[j].jpop ELSE x.in[j].pop})

(* As many registers are popped from each stack as the instruction pops    *)
(* inputs there, whichever they are.                                       *)
pop_inputs(st, x, jump) ==
    LET Rest(s, n) == SubSeq(s, n + 1, Len(s))
    IN  [i |-> Rest(st.i, PopCount(x, "i", jump)), f |-> Rest(st.f, PopCount(x, "f", jump))]

PushOuts(st, x) ==
    FoldRight(LAMBDA o, s : [s EXCEPT ![Stackno(o.reg)] = <<o.reg>> \o @], x.out, st)

(* Outputs nobody uses, and dead inputs the machine has not popped. *)
DropSet(x, st) == RegSet(st) \cap (x.unused \union (x.dead \ Dest(x)))

-----------------------------------------------------------------------------
(* convert_regs.                                                           *)

DefaultOrder(set) ==
    [i |-> SelectSeq(RegOrder, LAMBDA r : r \in set \cap ABC),
     f |-> SelectSeq(RegOrder, LAMBDA r : r \in set \cap FABC)]

(* When registers of the integer stack have been dropped for those of the  *)
(* floating one, reg_stack does not describe the stacks any more.          *)
Converting == phase = "convert" /\ "fp_drop" \notin odd

StartBlock ==
    /\ Converting /\ blk <= Len(prog.blocks) /\ at = 0
    /\ order' = [order EXCEPT ![blk] = IF @ = Unset THEN DefaultOrder(stack_in[blk]) ELSE @]
    /\ stk' = order'[blk]
    /\ at' = 1 /\ group' = 0
    /\ UNCHANGED <<prog, phase, lifeVars, jstk, code, agree, odd, runVars>>

(* recognize_load_atom: x loads a register, y replaces what x has loaded.  *)
IsLoad(x) == x.kind = "insn" /\ x.in = <<>> /\ Len(x.out) = 1 /\ x.clob = {}
TheDest(x) == CHOOSE r \in Dest(x) : TRUE
Continues(x, y) ==
    /\ y.kind = "insn" /\ y.clob = {} /\ Cardinality(Dest(y)) = 1
    /\ Stackno(TheDest(y)) = Stackno(TheDest(x))
    /\ TheDest(x) \in Dest(y) \union y.dead
    /\ Src(y) = Dest(x)

AtomEnd(ins, j) == Max({e \in j..Len(ins) : \A n \in (j + 1)..e : Continues(ins[n - 1], ins[n])})

(* The load atoms from instruction j on, <<first, last>> each. *)
AtomsFrom(ins, j) ==
    LET from[n \in j..(Len(ins) + 1)] ==
          IF n > Len(ins) THEN <<>>
          ELSE IF ~ IsLoad(ins[n]) THEN <<>>
          ELSE <<<<n, AtomEnd(ins, n)>>>> \o from[AtomEnd(ins, n) + 1]
    IN  from[j]

(* A plausible bug (mutant): the notes keep the registers they had. *)
ForcedNotes(x, r) ==
    [x EXCEPT !.in = [j \in DOMAIN @ |-> [@[j] EXCEPT !.reg = r]],
              !.out = [j \in DOMAIN @ |-> [@[j] EXCEPT !.reg = r]]]

(* atom_force_single_reg. *)
Forced(x, r) ==
    LET Sole(set) == IF set = {} THEN {} ELSE {r}
    IN  [x EXCEPT !.in = [j \in DOMAIN @ |-> [@[j] EXCEPT !.reg = r]],
                  !.out = [j \in DOMAIN @ |-> [@[j] EXCEPT !.reg = r]],
                  !.dead = Sole(@), !.unused = Sole(@)]

(* STACK_REG_LOAD_ORDER: from the top down, and AB between A and B. *)
LoadKey(p) ==
    LET first == IF p.reg \in ABC THEN 0 ELSE 6
    IN  IF Cardinality(p.cls) = 3 THEN 20 + first
        ELSE first + 2 * Min(p.cls) + (IF Cardinality(p.cls) = 2 THEN 1 ELSE 0)

(* The atoms in the order they are to have: those that load inputs of x go *)
(* last, the one for the top of the stack right in front of x.             *)
Reordered(x, atoms, regs) ==
    LET AtomFor(r) == Max({a \in DOMAIN atoms : regs[a] = r})
        inputs == SelectSeq(SortSeq(x.in, LAMBDA p, q : LoadKey(p) < LoadKey(q)),
                            LAMBDA p : \E a \in DOMAIN atoms : regs[a] = p.reg)
        moved == [n \in DOMAIN inputs |-> AtomFor(inputs[n].reg)]
    IN  SelectSeq([a \in DOMAIN atoms |-> a], LAMBDA a : a \notin ToSet(moved)) \o Reverse(moved)

(* subst_stack_regs_in_group: find the load atoms and the instruction they *)
(* are for, give each atom one register and put them in a better order.    *)
FormGroup ==
    /\ Converting /\ blk <= Len(prog.blocks)
    /\ at \in DOMAIN insns[blk] /\ group < at
    /\ LET ins == insns[blk]
           atoms == AtomsFrom(ins, at)
           general == IF atoms = <<>> THEN at ELSE Last(atoms)[2] + 1
           regs == [a \in DOMAIN atoms |-> TheDest(ins[atoms[a][2]])]
           Atom(a) == LET s == SubSeq(ins, atoms[a][1], atoms[a][2])
                      IN  IF Len(s) = 1 THEN s ELSE [n \in DOMAIN s |-> Forced(s[n], regs[a])]
           sequence == IF general > Len(ins) THEN [a \in DOMAIN atoms |-> a]
                       ELSE Reordered(ins[general], atoms, regs)
       IN  /\ insns' = [insns EXCEPT ![blk] = SubSeq(ins, 1, at - 1)
                           \o FlattenSeq([n \in DOMAIN sequence |-> Atom(sequence[n])])
                           \o SubSeq(ins, general, Len(ins))]
           /\ group' = IF general > Len(ins) THEN Len(ins) ELSE general
    /\ UNCHANGED <<prog, phase, blk, stack_in, out_set, order, at, stk, jstk, code, agree, odd,
                   runVars>>

Fresh(st) == Work(st, prog.mode)
Abort == phase' = "aborted"

(* change_stack: drop what does not live in the new block, then take its   *)
(* order, or give it this one.                                             *)
Rearranged(w, new) == IF new = Unset THEN w ELSE t800_emit_swaps(w, new)
change_stack(old, new, live) ==
    Rearranged(t800_emit_drops(Fresh(old), RegSet(old) \ live), new)

Reached(w, new) == ~ w.bad /\ (new = Unset \/ w.st = new)

Flaws(w, st, drop_set) ==
    (IF FpDropMisses(st, drop_set) THEN {"fp_drop"} ELSE {})
    \union (IF FpModeMisses(w) THEN {"fp_mode"} ELSE {})

(* What the pass makes of an instruction: the code before it, the places   *)
(* where it will find its inputs, the code after it.                       *)
Kept(x, before, pos, after) ==
    [insn |-> x, kept |-> TRUE, before |-> before, pos |-> pos, after |-> after]
Deleted(x, before) ==
    [insn |-> x, kept |-> FALSE, before |-> before, pos |-> <<>>, after |-> <<>>]

Done(entry) == /\ code' = [code EXCEPT ![blk] = Append(@, entry)]
               /\ at' = at + 1

Current == insns[blk][at]
InGroup == Converting /\ blk <= Len(prog.blocks) /\ at > 0 /\ at <= group

SrcDies(x) == x.in[1].reg \in x.dead
DestUnused(x) == x.out[1].reg \in x.unused
SameReg(x) == x.in[1].reg = x.out[1].reg

(* del_stack_reg_move keeps a copy only when both registers go on living.  *)
Redundant(x) == x.move /\ (SrcDies(x) \/ DestUnused(x) \/ SameReg(x))

(* A plausible bug (mutant): the source is dropped whenever it dies. *)
DropsSourceAlways(x) == SrcDies(x) \/ (SameReg(x) /\ DestUnused(x))

DropsSource(x) == DestUnused(x) /\ (SrcDies(x) \/ SameReg(x))
Renames(x) == SrcDies(x) /\ ~ SameReg(x) /\ ~ DestUnused(x)

DeleteMove ==
    /\ InGroup /\ Redundant(Current)
    /\ LET x == Current
           src == x.in[1].reg
           k == Stackno(src)
       IN  \E w \in {t800_emit_drops(Fresh(stk), IF DropsSource(x) THEN {src} ELSE {})} :
           IF src \notin RegSet(stk) \/ w.bad
           THEN Abort /\ UNCHANGED <<stk, code, at, odd>>
           ELSE /\ stk' = IF Renames(x)
                          THEN [w.st EXCEPT ![k] = [p \in DOMAIN @ |->
                                  IF @[p] = src THEN x.out[1].reg ELSE @[p]]]
                          ELSE w.st
                /\ Done(Deleted(x, w.code))
                /\ odd' = odd \union Flaws(w, stk, IF DropsSource(x) THEN {src} ELSE {})
                /\ UNCHANGED phase
    /\ UNCHANGED <<prog, lifeVars, order, group, jstk, agree, runVars>>

(* subst_stack_regs: arrange the stacks, pop, push, and drop what is left  *)
(* over; the jump's stacks are not tidied up here.                         *)
SubstInsn ==
    /\ InGroup /\ ~ Redundant(Current)
    /\ LET x == Current
       IN  IF ~ InputsHere(x, stk) \/ Placements(x, stk) = {}
           THEN Abort /\ UNCHANGED <<stk, jstk, code, at, odd>>
           ELSE \E pos \in {place_inputs(x, stk)} :
                \E new \in {place_regs(x, stk, pos)} :
                \E w \in {change_stack(stk, new, RegSet(stk))},
                   pushed \in {PushOuts(pop_inputs(new, x, FALSE), x)} :
                \E d \in {t800_emit_drops(Fresh(pushed), DropSet(x, pushed))} :
                IF ~ Reached(w, new) \/ d.bad
                THEN Abort /\ odd' = odd \union Flaws(d, pushed, DropSet(x, pushed))
                     /\ UNCHANGED <<stk, jstk, code, at>>
                ELSE /\ stk' = d.st
                     /\ jstk' = IF x.kind = "jump" THEN PushOuts(pop_inputs(new, x, TRUE), x)
                                ELSE jstk
                     /\ Done(Kept(x, w.code, pos, d.code))
                     /\ odd' = odd \union Flaws(w, stk, {})
                               \union Flaws(d, pushed, DropSet(x, pushed))
                     /\ UNCHANGED phase
    /\ UNCHANGED <<prog, lifeVars, order, group, agree, runVars>>

(* The registers that live at the start of block t. *)
LiveIn(t, ord) == IF ord[t] = Unset THEN stack_in[t] ELSE RegSet(ord[t])

(* The order a block has, or gets from the first way into it. *)
SettledOrder(old, w) == IF old = Unset THEN w.st ELSE old

(* Control from above is made to look like the jump. *)
UndoCode(settled) ==
    t800_emit_swaps(t800_emit_pushes(Fresh(settled), RegSet(jstk) \ RegSet(settled), RegOrder),
                    jstk)

(* w changes the stacks for the n-th label, the one of block t. *)
AtLabel(c, n, t, w, undo) ==
    LET settled == SettledOrder(c.order[t], w)
        dropsIn == DropsIn(prog, t) \/ c.agree[t] # <<>>
        piece == [from |-> <<blk, n>>, undo |-> IF dropsIn THEN undo.code ELSE <<>>, do |-> w.code]
    IN  [order |-> [c.order EXCEPT ![t] = settled],
         agree |-> IF w.code = <<>> THEN c.agree ELSE [c.agree EXCEPT ![t] = Append(@, piece)],
         bad |-> c.bad \/ ~ Reached(w, c.order[t])
                 \/ (w.code # <<>> /\ dropsIn /\ ~ Reached(undo, jstk)),
         odd |-> c.odd \union Flaws(w, jstk, RegSet(jstk) \ LiveIn(t, c.order))
                       \union Flaws(undo, settled, {})]

(* goto_block_pat for the n-th label of the jump.  The code for this jump  *)
(* comes right before the label, behind the code of earlier jumps; control *)
(* that gets there from above is first made to look like this jump.        *)
ToLabel(c, n, t, w) == AtLabel(c, n, t, w, UndoCode(SettledOrder(c.order[t], w)))
GotoBlock(c, n) ==
    LET t == prog.blocks[blk].to[n]
    IN  ToLabel(c, n, t, change_stack(jstk, c.order[t], LiveIn(t, c.order)))

(* The code for dropping into the next block is put right behind the last  *)
(* instruction, in front of the drops it may have there already.           *)
Appended(entries, after) ==
    IF entries = <<>> THEN entries
    ELSE [entries EXCEPT ![Len(entries)].after = after \o @]

(* The way into the next block when control drops into it, changed by w;   *)
(* c is what the jumps have come to.                                       *)
LeaveBlock(c, w) ==
    LET next == blk + 1
        falls == prog.blocks[blk].falls
        flaws == IF falls THEN Flaws(w, stk, RegSet(stk) \ LiveIn(next, c.order)) ELSE {}
    IN  IF \/ RegSet(stk) # out_set[blk] \/ c.bad
           \/ falls /\ ~ Reached(w, c.order[next])
        THEN /\ Abort
             /\ odd' = odd \union c.odd \union flaws
             /\ UNCHANGED <<order, agree, code, at, group, blk>>
        ELSE /\ order' = IF falls /\ c.order[next] = Unset
                         THEN [c.order EXCEPT ![next] = w.st] ELSE c.order
             /\ agree' = c.agree
             /\ code' = IF falls THEN [code EXCEPT ![blk] = Appended(@, w.code)] ELSE code
             /\ odd' = odd \union c.odd \union flaws
                       \union (IF falls /\ w.code # <<>> /\ Last(code[blk]).after # <<>>
                               THEN {"late_drop"} ELSE {})
             /\ at' = 0 /\ group' = 0
             /\ blk' = next
             /\ UNCHANGED phase

(* The end of the loop body of convert_regs. *)
EndBlock ==
    /\ Converting /\ blk <= Len(prog.blocks) /\ at = Len(insns[blk]) + 1
    /\ \E c \in {FoldLeft(GotoBlock, [order |-> order, agree |-> agree, bad |-> FALSE, odd |-> {}],
                          [n \in DOMAIN prog.blocks[blk].to |-> n])} :
          LeaveBlock(c, change_stack(stk, c.order[blk + 1], LiveIn(blk + 1, c.order)))
    /\ UNCHANGED <<prog, insns, stack_in, out_set, stk, jstk, runVars>>

EndConvert ==
    /\ Converting /\ blk > Len(prog.blocks)
    /\ phase' = "run"
    /\ blk' = 1
    /\ UNCHANGED <<prog, insns, stack_in, out_set, convVars, runVars>>

-----------------------------------------------------------------------------
(* The function runs, in both forms.                                       *)

Result(x, k, ins) ==
    IF x.move THEN ins[1]
    ELSE [at |-> x.id \o <<k, turn>>,
          m |-> IF x.out[k].reg \in FABC THEN prog.mode[x.out[k].reg] ELSE "none"]

(* With virtual registers: had keeps what each instruction has worked on. *)
FileStep(s, x) ==
    LET ins == [n \in DOMAIN x.in |-> s.file[x.in[n].reg]]
        made == [r \in Dest(x) |->
                   Result(x, CHOOSE k \in DOMAIN x.out : x.out[k].reg = r, ins)]
        lost == [r \in x.clob |-> Junk]
    IN  [file |-> made @@ lost @@ s.file, had |-> (x.id :> ins) @@ s.had]

OnFile == FoldLeft(FileStep, [file |-> file, had |-> <<>>], prog.blocks[blk].ins)

(* What an instruction does to the machine: call and j lose all registers, *)
(* the table jump, which needs one for itself, leaves Breg alone.          *)
Popped(s, n) == FoldLeft(LAMBDA t, j : PopOff(t), s, [j \in 1..n |-> j])
Spoilt(s, clob, regs) ==
    IF regs \subseteq clob THEN <<Junk, Junk, Junk>>
    ELSE IF regs \cap clob # {} THEN <<Junk, s[2], Junk>> ELSE s

Perform(m, x, ins, jump) ==
    LET i == Spoilt(Popped(m.i, PopCount(x, "i", jump)), x.clob, ABC)
        f == Spoilt(Popped(m.f, PopCount(x, "f", jump)), x.clob, FABC)
    IN  FoldRight(LAMBDA k, n : [n EXCEPT ![Stackno(x.out[k].reg)] = PushOn(@, Result(x, k, ins))],
                  [k \in DOMAIN x.out |-> k], [m EXCEPT !.i = i, !.f = f])

(* s is the machine and whether all instructions found their inputs. *)
MachStep(s, e, had, jumps) ==
    LET m == ExecAll(s.m, e.before)
        x == e.insn
        ins == [n \in DOMAIN x.in |-> m[Stackno(x.in[n].reg)][e.pos[n]]]
        jump == jumps /\ x.kind = "jump"
        p == Perform(m, x, ins, jump)
    IN  IF ~ e.kept THEN [s EXCEPT !.m = m]
        ELSE [m |-> IF jump THEN p ELSE ExecAll(p, e.after),
              fits |-> s.fits /\ ins = had[x.id]]

OnMachine(had, jumps) ==
    FoldLeft(LAMBDA s, e : MachStep(s, e, had, jumps), [m |-> mach, fits |-> TRUE], code[blk])

(* Control gets to a block's label through the pieces of code in front of  *)
(* it: all of them from above, from its own piece on after a jump.         *)
Through(m, pieces) == FoldLeft(LAMBDA n, p : ExecAll(ExecAll(n, p.undo), p.do), m, pieces)
Arrive(m, n, t) ==
    LET own == {j \in DOMAIN agree[t] : agree[t][j].from = <<blk, n>>}
    IN  IF n = 0 THEN Through(m, agree[t])
        ELSE IF own = {} THEN m
        ELSE LET j == CHOOSE k \in own : TRUE
             IN  Through(ExecAll(m, agree[t][j].do), SubSeq(agree[t], j + 1, Len(agree[t])))

Agrees(st, m, contents) ==
    \A r \in RegSet(st) : m[Stackno(r)][PlaceOf(st, r)] = contents[r]

LastInsn(b) == Last(prog.blocks[b].ins)

(* The n-th label of its jump, or 0 for the next block. *)
Exits(b) == (IF prog.blocks[b].falls THEN {0} ELSE {}) \union DOMAIN prog.blocks[b].to

RunBlock ==
    /\ phase = "run" /\ LastInsn(blk).kind # "return"
    /\ \E n \in Exits(blk) :
          LET t == IF n = 0 THEN blk + 1 ELSE prog.blocks[blk].to[n]
              m == OnMachine(OnFile.had, n # 0)
              arrived == Arrive(m.m, n, t)
          IN  /\ blk' = t
              /\ file' = [r \in Regs |-> IF r \in stack_in[t] THEN OnFile.file[r] ELSE Junk]
              /\ mach' = arrived
              /\ same' = (same /\ m.fits /\ Agrees(order[t], arrived, OnFile.file))
    /\ turn' = 1 - turn
    /\ UNCHANGED <<prog, insns, phase, stack_in, out_set, convVars>>

RunReturn ==
    /\ phase = "run" /\ LastInsn(blk).kind = "return"
    /\ same' = (same /\ OnMachine(OnFile.had, FALSE).fits)
    /\ phase' = "done"
    /\ UNCHANGED <<prog, lifeVars, convVars, file, mach, turn>>

-----------------------------------------------------------------------------
(* RETURN insns have the value of the function as an operand. *)
ReturnRegs(p, b) == IF Last(p.blocks[b].ins).kind = "return" THEN Src(Last(p.blocks[b].ins)) ELSE {}

Init ==
    /\ prog \in Programs
    /\ insns = [b \in Blocks |-> prog.blocks[b].ins]
    /\ phase = "life"
    /\ blk = Len(prog.blocks)
    /\ stack_in = [b \in Blocks |-> {}]
    /\ out_set = [b \in Blocks |-> ReturnRegs(prog, b)]
    /\ order = [b \in Blocks |-> Unset]
    /\ at = 0 /\ group = 0
    /\ stk = Empty /\ jstk = Empty
    /\ code = [b \in Blocks |-> <<>>]
    /\ agree = [b \in Blocks |-> <<>>]
    /\ odd = {}
    /\ file = [r \in Regs |-> Junk]
    /\ mach = [i |-> <<Junk, Junk, Junk>>, f |-> <<Junk, Junk, Junk>>, temp |-> Junk, fptemp |-> Junk]
    /\ turn = 0
    /\ same = TRUE

Convert == StartBlock \/ FormGroup \/ DeleteMove \/ SubstInsn \/ EndBlock \/ EndConvert

Next == VisitBlock \/ EndLife \/ Convert \/ RunBlock \/ RunReturn

(* The analysis is a loop of a sequential program, nothing stops it. *)
Spec == Init /\ [][Next]_vars /\ WF_vars(VisitBlock)

-----------------------------------------------------------------------------
(* Life by its definition: a register lives where some way leads from to a *)
(* use of it, at most once through each block.                             *)
Successors(p, b) == ToSet(p.blocks[b].to) \union (IF p.blocks[b].falls THEN {b + 1} ELSE {})
LifeOut(p, lives, b) ==
    ReturnRegs(p, b) \union {x[2] : x \in {y \in lives : y[1] \in Successors(p, b)}}
OneMoreBlock(p, lives) ==
    UNION {{<<b, r>> : r \in LiveAfter(p.blocks[b].ins, 0, LifeOut(p, lives, b))} : b \in DOMAIN p.blocks}
TrueLives(p) ==
    LET lives[n \in 0..Len(p.blocks)] == IF n = 0 THEN {} ELSE OneMoreBlock(p, lives[n - 1])
    IN  lives[Len(p.blocks)]
TrueLife(p) == LET lives == TrueLives(p) IN [b \in DOMAIN p.blocks |-> {x[2] : x \in {y \in lives : y[1] = b}}]

IsInsns(s) ==
    /\ Len(s) \in Nat /\ DOMAIN s = 1..Len(s)
    /\ \A j \in DOMAIN s : {"in", "out", "clob", "dead", "unused"} \subseteq DOMAIN s[j]

(* Functions as the passes before leave them: nothing is used that has not *)
(* been set on every way, or that an instruction in between destroys; an   *)
(* instruction has different registers as inputs.                          *)
WellFormed(p) ==
    LET lives == TrueLives(p)
    IN  /\ Len(p.blocks) \in Nat \ {0} /\ DOMAIN p.blocks = 1..Len(p.blocks)
        /\ \A b \in DOMAIN p.blocks : IsInsns(p.blocks[b].ins)
        /\ \A x \in lives : x[1] # 1
        /\ \A b \in DOMAIN p.blocks : \A j \in DOMAIN p.blocks[b].ins :
              LET x == p.blocks[b].ins[j]
              IN  /\ InitSet(x, LiveAfter(p.blocks[b].ins, j, LifeOut(p, lives, b))) = {}
                  /\ Cardinality(Src(x)) = Len(x.in)

ASSUME ProgramsAssumption == \A p \in Programs : WellFormed(p)

-----------------------------------------------------------------------------
(* stack_reg_life_analysis goes back to a block once more is found to live *)
(* at its end, and finds all registers that live at the start of a block;  *)
(* and no others, unless a label has two references of later blocks: then  *)
(* only can emit_zero_init_before be called, for a value that nobody has   *)
(* computed.                                                               *)
LifeIsExact ==
    /\ phase = "zero_init" => "stale" \in odd
    /\ phase \in {"convert", "run", "done"} =>
       /\ \A b \in Blocks : TrueLife(prog)[b] \subseteq stack_in[b]
       /\ "stale" \notin odd => stack_in = TrueLife(prog)

(* convert_regs: in front of an instruction reg_stack holds exactly the    *)
(* registers that live there, also among load atoms put in another order.  *)
StacksFollowLife ==
    Converting /\ at > 0
       => RegSet(stk) = LiveAfter(insns[blk], at - 1, out_set[blk])

(* None of the abort calls of the pass is reached, and all instructions    *)
(* find places for their inputs, but for the letters t800_emit_drops has   *)
(* for the floating stack.                                                 *)
NeverAborts == phase = "aborted" => "fp_drop" \in odd

(* On the machine every instruction finds, where it looks for its inputs,  *)
(* the values it had in the virtual registers, whichever way control went  *)
(* through the code in front of the labels; but for the cases in odd.      *)
RunsTheSame == odd \subseteq {"stale"} => same

(* The analysis goes back again and again, and still ends. *)
AnalysisEnds == <>(phase # "life" \/ blk = 0)
=============================================================================
