---------------------------- MODULE T800Shuffle ----------------------------
(***************************************************************************)
(* How the compiler rearranges the register stacks of a transputer between *)
(* two instructions (gcc-2.7.2/config/t800/t800.c, t800_emit_drops,        *)
(* t800_emit_swaps and t800_emit_pushes), and what the instructions it     *)
(* emits for that do to the machine.  There are two stacks of three        *)
(* registers, Areg to Creg and FAreg to FCreg.                             *)
(***************************************************************************)
EXTENDS Integers, SequencesExt

CONSTANTS ABC,     \* the virtual registers on the integer stack
          FABC     \* the virtual registers on the floating stack

ASSUME StacksAssumption == ABC \cap FABC = {}

Regs == ABC \union FABC

(* struct stack_def: the registers of each stack, from the top; the set of *)
(* live registers is the set of registers on the stacks.                   *)
Empty == [i |-> <<>>, f |-> <<>>]
RegSet(st) == ToSet(st.i) \union ToSet(st.f)
Stackno(r) == IF r \in ABC THEN "i" ELSE "f"

(* What a sequence of emit_... calls works on: the stacks st, which        *)
(* emit_t800_insns keeps up to date, the registers kept in memory, the     *)
(* code emitted, and whether st no longer describes any stacks.  mode says *)
(* for each floating register whether it holds a single or a double.       *)
Work(st, mode) == [st |-> st, mode |-> mode, stored |-> <<>>, fpstored |-> <<>>,
                   code |-> <<>>, bad |-> FALSE]

Insn(op, m) == [op |-> op, m |-> m]
Emitted(w, insn) == [w EXCEPT !.code = Append(@, insn)]
SwapTop(s) == <<s[2], s[1]>> \o SubSeq(s, 3, Len(s))

FpMode(w) == IF w.st.f = <<>> THEN "none" ELSE w.mode[w.st.f[1]]

(* One letter of a control string.  The letters r, d, s and l are about    *)
(* the integer stack, R, S and L about the floating one; an L is given the *)
(* mode of the register that is on top then.                               *)
emit_t800_insn(w, op) ==
    LET v == Emitted(w, Insn(op, FpMode(w)))
        depth == Len(w.st.i)
    IN  CASE op = "r" -> IF depth < 2 THEN [v EXCEPT !.bad = TRUE]
                         ELSE [v EXCEPT !.st.i = SwapTop(@)]
          [] op = "d" -> IF depth < 1 THEN [v EXCEPT !.bad = TRUE]
                         ELSE [v EXCEPT !.st.i = Tail(@)]
          [] op = "s" -> [v EXCEPT !.st.i = Tail(@), !.stored = <<w.st.i[1]>>]
          [] op = "l" -> [v EXCEPT !.st.i = w.stored \o @]
          [] op = "R" -> [v EXCEPT !.st.f = SwapTop(@)]
          [] op = "S" -> [v EXCEPT !.st.f = Tail(@), !.fpstored = <<w.st.f[1]>>]
          [] op = "L" -> [v EXCEPT !.st.f = w.fpstored \o @]

emit_t800_insns(w, str) == FoldLeft(emit_t800_insn, w, str)

-----------------------------------------------------------------------------
(* The n registers near the top stay, the rest is forgotten without code.  *)
BottomDrop(w, k, n) == [w EXCEPT !.st[k] = SubSeq(@, 1, n)]

(* The switch over dropmask; registers that are not on the stack count as  *)
(* dropped.  The letters are those of the integer stack for both stacks.   *)
DropStack(w, k, drop_set) ==
    LET drop == [p \in 1..3 |-> p > Len(w.st[k]) \/ w.st[k][p] \in drop_set]
    IN  CASE drop = <<FALSE, FALSE, FALSE>> -> w
          [] drop = <<TRUE,  TRUE,  FALSE>> -> BottomDrop(emit_t800_insns(w, <<"d", "r">>), k, 1)
          [] drop = <<TRUE,  FALSE, FALSE>> -> emit_t800_insns(w, <<"d">>)
          [] drop = <<FALSE, TRUE,  FALSE>> -> emit_t800_insns(w, <<"r", "d">>)
          [] drop = <<TRUE,  FALSE, TRUE>>  -> BottomDrop(emit_t800_insns(w, <<"r">>), k, 1)
          [] drop = <<FALSE, TRUE,  TRUE>>  -> BottomDrop(w, k, 1)
          [] drop = <<FALSE, FALSE, TRUE>>  -> BottomDrop(w, k, 2)
          [] drop = <<TRUE,  TRUE,  TRUE>>  -> BottomDrop(w, k, 0)

t800_emit_drops(w, drop_set) ==
    IF drop_set = {} THEN w ELSE DropStack(DropStack(w, "i", drop_set), "f", drop_set)

(* The letters above come out for the floating stack: a register that is   *)
(* to be dropped has one that stays below it.                              *)
FpDropMisses(st, drop_set) ==
    \E p, q \in DOMAIN st.f : p < q /\ st.f[p] \in drop_set /\ st.f[q] \notin drop_set

-----------------------------------------------------------------------------
Rev(w, new) == IF Len(w.st.i) >= 2 /\ w.st.i[1] # new.i[1] THEN emit_t800_insn(w, "r") ELSE w
FpRev(w, new) == IF Len(w.st.f) >= 2 /\ w.st.f[1] # new.f[1] THEN emit_t800_insn(w, "R") ELSE w
Revs(w, new) == FpRev(Rev(w, new), new)

(* The new stack without the register just stored, which is its top or the *)
(* one below.                                                              *)
WithoutStored(s, here) == IF s[1] \in here THEN <<s[1], s[3]>> ELSE <<s[2], s[3]>>

NeedsStore(old, new) == Len(old) = 3 /\ old[3] # new[3]

(* A register of the floating stack is kept in memory meanwhile. *)
FpLoadBack(v, new) ==
    Revs(emit_t800_insn(Revs(v, [new EXCEPT !.f = WithoutStored(@, RegSet(v.st))]), "L"), new)
FpSwaps(w, new) ==
    IF NeedsStore(w.st.f, new.f)
    THEN FpLoadBack(emit_t800_insns(w, IF w.st.f[1] = new.f[3] THEN <<"R", "S">> ELSE <<"S">>), new)
    ELSE Revs(w, new)

(* A plausible bug (mutant): the store of a floating register is not seen  *)
(* to need an integer register.                                            *)
NeedsRoomOnce(old, new) == NeedsStore(old.i, new.i)

NeedsRoom(old, new) ==
    NeedsStore(old.i, new.i) \/ (Len(old.i) = 3 /\ NeedsStore(old.f, new.f))

(* An integer register is kept in memory meanwhile, also when only the     *)
(* floating stack is to be changed deeply: to store one of its registers   *)
(* takes an integer register for the address.                              *)
LoadBack(v, new) ==
    Revs(emit_t800_insn(FpSwaps(v, [new EXCEPT !.i = WithoutStored(@, RegSet(v.st))]), "l"), new)
t800_emit_swaps(w, new) ==
    IF RegSet(w.st) # RegSet(new) THEN [w EXCEPT !.bad = TRUE]
    ELSE IF NeedsRoom(w.st, new)
    THEN LoadBack(emit_t800_insns(w, IF w.st.i[1] = new.i[3] THEN <<"r", "s">> ELSE <<"s">>), new)
    ELSE FpSwaps(w, new)

(* A register that the floating stack gets back from memory has another    *)
(* mode than the one on top then.                                          *)
FpModeMisses(w) == \E j \in DOMAIN w.code : w.code[j].op = "L" /\ w.fpstored # <<>>
                                            /\ w.code[j].m # w.mode[w.fpstored[1]]

(* Zeros for the registers of push_set, in the order of their numbers. *)
t800_emit_pushes(w, push_set, order) ==
    LET Push(v, r) == IF r \notin push_set THEN v
                      ELSE [Emitted(v, Insn(IF r \in ABC THEN "z" ELSE "Z", "S"))
                            EXCEPT !.st[Stackno(r)] = <<r>> \o @]
    IN  FoldLeft(Push, w, order)

-----------------------------------------------------------------------------
(* The machine: the contents of the registers, the top one first, and the  *)
(* two places in memory.  A value is where in the program it was computed, *)
(* a floating one has a mode; what has fallen off a stack is Junk.         *)
Junk == [at |-> <<>>, m |-> "none"]
Zero == [at |-> <<0>>, m |-> "none"]

PushOn(s, v) == <<v, s[1], s[2]>>
PopOff(s) == <<s[2], s[3], Junk>>

(* The address of a place in memory takes Areg for a moment. *)
Addressed(m) == [m EXCEPT !.i = <<@[1], @[2], Junk>>]

InMode(v, m) == IF v.m = m THEN v ELSE Junk

Exec(m, insn) ==
    CASE insn.op = "r" -> [m EXCEPT !.i = SwapTop(@)]
      [] insn.op = "d" -> [m EXCEPT !.i = PopOff(@)]
      [] insn.op = "s" -> [m EXCEPT !.i = PopOff(@), !.temp = m.i[1]]
      [] insn.op = "l" -> [m EXCEPT !.i = PushOn(@, m.temp)]
      [] insn.op = "R" -> [m EXCEPT !.f = SwapTop(@)]
      [] insn.op = "S" -> [Addressed(m) EXCEPT !.f = PopOff(@), !.fptemp = InMode(m.f[1], insn.m)]
      [] insn.op = "L" -> [Addressed(m) EXCEPT !.f = PushOn(@, InMode(m.fptemp, insn.m))]
      [] insn.op = "z" -> [m EXCEPT !.i = PushOn(@, Zero)]
      [] insn.op = "Z" -> [m EXCEPT !.f = PushOn(@, Zero)]

ExecAll(m, code) == FoldLeft(Exec, m, code)
=============================================================================
