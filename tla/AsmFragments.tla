----------------------------- MODULE AsmFragments -----------------------------
(***************************************************************************)
(* The assembler's parser (ast/parse.y) and the emit functions it calls    *)
(* (shared/ments.c): a source becomes segments, fragments and chains of    *)
(* elements, and labels become expressions over the sizes of elements that *)
(* are not known yet.                                                      *)
(*                                                                         *)
(* The bytes of one statement are a unit.  Units are history: they say     *)
(* where things really are, whatever the point expression says.  Once an   *)
(* error was issued ast reads on only to look for more of them and exits   *)
(* with 1, so no statement follows the first error here.                   *)
(***************************************************************************)
EXTENDS CmdCode, FiniteSetsExt, SequencesExt

CONSTANTS Names,         \* identifiers of the source
          Digits,        \* digital labels
          Vocabularies   \* a source has at most `most' of the statements stmts

ASSUME NamesAssumption == IsFiniteSet(Names) /\ Names \cap Int = {}
ASSUME BoundAssumption == \A v \in Vocabularies : v.most \in Nat

IsOperand(a) ==
    \/ a.k \in {"const", "dot"}
    \/ a.k = "name" /\ a.n \in Names
    \/ a.k \in {"back", "forw"} /\ a.n \in Digits

\* The operands of statements; the repeater of data is a number or a name.
ASSUME StatementsAssumption ==
    \A v \in Vocabularies : \A st \in v.stmts :
       /\ st.op \in {"label", "middle", "globl", "comm", "need", "assign"} => st.x \in Names
       /\ st.op = "digit" => st.d \in Digits
       /\ st.op \in {"cmd", "data", "assign"} => IsOperand(st.a)
       /\ st.op = "data" => IsOperand(st.r) /\ st.r.k \in {"const", "name"}

VARIABLES vocab,     \* the vocabulary of this source
          left,      \* statements it may still have
          phase,     \* parse, then parsed, failed (exit 1) or aborted
          lay,       \* segments, elements, expression nodes and units
          name,      \* general_names: identifiers, and nonames as numbers
          seen,      \* the identifiers the scanner has looked up
          curseg,
          backlab,   \* [Digits -> value of the latest such label]
          forwlab,   \* [Digits -> noname of the next one, 0 if not awaited]
          needs,     \* <<fragment, name>> of the need lists
          deferred,  \* deferred_needs
          errors,    \* kinds of error messages issued
          marks,     \* history: every label and every `.', where it was met
          diglabs,   \* history: [Digits -> where its labels were met, in order]
          digrefs,   \* history: references to digital labels
          uses       \* history: <<fragment, what a statement in it mentions>>

vars == <<vocab, left, phase, lay, name, seen, curseg, backlab, forwlab, needs,
          deferred, errors, marks, diglabs, digrefs, uses>>

-----------------------------------------------------------------------------
(* Expressions.  The value of a name is a constant, another name, or an     *)
(* expression that was the point once, in a node of lay.cells.  Such a      *)
(* point is a fragment and legs: leg 1 begins at the fragment, every later  *)
(* one at a place .align has made a multiple of its align; a leg is c bytes *)
(* and the sizes of the elements els long.                                  *)

None == [t |-> "none", n |-> 0]
Const(c) == [t |-> "const", n |-> c]
NameRef(n) == [t |-> "name", n |-> n]
PointAt(i) == [t |-> "point", n |-> i]

Leg(a) == [align |-> a, c |-> 0, els |-> {}]
Total(legs) == MapThenSumSet(LAMBDA i : legs[i].c, DOMAIN legs)

\* A plausible bug (mutant): elements on the way are overlooked.
BlindCheck(p, n) ==
    LET known == {i \in DOMAIN p.legs : p.legs[i].align >= n}
    IN  IF known = {} THEN n
        ELSE Total(SubSeq(p.legs, Max(known), Len(p.legs))) % n

\* p & (n-1) if it can be told, n if it can not.
expr_check_alignment(p, n) ==
    LET known == {i \in DOMAIN p.legs : p.legs[i].align >= n}
        way == SubSeq(p.legs, Max(known), Len(p.legs))
    IN  IF known = {} \/ \E i \in DOMAIN way : way[i].els # {} THEN n
        ELSE Total(way) % n

Below(nm, e, go) == IF e.t = "name" /\ e.n \in go THEN nm[e.n].val ELSE e

\* A descent along the values of the names in go, from e on.  No cycles are let
\* in, so that it has ended after as many steps as there are names.
Descent(nm, e, go) ==
    LET at[k \in 0..Cardinality(DOMAIN nm)] ==
          IF k = 0 THEN e ELSE Below(nm, at[k - 1], go)
    IN  at
Bottom(nm, e, go) == Descent(nm, e, go)[Cardinality(DOMAIN nm)]

\* The names e mentions itself.
NamesIn(cells, e) ==
    CASE e.t = "name"  -> {e.n}
      [] e.t = "point" -> {cells[e.n].frag}
      [] OTHER         -> {}

\* The names e mentions, through the values of names.
Mentions(nm, cells, e) ==
    UNION {NamesIn(cells, Descent(nm, e, DOMAIN nm)[k]) : k \in 0..Cardinality(DOMAIN nm)}

\* expr_reduce, as far as names go: the value of a name that is not global
\* replaces the name.
Replaced(nm) == {n \in DOMAIN nm : nm[n].val # None /\ ~ nm[n].global}
Reduced(nm, e) == Bottom(nm, e, Replaced(nm))

\* expr_estimate gives a constant.
Known(nm, e) == Reduced(nm, e).t = "const"
Estimate(nm, e) == Reduced(nm, e).n

-----------------------------------------------------------------------------
(* The layout: what happens to a segment s of L.                            *)

\* f, and y at x.
With(f, x, y) == [z \in DOMAIN f \cup {x} |-> IF z = x THEN y ELSE f[z]]

point(L, s) == L.cells[L.seg[s].point]
CurFrag(L, s) == Last(L.seg[s].frags)
curel(L, s) == Max({0} \cup {e \in DOMAIN L.elts : L.elts[e].frag = CurFrag(L, s)})

\* expr_share (seg->point): the node has another owner now.
Share(L, s) == [L EXCEPT !.shared = @ \cup {L.seg[s].point}]

\* A plausible bug (mutant): the node is changed under its other owners.
InPlace(L, s, p) == [L EXCEPT !.cells[L.seg[s].point] = p]

\* expr_unshare: a node with other owners is copied before it is changed.
SetPoint(L, s, p) ==
    IF L.seg[s].point \in L.shared
    THEN [L EXCEPT !.cells = Append(@, p), !.seg[s].point = Len(L.cells) + 1]
    ELSE [L EXCEPT !.cells[L.seg[s].point] = p]

OnLastLeg(p, c, els) ==
    LET k == Len(p.legs)
    IN  [p EXCEPT !.legs[k] = [@ EXCEPT !.c = @ + c, !.els = @ \cup els]]

expr_plus_constant(L, s, c) == SetPoint(L, s, OnLastLeg(point(L, s), c, {}))

expr_plus_element(L, s, e) ==
    IF L.elts[e].loose
    THEN SetPoint([L EXCEPT !.elts[e].nrefs = @ + 1], s,
                  OnLastLeg(point(L, s), 0, {e}))
    ELSE expr_plus_constant(L, s, L.elts[e].size)

\* The point after the element just added.
LastAdded(L, s) == expr_plus_element(L, s, Len(L.elts))

\* What is aligned to a, or known to be, starts a new leg.
NewPoint(L, s, p) ==
    [L EXCEPT !.cells = Append(@, p), !.seg[s].point = Len(L.cells) + 1]

add_fragment(L, s, f, a) ==
    NewPoint([L EXCEPT !.seg[s].frags = Append(@, f)], s,
             [frag |-> f, legs |-> <<Leg(a)>>])

add_segment(L, s, f) ==
    add_fragment([L EXCEPT !.seg = With(@, s, [frags |-> <<>>, point |-> 0, slot |-> 0,
                                               pend |-> 1, fixed |-> TRUE, asked |-> 1])],
                 s, f, 1)

\* History: a unit of c bytes, of a size not known yet, or the filling up to
\* a multiple of to that its count computes from a point.
Unit(L, s, kind, c, from, want) ==
    [frag |-> CurFrag(L, s), kind |-> kind, c |-> c, from |-> from, want |-> want]
AddUnit(L, u) == [L EXCEPT !.units = Append(@, u)]

\* size holds while the element is not loose, that is, its size not a range.
add_element(L, s, tag, size, loose, width, refs) ==
    [L EXCEPT !.elts = Append(@, [tag |-> tag, frag |-> CurFrag(L, s), size |-> size,
                                  loose |-> loose, width |-> width, refs |-> refs,
                                  nrefs |-> 0, units |-> {Len(L.units)}])]

\* c bytes go to the current block, a new one unless there is one.
IntoBlock(U, s, e, c) ==
    IF e = 0 \/ U.elts[e].tag # "block"
    THEN add_element(U, s, "block", c, FALSE, 1, <<>>)
    ELSE [U EXCEPT !.elts[e].size = @ + c, !.elts[e].units = @ \cup {Len(U.units)}]

InBlock(L, s, c, want) ==
    expr_plus_constant(IntoBlock(AddUnit(L, Unit(L, s, "fixed", c, 0, want)), s, curel(L, s), c),
                       s, c)

emit_block(L, s, len) == InBlock(L, s, len, L.seg[s].asked)

emit_padding(L, s, n, fixed) ==
    LastAdded(add_element(AddUnit(Share(L, s), Unit(L, s, "pad", n, L.seg[s].point, 1)),
                          s, "data", 0, TRUE, 1, <<IF fixed THEN Const(0) ELSE None>>), s)

AlignBy(L, s, n, fixed, shift) ==
    IF shift = 0 THEN L
    ELSE IF shift < n /\ fixed THEN InBlock(L, s, n - shift, 1)
    ELSE emit_padding(L, s, n, fixed)

emit_align(L, s, n, fixed) == AlignBy(L, s, n, fixed, expr_check_alignment(point(L, s), n))

drop_pending_alignment(L, s) == [L EXCEPT !.seg[s].pend = 1]

\* A plausible bug (mutant): the point does not look aligned.
AlignUnnoted(L, s) ==
    IF L.seg[s].pend = 1 THEN L
    ELSE drop_pending_alignment(emit_align(L, s, L.seg[s].pend, L.seg[s].fixed), s)

\* What was emitted makes the point look aligned: a noname for it with align.
LooksAligned(A, s, units) ==
    IF Len(A.units) = units THEN A
    ELSE NewPoint(A, s, [point(A, s) EXCEPT !.legs = Append(@, Leg(A.seg[s].pend))])

do_pending_alignment(L, s) ==
    IF L.seg[s].pend = 1 THEN L
    ELSE drop_pending_alignment(
           LooksAligned(emit_align(L, s, L.seg[s].pend, L.seg[s].fixed), s, Len(L.units)), s)

\* A command whose argument is a constant that needs len bytes; result
\* narrow when the slot is.
Narrow(L, s, len) == L.seg[s].slot # 0 /\ len > L.seg[s].slot

emit_cmd_const(L, s, len) ==
    LET sz == IF Narrow(L, s, len) THEN 0
              ELSE IF L.seg[s].slot # 0 THEN L.seg[s].slot ELSE len
    IN  [InBlock(L, s, sz, L.seg[s].asked) EXCEPT !.seg[s].slot = 0]

\* One whose argument is an expression: of known size if the slot or a known
\* argument fixes it.
emit_cmd_expr(L, s, arg, known, len) ==
    LET slot == L.seg[s].slot
        size == IF slot # 0 THEN slot ELSE len
        loose == slot = 0 /\ ~ known
        U == AddUnit(L, Unit(L, s, IF loose THEN "loose" ELSE "fixed", size, 0, L.seg[s].asked))
    IN  [LastAdded(add_element(U, s, "cmd", size, loose, 1, arg), s) EXCEPT !.seg[s].slot = 0]

\* The obvious case: the current element is the same data.
Glues(L, s, width, data) ==
    LET e == curel(L, s)
    IN  /\ e # 0 /\ L.elts[e].nrefs = 0
        /\ L.elts[e].tag = "data" /\ L.elts[e].width = width
        /\ Head(L.elts[e].refs) = data

\* Its count grows; the point is without it meanwhile.
Glue(U, s, e, size, count, loose) ==
    LET grown == [U.elts[e] EXCEPT !.size = @ + size, !.loose = loose,
                                   !.refs = Append(@, count), !.units = @ \cup {Len(U.units)}]
    IN  expr_plus_element([expr_plus_constant(U, s, -U.elts[e].size) EXCEPT !.elts[e] = grown],
                          s, e)

emit_data(L, s, width, data, count, known, n) ==
    LET U == AddUnit(L, Unit(L, s, IF known THEN "fixed" ELSE "loose", n * width, 0,
                             L.seg[s].asked))
    IN  IF Glues(L, s, width, data) THEN Glue(U, s, curel(L, s), n * width, count, ~ known)
        ELSE LastAdded(add_element(U, s, "data", n * width, ~ known, width, <<data, count>>), s)

\* History: the request of .align is met by what was just emitted or marked.
Met(L, s) == [L EXCEPT !.seg[s].asked = 1]

-----------------------------------------------------------------------------
FPENTRY == 171   \* OPCODE_FPENTRY, 0xab

(* Names.                                                                   *)

Blank == [global |-> FALSE, defined |-> FALSE, fragment |-> FALSE,
          common |-> FALSE, align |-> 1, val |-> None]
DefaultFragment == [Blank EXCEPT !.global = TRUE, !.defined = TRUE, !.fragment = TRUE]

Noname(nm) == 1 + Cardinality(DOMAIN nm \ Names)
table_add_noname(nm, rec) == With(nm, Noname(nm), rec)

globalize_name(nm, n) == [nm EXCEPT ![n].global = TRUE]

\* The messages of name_assign_value.
Cyclic(nm, L, n, v) == n \in Mentions(nm, L.cells, v)
Unaligned(nm, L, n, v) ==
    /\ nm[n].align > 1 /\ v.t = "point"
    /\ expr_check_alignment(L.cells[v.n], nm[n].align) # 0

AssignErrors(nm, L, n, v) ==
    {m \in {"cycle", "unaligned"} : \/ m = "cycle" /\ Cyclic(nm, L, n, v)
                                    \/ m = "unaligned" /\ Unaligned(nm, L, n, v)}

name_assign_value(nm, L, n, v) ==
    [nm EXCEPT ![n].val = IF AssignErrors(nm, L, n, v) # {} THEN Const(0) ELSE v]

-----------------------------------------------------------------------------
(* Operands: a number, a name, `.', or a reference to a digital label.      *)
(* `.' flushes the pending alignment; 1b before any label 1 is no operand:  *)
(* ast dereferences a null pointer there.                                   *)

Operand(a) == a.k = "back" => backlab[a.n] # None

\* The names after the operand was scanned: 1f may need a noname.
Scanned(nm, a) ==
    IF a.k = "forw" /\ forwlab[a.n] = 0 THEN table_add_noname(nm, Blank) ELSE nm

Forward(nm, a) == IF forwlab[a.n] = 0 THEN Noname(nm) ELSE forwlab[a.n]

Value(nm, L, a) ==
    CASE a.k = "const" -> Const(a.n)
      [] a.k = "name"  -> NameRef(a.n)
      [] a.k = "dot"   -> PointAt(L.seg[curseg].point)
      [] a.k = "back"  -> backlab[a.n]
      [] a.k = "forw"  -> NameRef(Forward(nm, a))

\* The layout once the operand was scanned.
Flushed(L, a) == IF a.k = "dot" THEN Share(do_pending_alignment(L, curseg), curseg) ELSE L

\* What follows a pending alignment is emitted after it.
Settled(a) == IF a.k = "dot" THEN Flushed(lay, a) ELSE do_pending_alignment(lay, curseg)

NamesOf(a) == IF a.k = "name" THEN {a.n} ELSE {}

Mark(L, s, v, want) ==
    [val |-> v, frag |-> CurFrag(L, s), at |-> Len(L.units), want |-> want]

ScanOperand(a, v) ==
    /\ forwlab' = IF a.k = "forw" THEN [forwlab EXCEPT ![a.n] = v.n] ELSE forwlab
    /\ digrefs' = digrefs \cup
         (IF a.k \in {"back", "forw"}
          THEN {[d |-> a.n, val |-> v,
                 nth |-> Len(diglabs[a.n]) + IF a.k = "forw" THEN 1 ELSE 0]}
          ELSE {})

Init ==
    /\ vocab \in Vocabularies /\ left = vocab.most /\ phase = "parse"
    /\ lay = add_segment([seg |-> <<>>, elts |-> <<>>, cells |-> <<>>,
                          shared |-> {}, units |-> <<>>], "head", 1)
    /\ name = table_add_noname([n \in Names |-> Blank], DefaultFragment)
    /\ seen = {} /\ curseg = "head"
    /\ backlab = [d \in Digits |-> None] /\ forwlab = [d \in Digits |-> 0]
    /\ needs = {} /\ deferred = {} /\ errors = {}
    /\ marks = {} /\ diglabs = [d \in Digits |-> <<>>] /\ digrefs = {} /\ uses = {}

Statement(st) ==
    /\ phase = "parse" /\ errors = {} /\ left > 0
    /\ st \in vocab.stmts
    /\ left' = left - 1
    /\ UNCHANGED <<vocab, phase>>

Redefined(x) == {"redefined" : y \in {z \in {x} : name[z].defined}}

\* x: -- a name declared global starts a fragment, any other is the point.
Label(st) ==
    LET x == st.x
        s == curseg
        n == lay.seg[s].pend
        want == lay.seg[s].asked
        N == [name EXCEPT ![x] = [@ EXCEPT !.defined = TRUE, !.align = n]]
    IN  /\ st.op = "label" /\ Statement(st)
        /\ \E L \in {IF name[x].global
                     THEN add_fragment(drop_pending_alignment(lay, s), s, x, n)
                     ELSE Share(do_pending_alignment(lay, s), s)} :
             /\ name' = IF name[x].global THEN [N EXCEPT ![x].fragment = TRUE]
                        ELSE name_assign_value(N, L, x, PointAt(L.seg[s].point))
             /\ errors' = Redefined(x) \cup
                          (IF name[x].global THEN {}
                           ELSE AssignErrors(N, L, x, PointAt(L.seg[s].point)))
             /\ lay' = Met(L, s)
             /\ marks' = marks \cup {Mark(L, s, NameRef(x), want)}
        /\ seen' = seen \cup {x}
        /\ UNCHANGED <<curseg, backlab, forwlab, needs, deferred, diglabs, digrefs, uses>>

\* x:: -- the point, whether x is global or not.
MiddleLabel(st) ==
    LET x == st.x
        s == curseg
        N == [name EXCEPT ![x].defined = TRUE]
    IN  /\ st.op = "middle" /\ Statement(st)
        /\ \E A \in {Share(do_pending_alignment(lay, s), s)} :
             /\ name' = name_assign_value(N, A, x, PointAt(A.seg[s].point))
             /\ errors' = Redefined(x) \cup AssignErrors(N, A, x, PointAt(A.seg[s].point))
             /\ lay' = Met(A, s)
             /\ marks' = marks \cup {Mark(A, s, NameRef(x), lay.seg[s].asked)}
        /\ seen' = seen \cup {x}
        /\ UNCHANGED <<curseg, backlab, forwlab, needs, deferred, diglabs, digrefs, uses>>

\* A plausible bug (mutant): later references go to the label just met.
StaysAwaited(d) == forwlab

NoLongerAwaited(d) == [forwlab EXCEPT ![d] = 0]

DigitLabel(st) ==
    LET d == st.d
        s == curseg
        f == forwlab[d]
    IN  /\ st.op = "digit" /\ Statement(st)
        /\ \E A \in {Share(do_pending_alignment(lay, s), s)} :
           \E v \in {PointAt(A.seg[s].point)} :
             /\ backlab' = [backlab EXCEPT ![d] = v]
             /\ name' = IF f = 0 THEN name
                        ELSE name_assign_value([name EXCEPT ![f].defined = TRUE], A, f, v)
             /\ errors' = IF f = 0 THEN {} ELSE AssignErrors(name, A, f, v)
             /\ lay' = Met(A, s)
             /\ marks' = marks \cup {Mark(A, s, v, lay.seg[s].asked)}
             /\ diglabs' = [diglabs EXCEPT ![d] = Append(@, Mark(A, s, v, lay.seg[s].asked))]
        /\ forwlab' = NoLongerAwaited(d)
        /\ UNCHANGED <<seen, curseg, needs, deferred, digrefs, uses>>

\* A direct command; with rel the argument is relative to its end, which gets
\* a noname.
ShortSize(nm, v) == cmd_size(IF Known(nm, v) THEN Estimate(nm, v) ELSE 0)

emit_cmd(A, N, v, rel) ==
    IF rel THEN emit_cmd_expr(A, curseg, <<v, NameRef(Noname(N))>>, FALSE, 1)
    ELSE IF v.t = "const" THEN emit_cmd_const(A, curseg, ShortSize(N, v))
    ELSE emit_cmd_expr(A, curseg, <<v>>, Known(N, v), ShortSize(N, v))

Command(st) ==
    LET a == st.a
        s == curseg
        N == Scanned(name, a)
    IN  /\ st.op = "cmd" /\ Operand(a) /\ Statement(st)
        /\ \E A \in {Settled(a)} : \E v \in {Value(name, A, a)} :
             /\ \E C \in {emit_cmd(A, N, v, st.rel)} :
                  /\ lay' = Met(IF st.rel THEN Share(C, s) ELSE C, s)
                  /\ name' = IF st.rel
                             THEN name_assign_value(
                                    table_add_noname(N, [Blank EXCEPT !.defined = TRUE]),
                                    C, Noname(N), PointAt(C.seg[s].point))
                             ELSE N
                  /\ marks' = marks \cup
                       (IF st.rel THEN {Mark(C, s, NameRef(Noname(N)), 1)} ELSE {})
             /\ errors' = {"narrow" : y \in {z \in {ShortSize(N, v)} :
                                          ~ st.rel /\ Known(N, v) /\ Narrow(A, s, z)}}
             /\ ScanOperand(a, v)
             /\ uses' = uses \cup {<<CurFrag(A, s), v>>}
        /\ seen' = seen \cup NamesOf(a)
        /\ UNCHANGED <<curseg, backlab, needs, deferred, diglabs>>

\* An fpu command: ldc of its code, then fpentry, which is two bytes long.
FpuCommand(st) ==
    LET s == curseg
    IN  /\ st.op = "fpu" /\ Statement(st)
        /\ \E A \in {do_pending_alignment(lay, s)} :
             /\ \E C \in {Met(emit_cmd_const(A, s, cmd_size(st.c)), s)} :
                  lay' = Met(emit_cmd_const(C, s, cmd_size(FPENTRY)), s)
             /\ errors' = {"narrow" : y \in {z \in {cmd_size(st.c)} : Narrow(A, s, z)}}
        /\ UNCHANGED <<name, seen, curseg, backlab, forwlab, needs, deferred, marks,
                       diglabs, digrefs, uses>>

\* The layout and the names once there is a segment s: bss has two default
\* fragments.
OpenSegment(L, nm, s) ==
    LET f == Noname(nm)
        S == add_segment(L, s, f)
    IN  IF s \in DOMAIN L.seg THEN [lay |-> L, name |-> nm]
        ELSE IF s # "bss" THEN [lay |-> S, name |-> table_add_noname(nm, DefaultFragment)]
        ELSE [lay |-> add_fragment(S, s, f + 1, 1),
              name |-> table_add_noname(table_add_noname(nm, DefaultFragment), DefaultFragment)]

Segment(st) ==
    LET o == OpenSegment(lay, name, st.s)
    IN  /\ st.op = "segment" /\ Statement(st)
        /\ curseg' = st.s /\ lay' = o.lay /\ name' = o.name
        /\ UNCHANGED <<seen, backlab, forwlab, needs, deferred, errors, marks, diglabs,
                       digrefs, uses>>

Globl(st) ==
    LET x == st.x IN
    /\ st.op = "globl" /\ Statement(st)
    /\ errors' = {"nonglobal" : y \in {z \in {x} : ~ name[z].global /\ name[z].defined}}
    /\ name' = globalize_name(name, x)
    /\ seen' = seen \cup {x}
    /\ UNCHANGED <<lay, curseg, backlab, forwlab, needs, deferred, marks, diglabs, digrefs, uses>>

\* The last two fragments were to change places; both stores go to the same
\* one, so that they do not.
swap_last_fragments(L, s) ==
    LET fr == L.seg[s].frags
        n == Len(fr)
    IN  [L EXCEPT !.seg[s].frags = [[fr EXCEPT ![n - 1] = fr[n]] EXCEPT ![n - 1] = fr[n - 1]]]

emit_common(L, n) == emit_data(Met(L, "bss"), "bss", 1, Const(0), Const(n), TRUE, n)

\* .comm x, n: a fragment of bss.  The alignment is the one pending in the
\* current segment.
Comm(st) ==
    LET x == st.x
        s == curseg
    IN  /\ st.op = "comm" /\ Statement(st)
        /\ errors' = Redefined(x)
        /\ \E o \in {OpenSegment(lay, name, "bss")} :
             /\ name' = [globalize_name(o.name, x) EXCEPT
                           ![x] = [@ EXCEPT !.fragment = TRUE, !.defined = TRUE, !.common = TRUE,
                                            !.align = o.lay.seg[s].pend]]
             /\ \E F \in {add_fragment(Met(drop_pending_alignment(o.lay, s), s), "bss", x,
                                       o.lay.seg[s].pend)} :
                  /\ lay' = [swap_last_fragments(emit_common(F, st.n), "bss") EXCEPT
                               !.seg["bss"].asked = F.seg["bss"].asked]
                  /\ marks' = marks \cup {Mark(F, "bss", NameRef(x), o.lay.seg[s].asked)}
        /\ seen' = seen \cup {x}
        /\ UNCHANGED <<curseg, backlab, forwlab, needs, deferred, diglabs, digrefs, uses>>

add_need(S, f, n) == IF f = n THEN S ELSE S \cup {<<f, n>>}

\* .need of a name not global, and perhaps not defined, yet is put off.
Need(st) ==
    LET f == CurFrag(lay, curseg) IN
    /\ st.op = "need" /\ Statement(st)
    /\ needs' = IF name[st.x].global THEN add_need(needs, f, st.x) ELSE needs
    /\ deferred' = IF name[st.x].global THEN deferred ELSE deferred \cup {<<f, st.x>>}
    /\ seen' = seen \cup {st.x}
    /\ uses' = uses \cup {<<f, NameRef(st.x)>>}
    /\ UNCHANGED <<lay, name, curseg, backlab, forwlab, errors, marks, diglabs, digrefs>>

Slot(st) ==
    /\ st.op = "slot" /\ Statement(st)
    /\ lay' = [lay EXCEPT !.seg[curseg].slot = st.n]
    /\ UNCHANGED <<name, seen, curseg, backlab, forwlab, needs, deferred, errors, marks,
                   diglabs, digrefs, uses>>

\* .byte, .half or .word of a datum a, with a repeater r.
Data(st) ==
    LET a == st.a
        s == curseg
        N == Scanned(name, a)
        Times(r) == IF Known(N, r) THEN Estimate(N, r) ELSE 0
    IN  /\ st.op = "data" /\ Operand(a) /\ Statement(st)
        /\ \E A \in {Settled(a)} :
           \E v \in {Value(name, A, a)}, r \in {Value(name, A, st.r)} :
             /\ lay' = Met(emit_data(A, s, st.w, v, r, Known(N, r), Times(r)), s)
             /\ ScanOperand(a, v)
             /\ uses' = uses \cup {<<CurFrag(A, s), v>>, <<CurFrag(A, s), r>>}
        /\ name' = N
        /\ seen' = seen \cup NamesOf(a) \cup NamesOf(st.r)
        /\ UNCHANGED <<curseg, backlab, needs, deferred, errors, marks, diglabs>>

String(st) ==
    /\ st.op = "string" /\ Statement(st)
    /\ lay' = Met(emit_block(do_pending_alignment(lay, curseg), curseg, st.n), curseg)
    /\ UNCHANGED <<name, seen, curseg, backlab, forwlab, needs, deferred, errors, marks,
                   diglabs, digrefs, uses>>

\* .align n: an alignment already pending is emitted, this one is pending.
Align(st) ==
    LET s == curseg IN
    /\ st.op = "align" /\ Statement(st)
    /\ lay' = [do_pending_alignment(lay, s) EXCEPT
                 !.seg[s] = [@ EXCEPT !.pend = st.n, !.fixed = st.fixed, !.asked = st.n]]
    /\ UNCHANGED <<name, seen, curseg, backlab, forwlab, needs, deferred, errors, marks,
                   diglabs, digrefs, uses>>

\* x = a
Assignment(st) ==
    LET x == st.x
        a == st.a
        N == Scanned(name, a)
        D == [N EXCEPT ![x].defined = TRUE]
    IN  /\ st.op = "assign" /\ Operand(a) /\ Statement(st)
        /\ \E A \in {Flushed(lay, a)} : \E v \in {Value(name, A, a)} :
             /\ name' = IF name[x].defined THEN N ELSE name_assign_value(D, A, x, v)
             /\ errors' = IF name[x].defined THEN {"redefined"} ELSE AssignErrors(D, A, x, v)
             /\ lay' = IF a.k = "dot" THEN Met(A, curseg) ELSE A
             /\ marks' = marks \cup
                  (IF a.k = "dot" /\ errors' = {}
                   THEN {Mark(A, curseg, NameRef(x), lay.seg[curseg].asked)} ELSE {})
             /\ ScanOperand(a, v)
        /\ seen' = seen \cup {x} \cup NamesOf(a)
        /\ UNCHANGED <<curseg, backlab, needs, deferred, diglabs, uses>>

-----------------------------------------------------------------------------
(* The end of the source.                                                   *)

\* record_needs of a reduced expression, for fragment f.
NamesLeft(nm, e) == NamesIn(lay.cells, Reduced(nm, e))

Recorded(nm, S, pairs) ==
    S \cup {p \in UNION {{q[1]} \X NamesLeft(nm, q[2]) : q \in pairs} : p[1] # p[2]}

\* What pass_needs finds in the elements.
Mentioned == UNION {{<<lay.elts[e].frag, lay.elts[e].refs[i]>> : i \in DOMAIN lay.elts[e].refs}
                    : e \in DOMAIN lay.elts}

\* A plausible bug (mutant): what was put off is forgotten.
ForgetDeferred == {}

Deferred == {<<q[1], NameRef(q[2])>> : q \in deferred}

\* A plausible bug (mutant): only names with a value are looked at.
CheckValued(nm) == {n \in seen : nm[n].val # None /\ ~ nm[n].defined /\ ~ nm[n].global}

\* The undefined names.
check_defined(nm) == {n \in seen : ~ nm[n].defined /\ ~ nm[n].global}

\* The ends of parsing are tied, and main goes on unless there were errors.
\* record_needs asserts that a name left in a reduced expression is global.
EndOfSource ==
    LET hanging == {d \in Digits : forwlab[d] # 0}
        N == [n \in DOMAIN name |->
                IF \E d \in hanging : forwlab[d] = n
                THEN [name[n] EXCEPT !.defined = TRUE] ELSE name[n]]
        found == {m \in {"hanging", "undefined"} : \/ m = "hanging" /\ hanging # {}
                                                   \/ m = "undefined" /\ check_defined(N) # {}}
        asserted == \A q \in Deferred : \A n \in NamesLeft(N, q[2]) : N[n].global
    IN  /\ phase = "parse"
        /\ name' = N
        /\ errors' = errors \cup found
        /\ phase' = IF ~ asserted THEN "aborted"
                    ELSE IF errors' # {} THEN "failed" ELSE "parsed"
        /\ needs' = IF phase' = "parsed" THEN Recorded(N, Recorded(N, needs, Deferred), Mentioned)
                    ELSE needs
        /\ left' = 0
        /\ UNCHANGED <<vocab, lay, seen, curseg, backlab, forwlab, deferred, marks,
                       diglabs, digrefs, uses>>

Next ==
    \/ \E st \in vocab.stmts :
          \/ Label(st) \/ MiddleLabel(st) \/ DigitLabel(st)
          \/ Command(st) \/ FpuCommand(st)
          \/ Segment(st) \/ Globl(st) \/ Comm(st) \/ Need(st) \/ Slot(st)
          \/ Data(st) \/ String(st) \/ Align(st) \/ Assignment(st)
    \/ EndOfSource

Spec == Init /\ [][Next]_vars

-----------------------------------------------------------------------------
(* Where things are.  An address is a fragment, a number of bytes and the   *)
(* units of unknown size in between.                                        *)

Sure(U) == {u \in U : lay.units[u].kind = "fixed"}
Address(f, c, U) ==
    [frag |-> f, loose |-> U \ Sure(U),
     bytes |-> c + MapThenSumSet(LAMBDA u : lay.units[u].c, Sure(U))]

\* The units of fragment f among the first k.
Before(f, k) == {u \in 1..k : lay.units[u].frag = f}

\* Where a label or a `.' was met.
Truly(m) == Address(m.frag, 0, Before(m.frag, m.at))

\* What the expression of a point comes to.
Through(p) == UNION {p.legs[i].els : i \in DOMAIN p.legs}
PointAddress(p) ==
    Address(p.frag, Total(p.legs), UNION {lay.elts[e].units : e \in Through(p)})

\* What a value comes to.
AddressOf(v) ==
    LET b == Bottom(name, v, {n \in DOMAIN name : ~ name[n].fragment})
    IN  IF b.t = "point" THEN PointAddress(lay.cells[b.n]) ELSE Address(b.n, 0, {})

\* The fragment or global name that has to be linked in for the sake of v:
\* the first on the way that is global or was marked in the source.
MarksOf(v) == {m \in marks : m.val = v}
Home(v) ==
    LET b == Bottom(name, v, {n \in DOMAIN name : ~ name[n].global /\ MarksOf(NameRef(n)) = {}})
    IN  IF b.t = "name" /\ name[b.n].global THEN {b.n}
        ELSE IF MarksOf(b) # {} THEN {m.frag : m \in MarksOf(b)}
        ELSE IF b.t = "point" THEN {lay.cells[b.n].frag} ELSE {}

\* Sizes of the units when fragment f lies at base and loose(u) is the size
\* of the loose unit u; padding computes its own, from the point it kept.
Filled(base, loose) ==
    LET size[u \in DOMAIN lay.units] ==
          LET x == lay.units[u]
              p == lay.cells[x.from]
              at == base + Total(p.legs)
                    + MapThenSumSet(LAMBDA w : size[w],
                                    UNION {lay.elts[e].units : e \in Through(p)})
          IN  CASE x.kind = "fixed" -> x.c
                [] x.kind = "loose" -> loose[u]
                [] x.kind = "pad"   -> (x.c - at) % x.c
    IN  size

LooseUnits(f) == {u \in DOMAIN lay.units : lay.units[u].kind = "loose" /\ lay.units[u].frag = f}
MaxAlign == Max({1} \cup {st.n : st \in {t \in vocab.stmts : t.op = "align"}})
Multiples(a) == {b \in 0..(MaxAlign - 1) : b % a = 0}
FragsOf == {lay.units[u].frag : u \in DOMAIN lay.units}

-----------------------------------------------------------------------------
(* A label's value, an expression of sizes that change until the last pass, *)
(* comes to the place the label was met at, whatever the sizes turn out to  *)
(* be and whatever was emitted, merged or aligned since (parse.y's label    *)
(* rules, emit_data's gluing, the sharing of the point's nodes).            *)
LabelsMark == errors = {} => \A m \in marks : AddressOf(m.val) = Truly(m)

(* 1b is the last label 1 before it and 1f the next one after it            *)
(* (backlab and forwlab of parse.y).                                        *)
DigitsBind ==
    errors = {} =>
      \A r \in digrefs :
         r.nth <= Len(diglabs[r.d]) => AddressOf(r.val) = Truly(diglabs[r.d][r.nth])

(* What follows .align n is at a multiple of n, for all sizes of the        *)
(* elements before it and all places the linker may put the fragment at     *)
(* (emit_align, do_pending_alignment, the align of a public label); and     *)
(* expr_check_alignment can tell that the point is aligned, so that a       *)
(* public label after .align is never refused.                              *)
AlignedAsAsked ==
    /\ "unaligned" \notin errors
    /\ phase = "parsed" =>
      /\ \A f \in FragsOf : \A base \in Multiples(name[f].align) :
         \A loose \in [LooseUnits(f) -> 0..(MaxAlign - 1)] :
            LET size == Filled(base, loose)
                Pos(k) == base + MapThenSumSet(LAMBDA w : size[w], Before(f, k))
            IN  /\ \A u \in DOMAIN lay.units :
                     lay.units[u].frag = f => Pos(u - 1) % lay.units[u].want = 0
                /\ \A m \in marks : m.frag = f => Pos(m.at) % m.want = 0
      /\ \A m \in marks : Before(m.frag, m.at) = {} => name[m.frag].align >= m.want

(* Whatever a fragment's code, data or .need mentions is in its need list   *)
(* or lies in the fragment itself, also when the name was defined, or was   *)
(* declared global, only later (deferred_needs, pass_needs).  The assertion *)
(* of record_needs, that all names left are global, fails only when an      *)
(* undefined name was complained about.                                     *)
UsedIsNeeded ==
    /\ phase = "aborted" => errors # {}
    /\ phase = "parsed" =>
      \A u \in uses : \A h \in Home(u[2]) : h = u[1] \/ <<u[1], h>> \in needs

(* parse.y on .comm: "we cannot emit anything else in the .comm fragment!"  *)
(* What the linker may merge with another file's block of that name holds   *)
(* the block's own bytes only.                                              *)
CommonAlone ==
    errors = {} => \A u, w \in DOMAIN lay.units :
                      u # w /\ lay.units[u].frag = lay.units[w].frag
                      => ~ name[lay.units[u].frag].common
=============================================================================
