------------------------------ MODULE LitLoad ------------------------------
(***************************************************************************)
(* The loader (startups/shared/litload.c) reading the loadable file that   *)
(* lit writes (pass_output_segments).  lit_load_segment is called once for *)
(* each segment, reads record after record and fills the memory area it    *)
(* was given; expressions over the addresses of segments are evaluated on  *)
(* a stack of fixed size.  crossload hands the segments one area, one      *)
(* after the other, and so does this module.                               *)
(***************************************************************************)
EXTENDS LitFormat

LOCAL Cmd == INSTANCE CmdCode

CONSTANTS Programs,     \* what lit has linked: sequences of segments
          AreaSizes,    \* the sizes of the memory area
          Ntab,         \* addresses of the segments
          NtabSizes,    \* how many of them the loader is told
          MAX_EXPRESSION_DEPTH,
          MAX_SEGMENT_NAME_LENGTH

ASSUME LoadAssumption ==
    /\ AreaSizes \subseteq Nat
    /\ NtabSizes \subseteq 0..Len(Ntab)
    /\ MAX_EXPRESSION_DEPTH \in Nat /\ MAX_SEGMENT_NAME_LENGTH \in Nat

LIT_DATA == -1
LIT_CMD == -2
LIT_SEGMENT == -5
LIT_MARKER == -8
LIT_AREA_SEGMENTS == 2
LIT_MARKER_LENGTH == 8

VARIABLES program,   \* the segments linked
          file,      \* the bytes lit wrote
          pos,       \* the byte to be read next
          area,      \* bytes stored so far, of all segments
          areasz,    \* bytes of the area
          ntabsz,    \* entries of Ntab that may be used
          segsize,   \* lit_load_segsize
          loaded,    \* the sizes of the segments loaded
          segname,   \* lit_load_segname, all its bytes
          status     \* "loading", "done", "fatal"

inputs == <<program, file, areasz, ntabsz>>
wvars == <<inputs, pos, area, segsize, loaded, segname, status>>

-----------------------------------------------------------------------------
(* Writing. *)
OutElement(el) ==
    CASE el.tag = "BLOCK" -> lit_out_string(el.bytes)
      [] el.tag = "DATA"  -> Numbers(<<LIT_DATA, el.width>>) \o lit_out_expr(el.value)
                             \o lit_out_expr(el.count) \o lit_out_expr(el.size)
      [] el.tag = "CMD"   -> Numbers(<<LIT_CMD, el.opcode>>)
                             \o lit_out_expr(el.arg) \o lit_out_expr(el.size)

(* The first segment has no segment record. *)
OutSegment(prog, i) ==
    (IF i = 1 THEN <<>>
     ELSE Numbers(<<LIT_SEGMENT>>) \o lit_out_string(prog[i].name) \o Numbers(<<i - 1>>))
    \o FlattenSeq([k \in DOMAIN prog[i].els |-> OutElement(prog[i].els[k])])

lit_out_marker(length) ==
    LET m == Numbers(<<LIT_MARKER, LIT_AREA_SEGMENTS, length>>)
    IN  m \o [k \in 1..(LIT_MARKER_LENGTH - Len(m)) |-> 0]

pass_output_segments(prog) ==
    LET segs == FlattenSeq([i \in DOMAIN prog |-> OutSegment(prog, i)])
    IN  segs \o lit_out_marker(Len(segs))

-----------------------------------------------------------------------------
(* Evaluating expressions. *)
Truth(b) == IF b THEN 1 ELSE 0

(* C division rounds towards zero. *)
Quotient(a, b) == IF (a < 0) = (b < 0) THEN (IF a < 0 THEN -a ELSE a) \div (IF b < 0 THEN -b ELSE b)
                  ELSE -((IF a < 0 THEN -a ELSE a) \div (IF b < 0 THEN -b ELSE b))

EvalUnary(t, a) == CASE t = Tag.NEG -> -a
                     [] t = Tag.NOT -> Truth(a = 0)
                     [] t = Tag.COMPL -> -a - 1

EvalBinary(t, a, b) == CASE t = Tag.MINUS -> a - b
                         [] t = Tag.PLUS -> a + b
                         [] t = Tag.MUL -> a * b
                         [] t = Tag.DIV -> Quotient(a, b)
                         [] t = Tag.LT -> Truth(a < b)
                         [] t = Tag.EQ -> Truth(a = b)

BinaryTags == {Tag.MINUS, Tag.PLUS, Tag.MUL, Tag.DIV, Tag.LT, Tag.EQ}

Failed == [v |-> 0, next |-> 0, ok |-> FALSE]

RECURSIVE EvalTags(_, _)
(* The loop of lit_load_in_expr, from position p on, with the stack st. *)
EvalTags(p, st) ==
    LET t == ReadNumber(file, p)
        n == Len(st)
        arg == ReadNumber(file, t.next)
    IN  CASE t.num = LIT_EXPR_END /\ n = 1 -> [v |-> st[1], next |-> t.next, ok |-> TRUE]
          [] t.num = Tag.CONST /\ n < MAX_EXPRESSION_DEPTH ->
                EvalTags(arg.next, Append(st, arg.num))
          [] t.num = Tag.NAME /\ n < MAX_EXPRESSION_DEPTH /\ arg.num < ntabsz ->
                EvalTags(arg.next, Append(st, Ntab[arg.num + 1]))
          [] t.num \in Unary /\ n >= 1 ->
                EvalTags(t.next, [st EXCEPT ![n] = EvalUnary(t.num, @)])
          [] t.num = Tag.QUEST /\ arg.num = Tag.COLON /\ n >= 3 ->
                EvalTags(arg.next, Append(SubSeq(st, 1, n - 3),
                                          IF st[n - 2] # 0 THEN st[n - 1] ELSE st[n]))
          [] t.num \in BinaryTags /\ n >= 2 /\ ~ (t.num = Tag.DIV /\ st[n] = 0) ->
                EvalTags(t.next, Append(SubSeq(st, 1, n - 2), EvalBinary(t.num, st[n - 1], st[n])))
          [] OTHER -> Failed

lit_load_in_expr(p) == EvalTags(p, <<>>)

-----------------------------------------------------------------------------
(* The bytes of count items of width bytes, the rest up to size filled. *)
DataBytes(width, value, count, size) ==
    [k \in 1..size |-> IF k <= count * width THEN Byte4(value, (k - 1) % width)
                       ELSE Byte4(value, 0)]

(* lit_load_cmd_generate; there is no slot 0 here. *)
CmdBytes(opcode, arg, slot) ==
    LET code == IF slot = 0 THEN <<>> ELSE Cmd!cmd_generate("cmd", arg, slot)
    IN  [k \in DOMAIN code |->
           code[k].nibble + CASE code[k].op = "pfix" -> 32
                              [] code[k].op = "nfix" -> 96
                              [] OTHER -> opcode]

WInit == /\ program \in Programs
         /\ file = pass_output_segments(program)
         /\ areasz \in AreaSizes /\ ntabsz \in NtabSizes
         /\ pos = 1 /\ area = <<>> /\ segsize = 0 /\ loaded = <<>>
         /\ segname = [k \in 1..(MAX_SEGMENT_NAME_LENGTH + 1) |-> 0]
         /\ status = "loading"

RecordTag == ReadNumber(file, pos)
At(t) == status = "loading" /\ RecordTag.num = t

lit_load_fatal == /\ status' = "fatal"
                  /\ UNCHANGED <<inputs, pos, area, segsize, loaded, segname>>

Store(bytes, next) == /\ area' = area \o bytes
                      /\ segsize' = segsize + Len(bytes)
                      /\ pos' = next
                      /\ UNCHANGED <<inputs, loaded, segname, status>>

(* A plausible bug (mutant): the last byte of the area is never used. *)
RoomStrict(size) == Len(area) + size < areasz

(* A plausible bug (mutant): one free byte is taken for enough. *)
RoomForOne(size) == Len(area) < areasz \/ size = 0

RoomFor(size) == Len(area) + size <= areasz

LoadBlock ==
    LET n == RecordTag.num IN
    /\ status = "loading" /\ n > 0
    /\ IF RoomFor(n) THEN Store(SubSeq(file, RecordTag.next, RecordTag.next + n - 1),
                                RecordTag.next + n)
       ELSE lit_load_fatal

LoadDummy == At(0) /\ Store(<<>>, RecordTag.next)

LoadData ==
    LET width == ReadNumber(file, RecordTag.next)
        value == lit_load_in_expr(width.next)
        count == lit_load_in_expr(value.next)
        size  == lit_load_in_expr(count.next)
    IN  /\ At(LIT_DATA)
        /\ IF /\ value.ok /\ count.ok /\ size.ok
              /\ count.v >= 0 /\ count.v * width.num <= size.v
              /\ RoomFor(size.v) /\ width.num \in {1, 2, 4}
           THEN Store(DataBytes(width.num, value.v, count.v, size.v), size.next)
           ELSE lit_load_fatal

LoadCmd ==
    LET opcode == ReadNumber(file, RecordTag.next)
        arg    == lit_load_in_expr(opcode.next)
        size   == lit_load_in_expr(arg.next)
        code   == CmdBytes(opcode.num, arg.v, size.v)
    IN  /\ At(LIT_CMD)
        /\ IF arg.ok /\ size.ok /\ RoomFor(size.v) /\ code # <<>>
           THEN Store(code, size.next)
           ELSE lit_load_fatal

(* The segment is complete: lit_load_segment returns, with 0 at the MARKER *)
(* and 1 at the start of another segment, which the next call loads.       *)
EndSegment == loaded' = Append(loaded, segsize) /\ segsize' = 0

LoadMarker ==
    /\ At(LIT_MARKER)
    /\ EndSegment
    /\ pos' = pos + LIT_MARKER_LENGTH
    /\ segname' = [segname EXCEPT ![1] = 0]
    /\ status' = "done"
    /\ UNCHANGED <<inputs, area>>

(* A plausible bug (mutant): the fragment's index is left in the file. *)
LoadSegmentKeepsIndex ==
    LET len == ReadNumber(file, RecordTag.next)
    IN  /\ At(LIT_SEGMENT)
        /\ IF len.num <= MAX_SEGMENT_NAME_LENGTH
           THEN /\ EndSegment
                /\ segname' = [k \in DOMAIN segname |->
                                 IF k <= len.num THEN file[len.next + k - 1] ELSE segname[k]]
                /\ pos' = len.next + len.num
                /\ UNCHANGED <<inputs, area, status>>
           ELSE lit_load_fatal

LoadSegmentRecord ==
    LET len == ReadNumber(file, RecordTag.next)
        index == ReadNumber(file, len.next + len.num)
    IN  /\ At(LIT_SEGMENT)
        /\ IF len.num <= MAX_SEGMENT_NAME_LENGTH
           THEN /\ EndSegment
                /\ segname' = [k \in DOMAIN segname |->
                                 IF k <= len.num THEN file[len.next + k - 1] ELSE segname[k]]
                /\ pos' = index.next
                /\ UNCHANGED <<inputs, area, status>>
           ELSE lit_load_fatal

WNext == \/ LoadBlock \/ LoadDummy \/ LoadData \/ LoadCmd
         \/ LoadMarker \/ LoadSegmentRecord

WSpec == WInit /\ [][WNext]_wvars

-----------------------------------------------------------------------------
(* The reference: values and contents as lit has them in memory. *)
RECURSIVE Value(_)
Value(e) ==
    CASE e.tag = Tag.CONST -> e.nums[1]
      [] e.tag = Tag.NAME  -> Ntab[e.nums[1] + 1]
      [] e.tag \in Unary   -> EvalUnary(e.tag, Value(e.r))
      [] e.tag = Tag.QUEST -> IF Value(e.l) # 0 THEN Value(e.r.l) ELSE Value(e.r.r)
      [] OTHER             -> EvalBinary(e.tag, Value(e.l), Value(e.r))

RECURSIVE StackNeed(_)
StackNeed(e) ==
    CASE e.tag \in Leaves -> 1
      [] e.tag \in Unary  -> StackNeed(e.r)
      [] OTHER -> LET l == StackNeed(e.l)  r == 1 + StackNeed(e.r)
                  IN  IF l > r THEN l ELSE r

RECURSIVE Subterms(_)
Subterms(e) == {e} \union CASE e.tag \in Leaves -> {}
                            [] e.tag \in Unary -> Subterms(e.r)
                            [] OTHER -> Subterms(e.l) \union Subterms(e.r)

Contents(el) ==
    CASE el.tag = "BLOCK" -> el.bytes
      [] el.tag = "DATA"  -> FlattenSeq([k \in 1..Value(el.count) |->
                                [j \in 1..el.width |-> Byte4(Value(el.value), j - 1)]])
      [] el.tag = "CMD"   -> CmdBytes(el.opcode, Value(el.arg), Value(el.size))

SegmentImage(seg) == FlattenSeq([k \in DOMAIN seg.els |-> Contents(seg.els[k])])
ProgramImage == FlattenSeq([i \in DOMAIN program |-> SegmentImage(program[i])])

ExprsOf(el) == CASE el.tag = "BLOCK" -> {}
                 [] el.tag = "DATA"  -> {el.value, el.count, el.size}
                 [] el.tag = "CMD"   -> {el.arg, el.size}
ProgramExprs == UNION {UNION {ExprsOf(program[i].els[k]) : k \in DOMAIN program[i].els} :
                         i \in DOMAIN program}

(* The memory holds the program the linker had: whatever the loader stores *)
(* is its image up to there, and when it is done the image is whole and    *)
(* every segment has its size; between segments lit_load_segname starts    *)
(* with the name of the next (lit_load_segment against                     *)
(* pass_output_segments).  Nothing is stored beyond the area the loader    *)
(* was given, be the program too large for it.                             *)
MemoryIsProgram ==
    /\ Len(area) <= areasz
    /\ IsPrefix(area, ProgramImage)
    /\ \A i \in DOMAIN loaded : loaded[i] = Len(SegmentImage(program[i]))
    /\ status = "done" => area = ProgramImage /\ Len(loaded) = Len(program)
    /\ status = "loading" /\ loaded # <<>> =>
          IsPrefix(program[Len(loaded) + 1].name, segname)

HasConditional == \E e \in ProgramExprs : \E s \in Subterms(e) : s.tag = Tag.QUEST

HasReason ==
    \/ Len(ProgramImage) > areasz
    \/ \E i \in DOMAIN program : Len(program[i].name) > MAX_SEGMENT_NAME_LENGTH
    \/ \E e \in ProgramExprs :
          \/ StackNeed(e) > MAX_EXPRESSION_DEPTH
          \/ \E s \in Subterms(e) : s.tag = Tag.NAME /\ s.nums[1] >= ntabsz

(* It gives up on a file of the linker's only for want of memory, of stack *)
(* or of the address of a segment, or because a segment's name is too      *)
(* long, as long as the file has no conditional expressions: the linker    *)
(* writes the tags of those in the other order than the loader reads them. *)
GivesUpWithReason == status = "fatal" => HasReason \/ HasConditional
=============================================================================
