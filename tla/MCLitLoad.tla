----------------------------- MODULE MCLitLoad -----------------------------
(* Two segments out of a few elements each, loaded at addresses that need  *)
(* prefixes and have different bytes.                                      *)
EXTENDS LitLoad

C(n) == Leaf(Tag.CONST, <<n>>)
N(i) == Leaf(Tag.NAME, <<i>>)

MCNtab == <<-300, 70000>>

Values == {C(-2), N(1), Binop(Tag.PLUS, N(0), C(260)),
           Binop(Tag.DIV, Unop(Tag.NEG, N(0)), C(-7)),
           Binop(Tag.MINUS, C(1), Binop(Tag.MINUS, C(2), Binop(Tag.MUL, C(3), N(0))))}

BlockEls == {[tag |-> "BLOCK", bytes |-> b] : b \in {<<>>, <<255, 250>>}}
DataEls(vals) == {[tag |-> "DATA", width |-> w, value |-> v,
                   count |-> C(n), size |-> C(n * w)] : w \in {1, 2, 4}, v \in vals, n \in {0, 2}}
CmdEls(vals) == {[tag |-> "CMD", opcode |-> 64, arg |-> v, size |-> C(6)] : v \in vals}

Segment(name, els) == [name |-> name, els |-> els]
Two(els, more) == {<<Segment(<<>>, <<a, b>>), Segment(<<1, 2>>, <<c>>)>> :
                      a \in els, b \in els, c \in more}
                  \union {<<Segment(<<>>, <<a>>), Segment(<<1, 2, 3, 4>>, <<>>)>> : a \in els}

(* Segments whose names are of different length. *)
NamePrograms == {<<Segment(<<>>, <<>>), Segment(a, <<>>), Segment(b, <<>>)>> :
                    a \in {<<1, 2>>}, b \in {<<3>>, <<3, 4>>}}

(* Conditional expressions over an address. *)
QuestPrograms == {<<Segment(<<>>, <<d>>)>> : d \in DataEls({questop(N(0), C(1), N(1))})}

MCPrograms == Two(BlockEls \union DataEls(Values) \union CmdEls(Values),
                  BlockEls \union CmdEls({N(0)}))
              \union NamePrograms \union QuestPrograms
=============================================================================
