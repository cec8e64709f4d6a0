----------------------------- MODULE MCRegStack -----------------------------
EXTENDS RegStack

MCABC == {"a", "b", "c"}
MCFABC == {"fa", "fb", "fc"}
MCRegOrder == <<"a", "b", "c", "fa", "fb", "fc">>

Op(kind, in, out, clob, move) ==
    [kind |-> kind, id |-> <<>>, in |-> in, out |-> [k \in DOMAIN out |-> [reg |-> out[k], cls |-> {k}]],
     clob |-> clob, move |-> move, dead |-> {}, unused |-> {}]
In(r, cls, pop) == [reg |-> r, cls |-> cls, pop |-> pop, jpop |-> pop]

\* Instructions of t800.md: ldl, stl, diff, add, adc, dup, wcnt, fpldzerosn ...
Ld(d) == Op("insn", <<>>, <<d>>, {}, FALSE)
St(x) == Op("insn", <<In(x, {1}, TRUE)>>, <<>>, {}, FALSE)
Adc(d, x) == Op("insn", <<In(x, {1}, TRUE)>>, <<d>>, {}, FALSE)
Diff(d, x, y) == Op("insn", <<In(x, {2}, TRUE), In(y, {1}, TRUE)>>, <<d>>, {}, FALSE)
Add(d, x, y) == Op("insn", <<In(x, {1, 2}, TRUE), In(y, {1, 2}, TRUE)>>, <<d>>, {}, FALSE)
Dup(d, x) == Op("insn", <<In(x, {1}, FALSE)>>, <<d>>, {}, TRUE)
Wcnt(d, e, x) == Op("insn", <<In(x, {1}, TRUE)>>, <<d, e>>, {}, FALSE)
FSt(f, x) == Op("insn", <<In(f, {1}, TRUE), In(x, {1}, TRUE)>>, <<>>, {}, FALSE)
Cj(x) == Op("jump", <<[In(x, {1}, TRUE) EXCEPT !.jpop = FALSE]>>, <<>>, {}, FALSE)
J == Op("jump", <<>>, <<>>, Regs, FALSE)
Table(x, tmp) == Op("jump", <<In(x, {1}, FALSE)>>, <<>>, {tmp}, FALSE)
Natural(r) == IF r \in {"a", "fa"} THEN {1} ELSE IF r \in {"b", "fb"} THEN {2} ELSE {3}
Call(args, d) == Op("call", [n \in DOMAIN args |-> In(args[n], Natural(args[n]), TRUE)], <<d>>, Regs, FALSE)
Ret(d) == Op("return", <<In(d, Natural(d), FALSE)>>, <<>>, {}, FALSE)

Block(ins, to, falls) == [ins |-> ins, to |-> to, falls |-> falls]
Ends(ins) == Block(ins, <<>>, FALSE)
Falls(ins) == Block(ins, <<>>, TRUE)
Jumps(ins, t) == Block(ins, <<t>>, TRUE)

Function(mode, blocks) ==
    [mode |-> mode,
     blocks |-> [b \in DOMAIN blocks |-> [blocks[b] EXCEPT !.ins =
                   [j \in DOMAIN @ |-> [@[j] EXCEPT !.id = <<b, j>>]]]]]
Singles == [f \in MCFABC |-> "S"]

Perms(s) == {p \in [1..3 -> s] : Cardinality({p[j] : j \in 1..3}) = 3}
Pairs(s) == {p \in s \X s : p[1] # p[2]}
Lds(p) == <<Ld(p[1]), Ld(p[2]), Ld(p[3])>>

\* One block: all three registers loaded, two operations, and a call.
Steps(s) ==
    {Diff(d, p[1], p[2]) : d \in s, p \in Pairs(s)} \union {Dup(p[1], p[2]) : p \in Pairs(s)}
    \union {Adc(d, x) : d \in s, x \in s} \union {Ld(d) : d \in s} \union {St(x) : x \in s}
Straight ==
    {Function(Singles, <<Ends(Lds(p) \o <<x, y, Call(<<"b", "a", "c">>, "a"), Ret("a")>>)>>) :
       p \in {<<"a", "b", "c">>, <<"c", "a", "b">>}, y \in Steps(MCABC),
       x \in Steps(MCABC) \union {Wcnt(q[1], q[2], "a") : q \in Pairs(MCABC)}}

\* The same on the floating stack while the integer one is full or not.
Floating ==
    {Function(mode, <<Ends(n \o Lds(p) \o <<x, y, Add("fa", "fa", "fb"), FSt("fa", "a"), FSt("fc", "b"),
                             Dup("a", "c"), Ret("a")>>)>>) :
       mode \in {Singles, [Singles EXCEPT !["fc"] = "D"]}, n \in {Lds(<<"b", "c", "a">>), Lds(<<"a", "b", "c">>)},
       p \in {<<"fa", "fb", "fc">>, <<"fc", "fb", "fa">>, <<"fb", "fa", "fc">>},
       x \in {Adc(r, r) : r \in MCFABC},
       y \in {Adc(r, r) : r \in MCFABC} \union {Dup(q[1], q[2]) : q \in Pairs({"fa", "fb"})}
              \union {Add("fb", "fa", "fb"), St("fb")}}

\* A jump or two to a label that is also reached from above, or loops.
Bodies == {<<Adc("a", "a")>>, <<Diff("a", "a", "b"), Ld("b")>>, <<Diff("b", "a", "b"), Ld("a")>>}
Conds == {<<Ld("c"), Cj("c")>>, <<Dup("c", "a"), Cj("c")>>}
Flow ==
    {Function(Singles, <<Falls(s), Jumps(b2 \o c2, t2), Jumps(b3 \o c3, t3), Jumps(<<Cj("b")>>, t4),
                         Ends(u)>>) :
       s \in {<<Ld("a"), Ld("b")>>, <<Ld("b"), Ld("a")>>}, b2 \in Bodies, c2 \in Conds, b3 \in Bodies, c3 \in Conds,
       t2 \in {3, 4, 5}, t3 \in {2, 5}, t4 \in {3, 5}, u \in {<<Call(<<"a">>, "a"), Ret("a")>>}}

\* Jumps of other kinds: through a table, and with j, which keeps no register.
Leaves(ins, to) == Block(ins, to, FALSE)
Other ==
    {Function(Singles, <<Leaves(<<Ld("a"), Ld("fa"), Ld("fb"), Ld("c"), Table("c", "b")>>, t),
                         Leaves(b \o <<Ld("c"), Table("c", "b")>>, t),
                         Ends(<<Diff("fa", "fa", "fb"), FSt("fa", "a"), Ld("a"), Ret("a")>>)>>) :
       t \in {<<2, 3, 2>>, <<3, 2>>},
       b \in {<<Diff("fa", "fa", "fb"), Ld("fb")>>, <<Adc("a", "a"), Diff("fb", "fa", "fb"), Ld("fa")>>}}
    \union
    {Function(Singles, <<Jumps(<<Ld("c"), Cj("c")>>, 3), Leaves(<<Ld("a"), St("a"), J>>, <<4>>),
                         Falls(<<Ld("b"), St("b")>>), Ends(<<Ld("a"), Ret("a")>>)>>),
     Function(Singles, <<Jumps(<<Ld("a"), Ld("c"), Cj("c")>>, 3), Leaves(<<St("a"), J>>, <<4>>),
                         Falls(<<St("a")>>), Ends(<<Ld("a"), Ret("a")>>)>>)}

\* An output nobody uses is left at the end of a block.
Unused ==
    {Function(Singles, <<Jumps(<<Ld("a"), Ld("b"), Ld("c"), Cj("c")>>, 3), Falls(x),
                         Ends(<<Call(<<"a", "b">>, "a"), Ret("a")>>)>>) :
       x \in {<<Wcnt("c", "b", "b")>>, <<Wcnt("b", "c", "b")>>, <<Diff("a", "a", "b"), Wcnt("c", "b", "a"), Ld("a")>>,
              <<Wcnt("c", "a", "a")>>}}

\* Two jumps back to a label, something else lives where the later one is.
Back ==
    {Function(Singles, <<Falls(<<Ld("a")>>), Falls(<<Adc("a", "a")>>), Jumps(<<Ld("c"), Cj("c")>>, t3),
                         Jumps(<<Ld("b"), Ld("c"), Cj("c")>>, 6), Jumps(<<Adc("b", "b"), Cj("b")>>, t5),
                         Ends(<<Ld("a"), Ret("a")>>)>>) : t3 \in {2, 3}, t5 \in {2, 3}}

MCPrograms ==
    {p \in Straight \union Floating \union Flow \union Other \union Unused \union Back : WellFormed(p)}
=============================================================================
