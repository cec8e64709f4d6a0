--------------------------- MODULE MCAsmFragments ---------------------------
(* Sources about alignment and data of unknown size, commands and slots,    *)
(* digital labels, and names, needs and common blocks.                      *)
EXTENDS AsmFragments

CONSTANTS foo, bar, glob

Num(c) == [k |-> "const", n |-> c]
Of(n) == [k |-> "name", n |-> n]
Dot == [k |-> "dot", n |-> 0]
Back == [k |-> "back", n |-> 1]
Forw == [k |-> "forw", n |-> 1]

named(o, n) == [op |-> o, x |-> n]
data(w, a, r) == [op |-> "data", w |-> w, a |-> a, r |-> r]
cmd(a, rel) == [op |-> "cmd", a |-> a, rel |-> rel]
align(n, fixed) == [op |-> "align", n |-> n, fixed |-> fixed]
seg(s) == [op |-> "segment", s |-> s]
assign(n, a) == [op |-> "assign", x |-> n, a |-> a]

Layout == {align(2, TRUE), align(4, TRUE), data(1, Num(0), Num(1)),
           data(1, Num(0), Of(glob)), data(2, Num(0), Num(1)), cmd(Of(glob), FALSE),
           named("label", foo), named("globl", glob), named("label", glob),
           assign(foo, Dot)}
Few == {align(4, FALSE), data(1, Num(0), Num(1)), data(1, Num(0), Of(glob)), cmd(Of(glob), FALSE),
        named("middle", foo), named("globl", glob)}
Code == {cmd(Num(300), FALSE), [op |-> "string", n |-> 3], cmd(Of(foo), TRUE), cmd(Forw, TRUE),
         [op |-> "digit", d |-> 1], named("label", foo),
         [op |-> "slot", n |-> 2], [op |-> "fpu", c |-> 17], seg("text"), align(4, TRUE),
         cmd(Dot, FALSE)}
DigitsOnly == {[op |-> "digit", d |-> 1], cmd(Forw, TRUE), data(4, Back, Num(1)),
               cmd(Back, TRUE), align(4, TRUE)}
Needs == {named("globl", glob), named("label", glob), named("label", foo), named("need", glob),
          named("need", foo), assign(foo, Of(bar)), assign(bar, Of(foo)), assign(bar, Num(4)),
          named("need", bar), [op |-> "comm", x |-> bar, n |-> 4], seg("bss"),
          data(1, Num(0), Of(bar)), align(4, TRUE)}

Upto(S, n) == [stmts |-> S, most |-> n]

MCVocabularies == {Upto(Layout, 5), Upto(Few, 6), Upto(Code, 5), Upto(DigitsOnly, 6),
                   Upto(Needs, 5)}

(* A variable in bss after a common block. *)
MCCommon == {Upto({[op |-> "comm", x |-> bar, n |-> 4], seg("bss"), named("label", foo),
                   data(1, Num(0), Num(1))}, 4)}
=============================================================================
