------------------------------ MODULE MCChain ------------------------------
(* Every chain of up to MaxLength elements out of a few of each kind.      *)
EXTENDS Chain

CONSTANT MaxLength   \* bound: elements of a chain

(* 0, all ones, different bytes, equal bytes. *)
Words == {0, -1, 1541, 84215045}

Code(c) == [later |-> FALSE, b |-> c]

Shapes ==
    {Block(0, r, <<Code(7)>>) : r \in BOOLEAN}
    \union {Data(0, r, w, Const(c), n) : r \in BOOLEAN, w \in {2, 4}, c \in Words, n \in {1}}
    \union {Data(0, r, 1, Const(5), 2) : r \in BOOLEAN}
    \union {Data(0, FALSE, 4, NamePlus(1), 1), Data(0, FALSE, 1, Const(5), 0)}
    \union {Cmd(0, FALSE, k, <<Code(33), Code(64)>>) : k \in BOOLEAN}

MCChains == {[j \in DOMAIN s |-> [s[j] EXCEPT !.id = j]] :
               s \in BoundedSeq(Shapes, MaxLength) \ {<<>>}}
=============================================================================
