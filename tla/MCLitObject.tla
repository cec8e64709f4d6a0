---------------------------- MODULE MCLitObject ----------------------------
(* What lit reads: some expressions, or the expression one source          *)
(* expression is reduced to, or the elements of three fragments, or the    *)
(* areas of several files through fewer streams.                           *)
EXTENDS LitReader, LitElements, IfileStreams

CONSTANT Sizes    \* the sizes of BLOCKs

Edges == {-2147483647, -65537, -65536, -257, -256, -252, -251, -1, 0,
          250, 251, 255, 256, 65535, 65536, 2147483647}

LeafExprs == {Leaf(Tag.CONST, <<n>>) : n \in Edges}
             \union {Leaf(Tag.NAME, <<0>>), Leaf(Tag.ELEMENT, <<251>>)}
             \union {Leaf(Tag.RANGE, <<-1, n>>) : n \in {-1, 256}}
             \union {Leaf(Tag.ELSUM, s) : s \in {<<>>, <<0, 250>>, <<256, 1>>}}

Few == {Leaf(Tag.CONST, <<-256>>), Leaf(Tag.NAME, <<0>>), Leaf(Tag.ELSUM, <<0, 250>>)}

One == {Unop(t, e) : t \in Unary, e \in Few}
       \union {Binop(t, l, r) : t \in {Tag.MINUS, Tag.EQ}, l \in Few, r \in Few}

Fewer == {Leaf(Tag.CONST, <<-256>>), Leaf(Tag.ELSUM, <<0, 250>>)}
Inner == {Unop(Tag.NEG, e) : e \in Fewer}
         \union {Binop(Tag.MINUS, l, r) : l \in Fewer, r \in Fewer}
Two == {Binop(Tag.MINUS, l, r) : l \in Inner, r \in Fewer}
       \union {Binop(Tag.MINUS, l, r) : l \in Fewer, r \in Inner}
       \union {questop(c, l, r) : c \in Fewer, l \in Fewer, r \in Fewer}

MCExprs == LeafExprs \union One \union Two

-----------------------------------------------------------------------------
(* Words of five bits.  A fragment's name, aligned and defined elsewhere,  *)
(* an unaligned one, and a local one a little behind the first.            *)
NameOf(n) == Leaf(Tag.NAME, <<n>>)
MCNameTable == 0 :> [global |-> TRUE, align |-> 4, val |-> Null]
               @@ 1 :> [global |-> TRUE, align |-> 1, val |-> Null]
               @@ 2 :> [global |-> FALSE, align |-> 1, val |-> Binop(Tag.PLUS, NameOf(0), Const(2))]
MCNameValues == 0 :> {-16, 12} @@ 1 :> {-16, 7, 15}
MCElementSize == 0 :> [lo |-> 1, hi |-> 3] @@ 1 :> [lo |-> 2, hi |-> 2]
                 @@ 250 :> [lo |-> 1, hi |-> 2]

Numerals == {Const(c) : c \in {-16, -1, 0, 1, 3, 15}}
Terms == {NameOf(0), NameOf(1), NameOf(2), Leaf(Tag.ELEMENT, <<0>>), Leaf(Tag.ELEMENT, <<1>>),
          Leaf(Tag.ELSUM, <<0, 1>>), Leaf(Tag.ELSUM, <<0, 250>>)}
FewTerms == {NameOf(1), NameOf(2), Const(3), Leaf(Tag.ELSUM, <<0, 250>>)}
Operators == Range(Tag) \ (Leaves \union Unary \union {Tag.QUEST, Tag.COLON})
BitOps == {Tag.AND, Tag.XOR, Tag.OR}

Pairs(ops, ls, rs) == {expr_binop(t, l, TRUE, r) : t \in ops, l \in ls, r \in rs}
SumPairs == Pairs(Sums, FewTerms \union {Leaf(Tag.ELSUM, <<0, 1>>)}, FewTerms)
BitPairs == Pairs(BitOps, FewTerms, {NameOf(1), Const(3)})

MCSources ==
    Pairs(Operators, Numerals \union Terms, Numerals \union Terms)
    \union {expr_unop(t, e) : t \in Unary, e \in Numerals \union Terms \union SumPairs}
    \union Pairs(Sums \union {Tag.AND}, SumPairs, {Const(-16)} \union Terms)
    \union Pairs(Sums \union {Tag.AND}, {Const(-16)} \union Terms, SumPairs)
    \union Pairs(BitOps, BitPairs, FewTerms) \union Pairs(BitOps, FewTerms, BitPairs)
    \union Pairs(Sums, SumPairs, SumPairs)
    \union {questop(c, l, r) : c \in {NameOf(1), Const(0), Const(3)}, l \in FewTerms, r \in FewTerms}

-----------------------------------------------------------------------------
(* Three fragments with up to two elements each; commands refer to any of  *)
(* the elements, forwards and backwards.                                   *)
Els(places) == {[kind |-> "BLOCK", size |-> n, refs |-> {}] : n \in Sizes}
               \union {[kind |-> "CMD", size |-> 0, refs |-> {p}] : p \in places}

ObjectsOf(shape) ==
    LET places == {p \in (1..3) \X (1..2) : p[2] <= shape[p[1]]}
        Frags(f) == {[wanted |-> w, els |-> e] :
                        w \in BOOLEAN, e \in [1..shape[f] -> Els(places)]}
    IN  {<<a, b, c>> : a \in Frags(1), b \in Frags(2), c \in Frags(3)}

MCObjects == UNION {{o \in ObjectsOf(s) : NeedsAreWanted(o) /\ EmptyIsLast(o)} :
                      s \in {<<2, 0, 1>>, <<1, 1, 1>>, <<1, 2, 1>>, <<0, 1, 2>>}}

-----------------------------------------------------------------------------
(* Two objects and an archive with the table of long names in it, given in *)
(* any order, some twice.                                                  *)
M(n) == [size |-> n, table |-> FALSE]
MCDisk == "a.o" :> [archive |-> FALSE, members |-> <<M(3)>>]
          @@ "b.o" :> [archive |-> FALSE, members |-> <<M(4)>>]
          @@ "l.a" :> [archive |-> TRUE, members |-> <<M(3), [size |-> 5, table |-> TRUE], M(4), M(5)>>]
MCCommands == UNION {[1..n -> DOMAIN MCDisk] : n \in 1..3}

-----------------------------------------------------------------------------
NoExprs == /\ source = <<>> /\ written = <<>> /\ stray = <<>> /\ file = <<>> /\ pos = 1
           /\ estack = <<>> /\ result = <<>> /\ status = "reading"
NoElements == /\ object = <<>> /\ epos = <<1, 0>> /\ skipping = FALSE /\ element_index = 0
              /\ elements = [n \in {} |-> <<0, 0>>] /\ references = {} /\ estatus = "done"
NoFiles == /\ args = <<>> /\ ifiles = <<>> /\ proper = <<>> /\ at = <<>>
           /\ scanning = 0 /\ current = 1 /\ reading = 3 /\ lastread = <<>> /\ ifstatus = "running"

Init == \/ IInit /\ NoElements /\ NoFiles
        \/ NoExprs /\ EInit /\ NoFiles
        \/ NoExprs /\ NoElements /\ SInit
Next == \/ INext /\ UNCHANGED <<evars, svars>>
        \/ ENext /\ UNCHANGED <<ivars, svars>>
        \/ SNext /\ UNCHANGED <<ivars, evars>>
Spec == Init /\ [][Next]_<<ivars, evars, svars>>
=============================================================================
