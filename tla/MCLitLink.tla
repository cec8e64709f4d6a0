------------------------------ MODULE MCLitLink ------------------------------
(* Instances of LitLink.  The plain ones have the hook, one more ordinary   *)
(* name and no special names; the special ones a segment's start and size.  *)
EXTENDS LitLink

CONSTANTS hook, a, start, size, eight

NamesPlain == {hook, a, eight}
NamesSpecial == {hook, start, size, eight}
Specials == {start, size}
StartNames == {start}
SizeNames == {size}
NoSizeOf == [s \in {} |-> size]
OneSizeOf == [s \in {start} |-> size]
=============================================================================
