---------------------------- MODULE MCLitResolve ----------------------------
(* An instance of LitResolve: the default hook, an ordinary name, a special *)
(* name, and the name that option -a drags in.                              *)
EXTENDS LitResolve

CONSTANTS hook, a, seg, eight

MCNames == {hook, a, seg, eight}
Specials == {seg}
=============================================================================
