------------------------------ MODULE NeedGraph ------------------------------
(***************************************************************************)
(* What the first pass of the linker promises, independently of how it is  *)
(* computed: there is a growing set of hooks and a growing graph of needs, *)
(* and the wanted names are always exactly the names reachable from a hook *)
(* along needs.  lit/lit.c computes this set incrementally, with a         *)
(* recursion that stops at names already marked; LitResolve models that    *)
(* and is shown to implement this specification.                           *)
(***************************************************************************)
EXTENDS NeedReach

VARIABLES
  hooks,          \* names the link starts from
  needs,          \* [Names -> SUBSET Names], the need lists
  wanted          \* names selected to be linked in

gvars == <<hooks, needs, wanted>>

GInit ==
  /\ hooks = {}
  /\ needs = [n \in Names |-> {}]
  /\ wanted = {}

\* Hooks are added and needs are discovered; nothing is ever forgotten.
GNext ==
  /\ hooks' \in SUBSET Names
  /\ hooks \subseteq hooks'
  /\ needs' \in [Names -> SUBSET Names]
  /\ \A n \in Names : needs[n] \subseteq needs'[n]
  /\ wanted' = Reach(hooks', needs')

GSpec == GInit /\ [][GNext]_gvars
=============================================================================
