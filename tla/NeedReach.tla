------------------------------ MODULE NeedReach ------------------------------
(* Reachability in a graph of needs: nd[n] is the need list of the name n.  *)

CONSTANT Names    \* identifiers of the general name table

\* A set of names that contains every need of each of its members.
ClosedUnder(C, nd) == \A a \in C : nd[a] \subseteq C

\* The least set that contains roots and is closed under the need lists nd.
Reach(roots, nd) ==
  {m \in Names : \A C \in SUBSET Names :
                    roots \subseteq C /\ ClosedUnder(C, nd) => m \in C}
=============================================================================
