---------------------------- MODULE MCNegotiation ----------------------------
(* Small instances of Negotiation. *)
EXTENDS Negotiation, TLC

\* A provider that asks for the ceiling and then concedes all the way to its
\* floor, one whose opening ask lies below its own floor, and one that works for
\* no price in the budget.
MCPolicies ==
  {[floor |-> 3, opening |-> 2, concession |-> 2],
   [floor |-> 3, opening |-> 1, concession |-> 1],
   [floor |-> 5, opening |-> 2, concession |-> 0]}

\* Handlers are interchangeable.
HandlerSymmetry == Permutations(Handlers)

=============================================================================
