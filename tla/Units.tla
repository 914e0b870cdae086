------------------------------- MODULE Units -------------------------------
(***************************************************************************)
(* The sum of a function to Nat, as the number of its units: each of its   *)
(* values counted out, element by element.                                 *)
(***************************************************************************)
EXTENDS Integers, FiniteSets

UnitsOf(f) == UNION {{x} \X (1..f[x]) : x \in DOMAIN f}

=============================================================================
