------------------------------ MODULE MCShift ------------------------------
(* Shift for TLC: two stations, two operators, three shifts in each table. *)
EXTENDS Shift, TLC

CONSTANTS A, B, ann, bob

\* Operators are interchangeable.
OperatorSymmetry == Permutations(Operators)

=============================================================================
