---------------------------- MODULE MCLoginPage ----------------------------
(* LoginPage for TLC: two stations and two operators who work at both; the  *)
(* database of the first lists them for the second as well.                 *)
EXTENDS LoginPage, TLC

CONSTANTS A, B, ann, bob

MCUsers ==
  [d \in Databases |-> [a \in Databases |-> IF d \in {a, A} THEN {ann, bob} ELSE {}]]

\* Tables of up to two shifts.
Shifts == [azs : Databases, nn : {1}, op : Operators, open : BOOLEAN]
MCTables ==
  {<<>>} \cup {<<r>> : r \in Shifts}
    \cup {rows \in Shifts \X Shifts : rows[1].open => rows[1].azs # rows[2].azs}

OperatorSymmetry == Permutations(Operators)

=============================================================================
