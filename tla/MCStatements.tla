--------------------------- MODULE MCStatements ---------------------------
(* Statements for TLC: two threads, four addresses, three dials.          *)
EXTENDS Statements, TLC

MCSymmetry == Permutations(Addresses)

=============================================================================
