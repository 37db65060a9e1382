---------------------------- MODULE MCConnection ----------------------------
(* Connection for TLC: A is a complete station, B a database without the    *)
(* station's tables, C a server without the database.                       *)
EXTENDS Connection, TLC

CONSTANTS A, B, C, t1, t2, t3

\* Connect threads are interchangeable.
ThreadSymmetry == Permutations(Threads)

=============================================================================
