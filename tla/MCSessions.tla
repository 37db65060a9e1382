----------------------------- MODULE MCSessions -----------------------------
(* Sessions for TLC: two stations, and an autumn night in which a session    *)
(* lasts two hours.                                                          *)
EXTENDS Sessions, TLC

\* The clocks are put back by an hour at time 2, whose local time is that of 1.
AutumnOffset == [t \in Time |-> IF t < 2 THEN 1 ELSE 0]

Symmetry == Permutations(Browsers) \cup Permutations(Infos)

=============================================================================
