---------------------------- MODULE MCPumpPages ----------------------------
(* A small instance of PumpPages for TLC. *)
EXTENDS PumpPages

Fuel(f, p)   == [id_tovar |-> f, price |-> p]
Tanked(k, f) == [id_tovar |-> f, id_tank |-> k]
Row(t, p, k) == [id_tank |-> k, id_trk |-> t, id_pist |-> p]

\* Complete: three pistols at two pumps, two tanks, and a pump without pistols.
Whole ==
  [tovar |-> <<Fuel(2, 50), Fuel(1, 40)>>, tank |-> <<Tanked(1, 1), Tanked(2, 2)>>, com_trk |-> {1, 2, 3},
   trk |-> {Row(1, 1, 1), Row(1, 2, 2), Row(2, 1, 1)}]

\* The same ids with other contents: another station.
Other ==
  [tovar |-> <<Fuel(3, 40)>>, tank |-> <<Tanked(3, 3), Tanked(1, 3)>>, com_trk |-> {2},
   trk |-> {Row(2, 1, 3), Row(2, 2, 1)}]

\* What deleting leaves behind: a tank without its fuel, pistols without their
\* tank, a pistol without its pump.
Torn ==
  [tovar |-> <<Fuel(1, 40)>>, tank |-> <<Tanked(1, 1), Tanked(2, 2)>>, com_trk |-> {1, 2},
   trk |-> {Row(1, 1, 1), Row(2, 1, 2), Row(2, 2, 4), Row(3, 1, 1)}]

\* A station that is not set up yet.
Bare == [tovar |-> <<>>, tank |-> <<>>, com_trk |-> {1}, trk |-> {}]

MCContents == {Whole, Other, Torn, Bare}

=============================================================================
