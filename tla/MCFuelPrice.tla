---------------------------- MODULE MCFuelPrice ----------------------------
(* FuelPrice for TLC: every price up to 99.99; black, bytes of all sizes, and *)
(* numbers that are none.                                                     *)
EXTENDS FuelPrice

MCPrices == 100 .. 9999
MCColors == {<<0, 0, 0>>, <<255, 1, 128>>, <<256, -1, 700>>}

=============================================================================
