-------------------------- MODULE MCStationConfig --------------------------
(* A small instance of StationConfig for TLC. *)
EXTENDS StationConfig

CONSTANTS f, k1, k2, p, q, v1, v2

Trk(pump, list)  == [do |-> "set_Trk", id |-> pump, to |-> v2, pists |-> list]
Drop(pump, list) == [do |-> "delete_Trk", id |-> pump, pists |-> list]
Pist(number, k)  == [pist |-> number, tank |-> k]

MCRequests == {
  \* everything at once
  <<[do |-> "set_Tovar", id |-> f, to |-> v2], [do |-> "set_Tank", id |-> k1, to |-> f],
    Trk(p, <<Pist(1, k2), Pist(0, k1)>>)>>,
  \* two new pistols, and another pump after it
  <<Trk(p, <<Pist(0, k1), Pist(0, k2)>>), Trk(q, <<Pist(0, k1)>>)>>,
  \* a new pistol before one with a number that may not be there
  <<Trk(p, <<Pist(0, k1), Pist(2, k2)>>)>>,
  <<Trk(q, <<>>)>>,
  <<[do |-> "delete_Tovar", id |-> f], [do |-> "delete_Tank", id |-> k1],
    Drop(p, <<[pist |-> 1], [pist |-> 2]>>)>>,
  <<Drop(q, <<>>)>>,
  <<[do |-> "screen", to |-> v2], [do |-> "place", id |-> p, to |-> v1],
    [do |-> "place", id |-> q, to |-> v2]>> }

=============================================================================
