--------------------------- MODULE StationTables ---------------------------
(***************************************************************************)
(* What the settings API promises about the station's tables: a request is *)
(* a list of objects, each of which is stored in one step, and nothing but *)
(* the row or the pump that an object names ever changes.  After a failure *)
(* an object may be stored in part, which this module delimits as well.    *)
(***************************************************************************)
EXTENDS Naturals, Sequences, FiniteSets

CONSTANTS
  Requests,  \* lists of objects, which are records [do, id, to, pists]
  Absent     \* the row of an id that has none

VARIABLES
  tables,    \* [screen, tovar, tank, com_trk, trk]
  clean      \* the request under way has met no failure so far

vars == <<tables, clean>>

\* UPDATE ... WHERE id: only a row that is there.
Updated(rows, id, to) ==
  IF rows[id] = Absent THEN rows ELSE [rows EXCEPT ![id] = to]

\* The pistols of o that ask for a number, and the rank of one among them.
New(o)     == {j \in DOMAIN o.pists : o.pists[j].pist = 0}
Rank(o, j) == Cardinality({k \in New(o) : k <= j})

\* The tanks that o sends for pistol number n.
Named(o, n) == {j \in DOMAIN o.pists : o.pists[j].pist = n}
Sent(o, n)  == {o.pists[j].tank : j \in Named(o, n)}

IsHighest(m, rows) ==
  /\ \A row \in rows : row.pist <= m
  /\ m = 0 \/ \E row \in rows : row.pist = m

\* A row keeps its number and gets the tank that o sends last for it, if any.
Retanked(o, row) ==
  IF Named(o, row.pist) = {} THEN row
  ELSE LET last == CHOOSE j \in Named(o, row.pist) : \A k \in Named(o, row.pist) : k <= j
       IN [row EXCEPT !.tank = o.pists[last].tank]

\* Pistols that o names get the tank sent last for them, the others stay, and
\* the new ones follow with the numbers after the highest.
PistolsSaved(rows, o, new) ==
  \E m \in {0} \cup {row.pist : row \in rows} :
    /\ IsHighest(m, rows)
    /\ new = {Retanked(o, row) : row \in rows}
             \cup {[pist |-> m + Rank(o, j), copy |-> 0, tank |-> o.pists[j].tank] : j \in New(o)}

\* t becomes u when o is stored.
Saved(t, o, u) ==
  CASE o.do = "set_Tovar"    -> u = [t EXCEPT !.tovar = Updated(@, o.id, o.to)]
    [] o.do = "set_Tank"     -> u = [t EXCEPT !.tank = Updated(@, o.id, o.to)]
    [] o.do = "set_Trk"      ->
         /\ u = [t EXCEPT !.com_trk = Updated(@, o.id, o.to), !.trk[o.id] = u.trk[o.id]]
         /\ PistolsSaved(t.trk[o.id], o, u.trk[o.id])
    [] o.do = "delete_Tovar" -> u = [t EXCEPT !.tovar[o.id] = Absent]
    [] o.do = "delete_Tank"  -> u = [t EXCEPT !.tank[o.id] = Absent]
    [] o.do = "delete_Trk"   ->
         IF o.pists = <<>>
         THEN u = [t EXCEPT !.com_trk[o.id] = Absent]
         ELSE u = [t EXCEPT !.trk[o.id] = {row \in @ : Named(o, row.pist) = {}}]
    [] o.do = "screen"       -> u = [t EXCEPT !.screen = o.to]
    [] o.do = "place"        -> u = [t EXCEPT !.com_trk = Updated(@, o.id, o.to)]

\* Each row has its tank or one that o sends for it; of the pistols that o adds
\* some are there, perhaps with other numbers.
PistolsPartly(rows, o, new) ==
  LET Key(row) == [pist |-> row.pist, copy |-> row.copy]
      added    == {u \in new : \A row \in rows : Key(u) # Key(row)}
  IN /\ \A row \in rows : \E u \in new :
          Key(u) = Key(row) /\ u.tank \in {row.tank} \cup Sent(o, row.pist)
     /\ Cardinality(added) = Cardinality(new) - Cardinality(rows)
     /\ Cardinality(added) <= Cardinality(New(o))
     /\ \A u \in added : \E j \in DOMAIN o.pists : u.tank = o.pists[j].tank

\* t becomes u when a failure interrupts the storing of o.
Partly(t, o, u) ==
  CASE o.do = "set_Trk" ->
         /\ \E places \in {t.com_trk, Updated(t.com_trk, o.id, o.to)} :
              u = [t EXCEPT !.com_trk = places, !.trk[o.id] = u.trk[o.id]]
         /\ PistolsPartly(t.trk[o.id], o, u.trk[o.id])
    [] o.do = "delete_Trk" /\ o.pists # <<>> ->
         \E gone \in SUBSET DOMAIN o.pists :
           u = [t EXCEPT !.trk[o.id] = {row \in @ : Named(o, row.pist) \cap gone = {}}]
    [] OTHER -> u = t \/ Saved(t, o, u)

-----------------------------------------------------------------------------

Request == clean' = TRUE /\ UNCHANGED tables

Failure == clean' = FALSE /\ UNCHANGED tables

Store(o) == clean = TRUE /\ clean' = TRUE /\ Saved(tables, o, tables')

StorePartly(o) == clean' = FALSE /\ Partly(tables, o, tables')

Next ==
  \/ Request \/ Failure
  \/ \E r \in Requests : \E j \in DOMAIN r : Store(r[j]) \/ StorePartly(r[j])

Spec == clean = TRUE /\ [][Next]_vars

=============================================================================
