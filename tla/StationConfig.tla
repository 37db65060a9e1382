--------------------------- MODULE StationConfig ---------------------------
(***************************************************************************)
(* The station's tables under the administrator's requests: POST           *)
(* /api/settings/set, /api/settings/delete and /api/trk/save, and the      *)
(* statements they make (set_Tovar, set_Tank, set_Trk, delete_Tovar,       *)
(* delete_Tank, delete_Trk, save_Trks).                                    *)
(*                                                                         *)
(* A request is parsed completely before its first statement, and a request *)
(* that does not parse changes nothing; so a request is here the list of   *)
(* objects that parsing leaves, in the order in which the handler stores   *)
(* them: fuels (tovar), tanks, pumps (trk).  There is no transaction.  Any *)
(* statement may throw, before or after it took effect, and the connect    *)
(* thread may point con to another station's database, and back, at any    *)
(* time.  The tables here are those of one station.                        *)
(***************************************************************************)
EXTENDS Naturals, Sequences, FiniteSets

CONSTANTS
  Fuels, Tanks, Pumps,   \* ids of fuels, tanks and pumps (trk)
  Values,                \* the rest of a row: price and colour, or position
  Absent,                \* no row has the id
  Requests,              \* lists of objects
  MaxNumber              \* bound: pistol numbers and rows when a request starts

\* The rows of table trk; copy tells apart those with one number, of which SQL
\* allows any.
Row == [pist : Nat, copy : Nat, tank : Tanks]

\* The tables, by id, with the pistols of each pump.
Content ==
  [screen : Values, tovar : [Fuels -> Values \cup {Absent}],
   tank : [Tanks -> Fuels \cup {Absent}],
   com_trk : [Pumps -> Values \cup {Absent}], trk : [Pumps -> SUBSET Row]]

\* What a handler stores, one after the other; a new pistol has number 0.
Pistol == [pist : Nat, tank : Tanks]
Object ==
  [do : {"set_Tovar"}, id : Fuels, to : Values]
  \cup [do : {"set_Tank"}, id : Tanks, to : Fuels]
  \cup [do : {"set_Trk"}, id : Pumps, to : Values, pists : Seq(Pistol)]
  \cup [do : {"delete_Tovar"}, id : Fuels]
  \cup [do : {"delete_Tank"}, id : Tanks]
  \cup [do : {"delete_Trk"}, id : Pumps, pists : Seq([pist : Nat])]
  \cup [do : {"screen"}, to : Values]
  \cup [do : {"place"}, id : Pumps, to : Values]

\* save_Trks writes the screen and places, and nothing else.
ASSUME RequestsAssumption ==
  /\ Requests \subseteq Seq(Object)
  /\ \A r \in Requests :
       r # <<>> /\ r[1].do = "screen" => \A j \in DOMAIN r : r[j].do \in {"screen", "place"}
ASSUME MaxNumberAssumption == MaxNumber \in Nat
ASSUME FuelsAssumption == Fuels # {}
ASSUME AbsentAssumption == Absent \notin Values \cup Fuels

VARIABLES
  db,          \* the tables
  here,        \* con points to this database
  isconn,
  wpc,         \* "idle", or "busy" with a request
  request, i,  \* its objects, and the one being stored
  at,          \* the statement of that object
  max_id_pist, n,   \* locals of set_Trk
  answer,      \* the status last sent: "none", "success", "yes", "not"
  before,      \* history: the tables before that object
  disturbed,   \* history: a statement of the request threw or ran elsewhere,
               \* or an object met a pistol it had just added
  max_here,    \* history: max_id_pist was read in this database
  strayed,     \* history: a pistol was added here with another database's max
  switched     \* history: the connect thread acted during the request, or con
               \* pointed elsewhere when it came

place   == <<request, i, at>>
locals  == <<max_id_pist, n, max_here>>
vars    == <<db, here, isconn, wpc, place, locals, answer, before, disturbed,
             strayed, switched>>

Obj == request[i]

IsMax(m, rows) ==
  \/ rows = {} /\ m = 0
  \/ (\E row \in rows : row.pist = m) /\ (\A row \in rows : row.pist <= m)

Init ==
  /\ \E v \in Values :
       db = [screen |-> v, tovar |-> [f \in Fuels |-> v],
             tank |-> [k \in Tanks |-> CHOOSE f \in Fuels : TRUE],
             com_trk |-> [p \in Pumps |-> v], trk |-> [p \in Pumps |-> {}]]
  /\ here = TRUE /\ isconn = TRUE /\ wpc = "idle"
  /\ request = <<>> /\ i = 1 /\ at = 0
  /\ max_id_pist = 0 /\ n = 0 /\ max_here = TRUE
  /\ answer = "none" /\ before = db
  /\ disturbed = FALSE /\ strayed = FALSE /\ switched = FALSE

-----------------------------------------------------------------------------
(* What surrounds the handler.                                             *)

\* Any steps of connect and get_azs_id, on this station or on another.
Switch ==
  /\ here' \in BOOLEAN /\ isconn' \in BOOLEAN
  /\ switched' = TRUE
  /\ UNCHANGED <<db, wpc, place, locals, answer, before, disturbed, strayed>>

\* The handler has returned, and its locals are gone.
Done ==
  /\ wpc' = "idle" /\ request' = <<>> /\ i' = 1 /\ at' = 0
  /\ max_id_pist' = 0 /\ n' = 0 /\ max_here' = TRUE

\* The process stops, in the middle of a request or not, and starts again.
Restart ==
  /\ Done
  /\ here' \in BOOLEAN /\ isconn' \in BOOLEAN /\ answer' = "none"
  /\ before' = db
  /\ disturbed' = TRUE /\ switched' = TRUE
  /\ UNCHANGED <<db, strayed>>

-----------------------------------------------------------------------------
(* Requests and single statements.                                         *)

Room ==
  \A p \in Pumps :
    /\ Cardinality(db.trk[p]) < MaxNumber
    /\ \A row \in db.trk[p] : row.pist < MaxNumber

\* The middleware lets a request pass while isconn, and it is parsed.
Receive(r) ==
  /\ wpc = "idle" /\ isconn = TRUE /\ Room
  /\ wpc' = "busy" /\ request' = r /\ i' = 1 /\ at' = 0
  /\ answer' = "none"
  /\ before' = db /\ disturbed' = FALSE /\ switched' = ~here
  /\ UNCHANGED <<db, here, isconn, locals, strayed>>

Doing(do) == wpc = "busy" /\ i <= Len(request) /\ Obj.do = do

\* executeUpdate returns; the statement may have run on another database.
Works(after) ==
  /\ db' = IF here THEN after ELSE db
  /\ disturbed' = (disturbed \/ ~here)
  /\ UNCHANGED isconn

\* It throws, and whether it took effect is unknown.
Throws(after) ==
  /\ db' \in {db, IF here THEN after ELSE db}
  /\ disturbed' = TRUE
  /\ isconn' = FALSE

\* On to the next object, or to the next statement of this one.
NextObject ==
  /\ i' = i + 1 /\ at' = 0
  /\ before' = db'
  /\ UNCHANGED <<here, wpc, request, answer, switched>>
NextStatement ==
  /\ at' = at + 1
  /\ UNCHANGED <<here, wpc, request, i, answer, before, switched>>

\* One statement is all that an object takes.
Single(after) ==
  /\ Works(after) \/ Throws(after)
  /\ NextObject
  /\ UNCHANGED <<locals, strayed>>

\* UPDATE ... WHERE id: only a row that is there.
Update(rows, id, to) ==
  IF rows[id] = Absent THEN rows ELSE [rows EXCEPT ![id] = to]

SetTovar ==
  /\ Doing("set_Tovar")
  /\ Single([db EXCEPT !.tovar = Update(@, Obj.id, Obj.to)])

\* Mutant: the tank's own id is written for id_tovar.
SetTankSwapped ==
  /\ Doing("set_Tank")
  /\ Single([db EXCEPT !.tank = Update(@, Obj.id, Obj.id)])

SetTank ==
  /\ Doing("set_Tank")
  /\ Single([db EXCEPT !.tank = Update(@, Obj.id, Obj.to)])

DeleteTovar ==
  /\ Doing("delete_Tovar")
  /\ Single([db EXCEPT !.tovar[Obj.id] = Absent])

DeleteTank ==
  /\ Doing("delete_Tank")
  /\ Single([db EXCEPT !.tank[Obj.id] = Absent])

\* save_Trks: the screen size, then each pump's position, in tries of their own.
SaveScreen == Doing("screen") /\ Single([db EXCEPT !.screen = Obj.to])

SavePlace ==
  /\ Doing("place")
  /\ Single([db EXCEPT !.com_trk = Update(@, Obj.id, Obj.to)])

-----------------------------------------------------------------------------
(* set_Trk: one try around all its statements, so an exception leaves the  *)
(* rest of the pump unsaved and goes on with the next object.              *)

SetTrkPlace ==
  /\ Doing("set_Trk") /\ at = 0
  /\ LET after == [db EXCEPT !.com_trk = Update(@, Obj.id, Obj.to)] IN
     \/ Works(after) /\ NextStatement
     \/ Throws(after) /\ NextObject
  /\ UNCHANGED <<locals, strayed>>

\* SELECT MAX(id_pist), whose NULL for no row is read as 0.
SelectMax ==
  /\ Doing("set_Trk") /\ at = 1
  /\ \/ /\ here /\ NextStatement
        /\ max_id_pist' \in {0} \cup {row.pist : row \in db.trk[Obj.id]}
        /\ IsMax(max_id_pist', db.trk[Obj.id])
        /\ n' = 0 /\ max_here' = TRUE
        /\ UNCHANGED <<db, disturbed, isconn>>
     \/ /\ ~here /\ NextStatement
        /\ max_id_pist' \in 0 .. MaxNumber
        /\ n' = 0 /\ max_here' = FALSE /\ disturbed' = TRUE
        /\ UNCHANGED <<db, isconn>>
     \/ Throws(db) /\ NextObject /\ UNCHANGED locals
  /\ UNCHANGED strayed

\* The pistol that the loop has come to.
Current == Obj.pists[at - 1]
AtPistol == Doing("set_Trk") /\ at > 1 /\ at - 1 \in DOMAIN Obj.pists

Inserted(rows, pist, tank) ==
  rows \cup {[pist |-> pist, copy |-> Cardinality({row \in rows : row.pist = pist}),
              tank |-> tank]}

\* Mutant: n is not counted up.
InsertPistSame ==
  /\ AtPistol /\ Current.pist = 0
  /\ LET after == [db EXCEPT !.trk[Obj.id] = Inserted(@, max_id_pist + 1, Current.tank)] IN
     \/ Works(after) /\ NextStatement
     \/ Throws(after) /\ NextObject
  /\ strayed' = (strayed \/ (here /\ ~max_here))
  /\ UNCHANGED locals

\* A pistol without a number is inserted with the next one.
InsertPist ==
  /\ AtPistol /\ Current.pist = 0
  /\ n' = n + 1
  /\ LET after == [db EXCEPT !.trk[Obj.id] = Inserted(@, max_id_pist + n', Current.tank)] IN
     \/ Works(after) /\ NextStatement
     \/ Throws(after) /\ NextObject
  /\ strayed' = (strayed \/ (here /\ ~max_here))
  /\ UNCHANGED <<max_id_pist, max_here>>

\* The rows of a pump when pistol number pist gets a tank.
Retanked(rows, pist, tank) ==
  {IF row.pist = pist THEN [row EXCEPT !.tank = tank] ELSE row : row \in rows}

\* Mutant: UPDATE without the condition on id_pist.
UpdateAllPists ==
  /\ AtPistol /\ Current.pist # 0
  /\ LET after == [db EXCEPT !.trk[Obj.id] =
                     {[row EXCEPT !.tank = Current.tank] : row \in @}] IN
     \/ Works(after) /\ NextStatement
     \/ Throws(after) /\ NextObject
  /\ UNCHANGED <<locals, strayed>>

\* The others are updated where their number is.  A number that the pump did
\* not have when MAX was read may by now be that of a pistol just added.
UpdatePist ==
  /\ AtPistol /\ Current.pist # 0
  /\ LET after == [db EXCEPT !.trk[Obj.id] = Retanked(@, Current.pist, Current.tank)]
         mistaken == Current.pist > max_id_pist /\ Current.pist <= max_id_pist + n IN
     \/ /\ db' = IF here THEN after ELSE db
        /\ disturbed' = (disturbed \/ ~here \/ mistaken)
        /\ UNCHANGED isconn
        /\ NextStatement
     \/ Throws(after) /\ NextObject
  /\ UNCHANGED <<locals, strayed>>

SetTrkEnd ==
  /\ Doing("set_Trk") /\ at > 1 /\ at - 1 \notin DOMAIN Obj.pists
  /\ UNCHANGED <<db, isconn, disturbed, locals, strayed>>
  /\ NextObject

-----------------------------------------------------------------------------
(* delete_Trk, which the handler always calls with smart_delete: the pistols *)
(* that the request lists, or, when it lists none, the pump and not its     *)
(* pistols.  executeSql catches, so the loop goes on after a failure.        *)

DeletePump ==
  /\ Doing("delete_Trk") /\ Obj.pists = <<>>
  /\ Single([db EXCEPT !.com_trk[Obj.id] = Absent])

DeletePist ==
  /\ Doing("delete_Trk") /\ at + 1 \in DOMAIN Obj.pists
  /\ LET gone  == Obj.pists[at + 1].pist
         after == [db EXCEPT !.trk[Obj.id] = {row \in @ : row.pist # gone}] IN
     Works(after) \/ Throws(after)
  /\ NextStatement
  /\ UNCHANGED <<locals, strayed>>

DeletePistsEnd ==
  /\ Doing("delete_Trk") /\ Obj.pists # <<>> /\ at = Len(Obj.pists)
  /\ UNCHANGED <<db, isconn, disturbed, locals, strayed>>
  /\ NextObject

-----------------------------------------------------------------------------

IsSave == request # <<>> /\ request[1].do = "screen"

\* Mutant: like api_settings_set, whose answer does not depend on isconn.
ReplyAlways ==
  /\ wpc = "busy" /\ i > Len(request) /\ Done
  /\ answer' = IF IsSave THEN "yes" ELSE "success"
  /\ UNCHANGED <<db, here, isconn, before, disturbed, strayed, switched>>

\* api_trk_save asks isConnect; the others answer "success" in any case.
Reply ==
  /\ wpc = "busy" /\ i > Len(request) /\ Done
  /\ answer' = IF ~IsSave THEN "success" ELSE IF isconn THEN "yes" ELSE "not"
  /\ UNCHANGED <<db, here, isconn, before, disturbed, strayed, switched>>

SetTrk == SetTrkPlace \/ SelectMax \/ InsertPist \/ UpdatePist \/ SetTrkEnd
DeleteTrk == DeletePump \/ DeletePist \/ DeletePistsEnd

Next ==
  \/ Switch \/ Restart \/ Reply
  \/ \E r \in Requests : Receive(r)
  \/ SetTovar \/ SetTank \/ SetTrk
  \/ DeleteTovar \/ DeleteTank \/ DeleteTrk
  \/ SaveScreen \/ SavePlace

Spec == Init /\ [][Next]_vars

-----------------------------------------------------------------------------
(* Properties.                                                             *)

\* Every variable has its type.
TypeOK ==
  /\ db \in Content /\ before \in Content
  /\ wpc \in {"idle", "busy"} /\ answer \in {"none", "success", "yes", "not"}
  /\ request \in Requests \cup {<<>>}
  /\ i \in 1 .. Len(request) + 1 /\ at \in Nat
  /\ max_id_pist \in Nat /\ n \in Nat
  /\ {here, isconn, disturbed, max_here, strayed, switched} \subseteq BOOLEAN

\* No two pistols of a pump have one number, whatever fails in the middle of a
\* request and however often it is repeated, unless MAX was read in one
\* database and the pistol inserted in another.
PistolsUnique ==
  ~strayed =>
    \A p \in Pumps : \A r1, r2 \in db.trk[p] : r1.pist = r2.pist => r1 = r2

\* api_trk_save answers "yes" only when no statement failed: isconn, asked at
\* the very end, stands for all of them as long as no reconnection raises it.
YesMeansSaved == answer = "yes" /\ ~switched => ~disturbed

\* What makes PistolsUnique inductive: past SELECT MAX no pistol of the pump has
\* a number that is still to be given.
NumbersInv ==
  ~strayed /\ max_here /\ Doing("set_Trk") /\ at > 1 =>
    \A row \in db.trk[Obj.id] : row.pist <= max_id_pist + n

\* What makes YesMeansSaved inductive: isconn remembers every failure of a save.
SaveInv ==
  wpc = "busy" =>
    /\ answer = "none"
    /\ ~switched => here /\ (IsSave /\ isconn => ~disturbed)

\* The tables never hold infinitely many pistols.
FiniteInv == \A p \in Pumps : IsFiniteSet(db.trk[p])

\* The inductive invariant of the settings requests.
IInv == TypeOK /\ FiniteInv /\ NumbersInv /\ PistolsUnique /\ SaveInv /\ YesMeansSaved

\* The statements implement the step-by-step promise of StationTables: an
\* undisturbed object is stored as sent, and a disturbed one leaves every row
\* that it does not name alone.
Tables == INSTANCE StationTables WITH
  tables <- before, clean <- ~disturbed

ImplementsTables == Tables!Spec

-----------------------------------------------------------------------------
(* The invariant behind the refinement.                                    *)

\* A pump's rows have keys of their own, and the copies of a number are counted
\* from 0.
Key(row) == <<row.pist, row.copy>>
Keyed(rows) ==
  /\ \A r1, r2 \in rows : Key(r1) = Key(r2) => r1 = r2
  /\ \A row \in rows :
       row.pist > 0 /\ row.copy < Cardinality({r \in rows : r.pist = row.pist})

KeysInv ==
  \A p \in Pumps : Keyed(db.trk[p]) /\ Keyed(before.trk[p]) /\ IsFiniteSet(before.trk[p])

\* Between two objects the tables are those before the next one, and only a pump
\* takes several statements.
PlaceInv ==
  /\ at = 0 => before = db
  /\ at > 0 => Doing("set_Trk") \/ (Doing("delete_Trk") /\ Obj.pists # <<>>)

\* The new pistols of o among those before c, and a row when these are stored.
NewUpTo(o, c) == {j \in Tables!New(o) : j < c}
RetankedUpTo(o, c, row) ==
  LET named == {j \in Tables!Named(o, row.pist) : j < c}
      last  == CHOOSE j \in named : \A k \in named : k <= j
  IN IF named = {} THEN row ELSE [row EXCEPT !.tank = o.pists[last].tank]

\* What the pistols before c can have made of the rows old, and what they make
\* of them without a failure, with the numbers after m for the new ones.
Added(old, new) == {u \in new : \A row \in old : Key(u) # Key(row)}

PartlyUpTo(o, c, old, new) ==
  /\ \A row \in old : \E u \in new :
       Key(u) = Key(row) /\ u.tank \in {row.tank} \cup Tables!Sent(o, row.pist)
  /\ Cardinality(Added(old, new)) <= Cardinality(NewUpTo(o, c))
  /\ \A u \in Added(old, new) : \E j \in DOMAIN o.pists : u.tank = o.pists[j].tank

SavedUpTo(o, c, m, old) ==
  {RetankedUpTo(o, c, row) : row \in old}
    \cup {[pist |-> m + Tables!Rank(o, j), copy |-> 0, tank |-> o.pists[j].tank] : j \in NewUpTo(o, c)}

\* The pump in hand, up to its pistol at - 1; and nothing else has changed.
PumpInv ==
  Doing("set_Trk") /\ at > 0 =>
    LET old    == before.trk[Obj.id]
        new    == db.trk[Obj.id]
        placed == Update(before.com_trk, Obj.id, Obj.to)
    IN /\ at <= Len(Obj.pists) + 2
       /\ db.com_trk \in {before.com_trk, placed}
       /\ db = [before EXCEPT !.com_trk = db.com_trk, !.trk[Obj.id] = new]
       /\ PartlyUpTo(Obj, at - 1, old, new)
       /\ ~disturbed =>
            /\ db.com_trk = placed
            /\ at = 1 => new = old
            /\ at > 1 => /\ IsMax(max_id_pist, old)
                         /\ n = Cardinality(NewUpTo(Obj, at - 1))
                         /\ new = SavedUpTo(Obj, at - 1, max_id_pist, old)

\* The same for the pistols of a delete_Trk.
DeleteInv ==
  Doing("delete_Trk") /\ Obj.pists # <<>> =>
    /\ at <= Len(Obj.pists)
    /\ \E gone \in SUBSET (1 .. at) :
         /\ ~disturbed => gone = 1 .. at
         /\ db = [before EXCEPT !.trk[Obj.id] = {row \in @ : Tables!Named(Obj, row.pist) \cap gone = {}}]

StoreInv == KeysInv /\ PlaceInv /\ PumpInv /\ DeleteInv

=============================================================================
