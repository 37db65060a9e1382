----------------------------- MODULE PumpPages -----------------------------
(***************************************************************************)
(* The pages built from the station's tables: get_Trks_with_all reads the  *)
(* screen size, the fuels, the tanks and the pumps in four queries and     *)
(* links them by pointers, and main_trk, old_main_settings_config and      *)
(* api_settings_get go through what it returns; and the lists that         *)
(* api_settings_tovars_get, _tanks_get and _trks_get read in one query.    *)
(*                                                                         *)
(* Each query has a try of its own, so a failure leaves the list as far as *)
(* it was read and the next query runs all the same.  The connect thread   *)
(* may point con to another station's database between two queries, or     *)
(* while the rows of one are being read; these come from the database that *)
(* the query was sent to.  Only the pumps are read row by row here, since  *)
(* their loop carries something from one row to the next.                  *)
(***************************************************************************)
EXTENDS Integers, Sequences, FiniteSets, SequencesExt

CONSTANTS
  Databases,
  Contents,   \* tables: [tovar, tank, com_trk, trk]
  NULL

VARIABLES
  tables,        \* the tables of each database; nobody writes them here
  con, isconn,
  wpc,           \* "idle", the next query, "render", "dead"
  page,          \* one of Linked or of Lists
  tovars, tanks, trks,   \* the vectors of get_Trks_with_all
  read,          \* history: for each list the database it came from, all of
                 \* it, or NULL
  shown,         \* history: the last page was finished
  res, taken,    \* the rows of the query for the pumps, and how many are taken
  last_idtkr, tank_,   \* locals of that loop: the last pump, and pist.tank_
  from           \* history: the database that the query was sent to

lists == <<tovars, tanks, trks, read>>
loop  == <<res, taken, last_idtkr, tank_, from>>
vars  == <<tables, con, isconn, wpc, page, lists, shown, loop>>

Queries == {"tovar", "tank", "trk"}
Linked  == {"main", "config", "api"}
Lists   == {"tovars", "tanks", "trks"}

NoPrice == -1

-----------------------------------------------------------------------------
(* The tables and the queries.                                             *)

\* tank and trk rows refer to fuels and tanks; com_trk holds
\* the ids of pumps.  The first two are sequences in the order of NN.
ContentsAssumption ==
  \A c \in Contents :
    /\ c.tovar \in Seq([id_tovar : Nat, price : Nat])
    /\ c.tank \in Seq([id_tank : Nat, id_tovar : Nat])
    /\ c.com_trk \subseteq Nat
    /\ IsFiniteSet(c.trk) /\ c.trk \subseteq [id_trk : Nat, id_pist : Nat, id_tank : Nat]
ASSUME ContentsAssumption

Fuels   == [id_tovar : Nat, price : Int]
Stored  == [id_tank : Nat, id_tovar : Nat, tovar_ : Fuels \cup {NULL}]
Pistols == [id_pist : Nat, id_tank : Nat, tank_ : Stored \cup {NULL}]
Pumps   == [id_trk : Nat, pists : Seq(Pistols)]

\* NULL is none of the things that a pointer may lead to.
NullAssumption == NULL \notin Databases \cup Fuels \cup Stored
ASSUME NullAssumption

\* com_trk INNER JOIN trk ... ORDER BY id_trk: the order of a pump's pistols is
\* left to the server.
Join(c) == {row \in c.trk : row.id_trk \in c.com_trk}

JoinedRows(c) ==
  {rows \in SetToSeqs(Join(c)) :
     \A j, k \in DOMAIN rows : j <= k => rows[j].id_trk <= rows[k].id_trk}

\* The first of the elements at js, for a loop that ends with break.
First(seq, js) == IF js = {} THEN NULL ELSE seq[Min(js)]

\* get_Tovars reads every column but the price, get_Trks_with_all all of them.
Tovar(row) == IF page \in Lists THEN [row EXCEPT !.price = NoPrice] ELSE row

\* Mutant: the tank's own id is looked up among the fuels.
TankSwapped(row) ==
  [id_tank |-> row.id_tank, id_tovar |-> row.id_tovar,
   tovar_ |-> First(tovars, {j \in DOMAIN tovars : tovars[j].id_tovar = row.id_tank})]

\* new Tank with tovar_ set to the fuel of that id.
Tank(row) ==
  [id_tank |-> row.id_tank, id_tovar |-> row.id_tovar,
   tovar_ |-> First(tovars, {j \in DOMAIN tovars : tovars[j].id_tovar = row.id_tovar})]

\* Mutant: a tank that was found once is not looked for again.
LinkOnce(row) ==
  IF tank_ # NULL THEN tank_
  ELSE First(tanks, {j \in DOMAIN tanks : tanks[j].id_tank = row.id_tank})

\* pist is declared outside the loop: without such a tank tank_ stays what it
\* was for the row before.
Link(row) ==
  LET found == First(tanks, {j \in DOMAIN tanks : tanks[j].id_tank = row.id_tank}) IN
  IF found = NULL THEN tank_ ELSE found

\* Mutant: last_idtkr is not kept.
JoinedAlone(row) ==
  LET pist == [id_pist |-> row.id_pist, id_tank |-> row.id_tank, tank_ |-> Link(row)] IN
  Append(trks, [id_trk |-> row.id_trk, pists |-> <<pist>>])

\* The row's pistol joins the last pump, or is the first of the next one.
Joined(row) ==
  LET pist == [id_pist |-> row.id_pist, id_tank |-> row.id_tank, tank_ |-> Link(row)] IN
  IF row.id_trk = last_idtkr
  THEN [trks EXCEPT ![Len(trks)].pists = Append(@, pist)]
  ELSE Append(trks, [id_trk |-> row.id_trk, pists |-> <<pist>>])

LoopInit == res = <<>> /\ taken = 0 /\ last_idtkr = -1 /\ tank_ = NULL /\ from = NULL

LoopLeft ==
  res' = <<>> /\ taken' = 0 /\ last_idtkr' = -1 /\ tank_' = NULL /\ from' = NULL

Init ==
  /\ tables \in [Databases -> Contents]
  /\ con \in Databases /\ isconn = TRUE
  /\ wpc = "idle" /\ page = "main"
  /\ tovars = <<>> /\ tanks = <<>> /\ trks = <<>>
  /\ read = [q \in Queries |-> NULL] /\ shown = FALSE
  /\ LoopInit

-----------------------------------------------------------------------------

\* The connect thread, on the way to the same database or to another.
Switch(d) ==
  /\ con' = d /\ isconn' \in BOOLEAN
  /\ UNCHANGED <<tables, wpc, page, lists, shown, loop>>

\* get_Tovars, get_Tanks and get_Trks are one query of get_Trks_with_all each.
FirstQuery(p) ==
  CASE p = "tovars" -> "tovar" [] p = "tanks" -> "tank" [] p = "trks" -> "trk"
    [] OTHER -> "screen"

\* Behind the middleware.
Load(p) ==
  /\ wpc = "idle" /\ isconn = TRUE
  /\ wpc' = FirstQuery(p)
  /\ page' = p /\ shown' = FALSE
  /\ tovars' = <<>> /\ tanks' = <<>> /\ trks' = <<>>
  /\ read' = [q \in Queries |-> NULL]
  /\ UNCHANGED <<tables, con, isconn, loop>>

\* The screen size, which only scales positions.
ReadScreen ==
  /\ wpc = "screen" /\ wpc' = "tovar"
  /\ isconn' \in {isconn, FALSE}
  /\ UNCHANGED <<tables, con, page, lists, shown, loop>>

\* A query returns all its rows, or throws after some of them.  A list is done
\* with one.
Returns(q, next, rows, some) ==
  /\ wpc = q /\ wpc' = IF page \in Lists THEN "render" ELSE next
  /\ \/ /\ some = rows
        /\ read' = [read EXCEPT ![q] = con]
        /\ UNCHANGED isconn
     \/ /\ IsPrefix(some, rows)
        /\ isconn' = FALSE
        /\ UNCHANGED read
  /\ UNCHANGED <<tables, con, page, shown, loop>>

PrefixesOf(rows) == {SubSeq(rows, 1, k) : k \in 0 .. Len(rows)}

ReadTovars ==
  /\ LET rows == tables[con].tovar IN
     \E some \in PrefixesOf(rows) :
       Returns("tovar", "tank", rows, some) /\ tovars' = [k \in DOMAIN some |-> Tovar(some[k])]
  /\ UNCHANGED <<tanks, trks>>

ReadTanks ==
  /\ LET rows == tables[con].tank IN
     \E some \in PrefixesOf(rows) :
       /\ Returns("tank", "trk", rows, some)
       /\ tanks' = [k \in DOMAIN some |-> Tank(some[k])]
  /\ UNCHANGED <<tovars, trks>>

\* The query for the pumps, with rows or an exception.  get_Trks has the same
\* loop and no tanks: tank_ stays NULL.
SelectTrks ==
  /\ wpc = "trk" /\ wpc' = "row"
  /\ res' \in JoinedRows(tables[con]) /\ taken' = 0
  /\ last_idtkr' = -1 /\ tank_' = NULL /\ from' = con
  /\ UNCHANGED <<tables, con, isconn, page, lists, shown>>

\* One turn of the loop over the joined rows.
NextRow ==
  /\ wpc = "row" /\ taken < Len(res)
  /\ LET row == res[taken + 1] IN
     trks' = Joined(row) /\ tank_' = Link(row) /\ last_idtkr' = row.id_trk
  /\ taken' = taken + 1
  /\ UNCHANGED <<tables, con, isconn, wpc, page, tovars, tanks, read, shown, res, from>>

LastRow ==
  /\ wpc = "row" /\ taken = Len(res) /\ wpc' = "render"
  /\ read' = [read EXCEPT !["trk"] = from]
  /\ LoopLeft
  /\ UNCHANGED <<tables, con, isconn, page, tovars, tanks, trks, shown>>

\* An exception at the query or at any row.
TrksFail ==
  /\ wpc \in {"trk", "row"} /\ wpc' = "render"
  /\ isconn' = FALSE
  /\ LoopLeft
  /\ UNCHANGED <<tables, con, page, lists, shown>>

ReadTrks == SelectTrks \/ NextRow \/ LastRow \/ TrksFail

\* tank_->tovar_->name: neither pointer may be NULL.
Sound(tank) == tank # NULL /\ tank.tovar_ # NULL
SoundPists == \A j \in DOMAIN trks : \A k \in DOMAIN trks[j].pists : Sound(trks[j].pists[k].tank_)

\* What the page needs so as not to read through NULL or past the end of trks:
\* old_main_settings_config starts with trks[0].show(), and lists the tanks.
Renderable ==
  /\ page \in {"main", "config"} => SoundPists
  /\ page = "config" => trks # <<>> /\ \A k \in DOMAIN tanks : tanks[k].tovar_ # NULL

Render ==
  /\ wpc = "render"
  /\ \/ Renderable /\ wpc' = "idle" /\ shown' = TRUE
     \/ ~Renderable /\ wpc' = "dead" /\ UNCHANGED shown
  /\ UNCHANGED <<tables, con, isconn, page, lists, loop>>

Restart ==
  /\ wpc = "dead" /\ wpc' = "idle"
  /\ con' \in Databases /\ isconn' = TRUE
  /\ UNCHANGED <<tables, page, lists, shown, loop>>

Next ==
  \/ \E d \in Databases : Switch(d)
  \/ \E p \in Linked \cup Lists : Load(p)
  \/ ReadScreen \/ ReadTovars \/ ReadTanks \/ ReadTrks \/ Render \/ Restart

Spec == Init /\ [][Next]_vars

-----------------------------------------------------------------------------
(* Properties.                                                             *)

\* Every row that refers to a fuel or a tank finds it.
Complete(c) ==
  /\ \A k \in DOMAIN c.tank : \E j \in DOMAIN c.tovar : c.tovar[j].id_tovar = c.tank[k].id_tovar
  /\ \A row \in c.trk : \E k \in DOMAIN c.tank : c.tank[k].id_tank = row.id_tank

\* The lists of pumps and tanks are whole and of database d.
FromOne(d) == read["tank"] = d /\ read["trk"] = d

\* The pistols of pump id among rows; those of trk, as rows.
Of(rows, id) == {row \in rows : row.id_trk = id}

RowsOf(trk) ==
  {[id_trk |-> trk.id_trk, id_pist |-> trk.pists[k].id_pist, id_tank |-> trk.pists[k].id_tank] :
     k \in DOMAIN trk.pists}

\* The pumps that the loop builds are those of the table: each pump once, in
\* order, with exactly its pistols, whatever the order of the rows; and so the
\* list of get_Trks is that of get_Trks_with_all.  Pumps without a pistol are in
\* neither.
PumpsGrouped ==
  \A d \in Databases : read["trk"] = d =>
    LET c == tables[d]
    IN /\ \A j, k \in DOMAIN trks : j < k => trks[j].id_trk < trks[k].id_trk
       /\ {trks[j].id_trk : j \in DOMAIN trks} = {id \in c.com_trk : Of(c.trk, id) # {}}
       /\ \A j \in DOMAIN trks :
            /\ Len(trks[j].pists) = Cardinality(Of(c.trk, trks[j].id_trk))
            /\ RowsOf(trks[j]) = Of(c.trk, trks[j].id_trk)

\* A pistol is shown with its own tank, fuel and price, although tank_ is carried
\* from row to row: in one complete database, and with all its tanks read, no
\* pistol inherits the tank of another.
OwnTank ==
  \A d \in Databases : FromOne(d) /\ Complete(tables[d]) =>
    \A j \in DOMAIN trks : \A k \in DOMAIN trks[j].pists :
      LET pist == trks[j].pists[k] IN
      /\ pist.tank_ # NULL /\ pist.tank_.id_tank = pist.id_tank
      /\ read["tovar"] = d =>
           /\ pist.tank_.tovar_ \in ToSet(tables[d].tovar)
           /\ pist.tank_.tovar_.id_tovar = pist.tank_.id_tovar
           /\ [id_tank |-> pist.id_tank, id_tovar |-> pist.tank_.id_tovar]
                \in ToSet(tables[d].tank)

\* A page reads through a NULL pointer, or past the end of trks, only if a
\* query failed, the database was switched between two of them, the tables
\* refer to what is not there, or the configuration page finds no pump.
CrashesExplained ==
  wpc = "dead" =>
    \/ \A d \in Databases : ~(FromOne(d) /\ read["tovar"] = d)
    \/ ~Complete(tables[read["trk"]])
    \/ page = "config" /\ trks = <<>>

-----------------------------------------------------------------------------
(* The inductive invariant behind these properties.                        *)

\* The state's types.
TypeInv ==
  /\ tables \in [Databases -> Contents] /\ con \in Databases /\ isconn \in BOOLEAN
  /\ wpc \in {"idle", "screen", "tovar", "tank", "trk", "row", "render", "dead"}
  /\ page \in Linked \cup Lists
  /\ tovars \in Seq(Fuels) /\ tanks \in Seq(Stored) /\ trks \in Seq(Pumps)
  /\ read \in [Queries -> Databases \cup {NULL}]
  /\ last_idtkr \in Int /\ tank_ \in Stored \cup {NULL}

\* What is still to be read, and that a list of one query has no other.
UnreadInv ==
  /\ wpc \in {"screen", "tovar"} => tanks = <<>> /\ read["tovar"] = NULL
  /\ wpc \in {"screen", "tovar", "tank"} => read["tank"] = NULL
  /\ wpc \in {"screen", "tovar", "tank", "trk"} => trks = <<>>
  /\ wpc \in {"screen", "tovar", "tank", "trk", "row"} => read["trk"] = NULL
  /\ page \in Lists =>
       /\ \A q \in Queries \ {FirstQuery(page)} : read[q] = NULL
       /\ wpc \in {"idle", "render", "dead", FirstQuery(page)} \/ (page = "trks" /\ wpc = "row")

\* The fuels and tanks are rows of their databases; each tank has its fuel, and
\* each pistol its tank, if that was read.
LinksInv ==
  /\ \A d \in Databases : page \in Linked /\ read["tovar"] = d => tovars = tables[d].tovar
  /\ \A d \in Databases : read["tank"] = d =>
       /\ Len(tanks) = Len(tables[d].tank)
       /\ \A k \in DOMAIN tanks : /\ tanks[k].id_tank = tables[d].tank[k].id_tank
                                  /\ tanks[k].id_tovar = tables[d].tank[k].id_tovar
  /\ \A k \in DOMAIN tanks : \A j \in DOMAIN tovars : tovars[j].id_tovar = tanks[k].id_tovar =>
       tanks[k].tovar_ \in ToSet(tovars) /\ tanks[k].tovar_.id_tovar = tanks[k].id_tovar
  /\ \A j \in DOMAIN trks : \A k \in DOMAIN trks[j].pists : \A t \in DOMAIN tanks :
       tanks[t].id_tank = trks[j].pists[k].id_tank =>
         /\ trks[j].pists[k].tank_ \in ToSet(tanks)
         /\ trks[j].pists[k].tank_.id_tank = trks[j].pists[k].id_tank

\* The list has the pumps of rows, in order, each with its pistols.
Grouped(list, rows) ==
  /\ \A j, k \in DOMAIN list : j < k => list[j].id_trk < list[k].id_trk
  /\ {list[j].id_trk : j \in DOMAIN list} = {row.id_trk : row \in rows}
  /\ \A j \in DOMAIN list : /\ Len(list[j].pists) = Cardinality(Of(rows, list[j].id_trk))
                            /\ RowsOf(list[j]) = Of(rows, list[j].id_trk)

\* In the loop trks has what was taken, and ends with the pump of the last row;
\* after it, everything.
LoopInv ==
  /\ wpc = "row" =>
       /\ from \in Databases /\ res \in JoinedRows(tables[from]) /\ taken \in 0 .. Len(res)
       /\ Grouped(trks, {res[m] : m \in 1 .. taken})
       /\ taken = 0 => trks = <<>> /\ last_idtkr = -1
       /\ taken > 0 => /\ trks # <<>> /\ last_idtkr = res[taken].id_trk
                       /\ trks[Len(trks)].id_trk = last_idtkr
  /\ \A d \in Databases : read["trk"] = d => Grouped(trks, Join(tables[d]))

IInv ==
  /\ TypeInv /\ UnreadInv /\ LinksInv /\ LoopInv
  /\ wpc = "dead" => ~Renderable

=============================================================================
