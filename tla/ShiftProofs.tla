---------------------------- MODULE ShiftProofs ----------------------------
(***************************************************************************)
(* The properties of Shift for any databases, operators and length of the  *)
(* tables.  What makes them inductive is Found: as long as fresh holds, the *)
(* handler's last_id, last_nn and status are those of the latest row that  *)
(* the next statement of the handler will meet.  At the end the properties *)
(* of LoginPage, whose connect thread is that of Shift.                    *)
(***************************************************************************)
EXTENDS LoginPage, FiniteSetTheorems, TLAPS

\* What the handlers start with.
Unset ==
  /\ wpc \in {"auth", "lookup"} => last_id = 0 /\ last_nn = 0 /\ status = FALSE
  /\ wpc = "close_lookup" => last_id = -1 /\ last_nn = -1 /\ status = FALSE
  /\ wpc \notin {"idle", "reply"} => wrote = FALSE

\* The lookup found no row of the station and left the handler's values alone.
FoundNone ==
  /\ Of(smena[con], azs_id) = {}
  /\ last_id \in {0, -1} /\ status = FALSE
  /\ wpc = "write" => last_nn = 0

FoundLatest ==
  /\ IsLatest(smena[con], azs_id, last_id)
  /\ last_nn = smena[con][last_id].nn /\ status = smena[con][last_id].open

Found == wpc \in {"write", "close"} /\ fresh => FoundNone \/ FoundLatest

IInv == TypeOK /\ OneOpenShift /\ NumbersConsecutive /\ LoginTakesShift /\ Unset /\ Found

-----------------------------------------------------------------------------
(* Tables.                                                                 *)

\* One table of OneOpenShift and of NumbersConsecutive.
OneOpen(rows) ==
  \A a \in Databases : \A i \in Of(rows, a) : rows[i].open => IsLatest(rows, a, i)
Numbered(rows) ==
  \A i \in DOMAIN rows :
    rows[i].nn = Cardinality({j \in Of(rows, rows[i].azs) : j <= i})

\* rows differs from table in its operators and in shifts that were closed.
Updates(rows, table) ==
  /\ DOMAIN rows = DOMAIN table
  /\ \A i \in DOMAIN table :
       /\ rows[i].azs = table[i].azs /\ rows[i].nn = table[i].nn
       /\ rows[i].open => table[i].open

\* An UPDATE gives a table of the same length.
LEMMA UpdatedRows ==
  ASSUME NEW rows \in Seq(Row), NEW new,
         new = [i \in DOMAIN rows |-> new[i]], \A i \in DOMAIN rows : new[i] \in Row
  PROVE  new \in Seq(Row)
<1>1. DOMAIN rows = 1 .. Len(rows) /\ Len(rows) \in Nat
  OBVIOUS
<1>2. new \in [1 .. Len(rows) -> Row]
  BY <1>1
<1> QED
  BY <1>1, <1>2

\* A station's rows, their order and their numbers survive an UPDATE.
LEMMA UpdatesKeep ==
  ASSUME NEW rows \in Seq(Row), NEW table \in Seq(Row), Updates(rows, table)
  PROVE  /\ \A a : Of(rows, a) = Of(table, a)
         /\ \A a, i : IsLatest(table, a, i) => IsLatest(rows, a, i)
         /\ OneOpen(table) => OneOpen(rows)
         /\ Numbered(table) => Numbered(rows)
<1>1. \A a : Of(rows, a) = Of(table, a)
  BY DEF Updates, Of
<1>2. \A a, i : IsLatest(table, a, i) => IsLatest(rows, a, i)
  BY <1>1 DEF IsLatest
<1>3. OneOpen(table) => OneOpen(rows)
  <2> SUFFICES ASSUME OneOpen(table), NEW a \in Databases, NEW i \in Of(rows, a), rows[i].open
               PROVE  IsLatest(rows, a, i)
    BY DEF OneOpen
  <2>1. i \in Of(table, a) /\ table[i].open
    BY <1>1 DEF Updates, Of
  <2> QED
    BY <1>2, <2>1 DEF OneOpen
<1>4. Numbered(table) => Numbered(rows)
  <2> SUFFICES ASSUME Numbered(table), NEW i \in DOMAIN rows
               PROVE  rows[i].nn = Cardinality({j \in Of(rows, rows[i].azs) : j <= i})
    BY DEF Numbered
  <2>1. i \in DOMAIN table /\ rows[i].azs = table[i].azs /\ rows[i].nn = table[i].nn
    BY DEF Updates
  <2>2. {j \in Of(rows, rows[i].azs) : j <= i} = {j \in Of(table, table[i].azs) : j <= i}
    BY <1>1, <2>1
  <2> QED
    BY <2>1, <2>2 DEF Numbered
<1> QED
  BY <1>1, <1>2, <1>3, <1>4

\* A station has finitely many rows.
LEMMA FiniteRows ==
  ASSUME NEW rows \in Seq(Row), NEW a
  PROVE  IsFiniteSet(Of(rows, a)) /\ Cardinality(Of(rows, a)) \in Nat
<1>1. DOMAIN rows = 1 .. Len(rows) /\ Len(rows) \in Nat
  OBVIOUS
<1>2. IsFiniteSet(1 .. Len(rows))
  BY <1>1, FS_Interval
<1>3. Of(rows, a) \subseteq 1 .. Len(rows)
  BY <1>1 DEF Of
<1> QED
  BY <1>2, <1>3, FS_Subset, FS_CardinalityType

\* The latest row of a station has the number of its rows.
LEMMA LatestNumber ==
  ASSUME NEW rows \in Seq(Row), Numbered(rows), NEW a, NEW k, IsLatest(rows, a, k)
  PROVE  rows[k].nn = Cardinality(Of(rows, a))
<1>1. k \in DOMAIN rows /\ rows[k].azs = a
  BY DEF IsLatest, Of
<1>2. {j \in Of(rows, rows[k].azs) : j <= k} = Of(rows, a)
  BY <1>1 DEF IsLatest
<1> QED
  BY <1>1, <1>2 DEF Numbered

\* An INSERT with the next number, while the station has no open shift.
LEMMA AppendKeeps ==
  ASSUME NEW rows \in Seq(Row), NEW row \in Row, OneOpen(rows), Numbered(rows),
         \A i \in Of(rows, row.azs) : ~rows[i].open,
         row.nn = Cardinality(Of(rows, row.azs)) + 1
  PROVE  /\ Append(rows, row) \in Seq(Row)
         /\ OneOpen(Append(rows, row)) /\ Numbered(Append(rows, row))
         /\ IsLatest(Append(rows, row), row.azs, Len(rows) + 1)
<1> DEFINE new == Append(rows, row)
           n == Len(rows) + 1
<1>1. /\ new \in Seq(Row) /\ DOMAIN rows = 1 .. Len(rows) /\ Len(rows) \in Nat
      /\ DOMAIN new = 1 .. n /\ new[n] = row
      /\ \A i \in DOMAIN rows : new[i] = rows[i]
  OBVIOUS
<1> HIDE DEF new
<1>2. \A a : Of(new, a) = IF a = row.azs THEN Of(rows, a) \cup {n} ELSE Of(rows, a)
  <2> TAKE a
  <2>1. \A i : i \in 1 .. n <=> i \in 1 .. Len(rows) \/ i = n
    BY <1>1
  <2> QED
    BY <1>1, <2>1 DEF Of
<1>3. \A a : Of(rows, a) \subseteq 1 .. Len(rows)
  BY <1>1 DEF Of
<1>4. IsLatest(new, row.azs, n)
  BY <1>1, <1>2, <1>3 DEF IsLatest
<1>5. OneOpen(new)
  <2> SUFFICES ASSUME NEW a \in Databases, NEW i \in Of(new, a), new[i].open
               PROVE  IsLatest(new, a, i)
    BY DEF OneOpen
  <2>1. CASE a = row.azs
    <3>1. i \in Of(rows, a) => ~new[i].open
      BY <1>1, <1>3, <2>1
    <3> QED
      BY <1>2, <1>4, <2>1, <3>1
  <2>2. CASE a # row.azs
    BY <1>1, <1>2, <1>3, <2>2 DEF OneOpen, IsLatest
  <2> QED
    BY <2>1, <2>2
<1>6. Numbered(new)
  <2> SUFFICES ASSUME NEW i \in DOMAIN new
               PROVE  new[i].nn = Cardinality({j \in Of(new, new[i].azs) : j <= i})
    BY DEF Numbered
  <2>1. CASE i = n
    <3>1. {j \in Of(new, new[i].azs) : j <= i} = Of(rows, row.azs) \cup {n}
      BY <1>1, <1>2, <1>3, <2>1
    <3>2. n \notin Of(rows, row.azs)
      BY <1>1, <1>3
    <3>3. Cardinality(Of(rows, row.azs) \cup {n}) = Cardinality(Of(rows, row.azs)) + 1
      BY <3>2, FiniteRows, FS_AddElement
    <3> QED
      BY <1>1, <2>1, <3>1, <3>3
  <2>2. CASE i \in DOMAIN rows
    <3>1. {j \in Of(new, new[i].azs) : j <= i} = {j \in Of(rows, rows[i].azs) : j <= i}
      BY <1>1, <1>2, <1>3, <2>2
    <3> QED
      BY <1>1, <2>2, <3>1 DEF Numbered
  <2> QED
    BY <1>1, <2>1, <2>2
<1> QED
  BY <1>1, <1>4, <1>5, <1>6 DEF new

-----------------------------------------------------------------------------
(* The invariant.                                                          *)

\* The two properties about tables, in the terms of the lemmas.
LEMMA ByTables ==
  /\ OneOpenShift <=> \A d \in intact : OneOpen(smena[d])
  /\ NumbersConsecutive <=> \A d \in intact : Numbered(smena[d])
BY DEF OneOpenShift, NumbersConsecutive, OneOpen, Numbered

LEMMA InitHolds == Init => IInv
<1> SUFFICES ASSUME Init PROVE IInv
  OBVIOUS
<1>1. TypeOK
  <2>1. <<>> \in Seq(Row)
    OBVIOUS
  <2>2. smena \in [Databases -> Seq(Row)]
    BY <2>1 DEF Init
  <2> QED
    BY <2>2 DEF Init, TypeOK
<1>2. \A d \in Databases : DOMAIN smena[d] = {} /\ \A a : Of(smena[d], a) = {}
  BY DEF Init, Of
<1>3. OneOpenShift /\ NumbersConsecutive
  BY <1>2 DEF OneOpenShift, NumbersConsecutive, Init
<1>4. LoginTakesShift /\ Unset /\ Found
  BY DEF Init, LoginTakesShift, Unset, Found
<1> QED
  BY <1>1, <1>3, <1>4 DEF IInv

\* Steps that write no table.
LEMMA ReadersHold ==
  ASSUME IInv, UNCHANGED <<smena, intact>>, TypeOK', Unset', Found',
         \/ wpc' # "reply" \/ ~fresh'
         \/ UNCHANGED <<wpc, con, azs_id, wrote, user>> /\ (fresh' => fresh)
  PROVE  IInv'
<1>1. OneOpenShift' /\ NumbersConsecutive'
  BY DEF IInv, OneOpenShift, NumbersConsecutive, Of, IsLatest
<1>2. LoginTakesShift'
  BY DEF IInv, LoginTakesShift, Of, IsLatest
<1> QED
  BY <1>1, <1>2 DEF IInv

\* The connect thread and the process.
LEMMA ConnectorHolds ==
  ASSUME IInv, (\E d \in Databases : Dial(d)) \/ Validate \/ ReadStation \/ Restart
  PROVE  IInv'
<1>1. TypeOK
  BY DEF IInv
<1>2. ASSUME NEW d \in Databases, Dial(d) PROVE IInv'
  <2>1. TypeOK' /\ Unset' /\ Found'
    BY <1>1, <1>2 DEF IInv, TypeOK, Unset, Found, FoundNone, FoundLatest, Dial, handler
  <2> QED
    BY <1>2, <2>1, ReadersHold DEF Dial, handler
<1>3. ASSUME Validate PROVE IInv'
  <2>1. TypeOK' /\ Unset' /\ Found'
    BY <1>1, <1>3 DEF IInv, TypeOK, Unset, Found, FoundNone, FoundLatest, Validate, handler
  <2> QED
    BY <1>3, <2>1, ReadersHold DEF Validate, handler
<1>4. ASSUME ReadStation PROVE IInv'
  <2>1. TypeOK' /\ Unset' /\ Found'
    BY <1>1, <1>4 DEF IInv, TypeOK, Unset, Found, FoundNone, FoundLatest, ReadStation, handler
  <2>2. fresh' => fresh /\ UNCHANGED azs_id
    BY <1>4 DEF ReadStation
  <2> QED
    BY <1>4, <2>1, <2>2, ReadersHold DEF ReadStation, handler
<1>5. ASSUME Restart PROVE IInv'
  <2>1. TypeOK' /\ Unset' /\ Found'
    BY <1>1, <1>5 DEF IInv, TypeOK, Unset, Found, Restart, handler
  <2> QED
    BY <1>5, <2>1, ReadersHold DEF Restart, handler
<1> QED
  BY <1>2, <1>3, <1>4, <1>5

\* What SmenaBool leaves to the handler.
LEMMA LookupFinds ==
  ASSUME IInv, wpc \in {"lookup", "close_lookup"}, SmenaBool,
         wpc' = IF wpc = "lookup" THEN "write" ELSE "close",
         UNCHANGED <<smena, con, azs_id, switching, user, wrote, intact>>
  PROVE  IInv'
<1>1. TypeOK /\ Unset
  BY DEF IInv
<1>2. smena[con] \in Seq(Row)
  BY <1>1 DEF TypeOK
<1>3. TypeOK'
  <2>1. ASSUME NEW i \in Of(smena[con], azs_id)
        PROVE  i \in Nat /\ smena[con][i] \in Row
    BY <1>2 DEF Of
  <2>2. last_id' \in Nat \cup {-1} /\ last_nn' \in Nat \cup {-1}
        /\ status' \in BOOLEAN /\ fresh' \in BOOLEAN /\ isconn' \in BOOLEAN
    BY <1>1, <2>1 DEF SmenaBool, TypeOK, Row
  <2> QED
    BY <1>1, <2>2 DEF TypeOK
<1>4. Unset'
  BY <1>1 DEF Unset
<1>5. Found'
  <2> SUFFICES ASSUME fresh' PROVE FoundNone' \/ FoundLatest'
    BY DEF Found
  <2>1. CASE Of(smena[con], azs_id) = {}
    BY <1>1, <2>1 DEF SmenaBool, Unset, FoundNone
  <2>2. CASE Of(smena[con], azs_id) # {}
    BY <2>2 DEF SmenaBool, FoundLatest
  <2> QED
    BY <2>1, <2>2
<1> QED
  BY <1>3, <1>4, <1>5, ReadersHold

\* The handlers' steps up to their statement, and the answer.
LEMMA HandlerHolds ==
  ASSUME IInv, (\E u \in Operators : Login(u)) \/ OutShift \/ AuthCheck \/ Reply
               \/ Lookup \/ CloseLookup
  PROVE  IInv'
<1>1. TypeOK
  BY DEF IInv
<1>2. ASSUME NEW u \in Operators, Login(u) PROVE IInv'
  <2>1. TypeOK' /\ Unset' /\ Found'
    BY <1>1, <1>2 DEF TypeOK, Unset, Found, Login, Go, station
  <2> QED
    BY <1>2, <2>1, ReadersHold DEF Login, Go
<1>3. ASSUME OutShift PROVE IInv'
  <2>1. TypeOK' /\ Unset' /\ Found'
    BY <1>1, <1>3 DEF TypeOK, Unset, Found, OutShift, Go, station
  <2> QED
    BY <1>3, <2>1, ReadersHold DEF OutShift, Go
<1>4. ASSUME AuthCheck PROVE IInv'
  <2>1. isconn' \in BOOLEAN /\ wpc' \in {"lookup", "idle"}
    BY <1>1, <1>4 DEF AuthCheck, TypeOK
  <2>2. TypeOK' /\ Unset' /\ Found'
    BY <1>1, <1>4, <2>1 DEF IInv, TypeOK, Unset, Found, AuthCheck, handler
  <2> QED
    BY <1>4, <2>1, <2>2, ReadersHold DEF AuthCheck, handler
<1>5. ASSUME Reply PROVE IInv'
  <2>1. TypeOK' /\ Unset' /\ Found'
    BY <1>1, <1>5 DEF TypeOK, Unset, Found, Reply, Go, station, handler
  <2> QED
    BY <1>5, <2>1, ReadersHold DEF Reply, Go
<1>6. Lookup \/ CloseLookup => IInv'
  BY LookupFinds DEF Lookup, CloseLookup, Go
<1> QED
  BY <1>2, <1>3, <1>4, <1>5, <1>6

\* A statement keeps what it makes of the table it meets, if its lookup was
\* made on that table; the table otherwise leaves intact.
LEMMA WriteHolds ==
  ASSUME IInv, NEW rows \in Seq(Row), Write(rows),
         wpc \in {"write", "close"}, wpc' \in {"reply", "idle"},
         fresh /\ con \in intact => OneOpen(rows) /\ Numbered(rows),
         wpc' = "reply" /\ fresh /\ con \in intact =>
           \E i \in Of(rows, azs_id) :
             IsLatest(rows, azs_id, i) /\ rows[i].open /\ rows[i].op = user
  PROVE  IInv'
<1>1. TypeOK
  BY DEF IInv
<1>2. /\ UNCHANGED <<con, azs_id, switching, user, last_id, last_nn, status, fresh>>
      /\ \/ smena' = [smena EXCEPT ![con] = rows] /\ wrote' = TRUE
         \/ UNCHANGED <<smena, wrote>>
      /\ isconn' \in {isconn, FALSE}
      /\ intact' = IF fresh THEN intact ELSE intact \ {con}
  BY DEF Write
<1>3. \A d \in Databases : smena'[d] = smena[d] \/ (d = con /\ smena'[d] = rows)
  BY <1>1, <1>2 DEF TypeOK
<1>4. TypeOK'
  <2>1. smena' \in [Databases -> Seq(Row)]
    BY <1>1, <1>2 DEF TypeOK
  <2>2. wrote' \in BOOLEAN /\ isconn' \in BOOLEAN /\ intact' \subseteq Databases
    BY <1>1, <1>2 DEF TypeOK
  <2> QED
    BY <1>1, <1>2, <2>1, <2>2 DEF TypeOK
<1>5. \A d \in intact' : OneOpen(smena'[d]) /\ Numbered(smena'[d])
  <2> SUFFICES ASSUME NEW d \in intact' PROVE OneOpen(smena'[d]) /\ Numbered(smena'[d])
    OBVIOUS
  <2>1. d \in intact /\ d \in Databases /\ (d = con => fresh)
    BY <1>1, <1>2 DEF TypeOK
  <2>2. OneOpen(smena[d]) /\ Numbered(smena[d])
    BY <2>1, ByTables DEF IInv
  <2> QED
    BY <1>3, <2>1, <2>2
<1>6. OneOpenShift' /\ NumbersConsecutive'
  BY <1>5 DEF OneOpenShift, NumbersConsecutive, OneOpen, Numbered
<1>7. LoginTakesShift'
  <2> SUFFICES ASSUME wpc' = "reply", fresh', wrote', con' \in intact',
                      smena' = [smena EXCEPT ![con] = rows]
               PROVE  LoginTakesShift'
    BY <1>2 DEF IInv, Unset, LoginTakesShift
  <2>1. smena'[con] = rows
    BY <1>1 DEF TypeOK
  <2> QED
    BY <1>2, <2>1 DEF LoginTakesShift
<1>8. Unset' /\ Found'
  BY DEF Unset, Found
<1> QED
  BY <1>4, <1>6, <1>7, <1>8 DEF IInv

\* UPDATE smena SET id_operator.
LEMMA ChangeHolds == IInv /\ ChangeOperator => IInv'
<1> SUFFICES ASSUME IInv, ChangeOperator PROVE IInv'
  OBVIOUS
<1> DEFINE table == smena[con]
           rows  == [i \in DOMAIN smena[con] |->
                       IF i = last_id THEN [smena[con][i] EXCEPT !.op = user]
                                      ELSE smena[con][i]]
<1>1. table \in Seq(Row) /\ user \in Operators
  BY DEF IInv, TypeOK
<1>2. Write(rows) /\ wpc = "write" /\ wpc' = "reply" /\ status
  BY DEF ChangeOperator, Go
<1>3. \A i \in DOMAIN table : table[i] \in Row
  BY <1>1
<1>4. \A i \in DOMAIN table :
        /\ rows[i] \in Row /\ rows[i].azs = table[i].azs /\ rows[i].nn = table[i].nn
        /\ rows[i].open = table[i].open /\ (i = last_id => rows[i].op = user)
  BY <1>1, <1>3 DEF Row
<1>5. rows \in Seq(Row)
  BY <1>1, <1>4, UpdatedRows
<1>6. Updates(rows, table)
  BY <1>4 DEF Updates
<1> HIDE DEF rows
<1>7. fresh /\ con \in intact => OneOpen(rows) /\ Numbered(rows)
  BY <1>1, <1>5, <1>6, UpdatesKeep, ByTables DEF IInv
<1>8. fresh => \E i \in Of(rows, azs_id) :
                 IsLatest(rows, azs_id, i) /\ rows[i].open /\ rows[i].op = user
  <2> SUFFICES ASSUME fresh
               PROVE  /\ last_id \in Of(rows, azs_id) /\ IsLatest(rows, azs_id, last_id)
                      /\ rows[last_id].open /\ rows[last_id].op = user
    OBVIOUS
  <2>1. FoundLatest
    BY <1>2 DEF IInv, Found, FoundNone
  <2>2. last_id \in DOMAIN table /\ table[last_id].open
    BY <1>2, <2>1 DEF FoundLatest, IsLatest, Of
  <2>3. IsLatest(rows, azs_id, last_id)
    BY <1>1, <1>5, <1>6, <2>1, UpdatesKeep DEF FoundLatest
  <2> QED
    BY <1>4, <2>2, <2>3 DEF IsLatest
<1> QED
  BY <1>2, <1>5, <1>7, <1>8, WriteHolds

\* INSERT INTO smena.
LEMMA AddHolds == IInv /\ AddOperator => IInv'
<1> SUFFICES ASSUME IInv, AddOperator PROVE IInv'
  OBVIOUS
<1> DEFINE table == smena[con]
           row   == [azs |-> azs_id, nn |-> last_nn + 1, op |-> user, open |-> TRUE]
<1>1. /\ table \in Seq(Row) /\ user \in Operators /\ azs_id \in Databases
      /\ last_nn \in Nat \cup {-1}
  BY DEF IInv, TypeOK
<1>2. Write(Append(table, row)) /\ wpc = "write" /\ wpc' = "reply" /\ ~status
  BY DEF AddOperator, Go
<1>3. row \in Row /\ row.azs = azs_id /\ row.nn = last_nn + 1 /\ row.open /\ row.op = user
  BY <1>1 DEF Row
<1> HIDE DEF row
<1>4. Append(table, row) \in Seq(Row)
  BY <1>1, <1>3
<1>5. ASSUME fresh, con \in intact
      PROVE  /\ OneOpen(Append(table, row)) /\ Numbered(Append(table, row))
             /\ IsLatest(Append(table, row), azs_id, Len(table) + 1)
  <2>1. OneOpen(table) /\ Numbered(table)
    BY <1>5, ByTables DEF IInv
  <2>2. (\A i \in Of(table, azs_id) : ~table[i].open)
        /\ last_nn = Cardinality(Of(table, azs_id))
    <3>1. CASE FoundNone
      BY <1>2, <3>1, FS_EmptySet DEF FoundNone
    <3>2. CASE FoundLatest
      <4>1. last_nn = Cardinality(Of(table, azs_id))
        BY <1>1, <2>1, <3>2, LatestNumber DEF FoundLatest
      <4>2. \A i \in Of(table, azs_id) : table[i].open => i = last_id
        BY <1>1, <2>1, <3>2 DEF FoundLatest, OneOpen, IsLatest, Of
      <4> QED
        BY <1>2, <3>2, <4>1, <4>2 DEF FoundLatest
    <3> QED
      BY <1>2, <1>5, <3>1, <3>2 DEF IInv, Found
  <2> QED
    BY <1>1, <1>3, <2>1, <2>2, AppendKeeps
<1>6. Append(table, row)[Len(table) + 1] = row
  BY <1>1, <1>3
<1>7. fresh /\ con \in intact =>
        \E i \in Of(Append(table, row), azs_id) :
          /\ IsLatest(Append(table, row), azs_id, i)
          /\ Append(table, row)[i].open /\ Append(table, row)[i].op = user
  BY <1>3, <1>5, <1>6 DEF IsLatest
<1> QED
  BY <1>2, <1>4, <1>5, <1>7, WriteHolds

\* UPDATE smena SET status=0.
LEMMA CloseHolds == IInv /\ SmenaClose => IInv'
<1> SUFFICES ASSUME IInv, SmenaClose PROVE IInv'
  OBVIOUS
<1> DEFINE table == smena[con]
           rows  == [i \in DOMAIN smena[con] |->
                       IF i = last_id THEN [smena[con][i] EXCEPT !.open = FALSE]
                                      ELSE smena[con][i]]
<1>1. table \in Seq(Row)
  BY DEF IInv, TypeOK
<1>2. Write(rows) /\ wpc = "close" /\ wpc' = "idle"
  BY DEF SmenaClose, Go
<1>3. \A i \in DOMAIN table : table[i] \in Row
  BY <1>1
<1>4. \A i \in DOMAIN table :
        /\ rows[i] \in Row /\ rows[i].azs = table[i].azs /\ rows[i].nn = table[i].nn
        /\ rows[i].open => table[i].open
  BY <1>1, <1>3 DEF Row
<1>5. rows \in Seq(Row)
  BY <1>1, <1>4, UpdatedRows
<1>6. Updates(rows, table)
  BY <1>4 DEF Updates
<1> HIDE DEF rows
<1>7. fresh /\ con \in intact => OneOpen(rows) /\ Numbered(rows)
  BY <1>1, <1>5, <1>6, UpdatesKeep, ByTables DEF IInv
<1> QED
  BY <1>2, <1>5, <1>7, WriteHolds

LEMMA NextHolds == IInv /\ [Next]_vars => IInv'
<1> SUFFICES ASSUME IInv, [Next]_vars PROVE IInv'
  OBVIOUS
<1>1. CASE Next
  BY <1>1, ConnectorHolds, HandlerHolds, ChangeHolds, AddHolds, CloseHolds DEF Next
<1>2. CASE UNCHANGED vars
  BY <1>2 DEF IInv, vars, station, handler, TypeOK, OneOpenShift, NumbersConsecutive,
              LoginTakesShift, Unset, Found, FoundNone, FoundLatest, Of, IsLatest
<1> QED
  BY <1>1, <1>2

-----------------------------------------------------------------------------
(* What a step does to a table.                                            *)

\* A step changes a table only by a statement, in the database con points to:
\* in the row last_id, which it leaves to its station, or behind the last row;
\* and it touches a closed shift only if the lookup was of another table.
LEMMA StepChanges ==
  ASSUME IInv, [Next]_vars, NEW d \in Databases, smena'[d] # smena[d]
  PROVE  /\ d = con /\ intact' = IF fresh THEN intact ELSE intact \ {con}
         /\ \A i \in DOMAIN smena[d] : i # last_id => smena'[d][i] = smena[d][i]
         /\ fresh => \A i \in DOMAIN smena[d] :
              /\ smena[d][i].azs # azs_id => smena'[d][i] = smena[d][i]
              /\ ~smena[d][i].open => smena'[d][i] = smena[d][i]
<1> DEFINE table == smena[con]
           changed == [i \in DOMAIN smena[con] |->
                         IF i = last_id THEN [smena[con][i] EXCEPT !.op = user]
                                        ELSE smena[con][i]]
           closed  == [i \in DOMAIN smena[con] |->
                         IF i = last_id THEN [smena[con][i] EXCEPT !.open = FALSE]
                                        ELSE smena[con][i]]
           row     == [azs |-> azs_id, nn |-> last_nn + 1, op |-> user, open |-> TRUE]
<1>1. smena \in [Databases -> Seq(Row)] /\ con \in Databases /\ table \in Seq(Row)
  BY DEF IInv, TypeOK
<1>2. \/ status /\ wpc = "write" /\ Write(changed)
      \/ wpc = "write" /\ Write(Append(table, row))
      \/ wpc = "close" /\ Write(closed)
  <2>1. ~UNCHANGED smena
    OBVIOUS
  <2> QED
    BY <2>1 DEF Next, vars, Dial, Validate, ReadStation, Restart, Login, OutShift, AuthCheck,
                Lookup, CloseLookup, Reply, ChangeOperator, AddOperator, SmenaClose, Go
<1>3. ASSUME NEW rows, Write(rows)
      PROVE  d = con /\ smena'[d] = rows /\ intact' = IF fresh THEN intact ELSE intact \ {con}
  BY <1>1, <1>3 DEF Write
<1>4. fresh => \A i \in DOMAIN table : i = last_id =>
                 table[i].azs = azs_id /\ table[i].open = status
  <2>1. wpc \in {"write", "close"}
    BY <1>2
  <2>2. FoundNone => last_id \notin DOMAIN table
    BY <1>1 DEF FoundNone
  <2> QED
    BY <2>1, <2>2 DEF IInv, Found, FoundLatest, IsLatest, Of
<1>5. \A i \in DOMAIN table : table[i] \in Row
  BY <1>1
<1>6. CASE status /\ Write(changed)
  <2>1. d = con /\ smena'[d] = changed /\ intact' = IF fresh THEN intact ELSE intact \ {con}
    BY <1>3, <1>6
  <2> QED
    BY <1>4, <1>6, <2>1
<1>7. CASE Write(Append(table, row))
  <2>1. /\ d = con /\ smena'[d] = Append(table, row)
        /\ intact' = IF fresh THEN intact ELSE intact \ {con}
    BY <1>3, <1>7
  <2>2. \A i \in DOMAIN table : Append(table, row)[i] = table[i]
    BY <1>1
  <2> QED
    BY <2>1, <2>2
<1>8. CASE Write(closed)
  <2>1. d = con /\ smena'[d] = closed /\ intact' = IF fresh THEN intact ELSE intact \ {con}
    BY <1>3, <1>8
  <2>2. \A i \in DOMAIN table : ~table[i].open => closed[i] = table[i]
    BY <1>5 DEF Row
  <2> QED
    BY <1>4, <2>1, <2>2
<1> QED
  BY <1>2, <1>6, <1>7, <1>8

-----------------------------------------------------------------------------
(* Theorems.                                                               *)

\* The inductive invariant, for any databases, operators and length of tables.
THEOREM ShiftInvariance == Spec => []IInv
BY InitHolds, NextHolds, PTL DEF Spec

\* Type correctness.
THEOREM ShiftTypeCorrect == Spec => []TypeOK
<1>1. IInv => TypeOK
  BY DEF IInv
<1> QED
  BY <1>1, ShiftInvariance, PTL

\* A station has one open shift at most, its latest, in every database that only
\* undisturbed handlers wrote: lost answers, stops and retries included.
THEOREM OneShiftOpen == Spec => []OneOpenShift
<1>1. IInv => OneOpenShift
  BY DEF IInv
<1> QED
  BY <1>1, ShiftInvariance, PTL

\* So the login page finds such tables as its theorems are about, in every database
\* that only undisturbed handlers wrote: auth_main may trust the latest shift to be
\* the only open one because auth_post and api_outshift never leave it otherwise.
THEOREM PageFindsTables == Spec => [](\A d \in intact : FitForPage(smena[d]))
<1>1. TypeOK /\ OneOpenShift => \A d \in intact : FitForPage(smena[d])
  <2> SUFFICES ASSUME TypeOK, OneOpenShift, NEW d \in intact
               PROVE  FitForPage(smena[d])
    OBVIOUS
  <2> DEFINE rows == smena[d]
  <2>1. d \in Databases /\ rows \in Seq(Row)
    BY DEF TypeOK
  <2>2. ASSUME NEW i \in DOMAIN rows, NEW j \in DOMAIN rows, i < j, rows[i].azs = rows[j].azs
        PROVE  ~rows[i].open
    <3> DEFINE a == rows[i].azs
    <3>1. a \in Databases /\ i \in Int /\ j \in Int
      <4>1. rows[i] \in Row /\ i \in 1 .. Len(rows) /\ j \in 1 .. Len(rows)
        <5> HIDE DEF rows
        <5> QED
          BY <2>1
      <4> QED
        BY <4>1 DEF Row
    <3>2. i \in Of(rows, a) /\ j \in Of(rows, a)
      BY <2>2 DEF Of
    <3>3. ~IsLatest(rows, a, i)
      BY <2>2, <3>1, <3>2 DEF IsLatest
    <3> QED
      BY <3>1, <3>2, <3>3 DEF OneOpenShift
  <2> QED
    BY <2>1, <2>2 DEF FitForPage
<1> QED
  BY <1>1, ShiftTypeCorrect, OneShiftOpen, PTL

\* The shifts of a station are numbered from 1 without gap or repetition there.
THEOREM ShiftsNumbered == Spec => []NumbersConsecutive
<1>1. IInv => NumbersConsecutive
  BY DEF IInv
<1> QED
  BY <1>1, ShiftInvariance, PTL

\* A login whose statement took effect has the latest shift, open, as its own.
THEOREM LoginsTakeShifts == Spec => []LoginTakesShift
<1>1. IInv => LoginTakesShift
  BY DEF IInv
<1> QED
  BY <1>1, ShiftInvariance, PTL

\* No statement changes a closed shift of a database that is intact after it.
THEOREM ClosedShiftsStay == Spec => ClosedForGood
<1>1. IInv /\ [Next]_vars =>
        [\A d \in intact' : \A i \in DOMAIN smena[d] :
           ~smena[d][i].open => smena'[d][i] = smena[d][i]]_vars
  <2> SUFFICES ASSUME IInv, [Next]_vars, NEW d \in intact', NEW i \in DOMAIN smena[d],
                      ~smena[d][i].open, smena'[d] # smena[d]
               PROVE  smena'[d][i] = smena[d][i]
    OBVIOUS
  <2>1. d \in Databases
    BY NextHolds DEF IInv, TypeOK
  <2> QED
    BY <2>1, StepChanges
<1> QED
  BY <1>1, ShiftInvariance, PTL DEF Spec, ClosedForGood

\* While the connection is settled, a statement that follows its lookup changes
\* no row of another station.
THEOREM OwnRowsOnly == Spec => RowsStayHome
<1>1. IInv /\ [Next]_vars =>
        [\A d \in Databases :
           smena'[d] # smena[d] /\ azs_id = con /\ fresh =>
             d = con /\ \A i \in DOMAIN smena[d] :
                         smena[d][i].azs # d => smena'[d][i] = smena[d][i]]_vars
  BY StepChanges
<1> QED
  BY <1>1, ShiftInvariance, PTL DEF Spec, RowsStayHome

-----------------------------------------------------------------------------
(* The login page.                                                         *)

\* An order of a finite set has all its elements, each once.
LEMMA OrderOfAll ==
  ASSUME NEW S, IsFiniteSet(S), NEW s \in SetToSeqs(S)
  PROVE  s \in Seq(S) /\ Len(s) = Cardinality(S) /\ IsInjective(s) /\ ToSet(s) = S
<1> DEFINE D == 1 .. Cardinality(S)
<1>1. Cardinality(S) \in Nat  BY FS_CardinalityType
<1>2. s \in [D -> S] /\ \A i, j \in D : i # j => s[i] # s[j]  BY DEF SetToSeqs
<1>3. s \in Seq(S) /\ Len(s) = Cardinality(S)  BY <1>1, <1>2
<1>4. s \in Injection(D, S)  BY <1>2 DEF Injection, IsInjective
<1>5. Cardinality(D) = Cardinality(S)  BY <1>1, FS_Interval
<1>6. s \in Surjection(D, S)  BY <1>4, <1>5, FS_Injection
<1>7. ToSet(s) = S  BY <1>2, <1>6 DEF ToSet, Surjection
<1> QED  BY <1>3, <1>4, <1>7 DEF Injection

\* Exchanging two elements loses none and repeats none.
LEMMA ExchangeKeeps ==
  ASSUME NEW S, NEW s \in Seq(S), IsInjective(s), NEW i \in DOMAIN s
  PROVE  LET t == [s EXCEPT ![1] = s[i], ![i] = s[1]] IN
         ToSet(t) = ToSet(s) /\ IsInjective(t) /\ t[1] = s[i]
<1> DEFINE t == [s EXCEPT ![1] = s[i], ![i] = s[1]]
<1>1. DOMAIN s = 1 .. Len(s) /\ 1 \in DOMAIN s  OBVIOUS
<1>2. /\ DOMAIN t = DOMAIN s /\ t[1] = s[i] /\ t[i] = s[1]
      /\ \A j \in DOMAIN s : j # 1 /\ j # i => t[j] = s[j]
  BY <1>1
<1> HIDE DEF t
<1>3. ToSet(t) = ToSet(s)  BY <1>1, <1>2 DEF ToSet
<1>4. IsInjective(t)  BY <1>1, <1>2 DEF IsInjective
<1> QED  BY <1>2, <1>3, <1>4 DEF t

\* The page has the names of the list, each once; with an open shift it starts
\* with the operator, if he is on the list.
LEMMA PageOfList ==
  ASSUME PageInv
  PROVE  /\ ToSet(Page) = ToSet(res) /\ IsInjective(Page)
         /\ \A u : open /\ userid = {u} /\ u \in ToSet(Page) => Page[1] = u
<1> DEFINE found == open /\ \E i \in DOMAIN res : res[i] \in userid
           c     == CHOOSE i \in DOMAIN res : res[i] \in userid
<1>1. res \in Seq(Operators) /\ IsInjective(res)  BY DEF PageInv, ListInv
<1>2. CASE found
  <2>1. c \in DOMAIN res /\ res[c] \in userid  BY <1>2
  <2>2. Page = [res EXCEPT ![1] = res[c], ![c] = res[1]]  BY <1>2 DEF Page, Swapped
  <2> HIDE DEF c
  <2>3. ToSet(Page) = ToSet(res) /\ IsInjective(Page) /\ Page[1] = res[c]
    BY <1>1, <2>1, <2>2, ExchangeKeeps
  <2> QED  BY <2>1, <2>3
<1>3. CASE ~found
  <2>1. Page = res  BY <1>3 DEF Page
  <2> QED  BY <1>1, <1>3, <2>1 DEF ToSet
<1> QED  BY <1>2, <1>3

LEMMA InitPage == PageInit => PageInv
<1> SUFFICES ASSUME PageInit PROVE PageInv
  OBVIOUS
<1>1. res \in Seq(Operators) /\ IsInjective(res)  BY DEF PageInit, IsInjective
<1> QED  BY <1>1 DEF PageInit, PageInv, ListInv, LookedInv

\* get_Users_Name.
LEMMA UsersPage == PageInv /\ get_Users_Name => PageInv'
<1> SUFFICES ASSUME PageInv, get_Users_Name PROVE PageInv'
  OBVIOUS
<1> USE DEF PageInv
<1> DEFINE S == Users[con][azs_id]
<1>1. PICK users \in SetToSeqs(S) : \E n \in 0 .. Len(users) :
        /\ res' = SubSeq(users, 1, n)
        /\ \/ n = Len(users) /\ listed' = <<con, azs_id>>
           \/ UNCHANGED listed
  BY DEF get_Users_Name
<1>2. PICK n \in 0 .. Len(users) :
        /\ res' = SubSeq(users, 1, n)
        /\ \/ n = Len(users) /\ listed' = <<con, azs_id>>
           \/ UNCHANGED listed
  BY <1>1
<1>3. S \subseteq Operators /\ IsFiniteSet(S)  BY UsersAssumption
<1>4. users \in Seq(S) /\ IsInjective(users) /\ ToSet(users) = S  BY <1>3, OrderOfAll
<1>5. res' \in Seq(Operators) /\ IsInjective(res')
  <2> HIDE DEF S
  <2>1. users \in Seq(Operators)  BY <1>3, <1>4
  <2>2. res' \in Seq(Operators) /\ Len(res') = n /\ \A j \in 1 .. n : res'[j] = users[j]
    BY <1>2, <2>1
  <2> QED  BY <1>2, <1>4, <2>1, <2>2 DEF IsInjective
<1>6. ListInv'
  <2>1. CASE n = Len(users) /\ listed' = <<con, azs_id>>
    <3>1. res' = users  BY <1>2, <1>4, <2>1
    <3> QED  BY <1>4, <1>5, <2>1, <3>1 DEF ListInv, get_Users_Name, Go
  <2>2. CASE UNCHANGED listed
    <3>1. listed' = NoStation  BY <2>2 DEF ListInv, get_Users_Name, Go
    <3> QED  BY <1>5, <3>1 DEF ListInv
  <2> QED  BY <1>2, <2>1, <2>2
<1> QED  BY <1>6 DEF get_Users_Name, Go, LookedInv

\* smena_bool(&userid).
LEMMA OperatorPage == PageInv /\ OperatorOnShift => PageInv'
<1> SUFFICES ASSUME PageInv, OperatorOnShift PROVE PageInv'
  OBVIOUS
<1> USE DEF PageInv, OperatorOnShift, Go
<1>1. ListInv'  BY DEF ListInv
<1>2. userid = {} /\ open = FALSE /\ looked = NoStation  BY DEF LookedInv
<1>3. LookedInv'
  <2>1. ASSUME NEW i \in Of(smena[con], azs_id), IsLatest(smena[con], azs_id, i),
               userid' = {smena[con][i].op}, open' = smena[con][i].open,
               looked' = <<con, azs_id>>
        PROVE  LookedInv'
    BY <2>1 DEF LookedInv
  <2>2. CASE Of(smena[con], azs_id) = {} /\ looked' = <<con, azs_id>> /\ UNCHANGED <<userid, open>>
    BY <1>2, <2>2 DEF LookedInv
  <2>3. CASE UNCHANGED <<userid, open, looked>>  BY <1>2, <2>3 DEF LookedInv
  <2> QED  BY <2>1, <2>2, <2>3
<1> QED  BY <1>1, <1>3

\* The other steps of the page, of the connect thread and of the process.
LEMMA OthersPage ==
  ASSUME PageInv,
         \/ ((\E d \in Databases : Dial(d)) \/ Validate \/ ReadStation) /\ UNCHANGED list
         \/ Restart /\ Return
         \/ Load \/ Render
         \/ UNCHANGED all
  PROVE  PageInv'
<1> USE DEF PageInv, list
<1>1. CASE ((\E d \in Databases : Dial(d)) \/ Validate \/ ReadStation) /\ UNCHANGED list
  <2>1. UNCHANGED <<smena, wpc>> /\ con' \in Databases /\ azs_id' \in Databases
    BY <1>1 DEF Dial, Validate, ReadStation
  <2> QED  BY <1>1, <2>1 DEF ListInv, LookedInv
<1>2. CASE Restart /\ Return
  <2>1. res' \in Seq(Operators) /\ IsInjective(res')  BY <1>2 DEF Return, IsInjective
  <2> QED  BY <1>2, <2>1 DEF Restart, Return, ListInv, LookedInv
<1>3. CASE Load  BY <1>3 DEF Load, Go, station, ListInv, LookedInv
<1>4. CASE Render
  <2>1. res' \in Seq(Operators) /\ IsInjective(res')  BY <1>4 DEF Render, Return, IsInjective
  <2> QED  BY <1>4, <2>1 DEF Render, Go, station, Return, ListInv, LookedInv
<1>5. CASE UNCHANGED all  BY <1>5 DEF all, vars, station, ListInv, LookedInv
<1> QED  BY <1>1, <1>2, <1>3, <1>4, <1>5

\* PageInv holds in every reachable state of the login page.
THEOREM PageInvariance == PageSpec => []PageInv
<1>1. PageInv /\ [PageNext]_all => PageInv'
  BY UsersPage, OperatorPage, OthersPage DEF PageNext
<1> QED  BY <1>1, InitPage, PTL DEF PageSpec

\* Whoever may log in is on the login page, once, if the query for the names was
\* answered to its end: whoever has a shift, and whatever the connect thread does.
THEOREM EveryoneListed == PageSpec => []EveryoneOnce
<1>1. PageInv => EveryoneOnce  BY PageOfList DEF PageInv, ListInv, EveryoneOnce
<1> QED  BY <1>1, PageInvariance, PTL

\* If the query for the shift was answered, the page says that a shift is open if
\* and only if one is, and then starts with its operator.
THEOREM OperatorListedFirst == PageSpec => []OperatorFirst
<1>1. PageInv => OperatorFirst
  <2> SUFFICES ASSUME PageInv, looked # NoStation
               PROVE  LET rows == smena[looked[1]] IN
                      /\ \A i \in Of(rows, looked[2]) : rows[i].open =>
                           open /\ (rows[i].op \in ToSet(Page) => Page[1] = rows[i].op)
                      /\ open => \E i \in Of(rows, looked[2]) : rows[i].open
    BY DEF OperatorFirst
  <2> DEFINE rows == smena[looked[1]]
  <2>1. rows \in Tables  BY DEF PageInv, LookedInv
  <2>2. CASE Of(rows, looked[2]) = {} /\ userid = {} /\ open = FALSE  BY <2>2
  <2>3. ASSUME NEW l \in Of(rows, looked[2]), IsLatest(rows, looked[2], l),
               userid = {rows[l].op}, open = rows[l].open
        PROVE  /\ \A i \in Of(rows, looked[2]) : rows[i].open =>
                    open /\ (rows[i].op \in ToSet(Page) => Page[1] = rows[i].op)
               /\ open => \E i \in Of(rows, looked[2]) : rows[i].open
    <3> HIDE DEF rows
    <3>1. rows \in Seq(Row)
          /\ \A i, j \in DOMAIN rows : i < j /\ rows[i].azs = rows[j].azs => ~rows[i].open
      BY <2>1, TablesAssumption DEF FitForPage
    <3>2. ASSUME NEW i \in Of(rows, looked[2]), rows[i].open PROVE i = l
      <4>1. i \in DOMAIN rows /\ l \in DOMAIN rows /\ rows[i].azs = rows[l].azs  BY DEF Of
      <4>2. i \in Nat /\ l \in Nat  BY <3>1, <4>1
      <4>3. i <= l  BY <2>3 DEF IsLatest
      <4> QED  BY <3>1, <3>2, <4>1, <4>2, <4>3
    <3>3. open /\ rows[l].op \in ToSet(Page) => Page[1] = rows[l].op
      BY <2>3, PageOfList
    <3> QED  BY <2>3, <3>2, <3>3
  <2> QED  BY <2>2, <2>3 DEF PageInv, LookedInv
<1> QED  BY <1>1, PageInvariance, PTL

=============================================================================
