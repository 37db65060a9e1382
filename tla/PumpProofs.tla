----------------------------- MODULE PumpProofs -----------------------------
(***************************************************************************)
(* Proofs about PumpPages, for any databases, tables and numbers of rows:  *)
(* the invariant of the loop over the pumps' rows and of the links between *)
(* pistols, tanks and fuels, and from it what the pages show and when they *)
(* bring the process down.                                                 *)
(***************************************************************************)
EXTENDS PumpPages, FiniteSetTheorems, SequenceTheorems, TLAPS

-----------------------------------------------------------------------------
(* The operators.                                                          *)

\* Every set of numbers that is not empty has a least one.
LEMMA Least ==
  ASSUME NEW T \in SUBSET Nat, T # {}
  PROVE  \E m \in T : \A k \in T : m <= k
<1> DEFINE Below(m) == 0 .. m - 1
           All == {Below(m) : m \in T}
<1>1. All \subseteq FiniteSubsetsOf(Nat) /\ All # {}
  <2>1. \A m \in Nat : Below(m) \in SUBSET Nat /\ IsFiniteSet(Below(m))  BY FS_Interval
  <2> HIDE DEF Below
  <2>2. \A m \in T : Below(m) \in FiniteSubsetsOf(Nat)  BY <2>1 DEF FiniteSubsetsOf
  <2> QED  BY <2>2
<1>2. PICK S \in All : \A U \in All : <<U, S>> \notin StrictSubsetOrdering(Nat)
  <2> HIDE DEF All
  <2> QED  BY <1>1, FS_StrictSubsetOrderingWellFounded, WFMin
<1>3. PICK m \in T : S = Below(m)  OBVIOUS
<1>4. ASSUME NEW k \in T PROVE m <= k
  <2>1. m \in Nat /\ k \in Nat  OBVIOUS
  <2>2. CASE k < m
    <3>1. Below(k) \subseteq Below(m) /\ Below(k) # Below(m)
      <4>1. k \in Below(m) /\ k \notin Below(k)  BY <2>1, <2>2
      <4>2. Below(k) \subseteq Below(m)  BY <2>1, <2>2
      <4> QED  BY <4>1, <4>2
    <3>2. <<Below(k), Below(m)>> \in StrictSubsetOrdering(Nat)
      BY <2>1, <3>1 DEF StrictSubsetOrdering
    <3> QED  BY <1>2, <1>3, <3>2
  <2> QED  BY <2>1, <2>2
<1> QED  BY <1>4

\* A loop that breaks at the first match returns a match, if there is one.
LEMMA FirstMatches ==
  ASSUME NEW S, NEW seq \in Seq(S), NEW js \in SUBSET DOMAIN seq
  PROVE  /\ js = {} => First(seq, js) = NULL
         /\ js # {} => \E j \in js : First(seq, js) = seq[j]
<1>1. CASE js = {}  BY <1>1 DEF First
<1>2. CASE js # {}
  <2>1. js \in SUBSET Nat  OBVIOUS
  <2>2. \E m \in js : \A k \in js : m =< k  BY <1>2, <2>1, Least
  <2>3. Min(js) \in js  BY <2>2, Zenon DEF Min
  <2> QED  BY <1>2, <2>3 DEF First
<1> QED  BY <1>1, <1>2

\* new Tank has the fuel of its id, if that was read.
LEMMA TankHasFuel ==
  ASSUME tovars \in Seq(Fuels), NEW row \in [id_tank : Nat, id_tovar : Nat]
  PROVE  /\ Tank(row) \in Stored
         /\ Tank(row).id_tank = row.id_tank /\ Tank(row).id_tovar = row.id_tovar
         /\ \A j \in DOMAIN tovars : tovars[j].id_tovar = row.id_tovar =>
              Tank(row).tovar_ \in ToSet(tovars) /\ Tank(row).tovar_.id_tovar = row.id_tovar
<1> DEFINE js == {j \in DOMAIN tovars : tovars[j].id_tovar = row.id_tovar}
           t  == First(tovars, js)
<1>1. /\ js = {} => t = NULL
      /\ js # {} => \E j \in js : t = tovars[j]
  BY FirstMatches
<1>2. Tank(row) = [id_tank |-> row.id_tank, id_tovar |-> row.id_tovar, tovar_ |-> t]  BY DEF Tank
<1>3. t \in Fuels \cup {NULL}
  <2> HIDE DEF t
  <2> QED  BY <1>1
<1>4. \A j \in DOMAIN tovars : tovars[j].id_tovar = row.id_tovar =>
        t \in ToSet(tovars) /\ t.id_tovar = row.id_tovar
  <2> HIDE DEF t
  <2> QED  BY <1>1 DEF ToSet
<1> HIDE DEF t
<1> QED  BY <1>2, <1>3, <1>4 DEF Stored

\* The tank of a row is that of its id, if that was read.
LEMMA LinkFindsTank ==
  ASSUME tanks \in Seq(Stored), tank_ \in Stored \cup {NULL}, NullAssumption, NEW row
  PROVE  /\ Link(row) \in Stored \cup {NULL}
         /\ \A t \in DOMAIN tanks : tanks[t].id_tank = row.id_tank =>
              Link(row) \in ToSet(tanks) /\ Link(row).id_tank = row.id_tank
<1> DEFINE js    == {j \in DOMAIN tanks : tanks[j].id_tank = row.id_tank}
           found == First(tanks, js)
<1>1. /\ js = {} => found = NULL
      /\ js # {} => \E j \in js : found = tanks[j]
  BY FirstMatches
<1>2. Link(row) = IF found = NULL THEN tank_ ELSE found  BY DEF Link
<1> HIDE DEF found
<1>3. js # {} => Link(row) = found  BY <1>1, <1>2 DEF NullAssumption
<1>4. Link(row) \in Stored \cup {NULL}  BY <1>1, <1>2
<1> QED  BY <1>1, <1>3, <1>4 DEF ToSet

LEMMA PrefixRows ==
  ASSUME NEW S, NEW rows \in Seq(S), NEW some \in PrefixesOf(rows)
  PROVE  /\ some \in Seq(S) /\ Len(some) \in Nat /\ DOMAIN some = 1 .. Len(some)
         /\ \A k \in 1 .. Len(some) : some[k] \in S
<1>1. PICK n \in 0 .. Len(rows) : some = SubSeq(rows, 1, n)  BY DEF PrefixesOf
<1>2. n \in Nat /\ n <= Len(rows) /\ Len(rows) \in Nat  OBVIOUS
<1>3. SubSeq(rows, 1, n) \in Seq(S)
  <2>1. \A k \in 1 .. n : rows[k] \in S  BY <1>2
  <2> QED  BY <1>2, <2>1, SubSeqProperties
<1> QED  BY <1>1, <1>3

\* The rows of the query are those of the join, each once, in order.
LEMMA RowsOfJoin ==
  ASSUME NEW c \in Contents, NEW rows \in JoinedRows(c), ContentsAssumption
  PROVE  /\ Join(c) \subseteq [id_trk : Nat, id_pist : Nat, id_tank : Nat]
         /\ IsFiniteSet(Join(c)) /\ rows \in Seq(Join(c)) /\ ToSet(rows) = Join(c)
         /\ \A j, k \in DOMAIN rows : rows[j] = rows[k] => j = k
         /\ \A j, k \in DOMAIN rows : j <= k => rows[j].id_trk <= rows[k].id_trk
<1> DEFINE S == Join(c)
           D == 1 .. Cardinality(S)
<1>1. IsFiniteSet(S) /\ S \subseteq [id_trk : Nat, id_pist : Nat, id_tank : Nat]
  BY FS_Subset DEF ContentsAssumption, Join
<1>2. /\ rows \in SetToSeqs(S)
      /\ \A j, k \in DOMAIN rows : j <= k => rows[j].id_trk <= rows[k].id_trk
  BY DEF JoinedRows
<1> HIDE DEF S
<1>3. Cardinality(S) \in Nat  BY <1>1, FS_CardinalityType
<1>4. rows \in [D -> S] /\ \A i, j \in D : i # j => rows[i] # rows[j]  BY <1>2 DEF SetToSeqs
<1>5. rows \in Seq(S)  BY <1>3, <1>4
<1>6. rows \in Injection(D, S)  BY <1>4 DEF Injection, IsInjective
<1>7. Cardinality(D) = Cardinality(S)  BY <1>3, FS_Interval
<1>8. rows \in Surjection(D, S)  BY <1>1, <1>6, <1>7, FS_Injection
<1>9. ToSet(rows) = S  BY <1>4, <1>8 DEF ToSet, Surjection
<1> QED  BY <1>1, <1>2, <1>4, <1>5, <1>9 DEF S

-----------------------------------------------------------------------------
(* The loop over the rows of the pumps.                                    *)

\* A row joins the pistols of its pump and no other's.
LEMMA PistolsOfMore ==
  ASSUME NEW rows, IsFiniteSet(rows), NEW row, row \notin rows
  PROVE  /\ \A id : id # row.id_trk => Of(rows \cup {row}, id) = Of(rows, id)
         /\ Of(rows \cup {row}, row.id_trk) = Of(rows, row.id_trk) \cup {row}
         /\ Cardinality(Of(rows, row.id_trk)) \in Nat
         /\ Cardinality(Of(rows \cup {row}, row.id_trk)) = Cardinality(Of(rows, row.id_trk)) + 1
<1>1. \A id : id # row.id_trk => Of(rows \cup {row}, id) = Of(rows, id)  BY DEF Of
<1>2. Of(rows \cup {row}, row.id_trk) = Of(rows, row.id_trk) \cup {row}  BY DEF Of
<1>3. IsFiniteSet(Of(rows, row.id_trk)) /\ row \notin Of(rows, row.id_trk)
  <2>1. Of(rows, row.id_trk) \subseteq rows  BY DEF Of
  <2> QED  BY <2>1, FS_Subset
<1> QED  BY <1>1, <1>2, <1>3, FS_AddElement, FS_CardinalityType

\* The row's pistol at the end of the last pump, if last_idtkr is the row's pump,
\* and at a new pump, if the rows before are all of lower pumps.
LEMMA JoinedGroups ==
  ASSUME TypeInv, NullAssumption,
         NEW rows, IsFiniteSet(rows), Grouped(trks, rows),
         NEW row \in [id_trk : Nat, id_pist : Nat, id_tank : Nat], row \notin rows,
         \A r \in rows : r.id_trk \in Nat /\ r.id_trk <= last_idtkr /\ last_idtkr <= row.id_trk,
         rows = {} => trks = <<>> /\ last_idtkr = -1,
         rows # {} => trks # <<>> /\ trks[Len(trks)].id_trk = last_idtkr,
         trks' = Joined(row)
  PROVE  /\ trks' \in Seq(Pumps)
         /\ Grouped(trks', rows \cup {row})
         /\ trks' # <<>> /\ trks'[Len(trks')].id_trk = row.id_trk
<1> DEFINE n    == Len(trks)
           pist == [id_pist |-> row.id_pist, id_tank |-> row.id_tank, tank_ |-> Link(row)]
           more == rows \cup {row}
<1>0. trks \in Seq(Pumps) /\ n \in Nat /\ DOMAIN trks = 1 .. n  BY DEF TypeInv
<1>1. pist \in Pistols
  <2>1. Link(row) \in Stored \cup {NULL}  BY LinkFindsTank DEF TypeInv
  <2> QED  BY <2>1 DEF Pistols
<1>2. /\ trks' = IF row.id_trk = last_idtkr
                 THEN [trks EXCEPT ![n].pists = Append(@, pist)]
                 ELSE Append(trks, [id_trk |-> row.id_trk, pists |-> <<pist>>])
      /\ pist.id_pist = row.id_pist /\ pist.id_tank = row.id_tank
  BY DEF Joined
<1> HIDE DEF pist
<1>3. /\ \A id : id # row.id_trk => Of(more, id) = Of(rows, id)
      /\ Of(more, row.id_trk) = Of(rows, row.id_trk) \cup {row}
      /\ Cardinality(Of(rows, row.id_trk)) \in Nat
      /\ Cardinality(Of(more, row.id_trk)) = Cardinality(Of(rows, row.id_trk)) + 1
  BY PistolsOfMore
<1>4. row = [id_trk |-> row.id_trk, id_pist |-> row.id_pist, id_tank |-> row.id_tank]  OBVIOUS
<1>5. /\ \A j, k \in 1 .. n : j < k => trks[j].id_trk < trks[k].id_trk
      /\ {trks[j].id_trk : j \in 1 .. n} = {r.id_trk : r \in rows}
      /\ \A j \in 1 .. n : /\ Len(trks[j].pists) = Cardinality(Of(rows, trks[j].id_trk))
                           /\ RowsOf(trks[j]) = Of(rows, trks[j].id_trk)
  BY <1>0 DEF Grouped
<1>6. \A j \in 1 .. n : trks[j].id_trk \in Nat
  <2>1. ASSUME NEW t \in Pumps PROVE t.id_trk \in Nat  BY DEF Pumps
  <2>2. \A j \in 1 .. n : trks[j] \in Pumps  BY <1>0
  <2> QED  BY <2>1, <2>2
<1>9. row.id_trk \in Nat  OBVIOUS
<1>10. n \in Nat  BY <1>0
<1>11. \A j \in 1 .. n : \E r \in rows : r.id_trk = trks[j].id_trk
  <2> SUFFICES ASSUME NEW j \in 1 .. n PROVE trks[j].id_trk \in {r.id_trk : r \in rows}
    OBVIOUS
  <2>1. trks[j].id_trk \in {trks[k].id_trk : k \in 1 .. n}  OBVIOUS
  <2> QED  BY <1>5, <2>1, Zenon
<1>7. CASE row.id_trk = last_idtkr
  <2>1. rows # {} /\ n \in 1 .. n /\ trks[n].id_trk = row.id_trk  BY <1>0, <1>7
  <2> DEFINE old == trks[n]
             new == [trks[n] EXCEPT !.pists = Append(@, pist)]
  <2>2. trks' = [trks EXCEPT ![n] = new]  BY <1>2, <1>7
  <2>3. old \in Pumps  BY <1>0, <2>1
  <2>4. /\ new \in Pumps /\ new.id_trk = row.id_trk
        /\ new.pists = Append(old.pists, pist)
    <3>1. ASSUME NEW t \in Pumps
          PROVE  LET u == [t EXCEPT !.pists = Append(@, pist)] IN
                 u \in Pumps /\ u.id_trk = t.id_trk /\ u.pists = Append(t.pists, pist)
      <4>1. t.pists \in Seq(Pistols)  BY DEF Pumps
      <4>2. Append(t.pists, pist) \in Seq(Pistols)  BY <1>1, <4>1
      <4> DEFINE q == Append(t.pists, pist)
      <4>3. [t EXCEPT !.pists = q] \in Pumps /\ [t EXCEPT !.pists = q].id_trk = t.id_trk
            /\ [t EXCEPT !.pists = q].pists = q
        <5> HIDE DEF q
        <5>1. q \in Seq(Pistols)  BY <4>2 DEF q
        <5> QED  BY <5>1 DEF Pumps
      <4> QED  BY <4>3
    <3> QED  BY <2>1, <2>3, <3>1
  <2>5. Len(new.pists) = Len(old.pists) + 1  BY <2>3, <2>4 DEF Pumps
  <2>6. RowsOf(new) = RowsOf(old) \cup {row}
    <3> DEFINE r(t, k) == [id_trk |-> t.id_trk, id_pist |-> t.pists[k].id_pist,
                           id_tank |-> t.pists[k].id_tank]
    <3>1. /\ DOMAIN new.pists = DOMAIN old.pists \cup {Len(old.pists) + 1}
          /\ \A k \in DOMAIN old.pists : new.pists[k] = old.pists[k]
          /\ new.pists[Len(old.pists) + 1] = pist
      BY <2>3, <2>4 DEF Pumps
    <3>2. \A k \in DOMAIN old.pists : r(new, k) = r(old, k)  BY <2>1, <2>4, <3>1
    <3>3. r(new, Len(old.pists) + 1) = row  BY <1>2, <1>4, <2>4, <3>1
    <3>4. /\ RowsOf(new) = {r(new, k) : k \in DOMAIN new.pists}
          /\ RowsOf(old) = {r(old, k) : k \in DOMAIN old.pists}
      BY DEF RowsOf
    <3> HIDE DEF new, old, r
    <3> QED  BY <3>1, <3>2, <3>3, <3>4
  <2>7. Len(old.pists) = Cardinality(Of(rows, row.id_trk)) /\ RowsOf(old) = Of(rows, row.id_trk)
    BY <1>5, <2>1
  <2> HIDE DEF new, old
  <2>8. /\ trks' \in Seq(Pumps) /\ Len(trks') = n /\ DOMAIN trks' = 1 .. n /\ trks'[n] = new
        /\ \A j \in 1 .. n : j # n => trks'[j] = trks[j]
    BY <1>0, <2>1, <2>2, <2>4
  <2>9. \A j \in 1 .. n : trks'[j].id_trk = trks[j].id_trk  BY <2>1, <2>4, <2>8
  <2>10. \A j \in 1 .. n : j # n => trks[j].id_trk # row.id_trk
    <3>1. ASSUME NEW j \in 1 .. n, j # n PROVE trks[j].id_trk < trks[n].id_trk
      <4>1. j < n
        <5> HIDE DEF n
        <5> QED  BY <1>10, <3>1
      <4> QED  BY <1>5, <2>1, <4>1
    <3> QED  BY <1>6, <1>9, <2>1, <3>1
  <2>11. \A j \in 1 .. n : /\ Len(trks'[j].pists) = Cardinality(Of(more, trks'[j].id_trk))
                           /\ RowsOf(trks'[j]) = Of(more, trks'[j].id_trk)
    <3>1. ASSUME NEW j \in 1 .. n, j # n
          PROVE  trks'[j] = trks[j] /\ Of(more, trks[j].id_trk) = Of(rows, trks[j].id_trk)
      BY <1>3, <2>8, <2>10, <3>1
    <3>2. Len(new.pists) = Cardinality(Of(more, new.id_trk)) /\ RowsOf(new) = Of(more, new.id_trk)
      BY <1>3, <2>4, <2>5, <2>6, <2>7
    <3> QED  BY <1>5, <2>8, <3>1, <3>2
  <2>12. {trks'[j].id_trk : j \in 1 .. n} = {r.id_trk : r \in more}
    <3>1. {trks'[j].id_trk : j \in 1 .. n} = {trks[j].id_trk : j \in 1 .. n}  BY <2>9
    <3>2. {r.id_trk : r \in more} = {r.id_trk : r \in rows} \cup {row.id_trk}  OBVIOUS
    <3>3. row.id_trk \in {trks[j].id_trk : j \in 1 .. n}  BY <2>1
    <3> QED  BY <1>5, <3>1, <3>2, <3>3
  <2>13. Grouped(trks', more)
    <3>1. \A j, k \in 1 .. n : j < k => trks'[j].id_trk < trks'[k].id_trk  BY <1>5, <2>9
    <3> QED  BY <2>8, <2>11, <2>12, <3>1 DEF Grouped
  <2>14. n # 0
    <3> HIDE DEF n
    <3> QED  BY <1>10, <2>1
  <2> QED  BY <2>4, <2>8, <2>13, <2>14
<1>8. CASE row.id_trk # last_idtkr
  <2> DEFINE new == [id_trk |-> row.id_trk, pists |-> <<pist>>]
  <2>1. trks' = Append(trks, new)  BY <1>2, <1>8
  <2>2. new \in Pumps /\ new.id_trk = row.id_trk /\ new.pists = <<pist>>  BY <1>1 DEF Pumps
  <2>3. RowsOf(new) = {row}  BY <1>2, <1>4, <2>2 DEF RowsOf
  <2> HIDE DEF new
  <2>4. /\ trks' \in Seq(Pumps) /\ Len(trks') = n + 1 /\ DOMAIN trks' = 1 .. n + 1
        /\ trks'[n + 1] = new /\ \A j \in 1 .. n : trks'[j] = trks[j]
    BY <1>0, <2>1, <2>2
  <2>5. \A r \in rows : r.id_trk < row.id_trk  BY <1>8 DEF TypeInv
  <2>6. \A j \in 1 .. n : trks[j].id_trk < row.id_trk
    BY <1>11, <2>5
  <2>7. Of(rows, row.id_trk) = {}  BY <2>5 DEF Of
  <2>8. Of(more, row.id_trk) = {row} /\ Cardinality(Of(more, row.id_trk)) = 1
    <3>1. Of(more, row.id_trk) = {row}  BY <1>3, <2>7
    <3> QED  BY <3>1, FS_Singleton
  <2>9. \A j \in 1 .. n + 1 : /\ Len(trks'[j].pists) = Cardinality(Of(more, trks'[j].id_trk))
                              /\ RowsOf(trks'[j]) = Of(more, trks'[j].id_trk)
    <3>1. ASSUME NEW j \in 1 .. n
          PROVE  Of(more, trks[j].id_trk) = Of(rows, trks[j].id_trk)
      <4>1. trks[j].id_trk # row.id_trk  BY <1>6, <1>9, <2>6
      <4> QED  BY <1>3, <4>1
    <3>2. Len(new.pists) = 1  BY <2>2
    <3>3. ASSUME NEW j \in 1 .. n + 1 PROVE j \in 1 .. n \/ j = n + 1  BY <1>0
    <3> QED  BY <1>5, <2>2, <2>3, <2>4, <2>8, <3>1, <3>2, <3>3
  <2>10. {trks'[j].id_trk : j \in 1 .. n + 1} = {r.id_trk : r \in more}
    <3>1. 1 .. n + 1 = 1 .. n \cup {n + 1}  BY <1>0
    <3>2. {trks'[j].id_trk : j \in 1 .. n + 1} = {trks[j].id_trk : j \in 1 .. n} \cup {row.id_trk}
      BY <2>2, <2>4, <3>1
    <3> QED  BY <1>5, <3>2
  <2>11. \A j, k \in 1 .. n + 1 : j < k => trks'[j].id_trk < trks'[k].id_trk
    <3>1. ASSUME NEW j \in 1 .. n + 1, NEW k \in 1 .. n + 1, j < k
          PROVE  j \in 1 .. n /\ (k \in 1 .. n \/ k = n + 1)
      BY <1>0, <3>1
    <3> QED  BY <1>5, <2>2, <2>4, <2>6, <3>1
  <2>12. Grouped(trks', more)  BY <2>4, <2>9, <2>10, <2>11 DEF Grouped
  <2> QED  BY <1>0, <2>2, <2>4, <2>12
<1> QED  BY <1>7, <1>8

\* The row's pistol is the only new one.
LEMMA JoinedPists ==
  ASSUME trks \in Seq(Pumps), NEW row, trks' = Joined(row),
         NEW j \in DOMAIN trks', NEW k \in DOMAIN trks'[j].pists
  PROVE  \/ /\ j \in DOMAIN trks /\ k \in DOMAIN trks[j].pists
            /\ trks'[j].pists[k] = trks[j].pists[k]
         \/ trks'[j].pists[k] =
              [id_pist |-> row.id_pist, id_tank |-> row.id_tank, tank_ |-> Link(row)]
<1> DEFINE n    == Len(trks)
           pist == [id_pist |-> row.id_pist, id_tank |-> row.id_tank, tank_ |-> Link(row)]
<1>1. trks' = IF row.id_trk = last_idtkr
              THEN [trks EXCEPT ![n].pists = Append(@, pist)]
              ELSE Append(trks, [id_trk |-> row.id_trk, pists |-> <<pist>>])
  BY DEF Joined
<1> HIDE DEF pist
<1>2. n \in Nat /\ DOMAIN trks = 1 .. n /\ \A m \in 1 .. n : trks[m] \in Pumps  OBVIOUS
<1>3. \A t \in Pumps : t.pists \in Seq(Pistols)  BY DEF Pumps
<1>4. CASE row.id_trk = last_idtkr
  <2> DEFINE new == [trks[n] EXCEPT !.pists = Append(@, pist)]
  <2>1. trks' = [trks EXCEPT ![n] = new]  BY <1>1, <1>4
  <2>2. j \in DOMAIN trks  BY <2>1
  <2>3. CASE j # n
    <3> HIDE DEF new
    <3> QED  BY <2>1, <2>2, <2>3
  <2>4. CASE j = n
    <3> DEFINE q == trks[n].pists
    <3>1. q \in Seq(Pistols) /\ trks[n] \in Pumps  BY <1>2, <1>3, <2>2, <2>4
    <3>2. new.pists = Append(q, pist)  BY <3>1 DEF Pumps
    <3>3. trks'[j] = new  BY <2>1, <2>2, <2>4
    <3> HIDE DEF new, q
    <3>4. k \in DOMAIN Append(q, pist)  BY <3>2, <3>3
    <3>5. \/ k \in DOMAIN q /\ Append(q, pist)[k] = q[k]
          \/ Append(q, pist)[k] = pist
      BY <3>1, <3>4
    <3> QED  BY <2>2, <2>4, <3>2, <3>3, <3>5 DEF q, pist
  <2> QED  BY <2>3, <2>4
<1>5. CASE row.id_trk # last_idtkr
  <2> DEFINE new == [id_trk |-> row.id_trk, pists |-> <<pist>>]
  <2>1. trks' = Append(trks, new)  BY <1>1, <1>5
  <2>2. new.pists = <<pist>>  OBVIOUS
  <2> HIDE DEF new
  <2>3. (j \in DOMAIN trks /\ trks'[j] = trks[j]) \/ trks'[j] = new  BY <2>1
  <2>4. CASE j \in DOMAIN trks /\ trks'[j] = trks[j]  BY <2>4
  <2>5. CASE trks'[j] = new  BY <2>2, <2>5 DEF pist
  <2> QED  BY <2>3, <2>4, <2>5
<1> QED  BY <1>4, <1>5

-----------------------------------------------------------------------------
(* The steps keep the invariant.                                           *)

LEMMA InitPages == Init => IInv
<1> SUFFICES ASSUME Init PROVE IInv
  OBVIOUS
<1> USE DEF Init, LoopInit
<1>1. TypeInv  BY DEF TypeInv, Linked
<1>2. UnreadInv  BY DEF UnreadInv, Linked, Lists
<1>3. \A d \in Databases, q \in Queries : read[q] # d  BY NullAssumption DEF NullAssumption
<1>4. LinksInv /\ LoopInv  BY <1>3 DEF LinksInv, LoopInv, Queries
<1> QED  BY <1>1, <1>2, <1>4 DEF IInv

\* Steps that leave the lists and the loop alone.
LEMMA ListsKept ==
  ASSUME IInv, UNCHANGED <<tables, page, lists>>, con' \in Databases, isconn' \in BOOLEAN,
         \/ UNCHANGED <<wpc, loop>>
         \/ LoopLeft /\ wpc \in {"trk", "row"} /\ wpc' = "render"
         \/ UNCHANGED loop /\ wpc = "screen" /\ wpc' = "tovar"
         \/ UNCHANGED loop /\ wpc = "render" /\ wpc' \in {"idle", "dead"}
         \/ UNCHANGED loop /\ wpc = "dead" /\ wpc' = "idle"
  PROVE  TypeInv' /\ UnreadInv' /\ LinksInv' /\ LoopInv'
<1> USE DEF IInv, lists
<1>1. TypeInv'  BY DEF TypeInv, LoopLeft, loop
<1>2. UnreadInv'  BY DEF UnreadInv, FirstQuery, Linked, Lists
<1>3. LinksInv'  BY DEF LinksInv
<1>4. LoopInv'  BY DEF LoopInv, loop
<1> QED  BY <1>1, <1>2, <1>3, <1>4

LEMMA LoadKeeps ==
  ASSUME IInv, NEW p \in Linked \cup Lists, Load(p)
  PROVE  IInv'
<1> USE DEF IInv, Load
<1>1. FirstQuery(p) \in {"screen", "tovar", "tank", "trk"}  BY DEF FirstQuery, Linked, Lists
<1>2. TypeInv'  BY <1>1 DEF TypeInv, loop
<1>3. \A d \in Databases, q \in Queries : read'[q] # d  BY NullAssumption DEF NullAssumption
<1>4. UnreadInv'  BY <1>1 DEF UnreadInv, Queries
<1>5. LinksInv' /\ LoopInv'  BY <1>1, <1>3 DEF LinksInv, LoopInv, Queries
<1> QED  BY <1>1, <1>2, <1>4, <1>5

\* Returns leaves the loop alone and marks the list as read only if it is whole.
LEMMA QueryReturns ==
  ASSUME TypeInv, NEW q \in Queries, NEW next \in {"tank", "trk", "render"},
         NEW rows, NEW some \in PrefixesOf(rows), Returns(q, next, rows, some)
  PROVE  /\ UNCHANGED <<tables, con, page, shown, loop>>
         /\ isconn' \in BOOLEAN /\ wpc = q
         /\ wpc' = IF page \in Lists THEN "render" ELSE next
         /\ read' \in [Queries -> Databases \cup {NULL}]
         /\ \A r \in Queries \ {q} : read'[r] = read[r]
         /\ read'[q] = read[q] \/ (read'[q] = con /\ some = rows)
BY DEF TypeInv, Returns, Queries

LEMMA TovarsRead == IInv /\ ReadTovars => IInv'
<1> SUFFICES ASSUME IInv, ReadTovars PROVE IInv'
  OBVIOUS
<1> DEFINE rows == tables[con].tovar
<1>1. PICK some \in PrefixesOf(rows) :
        /\ Returns("tovar", "tank", rows, some)
        /\ tovars' = [k \in DOMAIN some |-> Tovar(some[k])]
  BY DEF ReadTovars
<1>2. UNCHANGED <<tanks, trks>>  BY DEF ReadTovars
<1>3. /\ UNCHANGED <<tables, con, page, shown, loop>>
      /\ isconn' \in BOOLEAN /\ wpc = "tovar"
      /\ wpc' = IF page \in Lists THEN "render" ELSE "tank"
      /\ read' \in [Queries -> Databases \cup {NULL}]
      /\ \A r \in Queries \ {"tovar"} : read'[r] = read[r]
      /\ read'["tovar"] = read["tovar"] \/ (read'["tovar"] = con /\ some = rows)
  <2> HIDE DEF rows
  <2> QED  BY <1>1, QueryReturns DEF IInv, Queries
<1>4. rows \in Seq([id_tovar : Nat, price : Nat])
  BY ContentsAssumption DEF ContentsAssumption, IInv, TypeInv
<1> HIDE DEF rows
<1>5. tovars' \in Seq(Fuels) /\ (page \in Linked => tovars' = some)
  <2> DEFINE Rows == [id_tovar : Nat, price : Nat]
  <2>1. rows \in Seq(Rows)  BY <1>4
  <2>2. /\ some \in Seq(Rows) /\ Len(some) \in Nat /\ DOMAIN some = 1 .. Len(some)
        /\ \A k \in 1 .. Len(some) : some[k] \in Rows
    <3> HIDE DEF Rows
    <3> QED  BY <1>1, <2>1, PrefixRows
  <2>3. \A row \in [id_tovar : Nat, price : Nat] : Tovar(row) \in Fuels
    BY DEF Tovar, Fuels, NoPrice
  <2>4. page \in Linked => \A k \in DOMAIN some : Tovar(some[k]) = some[k]
    BY DEF Tovar, Linked, Lists
  <2>5. /\ tovars' = [k \in 1 .. Len(some) |-> Tovar(some[k])]
        /\ Len(some) \in Nat /\ some = [k \in 1 .. Len(some) |-> some[k]]
    <3> HIDE DEF Rows
    <3> QED  BY <1>1, <2>2
  <2>6. \A k \in 1 .. Len(some) : Tovar(some[k]) \in Fuels  BY <2>2, <2>3
  <2>7. tovars' \in Seq(Fuels)  BY <2>5, <2>6
  <2>8. page \in Linked => tovars' = some  BY <2>2, <2>4, <2>5
  <2> QED  BY <2>7, <2>8
<1>6. tanks = <<>> /\ trks = <<>> /\ read["tank"] = NULL /\ read["trk"] = NULL /\ read["tovar"] = NULL
  BY <1>3 DEF IInv, UnreadInv
<1>7. TypeInv'  BY <1>2, <1>3, <1>5 DEF IInv, TypeInv, loop
<1>8. UnreadInv'
  BY <1>2, <1>3, <1>6 DEF IInv, UnreadInv, FirstQuery, Queries, Lists
<1>9. \A d \in Databases : d # NULL  BY NullAssumption DEF NullAssumption
<1>10. LinksInv'
  BY <1>2, <1>3, <1>5, <1>6, <1>9 DEF LinksInv, Queries, rows
<1>11. LoopInv'  BY <1>2, <1>3, <1>6, <1>9 DEF LoopInv, Queries
<1> QED  BY <1>3, <1>7, <1>8, <1>10, <1>11 DEF IInv

LEMMA TanksRead == IInv /\ ReadTanks => IInv'
<1> SUFFICES ASSUME IInv, ReadTanks PROVE IInv'
  OBVIOUS
<1> DEFINE rows == tables[con].tank
           Rows == [id_tank : Nat, id_tovar : Nat]
<1>1. PICK some \in PrefixesOf(rows) :
        /\ Returns("tank", "trk", rows, some)
        /\ tanks' = [k \in DOMAIN some |-> Tank(some[k])]
  BY DEF ReadTanks
<1>2. UNCHANGED <<tovars, trks>>  BY DEF ReadTanks
<1>3. /\ UNCHANGED <<tables, con, page, shown, loop>>
      /\ isconn' \in BOOLEAN /\ wpc = "tank"
      /\ wpc' = IF page \in Lists THEN "render" ELSE "trk"
      /\ read' \in [Queries -> Databases \cup {NULL}]
      /\ \A r \in Queries \ {"tank"} : read'[r] = read[r]
      /\ read'["tank"] = read["tank"] \/ (read'["tank"] = con /\ some = rows)
  <2> HIDE DEF rows
  <2> QED  BY <1>1, QueryReturns DEF IInv, Queries
<1>4. rows \in Seq(Rows)
  BY ContentsAssumption DEF ContentsAssumption, IInv, TypeInv
<1> HIDE DEF rows
<1>5. /\ some \in Seq(Rows) /\ Len(some) \in Nat /\ DOMAIN some = 1 .. Len(some)
      /\ \A k \in 1 .. Len(some) : some[k] \in Rows
  <2> HIDE DEF Rows
  <2> QED  BY <1>1, <1>4, PrefixRows
<1>6. \A row \in Rows :
        /\ Tank(row) \in Stored
        /\ Tank(row).id_tank = row.id_tank /\ Tank(row).id_tovar = row.id_tovar
        /\ \A j \in DOMAIN tovars : tovars[j].id_tovar = row.id_tovar =>
             Tank(row).tovar_ \in ToSet(tovars) /\ Tank(row).tovar_.id_tovar = row.id_tovar
  BY TankHasFuel DEF IInv, TypeInv
<1>7. /\ tanks' \in Seq(Stored) /\ Len(tanks') = Len(some) /\ DOMAIN tanks' = 1 .. Len(some)
      /\ \A k \in 1 .. Len(some) :
           /\ tanks'[k].id_tank = some[k].id_tank /\ tanks'[k].id_tovar = some[k].id_tovar
           /\ \A j \in DOMAIN tovars : tovars[j].id_tovar = some[k].id_tovar =>
                tanks'[k].tovar_ \in ToSet(tovars) /\ tanks'[k].tovar_.id_tovar = some[k].id_tovar
  <2>1. tanks' = [k \in 1 .. Len(some) |-> Tank(some[k])]  BY <1>1, <1>5
  <2> HIDE DEF Rows
  <2> QED  BY <1>5, <1>6, <2>1
<1>8. trks = <<>> /\ read["trk"] = NULL
  BY <1>3 DEF IInv, UnreadInv
<1>9. TypeInv'  BY <1>2, <1>3, <1>7 DEF IInv, TypeInv, loop
<1>10. UnreadInv'
  BY <1>2, <1>3, <1>8 DEF IInv, UnreadInv, FirstQuery, Queries, Lists
<1>11. \A d \in Databases : d # NULL  BY NullAssumption DEF NullAssumption
<1>12. LinksInv'
  <2>1. \A d \in Databases : page \in Linked /\ read["tovar"] = d => tovars = tables[d].tovar
    BY DEF IInv, LinksInv
  <2>2. ASSUME NEW d \in Databases, read'["tank"] = d
        PROVE  /\ Len(tanks') = Len(tables[d].tank)
               /\ \A k \in DOMAIN tanks' : /\ tanks'[k].id_tank = tables[d].tank[k].id_tank
                                           /\ tanks'[k].id_tovar = tables[d].tank[k].id_tovar
    <3>1. CASE read'["tank"] = con /\ some = rows  BY <1>5, <1>7, <2>2, <3>1 DEF rows
    <3>2. CASE read'["tank"] = read["tank"]
      <4>1. read["tank"] = NULL  BY <1>3 DEF IInv, UnreadInv
      <4> QED  BY <1>11, <2>2, <3>2, <4>1
    <3> QED  BY <1>3, <3>1, <3>2
  <2> QED  BY <1>2, <1>3, <1>7, <1>8, <2>1, <2>2 DEF LinksInv, Queries
<1>13. LoopInv'  BY <1>2, <1>3, <1>8, <1>11 DEF LoopInv, Queries
<1> QED  BY <1>3, <1>9, <1>10, <1>12, <1>13 DEF IInv

LEMMA TrksSelected == IInv /\ SelectTrks => IInv'
<1> SUFFICES ASSUME IInv, SelectTrks PROVE IInv'
  OBVIOUS
<1> USE DEF IInv, SelectTrks, lists
<1>1. trks = <<>> /\ read["trk"] = NULL  BY DEF UnreadInv
<1>2. TypeInv'  BY DEF TypeInv
<1>3. UnreadInv'  BY <1>1 DEF UnreadInv, FirstQuery, Lists, Linked
<1>4. LinksInv'  BY DEF LinksInv
<1>5. LoopInv'
  <2>1. con \in Databases /\ tables[con] \in Contents  BY DEF TypeInv
  <2>2. Len(res') \in Nat  BY <2>1, RowsOfJoin, ContentsAssumption
  <2>3. {res'[m] : m \in 1 .. taken'} = {}  OBVIOUS
  <2>4. Grouped(trks', {res'[m] : m \in 1 .. taken'})  BY <1>1, <2>3 DEF Grouped
  <2>5. \A d \in Databases : d # NULL  BY NullAssumption DEF NullAssumption
  <2> QED  BY <1>1, <2>1, <2>2, <2>4, <2>5 DEF LoopInv
<1> QED  BY <1>2, <1>3, <1>4, <1>5

LEMMA RowTaken == IInv /\ NextRow => IInv'
<1> SUFFICES ASSUME IInv, NextRow PROVE IInv'
  OBVIOUS
<1> DEFINE c    == tables[from]
           rows == {res[m] : m \in 1 .. taken}
           row  == res[taken + 1]
<1>1. /\ wpc = "row" /\ taken < Len(res)
      /\ trks' = Joined(row) /\ tank_' = Link(row) /\ last_idtkr' = row.id_trk
      /\ taken' = taken + 1
      /\ UNCHANGED <<tables, con, isconn, wpc, page, tovars, tanks, read, shown, res, from>>
  BY DEF NextRow
<1>2. /\ from \in Databases /\ res \in JoinedRows(c) /\ taken \in 0 .. Len(res)
      /\ Grouped(trks, rows)
      /\ taken = 0 => trks = <<>> /\ last_idtkr = -1
      /\ taken > 0 => /\ trks # <<>> /\ last_idtkr = res[taken].id_trk
                      /\ trks[Len(trks)].id_trk = last_idtkr
  BY <1>1 DEF IInv, LoopInv
<1>3. c \in Contents  BY <1>2 DEF IInv, TypeInv
<1>4. /\ Join(c) \subseteq [id_trk : Nat, id_pist : Nat, id_tank : Nat]
      /\ IsFiniteSet(Join(c)) /\ res \in Seq(Join(c)) /\ ToSet(res) = Join(c)
      /\ \A j, k \in DOMAIN res : res[j] = res[k] => j = k
      /\ \A j, k \in DOMAIN res : j <= k => res[j].id_trk <= res[k].id_trk
  <2> HIDE DEF c
  <2> QED  BY <1>2, <1>3, RowsOfJoin, ContentsAssumption
<1>5. /\ taken \in Nat /\ Len(res) \in Nat /\ DOMAIN res = 1 .. Len(res)
      /\ taken + 1 \in DOMAIN res /\ 1 .. taken \subseteq DOMAIN res
  BY <1>1, <1>2, <1>4
<1>6. \A m \in DOMAIN res : res[m] \in Join(c)  BY <1>4 DEF ToSet
<1>7. \A m \in DOMAIN res : res[m] \in [id_trk : Nat, id_pist : Nat, id_tank : Nat]
  BY <1>4, <1>6
<1> HIDE DEF c
<1>8. IsFiniteSet(rows) /\ row \notin rows
  <2>1. rows \subseteq Join(c)  BY <1>5, <1>6
  <2>2. \A m \in 1 .. taken : res[m] # res[taken + 1]
    <3>1. \A m \in 1 .. taken : m # taken + 1  BY <1>5
    <3> QED  BY <1>4, <1>5, <3>1
  <2> QED  BY <1>4, <2>1, <2>2, FS_Subset
<1>9. rows \cup {row} = {res'[m] : m \in 1 .. taken'}
  <2>1. 1 .. taken + 1 = 1 .. taken \cup {taken + 1}  BY <1>5
  <2> QED  BY <1>1, <2>1
<1>10. \A r \in rows : r.id_trk \in Nat /\ r.id_trk <= last_idtkr /\ last_idtkr <= row.id_trk
  <2>1. ASSUME NEW m \in 1 .. taken
        PROVE  /\ res[m].id_trk \in Nat /\ res[m].id_trk <= res[taken].id_trk
               /\ res[taken].id_trk <= row.id_trk /\ last_idtkr = res[taken].id_trk
    <3>1. m <= taken /\ taken <= taken + 1 /\ taken > 0 /\ m \in DOMAIN res /\ taken \in DOMAIN res
      BY <1>5
    <3> QED  BY <1>2, <1>4, <1>5, <1>7, <3>1
  <2> QED  BY <2>1
<1>11. /\ rows = {} => trks = <<>> /\ last_idtkr = -1
       /\ rows # {} => trks # <<>> /\ trks[Len(trks)].id_trk = last_idtkr
  <2>1. taken = 0 \/ taken > 0  BY <1>5
  <2>2. taken > 0 => rows # {}  BY <1>5
  <2>3. taken = 0 => rows = {}  OBVIOUS
  <2> QED  BY <1>2, <2>1, <2>2, <2>3
<1>12. row \in [id_trk : Nat, id_pist : Nat, id_tank : Nat]  BY <1>5, <1>7
<1> HIDE DEF rows, row
<1>13. /\ trks' \in Seq(Pumps)
       /\ Grouped(trks', rows \cup {row})
       /\ trks' # <<>> /\ trks'[Len(trks')].id_trk = row.id_trk
  BY <1>1, <1>2, <1>8, <1>10, <1>11, <1>12, JoinedGroups, NullAssumption DEF IInv
<1>14. /\ Link(row) \in Stored \cup {NULL}
       /\ \A t \in DOMAIN tanks : tanks[t].id_tank = row.id_tank =>
            Link(row) \in ToSet(tanks) /\ Link(row).id_tank = row.id_tank
  BY LinkFindsTank, NullAssumption DEF IInv, TypeInv
<1>15. TypeInv'  BY <1>1, <1>12, <1>13, <1>14 DEF IInv, TypeInv
<1>16. UnreadInv'  BY <1>1 DEF IInv, UnreadInv, FirstQuery
<1>17. LinksInv'
  <2>1. ASSUME NEW j \in DOMAIN trks', NEW k \in DOMAIN trks'[j].pists, NEW t \in DOMAIN tanks,
               tanks[t].id_tank = trks'[j].pists[k].id_tank
        PROVE  /\ trks'[j].pists[k].tank_ \in ToSet(tanks)
               /\ trks'[j].pists[k].tank_.id_tank = trks'[j].pists[k].id_tank
    <3> DEFINE pist == [id_pist |-> row.id_pist, id_tank |-> row.id_tank, tank_ |-> Link(row)]
    <3>1. \/ j \in DOMAIN trks /\ k \in DOMAIN trks[j].pists /\ trks'[j].pists[k] = trks[j].pists[k]
          \/ trks'[j].pists[k] = pist
      BY JoinedPists, <1>1 DEF IInv, TypeInv
    <3>2. CASE trks'[j].pists[k] = pist  BY <1>14, <2>1, <3>2
    <3>3. CASE j \in DOMAIN trks /\ k \in DOMAIN trks[j].pists
               /\ trks'[j].pists[k] = trks[j].pists[k]
      BY <2>1, <3>3 DEF IInv, LinksInv
    <3> QED  BY <3>1, <3>2, <3>3
  <2> QED  BY <1>1, <2>1 DEF IInv, LinksInv
<1>18. LoopInv'
  <2>1. taken' \in 0 .. Len(res') /\ taken' > 0 /\ res'[taken'] = row  BY <1>1, <1>5 DEF row
  <2>2. from' \in Databases /\ res' \in JoinedRows(tables'[from'])  BY <1>1, <1>2 DEF c
  <2>3. Grouped(trks', {res'[m] : m \in 1 .. taken'})  BY <1>9, <1>13
  <2>4. \A d \in Databases : read'["trk"] # d
    BY <1>1, NullAssumption DEF IInv, UnreadInv, NullAssumption
  <2> QED  BY <1>1, <1>13, <2>1, <2>2, <2>3, <2>4 DEF LoopInv
<1> QED  BY <1>1, <1>15, <1>16, <1>17, <1>18 DEF IInv

\* An exception leaves nothing but what was read.
LEMMA RowsEnd == IInv /\ (LastRow \/ TrksFail) => IInv'
<1> SUFFICES ASSUME IInv, LastRow \/ TrksFail PROVE IInv'
  OBVIOUS
<1>1. CASE TrksFail
  <2>1. TypeInv' /\ UnreadInv' /\ LinksInv' /\ LoopInv'
    BY <1>1, ListsKept DEF TrksFail, IInv, TypeInv
  <2> QED  BY <1>1, <2>1 DEF TrksFail, IInv
<1>2. CASE LastRow
  <2> USE DEF IInv
  <2>1. /\ wpc = "row" /\ taken = Len(res) /\ wpc' = "render"
        /\ read' = [read EXCEPT !["trk"] = from] /\ LoopLeft
        /\ UNCHANGED <<tables, con, isconn, page, tovars, tanks, trks, shown>>
    BY <1>2 DEF LastRow
  <2>2. /\ from \in Databases /\ res \in JoinedRows(tables[from])
        /\ Grouped(trks, {res[m] : m \in 1 .. taken})
    BY <2>1 DEF LoopInv
  <2>3. read' \in [Queries -> Databases \cup {NULL}] /\ read'["trk"] = from
        /\ \A q \in Queries \ {"trk"} : read'[q] = read[q]
    BY <2>1, <2>2 DEF TypeInv, Queries
  <2>4. TypeInv'  BY <2>1, <2>3 DEF TypeInv, LoopLeft
  <2>5. UnreadInv'
    <3>1. page \in Lists => page = "trks"  BY <2>1 DEF UnreadInv, FirstQuery, Lists
    <3> QED  BY <2>1, <2>3, <3>1 DEF UnreadInv, FirstQuery, Queries, Lists
  <2>6. LinksInv'  BY <2>1, <2>3 DEF LinksInv, Queries
  <2>7. {res[m] : m \in 1 .. taken} = Join(tables[from])
    <3>1. tables[from] \in Contents  BY <2>2 DEF TypeInv
    <3>2. ToSet(res) = Join(tables[from]) /\ DOMAIN res = 1 .. Len(res)
      BY <2>2, <3>1, RowsOfJoin, ContentsAssumption
    <3> QED  BY <2>1, <3>2 DEF ToSet
  <2>8. LoopInv'  BY <2>1, <2>2, <2>3, <2>7 DEF LoopInv
  <2> QED  BY <2>1, <2>4, <2>5, <2>6, <2>8
<1> QED  BY <1>1, <1>2

LEMMA OthersKeep ==
  ASSUME IInv, \/ \E d \in Databases : Switch(d)
               \/ ReadScreen \/ Render \/ Restart \/ UNCHANGED vars
  PROVE  IInv'
<1> USE DEF IInv
<1>1. ASSUME NEW d \in Databases, Switch(d) PROVE IInv'
  <2>1. TypeInv' /\ UnreadInv' /\ LinksInv' /\ LoopInv'  BY <1>1, ListsKept DEF Switch
  <2> QED  BY <1>1, <2>1 DEF Switch, lists, Renderable, SoundPists
<1>2. CASE ReadScreen
  <2>1. TypeInv' /\ UnreadInv' /\ LinksInv' /\ LoopInv'
    BY <1>2, ListsKept DEF ReadScreen, TypeInv
  <2> QED  BY <1>2, <2>1 DEF ReadScreen
<1>3. CASE Render
  <2>1. TypeInv' /\ UnreadInv' /\ LinksInv' /\ LoopInv'
    BY <1>3, ListsKept DEF Render, TypeInv
  <2> QED  BY <1>3, <2>1 DEF Render, lists, Renderable, SoundPists
<1>4. CASE Restart
  <2>1. TypeInv' /\ UnreadInv' /\ LinksInv' /\ LoopInv'
    BY <1>4, ListsKept DEF Restart, TypeInv
  <2> QED  BY <1>4, <2>1 DEF Restart
<1>5. CASE UNCHANGED vars
  <2>1. TypeInv' /\ UnreadInv' /\ LinksInv' /\ LoopInv'
    BY <1>5, ListsKept DEF vars, TypeInv
  <2> QED  BY <1>5, <2>1 DEF vars, lists, Renderable, SoundPists
<1> QED  BY <1>1, <1>2, <1>3, <1>4, <1>5

\* The invariant of the pages: the lists come from the databases they were read
\* from, the loop has built the pumps of the rows it has taken, and what was read
\* is linked.
THEOREM PagesInvariance == Spec => []IInv
<1>1. Init => IInv  BY InitPages
<1>2. IInv /\ [Next]_vars => IInv'
  <2> SUFFICES ASSUME IInv, [Next]_vars PROVE IInv'
    OBVIOUS
  <2>1. ASSUME NEW p \in Linked \cup Lists, Load(p) PROVE IInv'  BY <2>1, LoadKeeps
  <2>2. CASE ReadTrks  BY <2>2, TrksSelected, RowTaken, RowsEnd DEF ReadTrks
  <2> QED  BY <2>1, <2>2, TovarsRead, TanksRead, OthersKeep DEF Next
<1> QED  BY <1>1, <1>2, PTL DEF Spec

-----------------------------------------------------------------------------
(* The properties of the runs.                                             *)

\* PumpsGrouped: the pumps are those of the table with a pistol, each once, in
\* order, with exactly its pistols.
THEOREM PumpsAreGrouped == Spec => []PumpsGrouped
<1>1. ASSUME IInv PROVE PumpsGrouped
  <2> SUFFICES ASSUME NEW d \in Databases, read["trk"] = d
               PROVE  LET c == tables[d] IN
                      /\ \A j, k \in DOMAIN trks : j < k => trks[j].id_trk < trks[k].id_trk
                      /\ {trks[j].id_trk : j \in DOMAIN trks}
                           = {id \in c.com_trk : Of(c.trk, id) # {}}
                      /\ \A j \in DOMAIN trks :
                           /\ Len(trks[j].pists) = Cardinality(Of(c.trk, trks[j].id_trk))
                           /\ RowsOf(trks[j]) = Of(c.trk, trks[j].id_trk)
    BY DEF PumpsGrouped
  <2> DEFINE c == tables[d]
  <2>1. /\ \A j, k \in DOMAIN trks : j < k => trks[j].id_trk < trks[k].id_trk
        /\ {trks[j].id_trk : j \in DOMAIN trks} = {row.id_trk : row \in Join(c)}
        /\ \A j \in DOMAIN trks :
             /\ Len(trks[j].pists) = Cardinality(Of(Join(c), trks[j].id_trk))
             /\ RowsOf(trks[j]) = Of(Join(c), trks[j].id_trk)
    BY <1>1 DEF IInv, LoopInv, Grouped
  <2> HIDE DEF c
  <2>2. \A id \in c.com_trk : Of(Join(c), id) = Of(c.trk, id)  BY DEF Of, Join
  <2>3. {row.id_trk : row \in Join(c)} = {id \in c.com_trk : Of(c.trk, id) # {}}  BY DEF Of, Join
  <2>4. \A j \in DOMAIN trks : trks[j].id_trk \in c.com_trk
    <3> SUFFICES ASSUME NEW j \in DOMAIN trks PROVE trks[j].id_trk \in c.com_trk
      OBVIOUS
    <3>1. trks[j].id_trk \in {trks[k].id_trk : k \in DOMAIN trks}  OBVIOUS
    <3> QED  BY <2>1, <2>3, <3>1, Zenon
  <2> QED  BY <2>1, <2>2, <2>3, <2>4 DEF c
<1> QED  BY <1>1, PagesInvariance, PTL

\* In one complete database every pistol has its tank, and every tank its fuel.
LEMMA WholeIsLinked ==
  ASSUME IInv, NEW d \in Databases, FromOne(d), Complete(tables[d])
  PROVE  /\ page \in Linked
         /\ \A j \in DOMAIN trks : \A k \in DOMAIN trks[j].pists :
              LET pist == trks[j].pists[k] IN
              \E t \in DOMAIN tanks : /\ pist.tank_ = tanks[t] /\ pist.tank_.id_tank = pist.id_tank
                                      /\ tanks[t].id_tank = tables[d].tank[t].id_tank
                                      /\ tanks[t].id_tovar = tables[d].tank[t].id_tovar
                                      /\ t \in DOMAIN tables[d].tank
         /\ read["tovar"] = d =>
              \A t \in DOMAIN tanks : /\ tanks[t].tovar_ \in ToSet(tables[d].tovar)
                                      /\ tanks[t].tovar_.id_tovar = tanks[t].id_tovar
<1> DEFINE c == tables[d]
<1>1. read["tank"] = d /\ read["trk"] = d  BY DEF FromOne
<1>2. page \in Linked
  BY <1>1, NullAssumption DEF NullAssumption, IInv, UnreadInv, TypeInv, Queries, FirstQuery, Lists
<1>3. c \in Contents  BY DEF IInv, TypeInv
<1>4. c.tank \in Seq([id_tank : Nat, id_tovar : Nat])  BY <1>3, ContentsAssumption DEF ContentsAssumption
<1>5. /\ DOMAIN tanks = DOMAIN c.tank
      /\ \A t \in DOMAIN tanks : /\ tanks[t].id_tank = c.tank[t].id_tank
                                 /\ tanks[t].id_tovar = c.tank[t].id_tovar
  <2>1. Len(tanks) = Len(c.tank)  BY <1>1 DEF IInv, LinksInv
  <2>2. DOMAIN tanks = 1 .. Len(tanks) /\ DOMAIN c.tank = 1 .. Len(c.tank)
    BY <1>4 DEF IInv, TypeInv
  <2> QED  BY <1>1, <2>1, <2>2 DEF IInv, LinksInv
<1>6. ASSUME NEW j \in DOMAIN trks, NEW k \in DOMAIN trks[j].pists
      PROVE  LET pist == trks[j].pists[k] IN
             \E t \in DOMAIN tanks : /\ pist.tank_ = tanks[t] /\ pist.tank_.id_tank = pist.id_tank
                                     /\ tanks[t].id_tank = c.tank[t].id_tank
                                     /\ tanks[t].id_tovar = c.tank[t].id_tovar
                                     /\ t \in DOMAIN c.tank
  <2> DEFINE pist == trks[j].pists[k]
  <2>1. \E row \in c.trk : row.id_tank = pist.id_tank
    <3>1. RowsOf(trks[j]) = Of(Join(c), trks[j].id_trk)  BY <1>1 DEF IInv, LoopInv, Grouped
    <3> DEFINE row == [id_trk |-> trks[j].id_trk, id_pist |-> pist.id_pist, id_tank |-> pist.id_tank]
    <3>2. row \in RowsOf(trks[j])  BY DEF RowsOf
    <3>3. row \in c.trk /\ row.id_tank = pist.id_tank  BY <3>1, <3>2 DEF Of, Join
    <3> QED  BY <3>3
  <2>2. \E t \in DOMAIN c.tank : c.tank[t].id_tank = pist.id_tank  BY <2>1 DEF Complete
  <2>3. \E t \in DOMAIN tanks : tanks[t].id_tank = pist.id_tank  BY <1>5, <2>2
  <2>4. pist.tank_ \in ToSet(tanks) /\ pist.tank_.id_tank = pist.id_tank
    BY <2>3 DEF IInv, LinksInv
  <2> QED  BY <1>5, <2>4 DEF ToSet
<1>7. ASSUME read["tovar"] = d, NEW t \in DOMAIN tanks
      PROVE  /\ tanks[t].tovar_ \in ToSet(c.tovar)
             /\ tanks[t].tovar_.id_tovar = tanks[t].id_tovar
  <2>1. tovars = c.tovar  BY <1>2, <1>7 DEF IInv, LinksInv
  <2>2. \E j \in DOMAIN tovars : tovars[j].id_tovar = tanks[t].id_tovar  BY <1>5, <2>1 DEF Complete
  <2> QED  BY <2>1, <2>2 DEF IInv, LinksInv
<1> QED  BY <1>2, <1>6, <1>7

\* OwnTank: in one complete database no pistol shows the tank, the fuel or the
\* price of another.
THEOREM PistolsOwnTank == Spec => []OwnTank
<1>1. ASSUME IInv PROVE OwnTank
  <2> SUFFICES ASSUME NEW d \in Databases, FromOne(d), Complete(tables[d]),
                      NEW j \in DOMAIN trks, NEW k \in DOMAIN trks[j].pists
               PROVE  LET pist == trks[j].pists[k] IN
                      /\ pist.tank_ # NULL /\ pist.tank_.id_tank = pist.id_tank
                      /\ read["tovar"] = d =>
                           /\ pist.tank_.tovar_ \in ToSet(tables[d].tovar)
                           /\ pist.tank_.tovar_.id_tovar = pist.tank_.id_tovar
                           /\ [id_tank |-> pist.id_tank, id_tovar |-> pist.tank_.id_tovar]
                                \in ToSet(tables[d].tank)
    BY DEF OwnTank
  <2> DEFINE pist == trks[j].pists[k]
             c    == tables[d]
  <2>1. PICK t \in DOMAIN tanks : /\ pist.tank_ = tanks[t] /\ pist.tank_.id_tank = pist.id_tank
                                  /\ tanks[t].id_tank = c.tank[t].id_tank
                                  /\ tanks[t].id_tovar = c.tank[t].id_tovar
                                  /\ t \in DOMAIN c.tank
    BY <1>1, WholeIsLinked
  <2>2. read["tovar"] = d => /\ tanks[t].tovar_ \in ToSet(c.tovar)
                             /\ tanks[t].tovar_.id_tovar = tanks[t].id_tovar
    BY <1>1, WholeIsLinked
  <2>3. tanks[t] \in Stored  BY <1>1 DEF IInv, TypeInv
  <2>4. c.tank[t] \in [id_tank : Nat, id_tovar : Nat]
    <3> DEFINE Rows == [id_tank : Nat, id_tovar : Nat]
    <3>1. c.tank \in Seq(Rows)
      BY <1>1, ContentsAssumption DEF ContentsAssumption, IInv, TypeInv
    <3> HIDE DEF Rows, c
    <3>2. c.tank[t] \in Rows  BY <2>1, <3>1
    <3> QED  BY <3>2 DEF Rows
  <2>5. c.tank[t] = [id_tank |-> pist.id_tank, id_tovar |-> pist.tank_.id_tovar]  BY <2>1, <2>4
  <2>6. pist.tank_ # NULL  BY <2>1, <2>3, NullAssumption DEF NullAssumption
  <2>7. c.tank[t] \in ToSet(c.tank)  BY <2>1 DEF ToSet
  <2> HIDE DEF pist, c
  <2>8. /\ pist.tank_ # NULL /\ pist.tank_.id_tank = pist.id_tank
        /\ read["tovar"] = d =>
             /\ pist.tank_.tovar_ \in ToSet(c.tovar)
             /\ pist.tank_.tovar_.id_tovar = pist.tank_.id_tovar
             /\ [id_tank |-> pist.id_tank, id_tovar |-> pist.tank_.id_tovar] \in ToSet(c.tank)
    BY <2>1, <2>2, <2>5, <2>6, <2>7
  <2> QED  BY <2>8 DEF pist, c
<1> QED  BY <1>1, PagesInvariance, PTL

\* CrashesExplained: a page that has read one complete database brings the
\* process down only as the configuration page of a station without pumps.
THEOREM PagesCrash == Spec => []CrashesExplained
<1>1. ASSUME IInv PROVE CrashesExplained
  <2> SUFFICES ASSUME wpc = "dead", NEW d \in Databases, FromOne(d), read["tovar"] = d,
                      Complete(tables[d]), page = "config" => trks # <<>>
               PROVE  FALSE
    BY DEF CrashesExplained, FromOne
  <2>1. \A t \in DOMAIN tanks : tanks[t] # NULL /\ tanks[t].tovar_ # NULL
    <3> SUFFICES ASSUME NEW t \in DOMAIN tanks PROVE tanks[t] # NULL /\ tanks[t].tovar_ # NULL
      OBVIOUS
    <3>1. tanks[t] \in Stored  BY <1>1 DEF IInv, TypeInv
    <3>2. tanks[t].tovar_ \in ToSet(tables[d].tovar)  BY <1>1, WholeIsLinked
    <3> DEFINE Rows == [id_tovar : Nat, price : Nat]
    <3>3. tables[d].tovar \in Seq(Rows)
      BY <1>1, ContentsAssumption DEF ContentsAssumption, IInv, TypeInv
    <3>4. tanks[t].tovar_ \in Rows
      <4> HIDE DEF Rows
      <4> QED  BY <3>2, <3>3 DEF ToSet
    <3>5. tanks[t].tovar_ \in Fuels  BY <3>4 DEF Fuels
    <3> QED  BY <3>1, <3>5, NullAssumption DEF NullAssumption
  <2>2. SoundPists
    <3> SUFFICES ASSUME NEW j \in DOMAIN trks, NEW k \in DOMAIN trks[j].pists
                 PROVE  Sound(trks[j].pists[k].tank_)
      BY DEF SoundPists
    <3>1. \E t \in DOMAIN tanks : trks[j].pists[k].tank_ = tanks[t]  BY <1>1, WholeIsLinked
    <3> QED  BY <2>1, <3>1 DEF Sound
  <2>3. Renderable  BY <2>1, <2>2 DEF Renderable
  <2> QED  BY <1>1, <2>3 DEF IInv
<1> QED  BY <1>1, PagesInvariance, PTL

=============================================================================
