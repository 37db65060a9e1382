---------------------------- MODULE ConfigProofs ----------------------------
(***************************************************************************)
(* Proofs about StationConfig for any fuels, tanks, pumps and requests: a  *)
(* pistol number is never given twice, a "yes" to a save is true, and the  *)
(* statements implement StationTables.                                     *)
(***************************************************************************)
EXTENDS StationConfig, FiniteSetTheorems, TLAPS

USE RequestsAssumption, MaxNumberAssumption, FuelsAssumption

-----------------------------------------------------------------------------
(* The helpers.                                                            *)

\* The object in hand is one of those that a request may contain.
LEMMA ObjectInHand ==
  ASSUME TypeOK, wpc = "busy", i <= Len(request)
  PROVE  i \in DOMAIN request /\ Obj \in Object
<1>1. request \in Seq(Object)
  <2>1. <<>> \in Seq(Object)  OBVIOUS
  <2> QED  BY <2>1 DEF TypeOK
<1>2. i \in 1 .. Len(request)  BY <1>1 DEF TypeOK
<1> QED  BY <1>1, <1>2 DEF Obj

\* What sort of object it is decides what it holds.
LEMMA Fields ==
  ASSUME NEW o \in Object
  PROVE  /\ o.do = "set_Tovar" => o.id \in Fuels /\ o.to \in Values
         /\ o.do = "set_Tank" => o.id \in Tanks /\ o.to \in Fuels
         /\ o.do = "set_Trk" => o.id \in Pumps /\ o.to \in Values /\ o.pists \in Seq(Pistol)
         /\ o.do = "delete_Tovar" => o.id \in Fuels
         /\ o.do = "delete_Tank" => o.id \in Tanks
         /\ o.do = "delete_Trk" => o.id \in Pumps /\ o.pists \in Seq([pist : Nat])
         /\ o.do = "screen" => o.to \in Values
         /\ o.do = "place" => o.id \in Pumps /\ o.to \in Values
<1>1. CASE o \in [do : {"set_Tovar"}, id : Fuels, to : Values]  BY <1>1
<1>2. CASE o \in [do : {"set_Tank"}, id : Tanks, to : Fuels]  BY <1>2
<1>3. CASE o \in [do : {"set_Trk"}, id : Pumps, to : Values, pists : Seq(Pistol)]  BY <1>3
<1>4. CASE o \in [do : {"delete_Tovar"}, id : Fuels]  BY <1>4
<1>5. CASE o \in [do : {"delete_Tank"}, id : Tanks]  BY <1>5
<1>6. CASE o \in [do : {"delete_Trk"}, id : Pumps, pists : Seq([pist : Nat])]  BY <1>6
<1>7. CASE o \in [do : {"screen"}, to : Values]  BY <1>7
<1>8. CASE o \in [do : {"place"}, id : Pumps, to : Values]  BY <1>8
<1> QED  BY <1>1, <1>2, <1>3, <1>4, <1>5, <1>6, <1>7, <1>8 DEF Object

\* An UPDATE by id keeps the type of the rows.
LEMMA UpdateType ==
  ASSUME NEW S, NEW T, NEW rows \in [S -> T], NEW id \in S, NEW to \in T
  PROVE  Update(rows, id, to) \in [S -> T]
  BY DEF Update

\* Inserting a number that no row has keeps numbers apart.
LEMMA InsertedKeeps ==
  ASSUME NEW rows \in SUBSET Row, IsFiniteSet(rows), NEW pist \in Nat, NEW tank \in Tanks
  PROVE  LET new == Inserted(rows, pist, tank) IN
         /\ new \in SUBSET Row /\ IsFiniteSet(new)
         /\ \A row \in new : row \in rows \/ row.pist = pist
         /\ (\A row \in rows : row.pist # pist) /\
              (\A r1, r2 \in rows : r1.pist = r2.pist => r1 = r2)
            => \A r1, r2 \in new : r1.pist = r2.pist => r1 = r2
<1> DEFINE same == {row \in rows : row.pist = pist}
           one  == [pist |-> pist, copy |-> Cardinality(same), tank |-> tank]
<1>1. IsFiniteSet(same)  BY FS_Subset
<1>2. Cardinality(same) \in Nat  BY <1>1, FS_CardinalityType
<1>3. one \in Row  BY <1>2 DEF Row
<1>4. IsFiniteSet(rows \cup {one})  BY FS_AddElement
<1>5. Inserted(rows, pist, tank) = rows \cup {one}  BY DEF Inserted
<1> QED  BY <1>3, <1>4, <1>5

\* A change of tanks changes no number.
LEMMA RetankedKeeps ==
  ASSUME NEW rows \in SUBSET Row, IsFiniteSet(rows), NEW pist \in Nat, NEW tank \in Tanks
  PROVE  LET new == Retanked(rows, pist, tank) IN
         /\ new \in SUBSET Row /\ IsFiniteSet(new)
         /\ \A u \in new : \E row \in rows : u.pist = row.pist
         /\ (\A r1, r2 \in rows : r1.pist = r2.pist => r1 = r2)
            => \A r1, r2 \in new : r1.pist = r2.pist => r1 = r2
<1> DEFINE f == [row \in rows |-> IF row.pist = pist THEN [row EXCEPT !.tank = tank] ELSE row]
           new == Retanked(rows, pist, tank)
<1>1. new = {f[row] : row \in rows}  BY DEF Retanked
<1>2. f \in [rows -> new]  BY <1>1
<1>3. f \in Surjection(rows, new)  BY <1>1, <1>2 DEF Surjection
<1>4. IsFiniteSet(new)  BY <1>3, FS_Surjection
<1>5. \A row \in rows : f[row] \in Row /\ f[row].pist = row.pist  BY DEF Row
<1> HIDE DEF f, new
<1> QED  BY <1>1, <1>4, <1>5 DEF new

-----------------------------------------------------------------------------
(* IInv is inductive.                                                      *)

\* The tables as they are set up satisfy the invariant.
LEMMA InitIInv == Init => IInv
<1> SUFFICES ASSUME Init PROVE IInv
  OBVIOUS
<1>1. (CHOOSE f \in Fuels : TRUE) \in Fuels  OBVIOUS
<1>2. db \in Content  BY <1>1 DEF Init, Content
<1>3. TypeOK
  <2>1. Len(request) = 0  BY DEF Init
  <2>2. {here, isconn, disturbed, max_here, strayed, switched} \subseteq BOOLEAN
    BY DEF Init
  <2> QED  BY <1>2, <2>1, <2>2 DEF Init, TypeOK
<1>4. \A p \in Pumps : db.trk[p] = {}  BY DEF Init
<1>5. FiniteInv /\ PistolsUnique  BY <1>4, FS_EmptySet DEF FiniteInv, PistolsUnique
<1>6. NumbersInv /\ SaveInv /\ YesMeansSaved
  BY DEF Init, NumbersInv, SaveInv, YesMeansSaved, Doing
<1> QED  BY <1>3, <1>5, <1>6 DEF IInv

\* A failure that isconn records, or a statement that runs where con points,
\* leaves the answer of a save true.
LEMMA SaveKept ==
  ASSUME IInv, wpc = "busy",
         \/ UNCHANGED <<isconn, disturbed>>
         \/ UNCHANGED isconn /\ disturbed' = (disturbed \/ ~here)
         \/ isconn' = FALSE /\ disturbed' = TRUE,
         UNCHANGED <<here, wpc, request, answer, switched>>
  PROVE  SaveInv' /\ YesMeansSaved'
<1>1. IsSave' = IsSave  BY DEF IsSave
<1>2. {here, isconn, disturbed, switched} \subseteq BOOLEAN  BY DEF IInv, TypeOK
<1>3. answer' = "none"  BY DEF IInv, SaveInv
<1>4. ASSUME ~switched' PROVE here' /\ (IsSave' /\ isconn' => ~disturbed')
  <2>1. here /\ (IsSave /\ isconn => ~disturbed)  BY <1>4 DEF IInv, SaveInv
  <2>2. CASE UNCHANGED <<isconn, disturbed>>  BY <1>1, <2>1, <2>2
  <2>3. CASE UNCHANGED isconn /\ disturbed' = (disturbed \/ ~here)
    <3>1. disturbed' = disturbed  BY <1>2, <2>1, <2>3
    <3> QED  BY <1>1, <2>1, <2>3, <3>1
  <2>4. CASE isconn' = FALSE /\ disturbed' = TRUE  BY <2>1, <2>4
  <2> QED  BY <2>2, <2>3, <2>4
<1> QED  BY <1>3, <1>4 DEF SaveInv, YesMeansSaved

\* What a step leaves of the types, given the tables and the place it leaves.
LEMMA TypeKept ==
  ASSUME TypeOK, wpc = "busy", i <= Len(request), db' \in Content,
         \/ i' = i + 1 /\ at' = 0 /\ before' = db'
         \/ at' = at + 1 /\ UNCHANGED <<i, before>>,
         UNCHANGED <<here, wpc, request, answer, switched>>,
         max_id_pist' \in Nat, n' \in Nat, max_here' \in BOOLEAN,
         isconn' \in BOOLEAN, disturbed' \in BOOLEAN, strayed' \in BOOLEAN
  PROVE  TypeOK'
<1>1. request \in Seq(Object)
  <2>1. <<>> \in Seq(Object)  OBVIOUS
  <2> QED  BY <2>1 DEF TypeOK
<1>2. Len(request) \in Nat /\ i \in Nat  BY <1>1 DEF TypeOK
<1>3. i' \in 1 .. Len(request') + 1 /\ at' \in Nat  BY <1>2 DEF TypeOK
<1>4. before' \in Content  BY DEF TypeOK
<1> QED  BY <1>3, <1>4 DEF TypeOK

\* An object that takes one statement, which may remove pistols but not add any.
LEMMA SingleIInv ==
  ASSUME IInv, wpc = "busy", i <= Len(request), NEW after \in Content,
         \A p \in Pumps : after.trk[p] \subseteq db.trk[p], Single(after)
  PROVE  IInv'
<1> USE DEF Single, Works, Throws, NextObject, locals
<1>1. db' = db \/ db' = after  OBVIOUS
<1>2. isconn' \in BOOLEAN /\ disturbed' \in BOOLEAN  BY DEF IInv, TypeOK
<1>3. TypeOK'
  <2>1. db' \in Content  BY <1>1 DEF IInv, TypeOK
  <2> QED  BY <1>2, <2>1, TypeKept DEF IInv, TypeOK
<1>4. \A p \in Pumps : db'.trk[p] \subseteq db.trk[p]  BY <1>1
<1>5. FiniteInv'  BY <1>4, FS_Subset DEF IInv, FiniteInv
<1>6. PistolsUnique'  BY <1>4 DEF IInv, PistolsUnique
<1>7. NumbersInv'  BY DEF NumbersInv
<1>8. SaveInv' /\ YesMeansSaved'  BY SaveKept
<1> QED  BY <1>3, <1>5, <1>6, <1>7, <1>8 DEF IInv

\* The tables stay of their type when one of them changes within its type.
LEMMA ContentChanged ==
  ASSUME NEW c \in Content
  PROVE  /\ \A to \in Values : [c EXCEPT !.screen = to] \in Content
         /\ \A f \in [Fuels -> Values \cup {Absent}] : [c EXCEPT !.tovar = f] \in Content
         /\ \A f \in [Tanks -> Fuels \cup {Absent}] : [c EXCEPT !.tank = f] \in Content
         /\ \A f \in [Pumps -> Values \cup {Absent}] : [c EXCEPT !.com_trk = f] \in Content
         /\ \A f \in [Pumps -> SUBSET Row] : [c EXCEPT !.trk = f] \in Content
  BY DEF Content

\* The requests' objects of one statement.
LEMMA SinglesIInv ==
  ASSUME IInv,
         \/ SetTovar \/ SetTank \/ DeleteTovar \/ DeleteTank \/ DeletePump
         \/ SaveScreen \/ SavePlace
  PROVE  IInv'
<1> USE DEF Doing
<1>1. wpc = "busy" /\ i <= Len(request)
  BY DEF SetTovar, SetTank, DeleteTovar, DeleteTank, DeletePump, SaveScreen, SavePlace
<1>2. Obj \in Object  BY <1>1, ObjectInHand DEF IInv
<1>3. db \in Content  BY DEF IInv, TypeOK
<1>4. CASE SetTovar
  <2> DEFINE after == [db EXCEPT !.tovar = Update(@, Obj.id, Obj.to)]
  <2>1. Obj.id \in Fuels /\ Obj.to \in Values \cup {Absent}  BY <1>2, <1>4, Fields DEF SetTovar
  <2>2. Update(db.tovar, Obj.id, Obj.to) \in [Fuels -> Values \cup {Absent}]
    BY <1>3, <2>1, UpdateType DEF Content
  <2>3. after \in Content  BY <1>3, <2>2, ContentChanged
  <2>4. after.trk = db.trk  BY <1>3 DEF Content
  <2> QED  BY <1>1, <1>4, <2>3, <2>4, SingleIInv DEF SetTovar
<1>5. CASE SetTank
  <2> DEFINE after == [db EXCEPT !.tank = Update(@, Obj.id, Obj.to)]
  <2>1. Obj.id \in Tanks /\ Obj.to \in Fuels \cup {Absent}  BY <1>2, <1>5, Fields DEF SetTank
  <2>2. Update(db.tank, Obj.id, Obj.to) \in [Tanks -> Fuels \cup {Absent}]
    BY <1>3, <2>1, UpdateType DEF Content
  <2>3. after \in Content  BY <1>3, <2>2, ContentChanged
  <2>4. after.trk = db.trk  BY <1>3 DEF Content
  <2> QED  BY <1>1, <1>5, <2>3, <2>4, SingleIInv DEF SetTank
<1>6. CASE DeleteTovar
  <2> DEFINE after == [db EXCEPT !.tovar[Obj.id] = Absent]
  <2>1. after \in Content  BY <1>3 DEF Content
  <2>2. after.trk = db.trk  BY <1>3 DEF Content
  <2> QED  BY <1>1, <1>6, <2>1, <2>2, SingleIInv DEF DeleteTovar
<1>7. CASE DeleteTank
  <2> DEFINE after == [db EXCEPT !.tank[Obj.id] = Absent]
  <2>1. after \in Content  BY <1>3 DEF Content
  <2>2. after.trk = db.trk  BY <1>3 DEF Content
  <2> QED  BY <1>1, <1>7, <2>1, <2>2, SingleIInv DEF DeleteTank
<1>8. CASE DeletePump
  <2> DEFINE after == [db EXCEPT !.com_trk[Obj.id] = Absent]
  <2>1. after \in Content  BY <1>3 DEF Content
  <2>2. after.trk = db.trk  BY <1>3 DEF Content
  <2> QED  BY <1>1, <1>8, <2>1, <2>2, SingleIInv DEF DeletePump
<1>9. CASE SaveScreen
  <2> DEFINE after == [db EXCEPT !.screen = Obj.to]
  <2>1. Obj.to \in Values  BY <1>2, <1>9, Fields DEF SaveScreen
  <2>2. after \in Content  BY <1>3, <2>1, ContentChanged
  <2>3. after.trk = db.trk  BY <1>3 DEF Content
  <2> QED  BY <1>1, <1>9, <2>2, <2>3, SingleIInv DEF SaveScreen
<1>10. CASE SavePlace
  <2> DEFINE after == [db EXCEPT !.com_trk = Update(@, Obj.id, Obj.to)]
  <2>1. Obj.id \in Pumps /\ Obj.to \in Values \cup {Absent}  BY <1>2, <1>10, Fields DEF SavePlace
  <2>2. Update(db.com_trk, Obj.id, Obj.to) \in [Pumps -> Values \cup {Absent}]
    BY <1>3, <2>1, UpdateType DEF Content
  <2>3. after \in Content  BY <1>3, <2>2, ContentChanged
  <2>4. after.trk = db.trk  BY <1>3 DEF Content
  <2> QED  BY <1>1, <1>10, <2>3, <2>4, SingleIInv DEF SavePlace
<1> QED  BY <1>4, <1>5, <1>6, <1>7, <1>8, <1>9, <1>10

\* delete_Trk with a list of pistols.
LEMMA DeletePistsIInv == ASSUME IInv, DeletePist \/ DeletePistsEnd PROVE IInv'
<1> USE DEF Doing, NextStatement, NextObject, locals
<1>1. wpc = "busy" /\ i <= Len(request)  BY DEF DeletePist, DeletePistsEnd
<1>2. {here, isconn, disturbed, max_here, strayed, switched} \subseteq BOOLEAN /\ db \in Content
  BY DEF IInv, TypeOK
<1>3. CASE DeletePist
  <2> DEFINE gone  == Obj.pists[at + 1].pist
             after == [db EXCEPT !.trk[Obj.id] = {row \in @ : row.pist # gone}]
  <2>1. Obj.do = "delete_Trk" /\ (Works(after) \/ Throws(after))  BY <1>3 DEF DeletePist
  <2>2. after \in Content /\ \A p \in Pumps : after.trk[p] \subseteq db.trk[p]
    BY <1>2 DEF Content
  <2> HIDE DEF after
  <2>3. db' = db \/ db' = after  BY <2>1 DEF Works, Throws
  <2>4. db' \in Content /\ \A p \in Pumps : db'.trk[p] \subseteq db.trk[p]
    BY <1>2, <2>2, <2>3
  <2>5. isconn' \in BOOLEAN /\ disturbed' \in BOOLEAN  BY <1>2, <2>1 DEF Works, Throws
  <2>6. TypeOK'
    BY <1>1, <1>2, <1>3, <2>4, <2>5, TypeKept DEF DeletePist, IInv, TypeOK
  <2>7. FiniteInv'  BY <2>4, FS_Subset DEF IInv, FiniteInv
  <2>8. PistolsUnique'  BY <1>3, <2>4 DEF DeletePist, IInv, PistolsUnique
  <2>9. NumbersInv'  BY <1>3, <2>1 DEF DeletePist, NumbersInv, Obj
  <2>10. SaveInv' /\ YesMeansSaved'
    BY <1>1, <1>3, <2>1, SaveKept DEF DeletePist, Works, Throws
  <2> QED  BY <2>6, <2>7, <2>8, <2>9, <2>10 DEF IInv
<1>4. CASE DeletePistsEnd
  <2>1. TypeOK'  BY <1>1, <1>2, <1>4, TypeKept DEF DeletePistsEnd, IInv, TypeOK
  <2>2. FiniteInv' /\ PistolsUnique'
    BY <1>4 DEF DeletePistsEnd, IInv, FiniteInv, PistolsUnique
  <2>3. NumbersInv'  BY <1>4 DEF DeletePistsEnd, NumbersInv
  <2>4. SaveInv' /\ YesMeansSaved'  BY <1>1, <1>4, SaveKept DEF DeletePistsEnd
  <2> QED  BY <2>1, <2>2, <2>3, <2>4 DEF IInv
<1> QED  BY <1>3, <1>4

\* The first two statements of set_Trk, which leave the pistols alone.
LEMMA SetTrkStartIInv == ASSUME IInv, SetTrkPlace \/ SelectMax \/ SetTrkEnd PROVE IInv'
<1> USE DEF Doing, NextStatement, NextObject, locals
<1>1. wpc = "busy" /\ i <= Len(request) /\ Obj.do = "set_Trk"
  BY DEF SetTrkPlace, SelectMax, SetTrkEnd
<1>2. {here, isconn, disturbed, max_here, strayed, switched} \subseteq BOOLEAN /\ db \in Content
  BY DEF IInv, TypeOK
<1>3. Obj.id \in Pumps /\ Obj.to \in Values
  BY <1>1, ObjectInHand, Fields DEF IInv
<1>4. CASE SetTrkPlace
  <2> DEFINE after == [db EXCEPT !.com_trk = Update(@, Obj.id, Obj.to)]
  <2>1. (Works(after) /\ NextStatement) \/ (Throws(after) /\ NextObject)
    BY <1>4 DEF SetTrkPlace
  <2>2. Update(db.com_trk, Obj.id, Obj.to) \in [Pumps -> Values \cup {Absent}]
    BY <1>2, <1>3, UpdateType DEF Content
  <2>3. after \in Content /\ after.trk = db.trk  BY <1>2, <2>2, ContentChanged DEF Content
  <2> HIDE DEF after
  <2>4. db' = db \/ db' = after  BY <2>1 DEF Works, Throws
  <2>5. db' \in Content /\ db'.trk = db.trk  BY <1>2, <2>3, <2>4
  <2>6. isconn' \in BOOLEAN /\ disturbed' \in BOOLEAN  BY <1>2, <2>1 DEF Works, Throws
  <2>7. TypeOK'
    BY <1>1, <1>2, <1>4, <2>1, <2>5, <2>6, TypeKept DEF SetTrkPlace, IInv, TypeOK
  <2>8. FiniteInv' /\ PistolsUnique'
    BY <1>4, <2>5 DEF SetTrkPlace, IInv, FiniteInv, PistolsUnique
  <2>9. NumbersInv'  BY <1>4, <2>1 DEF SetTrkPlace, NumbersInv
  <2>10. SaveInv' /\ YesMeansSaved'  BY <1>1, <2>1, SaveKept DEF Works, Throws
  <2> QED  BY <2>7, <2>8, <2>9, <2>10 DEF IInv
<1>5. CASE SelectMax
  <2>1. db' = db
    BY <1>5 DEF SelectMax, Throws
  <2>2. isconn' \in BOOLEAN /\ disturbed' \in BOOLEAN /\ max_here' \in BOOLEAN
        /\ strayed' \in BOOLEAN
    BY <1>2, <1>5 DEF SelectMax, Throws
  <2>3. max_id_pist' \in Nat /\ n' \in Nat
    BY <1>2, <1>3, <1>5 DEF SelectMax, IInv, TypeOK, Content, Row
  <2>4. TypeOK'
    <3>1. NextStatement \/ NextObject  BY <1>5 DEF SelectMax
    <3>2. UNCHANGED <<here, wpc, request, answer, switched>>  BY <3>1
    <3>3. db' \in Content  BY <1>2, <2>1
    <3> QED  BY <1>1, <2>2, <2>3, <3>1, <3>2, <3>3, TypeKept DEF IInv
  <2>5. FiniteInv' /\ PistolsUnique'
    BY <1>5, <2>1 DEF SelectMax, IInv, FiniteInv, PistolsUnique
  <2>6. NumbersInv'
    <3>1. CASE here /\ NextStatement /\ IsMax(max_id_pist', db.trk[Obj.id]) /\ n' = 0
      <4>1. \A row \in db.trk[Obj.id] : row.pist <= max_id_pist' + n'
        BY <1>2, <1>3, <2>3, <3>1 DEF IsMax, Content, Row
      <4> QED  BY <2>1, <3>1, <4>1 DEF NumbersInv, Obj
    <3>2. CASE max_here' = FALSE  BY <3>2 DEF NumbersInv
    <3>3. CASE NextObject  BY <3>3 DEF NumbersInv
    <3> QED  BY <1>5, <3>1, <3>2, <3>3 DEF SelectMax
  <2>7. SaveInv' /\ YesMeansSaved'
    <3>1. CASE here /\ UNCHANGED <<disturbed, isconn>>
      BY <1>1, <1>5, <3>1, SaveKept DEF SelectMax, Throws
    <3>2. CASE ~here /\ disturbed' = TRUE /\ UNCHANGED isconn
      <4>1. disturbed' = (disturbed \/ ~here)  BY <3>2
      <4> QED  BY <1>1, <1>5, <3>2, <4>1, SaveKept DEF SelectMax, Throws
    <3>3. CASE isconn' = FALSE /\ disturbed' = TRUE
      BY <1>1, <1>5, <3>3, SaveKept DEF SelectMax, Throws
    <3> QED  BY <1>5, <3>1, <3>2, <3>3 DEF SelectMax, Throws
  <2> QED  BY <2>4, <2>5, <2>6, <2>7 DEF IInv
<1>6. CASE SetTrkEnd
  <2>1. TypeOK'  BY <1>1, <1>2, <1>6, TypeKept DEF SetTrkEnd, IInv, TypeOK
  <2>2. FiniteInv' /\ PistolsUnique'  BY <1>6 DEF SetTrkEnd, IInv, FiniteInv, PistolsUnique
  <2>3. NumbersInv'  BY <1>6 DEF SetTrkEnd, NumbersInv
  <2>4. SaveInv' /\ YesMeansSaved'  BY <1>1, <1>6, SaveKept DEF SetTrkEnd
  <2> QED  BY <2>1, <2>2, <2>3, <2>4 DEF IInv
<1> QED  BY <1>4, <1>5, <1>6

\* What InsertPist and UpdatePist have in common: the pistols of the pump in
\* hand become rows, or stay what they are.
LEMMA PistolsIInv ==
  ASSUME IInv, wpc = "busy", i <= Len(request), Obj.do = "set_Trk", at > 1,
         NEW rows \in SUBSET Row, IsFiniteSet(rows),
         ~strayed' => \A r1, r2 \in rows : r1.pist = r2.pist => r1 = r2,
         max_here' /\ ~strayed' => \A row \in rows : row.pist <= max_id_pist' + n',
         db' \in {db, [db EXCEPT !.trk[Obj.id] = rows]},
         ~here => db' = db,
         NextStatement \/ NextObject,
         UNCHANGED <<max_id_pist, max_here>>, n' \in {n, n + 1},
         strayed' \in BOOLEAN, isconn' \in BOOLEAN, disturbed' \in BOOLEAN,
         strayed => strayed'
  PROVE  TypeOK' /\ FiniteInv' /\ PistolsUnique' /\ NumbersInv'
<1> USE DEF NextStatement, NextObject
<1>1. {here, isconn, disturbed, max_here, strayed, switched} \subseteq BOOLEAN /\ db \in Content
  BY DEF IInv, TypeOK
<1>2. Obj.id \in Pumps  BY ObjectInHand, Fields DEF IInv
<1>3. max_id_pist \in Nat /\ n \in Nat /\ n' \in Nat  BY DEF IInv, TypeOK
<1> DEFINE after == [db EXCEPT !.trk[Obj.id] = rows]
<1>4. /\ after \in Content /\ after.trk[Obj.id] = rows
      /\ \A p \in Pumps \ {Obj.id} : after.trk[p] = db.trk[p]
  BY <1>1, <1>2 DEF Content
<1>5. db' = db \/ db' = after  OBVIOUS
<1> HIDE DEF after
<1>6. db' \in Content  BY <1>1, <1>4, <1>5
<1>7. \A p \in Pumps : db'.trk[p] = db.trk[p] \/ (p = Obj.id /\ db'.trk[p] = rows)
  BY <1>4, <1>5
<1>8. TypeOK'
  <2>1. UNCHANGED <<here, wpc, request, answer, switched>>  OBVIOUS
  <2> QED  BY <1>1, <1>3, <1>6, <2>1, TypeKept DEF IInv
<1>9. FiniteInv'  BY <1>7 DEF IInv, FiniteInv
<1>10. PistolsUnique'  BY <1>1, <1>7 DEF IInv, PistolsUnique
<1>11. NumbersInv'
  <2>1. CASE NextObject  BY <2>1 DEF NumbersInv
  <2>2. CASE NextStatement /\ max_here' /\ ~strayed'
    <3>1. Obj' = Obj  BY <2>2 DEF Obj
    <3>2. \A row \in db.trk[Obj.id] : row.pist <= max_id_pist + n
      BY <1>1, <2>2 DEF IInv, NumbersInv, Doing
    <3>3. \A row \in db.trk[Obj.id] : row.pist <= max_id_pist' + n'
      <4>1. \A row \in db.trk[Obj.id] : row.pist \in Nat  BY <1>1, <1>2 DEF Content, Row
      <4> QED  BY <1>3, <3>2, <4>1
    <3>4. \A row \in db'.trk[Obj.id] : row.pist <= max_id_pist' + n'
      BY <1>2, <1>7, <2>2, <3>3
    <3> QED  BY <3>1, <3>4 DEF NumbersInv
  <2>3. CASE ~(max_here' /\ ~strayed')  BY <2>3 DEF NumbersInv
  <2> QED  BY <2>1, <2>2, <2>3
<1> QED  BY <1>8, <1>9, <1>10, <1>11

\* A pistol that gets its number here.
LEMMA InsertIInv == ASSUME IInv, InsertPist PROVE IInv'
<1> USE DEF Doing, AtPistol
<1>1. /\ wpc = "busy" /\ i <= Len(request) /\ Obj.do = "set_Trk" /\ at > 1
      /\ at - 1 \in DOMAIN Obj.pists
  BY DEF InsertPist
<1>2. Obj.id \in Pumps /\ Current \in Pistol
  BY <1>1, ObjectInHand, Fields DEF IInv, Current
<1>3. {here, isconn, disturbed, max_here, strayed, switched} \subseteq BOOLEAN /\ db \in Content
  BY DEF IInv, TypeOK
<1>4. max_id_pist \in Nat /\ n \in Nat /\ n' = n + 1  BY DEF InsertPist, IInv, TypeOK
<1> DEFINE old  == db.trk[Obj.id]
           rows == Inserted(old, max_id_pist + n', Current.tank)
<1>5. old \in SUBSET Row /\ IsFiniteSet(old)  BY <1>2, <1>3 DEF Content, IInv, FiniteInv
<1>6. \A row \in old : row.pist \in Nat  BY <1>5 DEF Row
<1>7. max_id_pist + n' \in Nat /\ Current.tank \in Tanks  BY <1>2, <1>4 DEF Pistol
<1> DEFINE after == [db EXCEPT !.trk[Obj.id] = rows]
<1>8. (Works(after) /\ NextStatement) \/ (Throws(after) /\ NextObject)
  BY <1>3 DEF InsertPist, Content
<1>9. strayed' = (strayed \/ (here /\ ~max_here))  BY DEF InsertPist
<1>10. strayed' \in BOOLEAN /\ (strayed => strayed')  BY <1>9
<1>11. UNCHANGED <<max_id_pist, max_here>>  BY DEF InsertPist
<1> HIDE DEF rows
<1>12. /\ rows \in SUBSET Row /\ IsFiniteSet(rows)
       /\ \A row \in rows : row \in old \/ row.pist = max_id_pist + n'
       /\ (\A row \in old : row.pist # max_id_pist + n') /\
            (\A r1, r2 \in old : r1.pist = r2.pist => r1 = r2)
          => \A r1, r2 \in rows : r1.pist = r2.pist => r1 = r2
  BY <1>5, <1>7, InsertedKeeps DEF rows
<1>13. isconn' \in BOOLEAN /\ disturbed' \in BOOLEAN  BY <1>3, <1>8 DEF Works, Throws
<1>14. SaveInv' /\ YesMeansSaved'
  <2>1. UNCHANGED <<here, wpc, request, answer, switched>>
    BY <1>8 DEF NextStatement, NextObject
  <2> QED  BY <1>1, <1>8, <2>1, SaveKept DEF Works, Throws
<1>15. CASE ~here
  <2>1. db' = db  BY <1>8, <1>15 DEF Works, Throws
  <2>2. \A row \in old : ~strayed' /\ max_here' => row.pist <= max_id_pist' + n'
    BY <1>1, <1>4, <1>6, <1>10, <1>11 DEF IInv, NumbersInv
  <2>3. ~strayed' => \A r1, r2 \in old : r1.pist = r2.pist => r1 = r2
    BY <1>2, <1>10 DEF IInv, PistolsUnique
  <2>4. TypeOK' /\ FiniteInv' /\ PistolsUnique' /\ NumbersInv'
    BY <1>1, <1>4, <1>5, <1>8, <1>10, <1>11, <1>13, <2>1, <2>2, <2>3, PistolsIInv
  <2> QED  BY <1>14, <2>4 DEF IInv
<1>16. CASE here
  <2>1. ~strayed' => max_here /\ ~strayed  BY <1>3, <1>9, <1>16
  <2>2. ~strayed' => \A row \in old : row.pist <= max_id_pist + n
    BY <1>1, <2>1 DEF IInv, NumbersInv
  <2>3. ~strayed' => \A r1, r2 \in rows : r1.pist = r2.pist => r1 = r2
    <3>1. ~strayed' => \A row \in old : row.pist # max_id_pist + n'
      BY <1>4, <1>6, <2>2
    <3> QED  BY <1>2, <1>12, <2>1, <3>1 DEF IInv, PistolsUnique
  <2>4. ~strayed' => \A row \in rows : row.pist <= max_id_pist' + n'
    BY <1>4, <1>6, <1>11, <1>12, <2>2
  <2>5. db' \in {db, [db EXCEPT !.trk[Obj.id] = rows]}  BY <1>8 DEF Works, Throws
  <2>6. TypeOK' /\ FiniteInv' /\ PistolsUnique' /\ NumbersInv'
    <3> HIDE DEF after
    <3> QED  BY <1>1, <1>4, <1>8, <1>10, <1>11, <1>12, <1>13, <1>16, <2>3, <2>4, <2>5, PistolsIInv
  <2> QED  BY <1>14, <2>6 DEF IInv
<1> QED  BY <1>3, <1>15, <1>16

\* A pistol that has its number already.
LEMMA UpdateIInv == ASSUME IInv, UpdatePist PROVE IInv'
<1> USE DEF Doing, AtPistol
<1>1. /\ wpc = "busy" /\ i <= Len(request) /\ Obj.do = "set_Trk" /\ at > 1
      /\ at - 1 \in DOMAIN Obj.pists
  BY DEF UpdatePist
<1>2. Obj.id \in Pumps /\ Current \in Pistol
  BY <1>1, ObjectInHand, Fields DEF IInv, Current
<1>3. {here, isconn, disturbed, max_here, strayed, switched} \subseteq BOOLEAN /\ db \in Content
  BY DEF IInv, TypeOK
<1>4. UNCHANGED <<max_id_pist, max_here, n, strayed>>  BY DEF UpdatePist, locals
<1> DEFINE old  == db.trk[Obj.id]
           rows == Retanked(old, Current.pist, Current.tank)
<1>5. old \in SUBSET Row /\ IsFiniteSet(old)  BY <1>2, <1>3 DEF Content, IInv, FiniteInv
<1> DEFINE after == [db EXCEPT !.trk[Obj.id] = rows]
           mistaken == Current.pist > max_id_pist /\ Current.pist <= max_id_pist + n
<1>6. \/ /\ db' = IF here THEN after ELSE db
         /\ disturbed' = (disturbed \/ ~here \/ mistaken)
         /\ UNCHANGED isconn /\ NextStatement
      \/ Throws(after) /\ NextObject
  BY <1>3 DEF UpdatePist, Content
<1> HIDE DEF rows
<1>7. /\ rows \in SUBSET Row /\ IsFiniteSet(rows)
      /\ \A u \in rows : \E row \in old : u.pist = row.pist
      /\ (\A r1, r2 \in old : r1.pist = r2.pist => r1 = r2)
         => \A r1, r2 \in rows : r1.pist = r2.pist => r1 = r2
  BY <1>2, <1>5, RetankedKeeps DEF rows, Pistol
<1>8. ~strayed => \A r1, r2 \in rows : r1.pist = r2.pist => r1 = r2
  BY <1>2, <1>7 DEF IInv, PistolsUnique
<1>9. max_here /\ ~strayed => \A row \in rows : row.pist <= max_id_pist + n
  <2>1. max_here /\ ~strayed => \A row \in old : row.pist <= max_id_pist + n
    BY <1>1 DEF IInv, NumbersInv
  <2> QED  BY <1>7, <2>1
<1> HIDE DEF after, mistaken
<1>10. db' \in {db, after} /\ (~here => db' = db)  BY <1>6 DEF Throws
<1>11. isconn' \in BOOLEAN /\ disturbed' \in BOOLEAN
  <2>1. (disturbed \/ ~here \/ mistaken) \in BOOLEAN  OBVIOUS
  <2> QED  BY <1>3, <1>6, <2>1 DEF Throws
<1>12. TypeOK' /\ FiniteInv' /\ PistolsUnique' /\ NumbersInv'
  <2>1. NextStatement \/ NextObject  BY <1>6
  <2>2. db' \in {db, [db EXCEPT !.trk[Obj.id] = rows]}  BY <1>10 DEF after
  <2> QED  BY <1>1, <1>3, <1>4, <1>7, <1>8, <1>9, <1>10, <1>11, <2>1, <2>2, PistolsIInv
<1>13. ~IsSave
  <2>1. request \in Requests /\ i \in DOMAIN request
    BY <1>1, ObjectInHand DEF IInv, TypeOK
  <2> QED  BY <1>1, <2>1 DEF IsSave, Obj
<1>14. SaveInv' /\ YesMeansSaved'
  <2>1. UNCHANGED <<here, wpc, request, answer, switched>>
    BY <1>6 DEF NextStatement, NextObject
  <2>2. ~IsSave'  BY <1>13, <2>1 DEF IsSave
  <2> QED  BY <1>1, <2>1, <2>2 DEF IInv, SaveInv, YesMeansSaved
<1> QED  BY <1>12, <1>14 DEF IInv

\* Requests come and are answered.
LEMMA RequestIInv ==
  ASSUME IInv, Reply \/ \E r \in Requests : Receive(r) PROVE IInv'
<1>1. {here, isconn, disturbed, max_here, strayed, switched} \subseteq BOOLEAN
      /\ db \in Content /\ before \in Content
  BY DEF IInv, TypeOK
<1>2. CASE Reply
  <2>1. TypeOK'
    <3>1. answer' \in {"none", "success", "yes", "not"}  BY <1>2 DEF Reply
    <3>2. i' \in 1 .. Len(request') + 1  BY <1>2 DEF Reply, Done
    <3> QED  BY <1>1, <1>2, <3>1, <3>2 DEF Reply, Done, TypeOK
  <2>2. FiniteInv' /\ PistolsUnique'  BY <1>2 DEF Reply, IInv, FiniteInv, PistolsUnique
  <2>3. NumbersInv' /\ SaveInv'  BY <1>2 DEF Reply, Done, NumbersInv, SaveInv, Doing
  <2>4. YesMeansSaved'  BY <1>2 DEF Reply, IInv, SaveInv, YesMeansSaved
  <2> QED  BY <2>1, <2>2, <2>3, <2>4 DEF IInv
<1>3. ASSUME NEW r \in Requests, Receive(r) PROVE IInv'
  <2>1. TypeOK'
    <3>1. r \in Seq(Object)  OBVIOUS
    <3>2. i' \in 1 .. Len(request') + 1  BY <1>3, <3>1 DEF Receive
    <3> QED  BY <1>1, <1>3, <3>2 DEF Receive, locals, IInv, TypeOK
  <2>2. FiniteInv' /\ PistolsUnique'  BY <1>3 DEF Receive, IInv, FiniteInv, PistolsUnique
  <2>3. NumbersInv'  BY <1>3 DEF Receive, NumbersInv
  <2>4. SaveInv' /\ YesMeansSaved'  BY <1>1, <1>3 DEF Receive, SaveInv, YesMeansSaved
  <2> QED  BY <2>1, <2>2, <2>3, <2>4 DEF IInv
<1> QED  BY <1>2, <1>3

\* The connect thread, the process, and steps that change nothing here.
LEMMA SurroundingsIInv ==
  ASSUME IInv, Switch \/ Restart \/ UNCHANGED vars PROVE IInv'
<1>1. {here, isconn, disturbed, max_here, strayed, switched} \subseteq BOOLEAN
      /\ db \in Content /\ before \in Content
  BY DEF IInv, TypeOK
<1>2. CASE Switch
  <2>1. TypeOK'  BY <1>1, <1>2 DEF Switch, place, locals, IInv, TypeOK
  <2>2. FiniteInv' /\ PistolsUnique'  BY <1>2 DEF Switch, IInv, FiniteInv, PistolsUnique
  <2>3. NumbersInv'  BY <1>2 DEF Switch, place, locals, IInv, NumbersInv, Doing, Obj
  <2>4. SaveInv' /\ YesMeansSaved'  BY <1>2 DEF Switch, IInv, SaveInv, YesMeansSaved
  <2> QED  BY <2>1, <2>2, <2>3, <2>4 DEF IInv
<1>3. CASE Restart
  <2>1. TypeOK'
    <3>1. i' \in 1 .. Len(request') + 1  BY <1>3 DEF Restart, Done
    <3> QED  BY <1>1, <1>3, <3>1 DEF Restart, Done, TypeOK
  <2>2. FiniteInv' /\ PistolsUnique'  BY <1>3 DEF Restart, IInv, FiniteInv, PistolsUnique
  <2>3. NumbersInv' /\ SaveInv' /\ YesMeansSaved'
    BY <1>3 DEF Restart, Done, NumbersInv, SaveInv, YesMeansSaved, Doing
  <2> QED  BY <2>1, <2>2, <2>3 DEF IInv
<1>4. CASE UNCHANGED vars
  <2> USE <1>4 DEF vars, place, locals
  <2>1. TypeOK' /\ FiniteInv' /\ PistolsUnique'
    BY DEF IInv, TypeOK, FiniteInv, PistolsUnique
  <2>2. NumbersInv'  BY DEF IInv, NumbersInv, Doing, Obj
  <2>3. SaveInv' /\ YesMeansSaved'  BY DEF IInv, SaveInv, YesMeansSaved, IsSave
  <2> QED  BY <2>1, <2>2, <2>3 DEF IInv
<1> QED  BY <1>2, <1>3, <1>4

\* Every step, stuttering included.
LEMMA NextIInv == IInv /\ [Next]_vars => IInv'
<1> SUFFICES ASSUME IInv, [Next]_vars PROVE IInv'
  OBVIOUS
<1>1. CASE SetTrk
  BY <1>1, SetTrkStartIInv, InsertIInv, UpdateIInv DEF SetTrk
<1>2. CASE DeleteTrk  BY <1>2, SinglesIInv, DeletePistsIInv DEF DeleteTrk
<1> QED  BY <1>1, <1>2, SinglesIInv, RequestIInv, SurroundingsIInv DEF Next

\* IInv holds in every reachable state of the settings requests, for any
\* requests, tables, failures, switches and restarts.
THEOREM ConfigInvariance == Spec => []IInv
  BY InitIInv, NextIInv, PTL DEF Spec

-----------------------------------------------------------------------------
(* What follows from it.                                                   *)

\* Every variable of the settings requests keeps its type.
THEOREM ConfigTypeCorrect == Spec => []TypeOK
<1>1. IInv => TypeOK  BY DEF IInv
<1> QED  BY <1>1, ConfigInvariance, PTL

\* set_Trk never gives a pistol number twice: not after an exception, a lost
\* answer, a repeated request or a restart, and for any list of pistols, unless
\* MAX(id_pist) was read in one database and the INSERT sent to another.
THEOREM NumbersGivenOnce == Spec => []PistolsUnique
<1>1. IInv => PistolsUnique  BY DEF IInv
<1> QED  BY <1>1, ConfigInvariance, PTL

\* api_trk_save answers "yes" only if every one of its UPDATEs took effect,
\* for any number of pumps, unless the connect thread acted meanwhile.
THEOREM YesIsTrue == Spec => []YesMeansSaved
<1>1. IInv => YesMeansSaved  BY DEF IInv
<1> QED  BY <1>1, ConfigInvariance, PTL

-----------------------------------------------------------------------------
(* The rows of a pump under the statements that change them.               *)

\* The rows of one number.
SameNumber(rows, x) == {r \in rows : r.pist = x}

\* Deleting a number takes all its copies.
LEMMA FilteredKeyed ==
  ASSUME NEW rows, Keyed(rows), NEW gone
  PROVE  Keyed({row \in rows : row.pist \notin gone})
<1> DEFINE left == {row \in rows : row.pist \notin gone}
<1>1. \A row \in left : {r \in left : r.pist = row.pist} = {r \in rows : r.pist = row.pist}
  OBVIOUS
<1> QED  BY <1>1 DEF Keyed

\* A pistol that is inserted has a key of its own, and a number that no row has
\* gets copy 0.
LEMMA InsertedKeyed ==
  ASSUME NEW rows \in SUBSET Row, IsFiniteSet(rows), Keyed(rows),
         NEW pist \in Nat, pist > 0, NEW tank \in Tanks
  PROVE  \E one \in Row :
           /\ one.pist = pist /\ one.tank = tank
           /\ Inserted(rows, pist, tank) = rows \cup {one}
           /\ one \notin rows /\ \A row \in rows : Key(row) # Key(one)
           /\ Keyed(Inserted(rows, pist, tank))
           /\ (\A row \in rows : row.pist # pist) => one = [pist |-> pist, copy |-> 0, tank |-> tank]
<1> DEFINE same == SameNumber(rows, pist)
           one  == [pist |-> pist, copy |-> Cardinality(same), tank |-> tank]
           new  == rows \cup {one}
<1>1. IsFiniteSet(same)  BY FS_Subset DEF SameNumber
<1>2. Cardinality(same) \in Nat  BY <1>1, FS_CardinalityType
<1>3. one \in Row /\ one.pist = pist /\ one.tank = tank /\ one.copy = Cardinality(same)
  BY <1>2 DEF Row
<1>4. Inserted(rows, pist, tank) = new  BY DEF Inserted, SameNumber
<1>5. \A row \in rows : row.pist = pist => row.copy < Cardinality(same)
  BY DEF Keyed, SameNumber
<1>6. \A row \in rows : row.copy \in Nat  BY DEF Row
<1>7. \A row \in rows : row.pist = pist => row.copy # Cardinality(same)
  BY <1>2, <1>5, <1>6
<1> HIDE DEF same, one
<1>8. \A row \in rows : Key(row) # Key(one)  BY <1>3, <1>7 DEF Key
<1>9. one \notin rows  BY <1>8
<1>10. Cardinality(SameNumber(new, pist)) = Cardinality(same) + 1
  <2>1. SameNumber(new, pist) = same \cup {one}  BY <1>3 DEF SameNumber, same
  <2>2. one \notin same  BY <1>9 DEF SameNumber, same
  <2> QED  BY <1>1, <2>1, <2>2, FS_AddElement
<1>11. \A x : x # pist => SameNumber(new, x) = SameNumber(rows, x)  BY <1>3 DEF SameNumber
<1>12. Keyed(new)
  <2>1. \A r1, r2 \in new : Key(r1) = Key(r2) => r1 = r2  BY <1>8 DEF Keyed
  <2>2. ASSUME NEW row \in new
        PROVE  row.pist > 0 /\ row.copy < Cardinality(SameNumber(new, row.pist))
    <3>1. CASE row = one  BY <1>2, <1>3, <1>10, <3>1
    <3>2. CASE row \in rows /\ row.pist = pist
      BY <1>2, <1>5, <1>6, <1>10, <3>2
    <3>3. CASE row \in rows /\ row.pist # pist
      <4>1. SameNumber(new, row.pist) = SameNumber(rows, row.pist)  BY <1>11, <3>3
      <4> QED  BY <3>3, <4>1 DEF Keyed, SameNumber
    <3> QED  BY <3>1, <3>2, <3>3
  <2> QED  BY <2>1, <2>2 DEF Keyed, SameNumber
<1>13. (\A row \in rows : row.pist # pist) => one = [pist |-> pist, copy |-> 0, tank |-> tank]
  <2>1. (\A row \in rows : row.pist # pist) => same = {}  BY DEF same, SameNumber
  <2> QED  BY <2>1, FS_EmptySet DEF one
<1> QED  BY <1>3, <1>4, <1>8, <1>9, <1>12, <1>13

\* A row when number pist gets a tank.
Retank(row, pist, tank) == IF row.pist = pist THEN [row EXCEPT !.tank = tank] ELSE row

\* A change of tanks keeps every key.
LEMMA RetankedKeyed ==
  ASSUME NEW rows \in SUBSET Row, IsFiniteSet(rows), Keyed(rows), NEW pist \in Nat, NEW tank \in Tanks
  PROVE  LET new == Retanked(rows, pist, tank) IN
         /\ Keyed(new) /\ new = {Retank(row, pist, tank) : row \in rows}
         /\ \A row \in Row : /\ Retank(row, pist, tank) \in Row
                             /\ Key(Retank(row, pist, tank)) = Key(row)
                             /\ Retank(row, pist, tank).pist = row.pist
                             /\ Retank(row, pist, tank).copy = row.copy
                             /\ Retank(row, pist, tank).tank = IF row.pist = pist THEN tank ELSE row.tank
<1> DEFINE new == Retanked(rows, pist, tank)
           R(row) == Retank(row, pist, tank)
<1>1. new = {R(row) : row \in rows}  BY DEF Retanked, Retank
<1>2. ASSUME NEW row \in Row
      PROVE  /\ R(row) \in Row /\ R(row).pist = row.pist /\ R(row).copy = row.copy
             /\ R(row).tank = IF row.pist = pist THEN tank ELSE row.tank
  BY DEF Row, Retank
<1>3. \A row \in Row : Key(R(row)) = Key(row)  BY <1>2 DEF Key
<1> HIDE DEF new, R
<1>4. ASSUME NEW x PROVE Cardinality(SameNumber(new, x)) = Cardinality(SameNumber(rows, x))
  <2> DEFINE S == SameNumber(rows, x)
             T == SameNumber(new, x)
             f == [row \in S |-> R(row)]
  <2>1. \A row \in S : f[row] = R(row) /\ row \in rows  BY DEF SameNumber
  <2>2. T = {R(row) : row \in S}  BY <1>1, <1>2 DEF SameNumber
  <2>3. f \in [S -> T]  BY <2>2
  <2>4. \A r1, r2 \in S : f[r1] = f[r2] => r1 = r2
    BY <1>3, <2>1 DEF Keyed
  <2>5. \A t \in T : \E row \in S : f[row] = t  BY <2>1, <2>2
  <2> HIDE DEF f, S, T
  <2>6. f \in Bijection(S, T)
    BY <2>3, <2>4, <2>5 DEF Bijection, Injection, Surjection, IsInjective
  <2>7. IsFiniteSet(S)  BY FS_Subset DEF S, SameNumber
  <2>8. Cardinality(T) = Cardinality(S)
    <3>1. f \in Surjection(S, T) /\ f \in Injection(S, T)  BY <2>6 DEF Bijection
    <3> QED  BY <2>7, <3>1, FS_Surjection
  <2> QED  BY <2>8 DEF S, T
<1>5. \A r1, r2 \in new : Key(r1) = Key(r2) => r1 = r2
  BY <1>1, <1>3 DEF Keyed
<1>6. ASSUME NEW u \in new
      PROVE  u.pist > 0 /\ u.copy < Cardinality(SameNumber(new, u.pist))
  <2>1. PICK row \in rows : u = R(row)  BY <1>1
  <2>2. row.pist > 0 /\ row.copy < Cardinality(SameNumber(rows, row.pist))
    BY DEF Keyed, SameNumber
  <2> QED  BY <1>2, <1>4, <2>1, <2>2
<1>7. Keyed(new)  BY <1>5, <1>6 DEF Keyed, SameNumber
<1> QED  BY <1>1, <1>2, <1>3, <1>7 DEF new, R

-----------------------------------------------------------------------------
(* What the pistols up to one have made of a pump's rows.                  *)

\* An instance has its own name for the cardinality of a set.
LEMMA TablesCardinality ==
  ASSUME NEW S PROVE Tables!Cardinality(S) = Cardinality(S)
  BY DEF Tables!Cardinality, Cardinality

\* The new pistols before the next one.
LEMMA NewUpToNext ==
  ASSUME NEW o, o.pists \in Seq(Pistol), NEW c \in Nat
  PROVE  /\ IsFiniteSet(NewUpTo(o, c)) /\ Cardinality(NewUpTo(o, c)) \in Nat
         /\ c \in DOMAIN o.pists /\ o.pists[c].pist = 0 =>
              /\ NewUpTo(o, c + 1) = NewUpTo(o, c) \cup {c} /\ c \notin NewUpTo(o, c)
              /\ Cardinality(NewUpTo(o, c + 1)) = Cardinality(NewUpTo(o, c)) + 1
              /\ Tables!Rank(o, c) = Cardinality(NewUpTo(o, c)) + 1
         /\ ~(c \in DOMAIN o.pists /\ o.pists[c].pist = 0) =>
              NewUpTo(o, c + 1) = NewUpTo(o, c)
<1>0. DOMAIN o.pists = 1 .. Len(o.pists) /\ Len(o.pists) \in Nat  OBVIOUS
<1>1. NewUpTo(o, c) = {j \in DOMAIN o.pists : o.pists[j].pist = 0 /\ j < c}
  BY DEF NewUpTo, Tables!New
<1>2. NewUpTo(o, c + 1) = {j \in DOMAIN o.pists : o.pists[j].pist = 0 /\ j < c + 1}
  BY DEF NewUpTo, Tables!New
<1>3. \A j \in DOMAIN o.pists : (j < c + 1 <=> j < c \/ j = c) /\ (j <= c <=> j < c + 1)
  BY <1>0
<1>4. IsFiniteSet(NewUpTo(o, c))
  <2>1. IsFiniteSet(DOMAIN o.pists)  BY <1>0, FS_Interval
  <2> QED  BY <1>1, <2>1, FS_Subset
<1>5. Cardinality(NewUpTo(o, c)) \in Nat  BY <1>4, FS_CardinalityType
<1>6. ASSUME c \in DOMAIN o.pists, o.pists[c].pist = 0
      PROVE  /\ NewUpTo(o, c + 1) = NewUpTo(o, c) \cup {c} /\ c \notin NewUpTo(o, c)
             /\ Cardinality(NewUpTo(o, c + 1)) = Cardinality(NewUpTo(o, c)) + 1
             /\ Tables!Rank(o, c) = Cardinality(NewUpTo(o, c)) + 1
  <2>1. NewUpTo(o, c + 1) = NewUpTo(o, c) \cup {c}  BY <1>1, <1>2, <1>3, <1>6
  <2>2. c \notin NewUpTo(o, c)  BY <1>1
  <2>3. Cardinality(NewUpTo(o, c + 1)) = Cardinality(NewUpTo(o, c)) + 1
    BY <1>4, <2>1, <2>2, FS_AddElement
  <2>4. {k \in Tables!New(o) : k <= c} = NewUpTo(o, c + 1)
    BY <1>2, <1>3 DEF Tables!New
  <2> QED  BY <2>1, <2>2, <2>3, <2>4, TablesCardinality DEF Tables!Rank
<1>7. ASSUME ~(c \in DOMAIN o.pists /\ o.pists[c].pist = 0)
      PROVE  NewUpTo(o, c + 1) = NewUpTo(o, c)
  BY <1>1, <1>2, <1>3, <1>7
<1> QED  BY <1>4, <1>5, <1>6, <1>7

\* A pistol with its number, and one without, keep what the pistols before them
\* can have made.
LEMMA PartlyInserted ==
  ASSUME NEW o, o.pists \in Seq(Pistol), NEW c \in DOMAIN o.pists, o.pists[c].pist = 0,
         NEW old, NEW new, IsFiniteSet(new), PartlyUpTo(o, c, old, new),
         NEW one, one.tank = o.pists[c].tank, one \notin new,
         \A row \in new : Key(row) # Key(one)
  PROVE  PartlyUpTo(o, c + 1, old, new \cup {one})
<1>1. c \in Nat  OBVIOUS
<1>2. \A row \in old : \E u \in new :
        Key(u) = Key(row) /\ u.tank \in {row.tank} \cup Tables!Sent(o, row.pist)
  BY DEF PartlyUpTo
<1>3. Added(old, new \cup {one}) = Added(old, new) \cup {one}  BY <1>2 DEF Added
<1>4. IsFiniteSet(Added(old, new)) /\ one \notin Added(old, new)  BY FS_Subset DEF Added
<1>5. Cardinality(Added(old, new \cup {one})) = Cardinality(Added(old, new)) + 1
      /\ Cardinality(Added(old, new)) \in Nat
  BY <1>3, <1>4, FS_AddElement, FS_CardinalityType
<1>6. /\ Cardinality(NewUpTo(o, c + 1)) = Cardinality(NewUpTo(o, c)) + 1
      /\ Cardinality(NewUpTo(o, c)) \in Nat
  BY <1>1, NewUpToNext
<1>7. Cardinality(Added(old, new \cup {one})) <= Cardinality(NewUpTo(o, c + 1))
  BY <1>5, <1>6 DEF PartlyUpTo
<1>8. \A u \in Added(old, new \cup {one}) : \E j \in DOMAIN o.pists : u.tank = o.pists[j].tank
  BY <1>3 DEF PartlyUpTo
<1>9. \A row \in old : \E u \in new \cup {one} :
        Key(u) = Key(row) /\ u.tank \in {row.tank} \cup Tables!Sent(o, row.pist)
  BY <1>2
<1> QED  BY <1>7, <1>8, <1>9 DEF PartlyUpTo

LEMMA PartlyRetanked ==
  ASSUME NEW o, o.pists \in Seq(Pistol), NEW c \in DOMAIN o.pists, o.pists[c].pist # 0,
         NEW old \in SUBSET Row, NEW new \in SUBSET Row, IsFiniteSet(new), Keyed(new),
         PartlyUpTo(o, c, old, new)
  PROVE  PartlyUpTo(o, c + 1, old, Retanked(new, o.pists[c].pist, o.pists[c].tank))
<1> DEFINE x == o.pists[c].pist
           t == o.pists[c].tank
           R(row) == Retank(row, x, t)
           then == Retanked(new, x, t)
<1>1. c \in Nat /\ x \in Nat /\ t \in Tanks
  <2>1. o.pists[c] \in Pistol  OBVIOUS
  <2> QED  BY <2>1 DEF Pistol
<1> HIDE DEF x, t
<1>2. /\ then = {R(row) : row \in new}
      /\ \A row \in Row : /\ R(row) \in Row /\ Key(R(row)) = Key(row) /\ R(row).pist = row.pist
                          /\ R(row).tank = IF row.pist = x THEN t ELSE row.tank
  BY <1>1, RetankedKeyed
<1> HIDE DEF R, then
<1>3. \A row \in old : \E u \in new :
        Key(u) = Key(row) /\ u.tank \in {row.tank} \cup Tables!Sent(o, row.pist)
  BY DEF PartlyUpTo
<1>4. ASSUME NEW row \in old
      PROVE  \E u \in then :
               Key(u) = Key(row) /\ u.tank \in {row.tank} \cup Tables!Sent(o, row.pist)
  <2>1. PICK u \in new : Key(u) = Key(row) /\ u.tank \in {row.tank} \cup Tables!Sent(o, row.pist)
    BY <1>3
  <2>2. R(u) \in then /\ Key(R(u)) = Key(row)  BY <1>2, <2>1
  <2>3. u.pist = row.pist  BY <2>1 DEF Key
  <2>4. CASE u.pist = x
    <3>1. t \in Tables!Sent(o, row.pist)
      <4>1. c \in Tables!Named(o, row.pist)  BY <2>3, <2>4 DEF Tables!Named, x
      <4> QED  BY <4>1 DEF Tables!Sent, t
    <3> QED  BY <1>2, <2>2, <2>4, <3>1
  <2>5. CASE u.pist # x  BY <1>2, <2>1, <2>2, <2>5
  <2> QED  BY <2>4, <2>5
<1> DEFINE A == Added(old, new)
           B == Added(old, then)
<1>5. B = {R(u) : u \in A}  BY <1>2 DEF Added
<1>6. IsFiniteSet(A) /\ A \subseteq new  BY FS_Subset DEF Added
<1>7. \A u \in A : \E j \in DOMAIN o.pists : u.tank = o.pists[j].tank  BY DEF PartlyUpTo
<1>8. Cardinality(A) <= Cardinality(NewUpTo(o, c))  BY DEF PartlyUpTo
<1> HIDE DEF A, B
<1>9. Cardinality(B) <= Cardinality(A) /\ IsFiniteSet(B)
  <2> DEFINE f == [u \in A |-> R(u)]
  <2>1. f \in Surjection(A, B)  BY <1>5 DEF Surjection
  <2> HIDE DEF f
  <2> QED  BY <1>6, <2>1, FS_Surjection
<1>10. NewUpTo(o, c + 1) = NewUpTo(o, c) /\ Cardinality(NewUpTo(o, c)) \in Nat
  BY <1>1, NewUpToNext
<1>11. Cardinality(B) <= Cardinality(NewUpTo(o, c + 1))
  BY <1>6, <1>8, <1>9, <1>10, FS_CardinalityType
<1>12. ASSUME NEW v \in B PROVE \E j \in DOMAIN o.pists : v.tank = o.pists[j].tank
  <2>1. PICK u \in A : v = R(u)  BY <1>5
  <2>2. v.tank = t \/ v.tank = u.tank  BY <1>2, <1>6, <2>1
  <2> QED  BY <1>7, <2>1, <2>2 DEF t
<1>13. PartlyUpTo(o, c + 1, old, then)
  BY <1>4, <1>11, <1>12 DEF PartlyUpTo, B
<1> QED  BY <1>13 DEF then, x, t

\* A pistol that is passed over.
LEMMA PartlyPassed ==
  ASSUME NEW o, o.pists \in Seq(Pistol), NEW c \in Nat, NEW old, NEW new,
         IsFiniteSet(new), PartlyUpTo(o, c, old, new)
  PROVE  PartlyUpTo(o, c + 1, old, new)
<1>1. /\ Cardinality(NewUpTo(o, c)) \in Nat
      /\ \/ Cardinality(NewUpTo(o, c + 1)) = Cardinality(NewUpTo(o, c)) + 1
         \/ Cardinality(NewUpTo(o, c + 1)) = Cardinality(NewUpTo(o, c))
  BY NewUpToNext
<1>2. Cardinality(Added(old, new)) \in Nat
  <2>1. IsFiniteSet(Added(old, new))  BY FS_Subset DEF Added
  <2> QED  BY <2>1, FS_CardinalityType
<1>3. Cardinality(Added(old, new)) <= Cardinality(NewUpTo(o, c + 1))
  BY <1>1, <1>2 DEF PartlyUpTo
<1> QED  BY <1>3 DEF PartlyUpTo

\* The new pistols are ranked from 1.
LEMMA RankBound ==
  ASSUME NEW o, o.pists \in Seq(Pistol), NEW c \in Nat, NEW j \in NewUpTo(o, c)
  PROVE  Tables!Rank(o, j) \in Nat /\ 1 <= Tables!Rank(o, j)
         /\ Tables!Rank(o, j) <= Cardinality(NewUpTo(o, c))
<1> DEFINE K == {k \in Tables!New(o) : k <= j}
<1>1. j \in Tables!New(o) /\ j < c /\ j \in Nat  BY DEF NewUpTo, Tables!New
<1>2. \A k \in Tables!New(o) : k \in Nat  BY DEF Tables!New
<1>3. K \subseteq NewUpTo(o, c) /\ j \in K
  <2>1. ASSUME NEW k \in K PROVE k \in Tables!New(o) /\ k < c  BY <1>1, <1>2
  <2> HIDE DEF K
  <2>2. K \subseteq NewUpTo(o, c)  BY <2>1 DEF NewUpTo
  <2> QED  BY <1>1, <2>2 DEF K
<1> HIDE DEF K
<1>4. IsFiniteSet(NewUpTo(o, c)) /\ Cardinality(NewUpTo(o, c)) \in Nat  BY NewUpToNext
<1>5. IsFiniteSet(K) /\ Cardinality(K) <= Cardinality(NewUpTo(o, c))  BY <1>3, <1>4, FS_Subset
<1>6. Cardinality(K) \in Nat /\ Cardinality(K) # 0
  BY <1>3, <1>5, FS_CardinalityType, FS_EmptySet
<1>7. Tables!Rank(o, j) = Cardinality(K)  BY TablesCardinality DEF Tables!Rank, K
<1> QED  BY <1>4, <1>5, <1>6, <1>7

\* A row gets the tank of the next pistol, if that has its number.
LEMMA RetankedUpToNext ==
  ASSUME NEW o, o.pists \in Seq(Pistol), NEW c \in DOMAIN o.pists, NEW row \in Row
  PROVE  /\ RetankedUpTo(o, c, row).pist = row.pist
         /\ RetankedUpTo(o, c + 1, row) =
              IF o.pists[c].pist = row.pist
              THEN [RetankedUpTo(o, c, row) EXCEPT !.tank = o.pists[c].tank]
              ELSE RetankedUpTo(o, c, row)
<1> DEFINE N    == {j \in Tables!Named(o, row.pist) : j < c}
           M    == {j \in Tables!Named(o, row.pist) : j < c + 1}
           R    == RetankedUpTo(o, c, row)
           Q    == RetankedUpTo(o, c + 1, row)
           last == CHOOSE j \in M : \A k \in M : k <= j
           t    == o.pists[c].tank
           F(S) == IF S = {} THEN row
                   ELSE LET l == CHOOSE j \in S : \A k \in S : k <= j
                        IN [row EXCEPT !.tank = o.pists[l].tank]
<1>9. R = F(N) /\ Q = F(M)  BY DEF RetankedUpTo
<1> HIDE DEF F
<1>1. \E u : R = IF N = {} THEN row ELSE [row EXCEPT !.tank = u]  BY DEF RetankedUpTo
<1>2. Q = IF M = {} THEN row ELSE [row EXCEPT !.tank = o.pists[last].tank]
  BY DEF RetankedUpTo
<1>3. row = [pist |-> row.pist, copy |-> row.copy, tank |-> row.tank]  BY DEF Row
<1> HIDE DEF R, Q
<1>4. R.pist = row.pist /\ [R EXCEPT !.tank = t] = [row EXCEPT !.tank = t]
  <2> HIDE DEF N, t
  <2> QED  BY <1>1, <1>3
<1>5. Tables!Named(o, row.pist) = {j \in DOMAIN o.pists : o.pists[j].pist = row.pist}
  BY DEF Tables!Named
<1>6. \A j \in DOMAIN o.pists : j \in Nat /\ (j < c + 1 <=> j < c \/ j = c) /\ (j < c + 1 <=> j <= c)
  OBVIOUS
<1>7. CASE o.pists[c].pist = row.pist
  <2>1. c \in M /\ \A k \in M : k <= c /\ k \in Nat  BY <1>5, <1>6, <1>7
  <2>2. last = c
    <3> HIDE DEF M
    <3>1. \A j \in M : (\A k \in M : k <= j) => j = c  BY <2>1
    <3> QED  BY <2>1, <3>1
  <2> HIDE DEF M, last
  <2>3. Q = [row EXCEPT !.tank = t]  BY <1>2, <2>1, <2>2
  <2> QED  BY <1>4, <1>7, <2>3 DEF R, Q
<1>8. CASE o.pists[c].pist # row.pist
  <2>1. M = N  BY <1>5, <1>6, <1>8
  <2>2. Q = R
    <3> HIDE DEF M, N
    <3> QED  BY <1>9, <2>1
  <2> QED  BY <1>4, <1>8, <2>2 DEF R, Q
<1> QED  BY <1>7, <1>8

\* What has been saved, and the next pistol.
LEMMA SavedInserted ==
  ASSUME NEW o, o.pists \in Seq(Pistol), NEW c \in DOMAIN o.pists, o.pists[c].pist = 0,
         NEW m \in Nat, NEW old \in SUBSET Row, IsMax(m, old), \A row \in old : row.pist > 0
  PROVE  LET new == SavedUpTo(o, c, m, old)
             num == m + Cardinality(NewUpTo(o, c)) + 1
         IN /\ \A row \in new : row.pist # num
            /\ SavedUpTo(o, c + 1, m, old) =
                 new \cup {[pist |-> num, copy |-> 0, tank |-> o.pists[c].tank]}
<1> DEFINE N      == NewUpTo(o, c)
           x      == Cardinality(N)
           num    == m + x + 1
           one(j) == [pist |-> m + Tables!Rank(o, j), copy |-> 0, tank |-> o.pists[j].tank]
           kept(d) == {RetankedUpTo(o, d, row) : row \in old}
<1>1. /\ x \in Nat /\ NewUpTo(o, c + 1) = N \cup {c} /\ Tables!Rank(o, c) = x + 1
  BY NewUpToNext
<1>2. \A j \in N : Tables!Rank(o, j) \in Nat /\ Tables!Rank(o, j) <= x  BY RankBound
<1>3. ASSUME NEW row \in old
      PROVE  RetankedUpTo(o, c, row).pist = row.pist
             /\ RetankedUpTo(o, c + 1, row) = RetankedUpTo(o, c, row)
  <2>1. row \in Row /\ row.pist \in Nat  BY DEF Row
  <2>2. o.pists[c].pist # row.pist  BY <2>1
  <2>3. /\ RetankedUpTo(o, c, row).pist = row.pist
        /\ RetankedUpTo(o, c + 1, row) =
              IF o.pists[c].pist = row.pist
              THEN [RetankedUpTo(o, c, row) EXCEPT !.tank = o.pists[c].tank]
              ELSE RetankedUpTo(o, c, row)
    BY <2>1, RetankedUpToNext
  <2> QED  BY <2>2, <2>3
<1>4. \A row \in old : row.pist \in Nat /\ row.pist <= m  BY DEF IsMax, Row
<1>5. /\ SavedUpTo(o, c, m, old) = kept(c) \cup {one(j) : j \in N}
      /\ SavedUpTo(o, c + 1, m, old) = kept(c + 1) \cup {one(j) : j \in NewUpTo(o, c + 1)}
  BY DEF SavedUpTo
<1>6. kept(c + 1) = kept(c)  BY <1>3
<1>7. one(c) = [pist |-> num, copy |-> 0, tank |-> o.pists[c].tank]  BY <1>1
<1>8. ASSUME NEW row \in kept(c) \cup {one(j) : j \in N} PROVE row.pist # num
  <2>1. CASE row \in kept(c)
    <3>1. PICK r \in old : row = RetankedUpTo(o, c, r)  BY <2>1
    <3>2. row.pist = r.pist  BY <1>3, <3>1
    <3> HIDE DEF x
    <3> QED  BY <1>1, <1>4, <3>2
  <2>2. CASE row \in {one(j) : j \in N}
    <3>1. PICK j \in N : row = one(j)  BY <2>2
    <3>2. row.pist = m + Tables!Rank(o, j)  BY <3>1
    <3> HIDE DEF x
    <3> QED  BY <1>1, <1>2, <3>2
  <2> QED  BY <2>1, <2>2
<1> HIDE DEF one, kept, x
<1>9. SavedUpTo(o, c + 1, m, old) = SavedUpTo(o, c, m, old) \cup {one(c)}
  BY <1>1, <1>5, <1>6
<1> QED  BY <1>5, <1>7, <1>8, <1>9 DEF x

LEMMA SavedRetanked ==
  ASSUME NEW o, o.pists \in Seq(Pistol), NEW c \in DOMAIN o.pists, o.pists[c].pist # 0,
         NEW m \in Nat, NEW old \in SUBSET Row, IsMax(m, old),
         ~(o.pists[c].pist > m /\ o.pists[c].pist <= m + Cardinality(NewUpTo(o, c)))
  PROVE  Retanked(SavedUpTo(o, c, m, old), o.pists[c].pist, o.pists[c].tank)
           = SavedUpTo(o, c + 1, m, old)
<1> DEFINE x      == o.pists[c].pist
           t      == o.pists[c].tank
           N      == NewUpTo(o, c)
           one(j) == [pist |-> m + Tables!Rank(o, j), copy |-> 0, tank |-> o.pists[j].tank]
           kept(d) == {RetankedUpTo(o, d, row) : row \in old}
           R(row) == Retank(row, x, t)
<1>1. x \in Nat /\ NewUpTo(o, c + 1) = N /\ Cardinality(N) \in Nat
  <2>1. o.pists[c] \in Pistol /\ c \in Nat  OBVIOUS
  <2> QED  BY <2>1, NewUpToNext DEF Pistol
<1>2. \A j \in N : R(one(j)) = one(j)
  <2> SUFFICES ASSUME NEW j \in N PROVE x # m + Tables!Rank(o, j)
    BY DEF Retank
  <2>1. /\ Tables!Rank(o, j) \in Nat /\ 1 <= Tables!Rank(o, j)
        /\ Tables!Rank(o, j) <= Cardinality(N)
    BY RankBound
  <2> HIDE DEF N
  <2>2. ~(x > m /\ x <= m + Cardinality(N))  BY DEF N
  <2> HIDE DEF x
  <2> QED  BY <1>1, <2>1, <2>2
<1>3. \A row \in old : R(RetankedUpTo(o, c, row)) = RetankedUpTo(o, c + 1, row)
  BY RetankedUpToNext DEF Retank
<1>4. /\ SavedUpTo(o, c, m, old) = kept(c) \cup {one(j) : j \in N}
      /\ SavedUpTo(o, c + 1, m, old) = kept(c + 1) \cup {one(j) : j \in NewUpTo(o, c + 1)}
  BY DEF SavedUpTo
<1>5. \A rows : Retanked(rows, x, t) = {R(row) : row \in rows}  BY DEF Retanked, Retank
<1> HIDE DEF x, t, R, one
<1>6. {R(row) : row \in kept(c)} = kept(c + 1)  BY <1>3
<1>7. {R(row) : row \in {one(j) : j \in N}} = {one(j) : j \in N}  BY <1>2
<1> DEFINE added == {one(j) : j \in N}
<1>8. /\ SavedUpTo(o, c, m, old) = kept(c) \cup added
      /\ SavedUpTo(o, c + 1, m, old) = kept(c + 1) \cup added
      /\ {R(row) : row \in added} = added
  BY <1>1, <1>4, <1>7
<1> HIDE DEF kept, added
<1>9. {R(row) : row \in kept(c) \cup added}
        = {R(row) : row \in kept(c)} \cup {R(row) : row \in added}
  OBVIOUS
<1>10. Retanked(SavedUpTo(o, c, m, old), x, t) = SavedUpTo(o, c + 1, m, old)
  BY <1>5, <1>6, <1>8, <1>9
<1> QED  BY <1>10 DEF x, t

\* Before the first pistol nothing has changed.
LEMMA NothingSaved ==
  ASSUME NEW o, o.pists \in Seq(Pistol), NEW m, NEW old, NEW c \in {0, 1}
  PROVE  /\ NewUpTo(o, c) = {} /\ Cardinality(NewUpTo(o, c)) = 0
         /\ SavedUpTo(o, c, m, old) = old /\ PartlyUpTo(o, c, old, old)
<1>1. NewUpTo(o, c) = {} /\ \A x : {j \in Tables!Named(o, x) : j < c} = {}
  BY DEF NewUpTo, Tables!New, Tables!Named
<1>2. Cardinality(NewUpTo(o, c)) = 0  BY <1>1, FS_EmptySet
<1>3. \A row : RetankedUpTo(o, c, row) = row  BY <1>1 DEF RetankedUpTo
<1>4. SavedUpTo(o, c, m, old) = old  BY <1>1, <1>3 DEF SavedUpTo
<1>5. Added(old, old) = {}  BY DEF Added
<1>6. Cardinality(Added(old, old)) = 0  BY <1>5, FS_EmptySet
<1>7. PartlyUpTo(o, c, old, old)  BY <1>2, <1>5, <1>6 DEF PartlyUpTo
<1> QED  BY <1>1, <1>2, <1>4, <1>7

\* With the last pistol the pump is stored as sent.
LEMMA SavedAtEnd ==
  ASSUME NEW o, o.pists \in Seq(Pistol), NEW c \in Nat, c > Len(o.pists),
         NEW m \in Nat, NEW old, IsMax(m, old)
  PROVE  Tables!PistolsSaved(old, o, SavedUpTo(o, c, m, old))
<1>1. \A j \in DOMAIN o.pists : j < c  OBVIOUS
<1>2. NewUpTo(o, c) = Tables!New(o)  BY <1>1 DEF NewUpTo, Tables!New
<1>3. ASSUME NEW row PROVE RetankedUpTo(o, c, row) = Tables!Retanked(o, row)
  <2> DEFINE F(S) == IF S = {} THEN row
                     ELSE LET l == CHOOSE j \in S : \A k \in S : k <= j
                          IN [row EXCEPT !.tank = o.pists[l].tank]
             N == {j \in Tables!Named(o, row.pist) : j < c}
  <2>1. N = Tables!Named(o, row.pist)  BY <1>1 DEF Tables!Named
  <2>2. RetankedUpTo(o, c, row) = F(N)  BY DEF RetankedUpTo
  <2>3. Tables!Retanked(o, row) = F(Tables!Named(o, row.pist))  BY DEF Tables!Retanked
  <2> HIDE DEF F, N
  <2> QED  BY <2>1, <2>2, <2>3
<1>4. m \in {0} \cup {row.pist : row \in old} /\ Tables!IsHighest(m, old)
  BY DEF IsMax, Tables!IsHighest
<1>5. SavedUpTo(o, c, m, old) =
        {Tables!Retanked(o, row) : row \in old}
          \cup {[pist |-> m + Tables!Rank(o, j), copy |-> 0, tank |-> o.pists[j].tank] :
                  j \in Tables!New(o)}
  BY <1>2, <1>3 DEF SavedUpTo
<1> QED  BY <1>4, <1>5 DEF Tables!PistolsSaved

\* Rows with keys of their own: what is not added is as much as was there.
LEMMA AddedRest ==
  ASSUME NEW old, NEW new, IsFiniteSet(old), IsFiniteSet(new), Keyed(old), Keyed(new),
         \A row \in old : \E u \in new : Key(u) = Key(row)
  PROVE  Cardinality(Added(old, new)) = Cardinality(new) - Cardinality(old)
<1> DEFINE A    == Added(old, new)
           kept == {u \in new : \E row \in old : Key(u) = Key(row)}
           f    == [row \in old |-> CHOOSE u \in new : Key(u) = Key(row)]
<1>1. new = A \cup kept /\ A \cap kept = {}  BY DEF Added
<1>2. \A row \in old : f[row] \in new /\ Key(f[row]) = Key(row)  OBVIOUS
<1>3. f \in [old -> kept]  BY <1>2
<1>4. \A r1, r2 \in old : f[r1] = f[r2] => r1 = r2  BY <1>2 DEF Keyed
<1>5. \A u \in kept : \E row \in old : f[row] = u  BY <1>2 DEF Keyed
<1> HIDE DEF f
<1>6. f \in Surjection(old, kept) /\ f \in Injection(old, kept)
  <2> HIDE DEF kept
  <2> QED  BY <1>3, <1>4, <1>5 DEF Surjection, Injection, IsInjective
<1>7. IsFiniteSet(A) /\ IsFiniteSet(kept)  BY FS_Subset DEF Added
<1>8. Cardinality(kept) = Cardinality(old)  BY <1>6, FS_Surjection
<1>9. Cardinality(new) = Cardinality(A) + Cardinality(kept) - Cardinality({})
  <2> HIDE DEF A, kept
  <2> QED  BY <1>1, <1>7, FS_Union
<1>10. Cardinality({}) = 0 /\ Cardinality(A) \in Nat /\ Cardinality(kept) \in Nat
       /\ Cardinality(new) \in Nat
  BY <1>7, FS_EmptySet, FS_CardinalityType
<1> HIDE DEF A, kept
<1>11. Cardinality(A) = Cardinality(new) - Cardinality(old)  BY <1>8, <1>9, <1>10
<1> QED  BY <1>11 DEF A

\* Wherever a failure interrupts it, the pump is stored in part.
LEMMA PartlyAtEnd ==
  ASSUME NEW o, o.pists \in Seq(Pistol), NEW c \in Nat, NEW old, NEW new,
         IsFiniteSet(old), IsFiniteSet(new), Keyed(old), Keyed(new), PartlyUpTo(o, c, old, new)
  PROVE  Tables!PistolsPartly(old, o, new)
<1> DEFINE K(row) == [pist |-> row.pist, copy |-> row.copy]
           added  == {u \in new : \A row \in old : K(u) # K(row)}
<1>1. \A r1, r2 : K(r1) = K(r2) <=> Key(r1) = Key(r2)
  <2> SUFFICES ASSUME NEW r1, NEW r2 PROVE K(r1) = K(r2) <=> Key(r1) = Key(r2)
    OBVIOUS
  <2>1. K(r1) = K(r2) <=> r1.pist = r2.pist /\ r1.copy = r2.copy
    <3>1. K(r1).pist = r1.pist /\ K(r1).copy = r1.copy /\ K(r2).pist = r2.pist /\ K(r2).copy = r2.copy
      OBVIOUS
    <3> QED  BY <3>1
  <2>2. Key(r1) = Key(r2) <=> r1.pist = r2.pist /\ r1.copy = r2.copy  BY DEF Key
  <2> QED  BY <2>1, <2>2
<1> HIDE DEF K
<1>2. added = Added(old, new)  BY <1>1 DEF Added
<1>3. \A row \in old : \E u \in new :
        Key(u) = Key(row) /\ u.tank \in {row.tank} \cup Tables!Sent(o, row.pist)
  BY DEF PartlyUpTo
<1>4. Cardinality(added) = Cardinality(new) - Cardinality(old)  BY <1>2, <1>3, AddedRest
<1>5. IsFiniteSet(Tables!New(o)) /\ NewUpTo(o, c) \subseteq Tables!New(o)
  <2>1. IsFiniteSet(DOMAIN o.pists)  BY FS_Interval
  <2> QED  BY <2>1, FS_Subset DEF Tables!New, NewUpTo
<1>6. Cardinality(added) <= Cardinality(Tables!New(o))
  <2>1. Cardinality(NewUpTo(o, c)) <= Cardinality(Tables!New(o))  BY <1>5, FS_Subset
  <2>2. IsFiniteSet(NewUpTo(o, c)) /\ IsFiniteSet(added)  BY <1>5, FS_Subset
  <2>3. Cardinality(added) <= Cardinality(NewUpTo(o, c))  BY <1>2 DEF PartlyUpTo
  <2> HIDE DEF added
  <2> QED  BY <1>5, <2>1, <2>2, <2>3, FS_CardinalityType
<1>7. \A u \in added : \E j \in DOMAIN o.pists : u.tank = o.pists[j].tank
  BY <1>2 DEF PartlyUpTo
<1>8. \A row \in old : \E u \in new :
        K(u) = K(row) /\ u.tank \in {row.tank} \cup Tables!Sent(o, row.pist)
  BY <1>1, <1>3
<1>9. \A S : Tables!Cardinality(S) = Cardinality(S)  BY TablesCardinality
<1> QED  BY <1>4, <1>6, <1>7, <1>8, <1>9 DEF Tables!PistolsPartly, K

-----------------------------------------------------------------------------
(* StoreInv is inductive, and every step is one of StationTables.          *)

\* A step as StationTables sees it.
TablesStep == [Tables!Next]_(Tables!vars)

\* The tables before the object in hand stay, and at most a failure is noticed.
LEMMA NothingStored ==
  ASSUME before' = before, disturbed' = disturbed \/ disturbed' = TRUE
  PROVE  TablesStep
  BY DEF TablesStep, Tables!Next, Tables!Failure, Tables!vars

\* The tables may be taken afresh between two objects.
LEMMA RequestCame ==
  ASSUME before' = before, disturbed' = FALSE
  PROVE  TablesStep
  BY DEF TablesStep, Tables!Next, Tables!Request, Tables!vars

\* The object in hand is done with.
LEMMA ObjectStored ==
  ASSUME IInv, wpc = "busy", i <= Len(request), disturbed' \in BOOLEAN,
         disturbed => disturbed',
         ~disturbed' => Tables!Saved(before, Obj, before'),
         disturbed' => Tables!Partly(before, Obj, before')
  PROVE  TablesStep
<1>1. i \in DOMAIN request  BY ObjectInHand DEF IInv
<1>2. request \in Requests
  <2>1. request # <<>>  BY <1>1
  <2> QED  BY <2>1 DEF IInv, TypeOK
<1>3. disturbed \in BOOLEAN  BY DEF IInv, TypeOK
<1>4. CASE ~disturbed'
  <2>1. Tables!Store(Obj)  BY <1>3, <1>4 DEF Tables!Store
  <2> QED  BY <1>1, <1>2, <2>1 DEF TablesStep, Tables!Next, Obj
<1>5. CASE disturbed'
  <2>1. Tables!StorePartly(Obj)  BY <1>5 DEF Tables!StorePartly
  <2> QED  BY <1>1, <1>2, <2>1 DEF TablesStep, Tables!Next, Obj
<1> QED  BY <1>4, <1>5

\* Deleting the pistols gone of what an object lists.
Deleted(o, gone, a) ==
  [a EXCEPT !.trk[o.id] = {row \in @ : Tables!Named(o, row.pist) \cap gone = {}}]

LEMMA DeletedNone ==
  ASSUME NEW a \in Content, NEW o
  PROVE  Deleted(o, {}, a) = a
<1>1. \A rows : {row \in rows : Tables!Named(o, row.pist) \cap {} = {}} = rows  OBVIOUS
<1>2. Deleted(o, {}, a) = [a EXCEPT !.trk[o.id] = @]  BY <1>1 DEF Deleted
<1> QED  BY <1>2 DEF Content

\* Between two objects, whatever the next one is, nothing has been done of it.
LEMMA AtStart == TypeOK /\ at = 0 /\ before = db => PlaceInv /\ PumpInv /\ DeleteInv
<1> SUFFICES ASSUME TypeOK, at = 0, before = db PROVE PlaceInv /\ PumpInv /\ DeleteInv
  OBVIOUS
<1>1. PlaceInv /\ PumpInv  BY DEF PlaceInv, PumpInv
<1>2. ASSUME Doing("delete_Trk"), Obj.pists # <<>>
      PROVE  /\ at <= Len(Obj.pists)
             /\ \E gone \in SUBSET (1 .. at) :
                  /\ ~disturbed => gone = 1 .. at
                  /\ db = Deleted(Obj, gone, before)
  <2>1. Obj \in Object  BY <1>2, ObjectInHand DEF Doing
  <2>2. Obj.pists \in Seq([pist : Nat])  BY <1>2, <2>1, Fields DEF Doing
  <2>3. Len(Obj.pists) \in Nat /\ 1 .. at = {}  BY <2>2
  <2>4. db = Deleted(Obj, {}, before)  BY DeletedNone DEF TypeOK
  <2> QED  BY <2>3, <2>4
<1> QED  BY <1>1, <1>2 DEF DeleteInv, Deleted

LEMMA AtStartNext ==
  ASSUME TypeOK', at' = 0, before' = db'
  PROVE  PlaceInv' /\ PumpInv' /\ DeleteInv'
<1>1. (TypeOK /\ at = 0 /\ before = db)' => (PlaceInv /\ PumpInv /\ DeleteInv)'
  BY AtStart, PTL
<1> QED  BY <1>1

\* The keys of a pump's rows, before the object in hand and now.
LEMMA KeysKept ==
  ASSUME IInv', KeysInv, \A p \in Pumps : Keyed(db'.trk[p]), before' \in {before, db'}
  PROVE  KeysInv'
  BY DEF KeysInv, IInv, FiniteInv

\* An object of one statement is stored, or not, in one step.
LEMMA SingleStores ==
  ASSUME IInv, IInv', StoreInv, wpc = "busy", i <= Len(request), at = 0,
         Obj.do # "set_Trk", ~(Obj.do = "delete_Trk" /\ Obj.pists # <<>>),
         NEW after, Single(after), \A p \in Pumps : Keyed(after.trk[p]),
         Tables!Saved(db, Obj, after)
  PROVE  StoreInv' /\ TablesStep
<1>1. {here, disturbed} \subseteq BOOLEAN  BY DEF IInv, TypeOK
<1>2. before = db  BY DEF StoreInv, PlaceInv
<1>3. at' = 0 /\ before' = db' /\ db' \in {db, after}
  BY DEF Single, NextObject, Works, Throws
<1>4. \/ disturbed' = TRUE
      \/ disturbed' = (disturbed \/ ~here) /\ db' = IF here THEN after ELSE db
  BY DEF Single, Works, Throws
<1>5. \A p \in Pumps : Keyed(db'.trk[p])  BY <1>2, <1>3 DEF StoreInv, KeysInv
<1>6. KeysInv'  BY <1>3, <1>5, KeysKept DEF StoreInv
<1>7. PlaceInv' /\ PumpInv' /\ DeleteInv'  BY <1>3, AtStartNext DEF IInv
<1>8. Tables!Partly(before, Obj, before')
  <2>1. \A t, u : u = t \/ Tables!Saved(t, Obj, u) => Tables!Partly(t, Obj, u)
    BY DEF Tables!Partly
  <2> QED  BY <1>2, <1>3, <2>1
<1>9. ~disturbed' => Tables!Saved(before, Obj, before')  BY <1>1, <1>2, <1>3, <1>4
<1>10. disturbed' \in BOOLEAN /\ (disturbed => disturbed')  BY <1>1, <1>4
<1>11. TablesStep  BY <1>8, <1>9, <1>10, ObjectStored
<1> QED  BY <1>6, <1>7, <1>11 DEF StoreInv

\* The same for each of them.
LEMMA SinglesStore ==
  ASSUME IInv, IInv', StoreInv,
         \/ SetTovar \/ SetTank \/ DeleteTovar \/ DeleteTank \/ DeletePump
         \/ SaveScreen \/ SavePlace
  PROVE  StoreInv' /\ TablesStep
<1> USE DEF Doing
<1>1. wpc = "busy" /\ i <= Len(request)
  BY DEF SetTovar, SetTank, DeleteTovar, DeleteTank, DeletePump, SaveScreen, SavePlace
<1>2. Obj.do # "set_Trk" /\ ~(Obj.do = "delete_Trk" /\ Obj.pists # <<>>)
  BY DEF SetTovar, SetTank, DeleteTovar, DeleteTank, DeletePump, SaveScreen, SavePlace
<1>3. at = 0
  <2>1. at \in Nat  BY DEF IInv, TypeOK
  <2>2. ~(at > 0)  BY <1>2 DEF StoreInv, PlaceInv
  <2> QED  BY <2>1, <2>2
<1>4. db \in Content /\ \A p \in Pumps : Keyed(db.trk[p])
  BY DEF IInv, TypeOK, StoreInv, KeysInv
<1>5. ASSUME NEW after, Single(after), after.trk = db.trk, Tables!Saved(db, Obj, after)
      PROVE  StoreInv' /\ TablesStep
  BY <1>1, <1>2, <1>3, <1>4, <1>5, SingleStores
<1> USE DEF Tables!Saved, Tables!Updated, Update
<1>6. CASE SetTovar
  <2> DEFINE after == [db EXCEPT !.tovar = Update(@, Obj.id, Obj.to)]
  <2>1. after.trk = db.trk  BY <1>4 DEF Content
  <2>2. Tables!Saved(db, Obj, after)  BY <1>6 DEF SetTovar
  <2> QED  BY <1>5, <1>6, <2>1, <2>2 DEF SetTovar
<1>7. CASE SetTank
  <2> DEFINE after == [db EXCEPT !.tank = Update(@, Obj.id, Obj.to)]
  <2>1. after.trk = db.trk  BY <1>4 DEF Content
  <2>2. Tables!Saved(db, Obj, after)  BY <1>7 DEF SetTank
  <2> QED  BY <1>5, <1>7, <2>1, <2>2 DEF SetTank
<1>8. CASE DeleteTovar
  <2> DEFINE after == [db EXCEPT !.tovar[Obj.id] = Absent]
  <2>1. after.trk = db.trk  BY <1>4 DEF Content
  <2>2. Tables!Saved(db, Obj, after)  BY <1>8 DEF DeleteTovar
  <2> QED  BY <1>5, <1>8, <2>1, <2>2 DEF DeleteTovar
<1>9. CASE DeleteTank
  <2> DEFINE after == [db EXCEPT !.tank[Obj.id] = Absent]
  <2>1. after.trk = db.trk  BY <1>4 DEF Content
  <2>2. Tables!Saved(db, Obj, after)  BY <1>9 DEF DeleteTank
  <2> QED  BY <1>5, <1>9, <2>1, <2>2 DEF DeleteTank
<1>10. CASE DeletePump
  <2> DEFINE after == [db EXCEPT !.com_trk[Obj.id] = Absent]
  <2>1. after.trk = db.trk  BY <1>4 DEF Content
  <2>2. Tables!Saved(db, Obj, after)  BY <1>10 DEF DeletePump
  <2> QED  BY <1>5, <1>10, <2>1, <2>2 DEF DeletePump
<1>11. CASE SaveScreen
  <2> DEFINE after == [db EXCEPT !.screen = Obj.to]
  <2>1. after.trk = db.trk  BY <1>4 DEF Content
  <2>2. Tables!Saved(db, Obj, after)  BY <1>11 DEF SaveScreen
  <2> QED  BY <1>5, <1>11, <2>1, <2>2 DEF SaveScreen
<1>12. CASE SavePlace
  <2> DEFINE after == [db EXCEPT !.com_trk = Update(@, Obj.id, Obj.to)]
  <2>1. after.trk = db.trk  BY <1>4 DEF Content
  <2>2. Tables!Saved(db, Obj, after)  BY <1>12 DEF SavePlace
  <2> QED  BY <1>5, <1>12, <2>1, <2>2 DEF SavePlace
<1> QED  BY <1>6, <1>7, <1>8, <1>9, <1>10, <1>11, <1>12

\* One number of a pump is deleted.
Without(a, id, x) == [a EXCEPT !.trk[id] = {row \in @ : row.pist # x}]

\* Pistols that are deleted leave the keys of the others as they are.
LEMMA DeletedKeyed ==
  ASSUME NEW a \in Content, \A p \in Pumps : Keyed(a.trk[p]), NEW id, NEW x
  PROVE  \A p \in Pumps : Keyed(Without(a, id, x).trk[p])
<1> DEFINE b == Without(a, id, x)
<1> SUFFICES ASSUME NEW p \in Pumps PROVE Keyed(b.trk[p])
  OBVIOUS
<1>1. Keyed({row \in a.trk[p] : row.pist \notin {x}})  BY FilteredKeyed
<1>2. {row \in a.trk[p] : row.pist \notin {x}} = {row \in a.trk[p] : row.pist # x}  OBVIOUS
<1>3. b.trk[p] = IF p = id THEN {row \in a.trk[p] : row.pist # x} ELSE a.trk[p]
  BY DEF Content, Without
<1> HIDE DEF b
<1> QED  BY <1>1, <1>2, <1>3

\* delete_Trk with a list of pistols: one of them, or the end of the list.
LEMMA DeletePistsStore ==
  ASSUME IInv, IInv', StoreInv, DeletePist \/ DeletePistsEnd
  PROVE  StoreInv' /\ TablesStep
<1>1. /\ wpc = "busy" /\ i <= Len(request) /\ Obj.do = "delete_Trk" /\ Obj.pists # <<>>
      /\ Doing("delete_Trk")
  <2>1. DeletePist => Obj.pists # <<>>  BY DEF DeletePist
  <2> QED  BY <2>1 DEF DeletePist, DeletePistsEnd, Doing
<1>2. {here, disturbed} \subseteq BOOLEAN /\ before \in Content /\ db \in Content /\ at \in Nat
  BY DEF IInv, TypeOK
<1>3. Obj.id \in Pumps /\ Obj.pists \in Seq([pist : Nat])
  BY <1>1, ObjectInHand, Fields DEF IInv
<1>4. DOMAIN Obj.pists = 1 .. Len(Obj.pists) /\ Len(Obj.pists) \in Nat  BY <1>3
<1>5. PICK gone \in SUBSET (1 .. at) :
        /\ ~disturbed => gone = 1 .. at
        /\ db = Deleted(Obj, gone, before)
  BY <1>1 DEF StoreInv, DeleteInv, Deleted
<1>6. at <= Len(Obj.pists)  BY <1>1 DEF StoreInv, DeleteInv
<1>7. CASE DeletePist
  <2> DEFINE k     == at + 1
             x     == Obj.pists[k].pist
             after == Without(db, Obj.id, x)
  <2>1. k \in DOMAIN Obj.pists /\ (Works(after) \/ Throws(after)) /\ NextStatement
    BY <1>7 DEF DeletePist, Without
  <2>2. after = Deleted(Obj, gone \cup {k}, before)
    <3> DEFINE left(g) == {row \in before.trk[Obj.id] : Tables!Named(Obj, row.pist) \cap g = {}}
               rest    == {row \in left(gone) : row.pist # x}
    <3>1. \A y : k \in Tables!Named(Obj, y) <=> y = x  BY <2>1 DEF Tables!Named
    <3> HIDE DEF k, x
    <3>2. \A y : Tables!Named(Obj, y) \cap (gone \cup {k}) = {}
                  <=> Tables!Named(Obj, y) \cap gone = {} /\ y # x
      BY <3>1
    <3>3. rest = left(gone \cup {k})  BY <3>2
    <3>4. \A g : Deleted(Obj, g, before) = [before EXCEPT !.trk[Obj.id] = left(g)]  BY DEF Deleted
    <3> HIDE DEF left
    <3>5. Without([before EXCEPT !.trk[Obj.id] = left(gone)], Obj.id, x)
            = [before EXCEPT !.trk[Obj.id] = rest]
      BY <1>2, <1>3 DEF Without, Content
    <3> HIDE DEF rest
    <3>6. db = [before EXCEPT !.trk[Obj.id] = left(gone)]  BY <1>5, <3>4
    <3>7. Deleted(Obj, gone \cup {k}, before) = [before EXCEPT !.trk[Obj.id] = rest]  BY <3>3, <3>4
    <3> QED  BY <3>5, <3>6, <3>7
  <2>3. \A p \in Pumps : Keyed(db.trk[p])  BY DEF StoreInv, KeysInv
  <2>4. \A p \in Pumps : Keyed(after.trk[p])  BY <1>2, <2>3, DeletedKeyed
  <2> HIDE DEF after
  <2>5. db' \in {db, after} /\ before' = before /\ at' = k /\ Obj' = Obj
    BY <2>1 DEF Works, Throws, NextStatement, Obj
  <2>6. \A p \in Pumps : Keyed(db'.trk[p])  BY <2>3, <2>4, <2>5
  <2>7. KeysInv'  BY <2>5, <2>6, KeysKept DEF StoreInv
  <2>8. Doing("delete_Trk")'  BY <1>1, <2>1, <2>5 DEF NextStatement, Doing
  <2>9. PlaceInv'
    <3>1. at' # 0  BY <1>2, <2>5
    <3> QED  BY <1>1, <2>5, <2>8, <3>1 DEF PlaceInv
  <2>10. PumpInv'  BY <1>1, <2>5 DEF PumpInv, Doing
  <2>11. \E g \in SUBSET (1 .. at') :
           /\ ~disturbed' => g = 1 .. at'
           /\ db' = Deleted(Obj, g, before)
    <3>0. at' = at + 1 /\ 1 .. at' = (1 .. at) \cup {k}  BY <1>2, <2>5
    <3>1. CASE db' = after
      <4>1. ~disturbed' => ~disturbed  BY <1>2, <2>1 DEF Works, Throws
      <4>2. gone \cup {k} \in SUBSET (1 .. at')  BY <3>0
      <4>3. ~disturbed' => gone \cup {k} = 1 .. at'  BY <1>5, <3>0, <4>1
      <4> QED  BY <2>2, <3>1, <4>2, <4>3
    <3>2. CASE db' = db /\ db' # after
      <4>1. disturbed'  BY <1>2, <2>1, <3>2 DEF Works, Throws
      <4> QED  BY <1>5, <3>0, <3>2, <4>1
    <3> QED  BY <2>5, <3>1, <3>2
  <2>12. DeleteInv'
    <3>1. at' <= Len(Obj.pists)  BY <1>4, <2>1, <2>5
    <3>2. \E g \in SUBSET (1 .. at') :
             /\ ~disturbed' => g = 1 .. at'
             /\ db' = Deleted(Obj', g, before')
      BY <2>5, <2>11
    <3>3. at' <= Len(Obj'.pists)  BY <2>5, <3>1
    <3> QED  BY <3>2, <3>3 DEF DeleteInv, Deleted
  <2>13. TablesStep
    <3>1. disturbed' = disturbed \/ disturbed' = TRUE  BY <1>2, <2>1 DEF Works, Throws
    <3> QED  BY <2>5, <3>1, NothingStored
  <2> QED  BY <2>7, <2>9, <2>10, <2>12, <2>13 DEF StoreInv
<1>8. CASE DeletePistsEnd
  <2>1. at = Len(Obj.pists) /\ db' = db /\ disturbed' = disturbed /\ at' = 0 /\ before' = db
    BY <1>8 DEF DeletePistsEnd, NextObject
  <2>2. KeysInv'  BY <2>1, KeysKept DEF StoreInv, KeysInv
  <2>3. PlaceInv' /\ PumpInv' /\ DeleteInv'  BY <2>1, AtStartNext DEF IInv
  <2>4. Tables!Partly(before, Obj, db)
    <3>1. gone \in SUBSET DOMAIN Obj.pists  BY <1>4, <2>1
    <3> QED  BY <1>1, <1>5, <3>1 DEF Tables!Partly, Deleted
  <2>5. ~disturbed => Tables!Saved(before, Obj, db)
    <3> SUFFICES ASSUME ~disturbed PROVE Tables!Saved(before, Obj, db)
      OBVIOUS
    <3>1. gone = DOMAIN Obj.pists  BY <1>4, <1>5, <2>1
    <3>2. \A x : Tables!Named(Obj, x) \cap gone = Tables!Named(Obj, x)
      BY <3>1 DEF Tables!Named
    <3>3. db = [before EXCEPT !.trk[Obj.id] = {row \in @ : Tables!Named(Obj, row.pist) = {}}]
      BY <1>5, <3>2 DEF Deleted
    <3> QED  BY <1>1, <3>3 DEF Tables!Saved
  <2>6. TablesStep  BY <1>1, <1>2, <2>1, <2>4, <2>5, ObjectStored
  <2> QED  BY <2>2, <2>3, <2>6 DEF StoreInv
<1> QED  BY <1>7, <1>8

\* What a pump's pistols before c have made of the tables a.
PumpSoFar(o, c, a, b) ==
  /\ b.com_trk \in {a.com_trk, Update(a.com_trk, o.id, o.to)}
  /\ b = [a EXCEPT !.com_trk = b.com_trk, !.trk[o.id] = b.trk[o.id]]
  /\ PartlyUpTo(o, c, a.trk[o.id], b.trk[o.id])

\* The same as sent, with the numbers after max_id_pist.
PumpAsSent(o, c, a, b, m, k) ==
  /\ b.com_trk = Update(a.com_trk, o.id, o.to)
  /\ IsMax(m, a.trk[o.id])
  /\ k = Cardinality(NewUpTo(o, c))
  /\ b.trk[o.id] = SavedUpTo(o, c, m, a.trk[o.id])

\* The pump in hand, before its next statement.
LEMMA PumpInHand ==
  ASSUME IInv, StoreInv, Doing("set_Trk")
  PROVE  /\ wpc = "busy" /\ i <= Len(request) /\ Obj.do = "set_Trk"
         /\ Obj.id \in Pumps /\ Obj.to \in Values /\ Obj.pists \in Seq(Pistol)
         /\ at \in Nat /\ db \in Content /\ before \in Content
         /\ {here, disturbed} \subseteq BOOLEAN /\ max_id_pist \in Nat /\ n \in Nat
         /\ \A p \in Pumps : /\ Keyed(db.trk[p]) /\ IsFiniteSet(db.trk[p])
                             /\ Keyed(before.trk[p]) /\ IsFiniteSet(before.trk[p])
         /\ at = 0 => before = db
         /\ at > 0 => /\ at <= Len(Obj.pists) + 2
                      /\ PumpSoFar(Obj, at - 1, before, db)
                      /\ ~disturbed /\ at = 1 =>
                           /\ db.com_trk = Update(before.com_trk, Obj.id, Obj.to)
                           /\ db.trk[Obj.id] = before.trk[Obj.id]
                      /\ ~disturbed /\ at > 1 =>
                           PumpAsSent(Obj, at - 1, before, db, max_id_pist, n)
<1>1. wpc = "busy" /\ i <= Len(request) /\ Obj.do = "set_Trk"  BY DEF Doing
<1>2. Obj.id \in Pumps /\ Obj.to \in Values /\ Obj.pists \in Seq(Pistol)
  BY <1>1, ObjectInHand, Fields DEF IInv
<1>3. /\ at \in Nat /\ db \in Content /\ before \in Content /\ {here, disturbed} \subseteq BOOLEAN
      /\ max_id_pist \in Nat /\ n \in Nat
  BY DEF IInv, TypeOK
<1>4. \A p \in Pumps : /\ Keyed(db.trk[p]) /\ IsFiniteSet(db.trk[p])
                       /\ Keyed(before.trk[p]) /\ IsFiniteSet(before.trk[p])
  BY DEF IInv, FiniteInv, StoreInv, KeysInv
<1>5. at = 0 => before = db  BY DEF StoreInv, PlaceInv
<1>6. at > 0 => /\ at <= Len(Obj.pists) + 2
                /\ PumpSoFar(Obj, at - 1, before, db)
                /\ ~disturbed /\ at = 1 =>
                     /\ db.com_trk = Update(before.com_trk, Obj.id, Obj.to)
                     /\ db.trk[Obj.id] = before.trk[Obj.id]
                /\ ~disturbed /\ at > 1 =>
                     PumpAsSent(Obj, at - 1, before, db, max_id_pist, n)
  BY DEF StoreInv, PumpInv, PumpSoFar, PumpAsSent
<1> QED  BY <1>1, <1>2, <1>3, <1>4, <1>5, <1>6

\* A statement of the pump that is not its last.
LEMMA PumpGoesOn ==
  ASSUME IInv, IInv', StoreInv, Doing("set_Trk"), NextStatement,
         at <= Len(Obj.pists) + 1, \A p \in Pumps : Keyed(db'.trk[p]),
         PumpSoFar(Obj, at, before, db'),
         disturbed' = disturbed \/ disturbed' = TRUE,
         ~disturbed' => \/ /\ at = 0
                           /\ db'.com_trk = Update(before.com_trk, Obj.id, Obj.to)
                           /\ db'.trk[Obj.id] = before.trk[Obj.id]
                        \/ at > 0 /\ PumpAsSent(Obj, at, before, db', max_id_pist', n')
  PROVE  StoreInv' /\ TablesStep
<1>1. /\ at \in Nat /\ Obj.pists \in Seq(Pistol) /\ Obj.do = "set_Trk"  BY PumpInHand
<1>2. at' = at + 1 /\ before' = before /\ Obj' = Obj /\ Doing("set_Trk")'
  BY DEF NextStatement, Obj, Doing
<1>3. KeysInv'  BY <1>2, KeysKept DEF StoreInv
<1>4. at' > 0 /\ at' # 0 /\ at' - 1 = at /\ (at' > 1 <=> at > 0) /\ (at' = 1 <=> at = 0)
  BY <1>1, <1>2
<1>5. PlaceInv' /\ DeleteInv'  BY <1>1, <1>2, <1>4 DEF PlaceInv, DeleteInv, Doing
<1>6. /\ at' <= Len(Obj'.pists) + 2
      /\ PumpSoFar(Obj', at' - 1, before', db')
      /\ ~disturbed' =>
           \/ /\ at' = 1
              /\ db'.com_trk = Update(before'.com_trk, Obj'.id, Obj'.to)
              /\ db'.trk[Obj'.id] = before'.trk[Obj'.id]
           \/ at' > 1 /\ PumpAsSent(Obj', at' - 1, before', db', max_id_pist', n')
  <2>1. at' <= Len(Obj'.pists) + 2
    <3>1. Len(Obj.pists) \in Nat  BY <1>1
    <3> QED  BY <1>1, <1>2, <3>1
  <2> QED  BY <1>2, <1>4, <2>1
<1>7. PumpInv'
  <2> HIDE DEF Obj
  <2> QED  BY <1>4, <1>6 DEF PumpInv, PumpSoFar, PumpAsSent
<1>8. TablesStep  BY <1>2, NothingStored
<1> QED  BY <1>3, <1>5, <1>7, <1>8 DEF StoreInv

\* The last, or one that throws.
LEMMA PumpEnds ==
  ASSUME IInv, IInv', StoreInv, Doing("set_Trk"), NextObject,
         \A p \in Pumps : Keyed(db'.trk[p]),
         NEW c \in Nat, PumpSoFar(Obj, c, before, db'),
         disturbed' = disturbed \/ disturbed' = TRUE,
         ~disturbed' => /\ c > Len(Obj.pists)
                        /\ PumpAsSent(Obj, c, before, db', max_id_pist, n)
  PROVE  StoreInv' /\ TablesStep
<1>1. /\ wpc = "busy" /\ i <= Len(request) /\ Obj.do = "set_Trk"
      /\ Obj.id \in Pumps /\ Obj.pists \in Seq(Pistol) /\ max_id_pist \in Nat
      /\ \A p \in Pumps : Keyed(before.trk[p]) /\ IsFiniteSet(before.trk[p])
      /\ disturbed \in BOOLEAN
  BY PumpInHand
<1>2. at' = 0 /\ before' = db'  BY DEF NextObject
<1>3. KeysInv'  BY <1>2, KeysKept DEF StoreInv
<1>4. PlaceInv' /\ PumpInv' /\ DeleteInv'  BY <1>2, AtStartNext DEF IInv
<1> DEFINE old == before.trk[Obj.id]
           new == db'.trk[Obj.id]
<1>5. /\ IsFiniteSet(old) /\ IsFiniteSet(new) /\ Keyed(old) /\ Keyed(new)
      /\ PartlyUpTo(Obj, c, old, new)
  BY <1>1 DEF IInv, FiniteInv, PumpSoFar
<1>6. Tables!Partly(before, Obj, db')
  <2>1. Tables!PistolsPartly(old, Obj, new)
    <3> HIDE DEF old, new
    <3> QED  BY <1>1, <1>5, PartlyAtEnd
  <2> QED  BY <1>1, <2>1 DEF Tables!Partly, Tables!Updated, PumpSoFar, Update
<1>7. ~disturbed' => Tables!Saved(before, Obj, db')
  <2> SUFFICES ASSUME ~disturbed' PROVE Tables!Saved(before, Obj, db')
    OBVIOUS
  <2>1. /\ c > Len(Obj.pists) /\ IsMax(max_id_pist, old)
        /\ new = SavedUpTo(Obj, c, max_id_pist, old)
    BY DEF PumpAsSent
  <2>2. Tables!PistolsSaved(old, Obj, new)
    <3> HIDE DEF old, new
    <3> QED  BY <1>1, <2>1, SavedAtEnd
  <2>3. db' = [before EXCEPT !.com_trk = Update(before.com_trk, Obj.id, Obj.to), !.trk[Obj.id] = new]
    BY DEF PumpSoFar, PumpAsSent
  <2> QED  BY <1>1, <2>2, <2>3 DEF Tables!Saved, Tables!Updated, Update
<1>8. TablesStep
  <2>1. disturbed' \in BOOLEAN /\ (disturbed => disturbed')  BY <1>1
  <2> QED  BY <1>1, <1>2, <1>6, <1>7, <2>1, ObjectStored
<1> QED  BY <1>3, <1>4, <1>8 DEF StoreInv

\* UPDATE com_trk, the first statement of a pump.
LEMMA PlaceStores ==
  ASSUME IInv, IInv', StoreInv, SetTrkPlace
  PROVE  StoreInv' /\ TablesStep
<1> DEFINE after == [db EXCEPT !.com_trk = Update(@, Obj.id, Obj.to)]
<1>1. Doing("set_Trk") /\ at = 0 /\ ((Works(after) /\ NextStatement) \/ (Throws(after) /\ NextObject))
  BY DEF SetTrkPlace
<1>2. /\ Obj.id \in Pumps /\ Obj.pists \in Seq(Pistol)
      /\ db \in Content /\ before = db /\ {here, disturbed} \subseteq BOOLEAN
      /\ \A p \in Pumps : Keyed(db.trk[p])
  BY <1>1, PumpInHand
<1>3. after.trk = db.trk /\ after.com_trk = Update(db.com_trk, Obj.id, Obj.to)
      /\ after = [db EXCEPT !.com_trk = after.com_trk, !.trk[Obj.id] = after.trk[Obj.id]]
      /\ db = [db EXCEPT !.com_trk = db.com_trk, !.trk[Obj.id] = db.trk[Obj.id]]
  BY <1>2 DEF Content
<1> HIDE DEF after
<1>4. db' \in {db, after}  BY <1>1 DEF Works, Throws
<1>5. \A p \in Pumps : Keyed(db'.trk[p])  BY <1>2, <1>3, <1>4
<1>6. PartlyUpTo(Obj, 0, before.trk[Obj.id], before.trk[Obj.id])  BY <1>2, NothingSaved
<1>7. PumpSoFar(Obj, 0, before, db')
  <2>1. db'.trk = before.trk /\ db'.com_trk \in {before.com_trk, Update(before.com_trk, Obj.id, Obj.to)}
    BY <1>2, <1>3, <1>4
  <2>2. db' = [before EXCEPT !.com_trk = db'.com_trk, !.trk[Obj.id] = db'.trk[Obj.id]]
    BY <1>2, <1>3, <1>4
  <2> QED  BY <1>6, <2>1, <2>2 DEF PumpSoFar
<1>8. disturbed' = disturbed \/ disturbed' = TRUE  BY <1>1, <1>2 DEF Works, Throws
<1>9. CASE Works(after) /\ NextStatement
  <2>1. ~disturbed' => /\ db'.com_trk = Update(before.com_trk, Obj.id, Obj.to)
                       /\ db'.trk[Obj.id] = before.trk[Obj.id]
    BY <1>2, <1>3, <1>9 DEF Works
  <2>2. at <= Len(Obj.pists) + 1
    <3>1. Len(Obj.pists) \in Nat  BY <1>2
    <3> QED  BY <1>1, <3>1
  <2> QED  BY <1>1, <1>5, <1>7, <1>8, <1>9, <2>1, <2>2, PumpGoesOn
<1>10. CASE Throws(after) /\ NextObject
  <2>1. disturbed' = TRUE  BY <1>10 DEF Throws
  <2> QED  BY <1>1, <1>5, <1>7, <1>8, <1>10, <2>1, PumpEnds
<1> QED  BY <1>1, <1>9, <1>10

\* SELECT MAX(id_pist), the second.
LEMMA MaxStores ==
  ASSUME IInv, IInv', StoreInv, SelectMax
  PROVE  StoreInv' /\ TablesStep
<1>1. Doing("set_Trk") /\ at = 1 /\ db' = db /\ (NextStatement \/ NextObject)
  BY DEF SelectMax, Throws
<1>2. /\ Obj.id \in Pumps /\ Obj.pists \in Seq(Pistol)
      /\ db \in Content /\ {here, disturbed} \subseteq BOOLEAN
      /\ \A p \in Pumps : Keyed(db.trk[p]) /\ IsFiniteSet(db.trk[p])
      /\ PumpSoFar(Obj, 0, before, db)
      /\ ~disturbed => /\ db.com_trk = Update(before.com_trk, Obj.id, Obj.to)
                       /\ db.trk[Obj.id] = before.trk[Obj.id]
  BY <1>1, PumpInHand
<1>3. disturbed' = disturbed \/ disturbed' = TRUE  BY DEF SelectMax, Throws
<1>4. CASE NextObject /\ disturbed'
  BY <1>1, <1>2, <1>3, <1>4, PumpEnds
<1>5. CASE NextStatement
  <2>1. PumpSoFar(Obj, 1, before, db')
    <3> DEFINE old == before.trk[Obj.id]
               new == db.trk[Obj.id]
    <3>1. PartlyUpTo(Obj, 0, old, new) /\ IsFiniteSet(new)  BY <1>2 DEF PumpSoFar
    <3> HIDE DEF old, new
    <3>2. PartlyUpTo(Obj, 0 + 1, old, new)  BY <1>2, <3>1, PartlyPassed
    <3> QED  BY <1>1, <1>2, <3>2 DEF PumpSoFar, old, new
  <2>2. at <= Len(Obj.pists) + 1
    <3>1. Len(Obj.pists) \in Nat  BY <1>2
    <3> QED  BY <1>1, <3>1
  <2>3. ~disturbed' => PumpAsSent(Obj, 1, before, db', max_id_pist', n')
    <3> SUFFICES ASSUME ~disturbed' PROVE PumpAsSent(Obj, 1, before, db', max_id_pist', n')
      OBVIOUS
    <3>1. ~disturbed /\ IsMax(max_id_pist', db.trk[Obj.id]) /\ n' = 0
      BY DEF SelectMax, Throws
    <3> DEFINE old == before.trk[Obj.id]
    <3>2. db'.com_trk = Update(before.com_trk, Obj.id, Obj.to) /\ db'.trk[Obj.id] = old
          /\ IsMax(max_id_pist', old)
      BY <1>1, <1>2, <3>1
    <3>3. Cardinality(NewUpTo(Obj, 1)) = 0 /\ SavedUpTo(Obj, 1, max_id_pist', old) = old
      <4> HIDE DEF old
      <4> QED  BY <1>2, NothingSaved
    <3> QED  BY <3>1, <3>2, <3>3 DEF PumpAsSent
  <2>4. /\ PumpSoFar(Obj, at, before, db') /\ at > 0
        /\ ~disturbed' => PumpAsSent(Obj, at, before, db', max_id_pist', n')
    BY <1>1, <2>1, <2>3
  <2>5. \A p \in Pumps : Keyed(db'.trk[p])  BY <1>1, <1>2
  <2>6. Doing("set_Trk")  BY <1>1
  <2> QED  BY <1>3, <1>5, <2>2, <2>4, <2>5, <2>6, PumpGoesOn
<1>6. NextObject => disturbed' \/ NextStatement  BY DEF SelectMax, Throws
<1> QED  BY <1>1, <1>4, <1>5, <1>6

\* The end of the list.
LEMMA EndStores ==
  ASSUME IInv, IInv', StoreInv, SetTrkEnd
  PROVE  StoreInv' /\ TablesStep
<1>1. /\ Doing("set_Trk") /\ at > 1 /\ at - 1 \notin DOMAIN Obj.pists /\ db' = db
      /\ disturbed' = disturbed /\ NextObject
  BY DEF SetTrkEnd
<1>2. /\ Obj.pists \in Seq(Pistol) /\ at \in Nat
      /\ \A p \in Pumps : Keyed(db.trk[p])
      /\ PumpSoFar(Obj, at - 1, before, db)
      /\ ~disturbed => PumpAsSent(Obj, at - 1, before, db, max_id_pist, n)
  BY <1>1, PumpInHand
<1>3. at - 1 \in Nat /\ at - 1 > Len(Obj.pists)
  <2>1. DOMAIN Obj.pists = 1 .. Len(Obj.pists) /\ Len(Obj.pists) \in Nat  BY <1>2
  <2> QED  BY <1>1, <1>2, <2>1
<1> QED  BY <1>1, <1>2, <1>3, PumpEnds

\* The pistols of the pump in hand become rows, or stay what they are.
LEMMA RowsSoFar ==
  ASSUME IInv, StoreInv, Doing("set_Trk"), at > 1, at - 1 \in DOMAIN Obj.pists,
         NEW rows, PartlyUpTo(Obj, at, before.trk[Obj.id], rows), Keyed(rows),
         db' \in {db, [db EXCEPT !.trk[Obj.id] = rows]}
  PROVE  /\ PumpSoFar(Obj, at, before, db') /\ \A p \in Pumps : Keyed(db'.trk[p])
         /\ at <= Len(Obj.pists) + 1 /\ at \in Nat
<1> DEFINE after == [db EXCEPT !.trk[Obj.id] = rows]
           old   == before.trk[Obj.id]
           now == db.trk[Obj.id]
<1>1. /\ Obj.id \in Pumps /\ Obj.pists \in Seq(Pistol) /\ at \in Nat /\ db \in Content
      /\ before \in Content /\ PumpSoFar(Obj, at - 1, before, db)
      /\ \A p \in Pumps : Keyed(db.trk[p]) /\ IsFiniteSet(db.trk[p])
  BY PumpInHand
<1>2. at <= Len(Obj.pists) + 1
  <2>1. DOMAIN Obj.pists = 1 .. Len(Obj.pists) /\ Len(Obj.pists) \in Nat  BY <1>1
  <2> QED  BY <1>1, <2>1
<1>3. PumpSoFar(Obj, at, before, db)
  <2>1. PartlyUpTo(Obj, at - 1, old, now) /\ IsFiniteSet(now)  BY <1>1 DEF PumpSoFar
  <2>2. at - 1 \in Nat /\ (at - 1) + 1 = at  BY <1>1
  <2> DEFINE c == at - 1
  <2> HIDE DEF old, now, c
  <2>3. PartlyUpTo(Obj, c + 1, old, now)  BY <1>1, <2>1, <2>2, PartlyPassed DEF c
  <2> QED  BY <1>1, <2>2, <2>3 DEF PumpSoFar, old, now, c
<1>4. PumpSoFar(Obj, at, before, after) /\ \A p \in Pumps : Keyed(after.trk[p])
  <2>1. after.com_trk = db.com_trk /\ after.trk[Obj.id] = rows
    BY <1>1 DEF Content
  <2>2. db = [before EXCEPT !.com_trk = db.com_trk, !.trk[Obj.id] = db.trk[Obj.id]]
        /\ db.com_trk \in {before.com_trk, Update(before.com_trk, Obj.id, Obj.to)}
    BY <1>1 DEF PumpSoFar
  <2>3. after = [before EXCEPT !.com_trk = db.com_trk, !.trk[Obj.id] = rows]
    <3> DEFINE pistols == [before.trk EXCEPT ![Obj.id] = rows]
    <3>1. db.trk = [before.trk EXCEPT ![Obj.id] = db.trk[Obj.id]]  BY <1>1, <2>2 DEF Content
    <3>2. [db.trk EXCEPT ![Obj.id] = rows] = pistols  BY <1>1, <3>1 DEF Content
    <3>3. db = [before EXCEPT !.com_trk = db.com_trk, !.trk = db.trk]  BY <2>2, <3>1
    <3> HIDE DEF pistols
    <3>4. [db EXCEPT !.trk = pistols] = [before EXCEPT !.com_trk = db.com_trk, !.trk = pistols]
      BY <1>1, <3>3 DEF Content
    <3> QED  BY <3>2, <3>4 DEF pistols
  <2>4. \A p \in Pumps : after.trk[p] = rows \/ after.trk[p] = db.trk[p]  BY <1>1 DEF Content
  <2> HIDE DEF after
  <2>5. PumpSoFar(Obj, at, before, after)  BY <2>1, <2>2, <2>3 DEF PumpSoFar
  <2>6. \A p \in Pumps : Keyed(after.trk[p])  BY <1>1, <2>4
  <2> QED  BY <2>5, <2>6
<1>5. db' = db \/ db' = after  OBVIOUS
<1> HIDE DEF after
<1> QED  BY <1>1, <1>2, <1>3, <1>4, <1>5

\* A pistol that gets its number.
LEMMA InsertStores ==
  ASSUME IInv, IInv', StoreInv, InsertPist
  PROVE  StoreInv' /\ TablesStep
<1> DEFINE c     == at - 1
           num   == max_id_pist + n'
           old   == before.trk[Obj.id]
           rows  == db.trk[Obj.id]
           then  == Inserted(rows, num, Current.tank)
           after == [db EXCEPT !.trk[Obj.id] = then]
<1>1. /\ Doing("set_Trk") /\ at > 1 /\ c \in DOMAIN Obj.pists /\ Obj.pists[c].pist = 0
      /\ Current = Obj.pists[c] /\ n' = n + 1 /\ max_id_pist' = max_id_pist
  BY DEF InsertPist, AtPistol, Current
<1>2. /\ Obj.id \in Pumps /\ Obj.pists \in Seq(Pistol) /\ at \in Nat
      /\ db \in Content /\ before \in Content /\ {here, disturbed} \subseteq BOOLEAN
      /\ max_id_pist \in Nat /\ n \in Nat
      /\ Keyed(rows) /\ IsFiniteSet(rows) /\ Keyed(old)
      /\ PumpSoFar(Obj, c, before, db)
      /\ ~disturbed => PumpAsSent(Obj, c, before, db, max_id_pist, n)
  BY <1>1, PumpInHand
<1>3. (Works(after) /\ NextStatement) \/ (Throws(after) /\ NextObject)
  BY <1>2 DEF InsertPist, Content
<1>4. c \in Nat /\ c + 1 = at /\ num \in Nat /\ num > 0 /\ num = max_id_pist + n + 1
  BY <1>1, <1>2
<1>5. Current.tank \in Tanks /\ rows \in SUBSET Row /\ old \in SUBSET Row
  <2>1. Current \in Pistol  BY <1>1, <1>2
  <2> QED  BY <1>2, <2>1 DEF Pistol, Content
<1>6. PICK one \in Row :
        /\ one.pist = num /\ one.tank = Current.tank
        /\ then = rows \cup {one}
        /\ one \notin rows /\ \A row \in rows : Key(row) # Key(one)
        /\ Keyed(then)
        /\ (\A row \in rows : row.pist # num)
             => one = [pist |-> num, copy |-> 0, tank |-> Current.tank]
  <2> DEFINE tank == Current.tank
  <2>1. then = Inserted(rows, num, tank)  OBVIOUS
  <2>3. rows \in SUBSET Row /\ IsFiniteSet(rows) /\ Keyed(rows) /\ tank \in Tanks  BY <1>2, <1>5
  <2>4. num \in Nat /\ num > 0  BY <1>4
  <2> HIDE DEF num, rows, tank, then
  <2>2. \E one \in Row :
          /\ one.pist = num /\ one.tank = tank
          /\ Inserted(rows, num, tank) = rows \cup {one}
          /\ one \notin rows /\ \A row \in rows : Key(row) # Key(one)
          /\ Keyed(Inserted(rows, num, tank))
          /\ (\A row \in rows : row.pist # num) => one = [pist |-> num, copy |-> 0, tank |-> tank]
    BY ONLY <2>3, <2>4, InsertedKeyed
  <2> QED  BY <2>1, <2>2 DEF tank
<1>7. PartlyUpTo(Obj, c, old, rows)  BY <1>2 DEF PumpSoFar
<1> HIDE DEF c, num, old, rows, then, after
<1>8. PartlyUpTo(Obj, c + 1, old, rows \cup {one})
  <2>1. one.tank = Obj.pists[c].tank  BY <1>1, <1>6
  <2> QED  BY <1>1, <1>2, <1>6, <1>7, <2>1, PartlyInserted
<1>9. ~disturbed => /\ db.com_trk = Update(before.com_trk, Obj.id, Obj.to)
                    /\ IsMax(max_id_pist, old) /\ n = Cardinality(NewUpTo(Obj, c))
                    /\ rows = SavedUpTo(Obj, c, max_id_pist, old)
  BY <1>2 DEF PumpAsSent, old, rows
<1>10. ~disturbed => /\ then = SavedUpTo(Obj, c + 1, max_id_pist, old)
                     /\ n' = Cardinality(NewUpTo(Obj, c + 1))
  <2> SUFFICES ASSUME ~disturbed
               PROVE  /\ then = SavedUpTo(Obj, c + 1, max_id_pist, old)
                      /\ n' = Cardinality(NewUpTo(Obj, c + 1))
    OBVIOUS
  <2>1. \A row \in old : row.pist > 0  BY <1>2 DEF Keyed
  <2> DEFINE m == max_id_pist
             k == m + Cardinality(NewUpTo(Obj, c)) + 1
  <2>2. /\ \A row \in SavedUpTo(Obj, c, m, old) : row.pist # k
        /\ SavedUpTo(Obj, c + 1, m, old) =
             SavedUpTo(Obj, c, m, old) \cup {[pist |-> k, copy |-> 0, tank |-> Obj.pists[c].tank]}
    BY <1>1, <1>2, <1>5, <1>9, <2>1, SavedInserted
  <2>3. k = num  BY <1>4, <1>9
  <2> HIDE DEF k
  <2>4. one = [pist |-> num, copy |-> 0, tank |-> Obj.pists[c].tank]
    BY <1>1, <1>6, <1>9, <2>2, <2>3
  <2>5. then = SavedUpTo(Obj, c + 1, m, old)  BY <1>6, <1>9, <2>2, <2>3, <2>4
  <2>6. Cardinality(NewUpTo(Obj, c + 1)) = Cardinality(NewUpTo(Obj, c)) + 1
    BY <1>1, <1>2, <1>4, NewUpToNext
  <2> QED  BY <1>1, <1>9, <2>5, <2>6
<1>11. db' \in {db, [db EXCEPT !.trk[Obj.id] = then]}  BY <1>3 DEF Works, Throws, after
<1>12. /\ PumpSoFar(Obj, at, before, db') /\ \A p \in Pumps : Keyed(db'.trk[p])
       /\ at <= Len(Obj.pists) + 1 /\ at \in Nat
  <2>1. PartlyUpTo(Obj, at, before.trk[Obj.id], then) /\ Keyed(then)
    BY <1>4, <1>6, <1>8 DEF old
  <2>2. at - 1 \in DOMAIN Obj.pists  BY <1>1 DEF c
  <2> QED  BY <1>1, <1>11, <2>1, <2>2, RowsSoFar
<1>13. disturbed' = disturbed \/ disturbed' = TRUE  BY <1>2, <1>3 DEF Works, Throws
<1>14. CASE Works(after) /\ NextStatement
  <2>1. ~disturbed' => PumpAsSent(Obj, at, before, db', max_id_pist', n')
    <3> SUFFICES ASSUME ~disturbed' PROVE PumpAsSent(Obj, at, before, db', max_id_pist', n')
      OBVIOUS
    <3>1. ~disturbed /\ db' = after  BY <1>2, <1>14 DEF Works
    <3>2. db'.trk[Obj.id] = then /\ db'.com_trk = db.com_trk  BY <1>2, <3>1 DEF Content, after
    <3> QED  BY <1>1, <1>4, <1>9, <1>10, <3>1, <3>2 DEF PumpAsSent, old
  <2>2. at > 0  BY <1>1, <1>12
  <2> QED  BY <1>1, <1>12, <1>13, <1>14, <2>1, <2>2, PumpGoesOn
<1>15. CASE Throws(after) /\ NextObject
  <2>1. disturbed' = TRUE  BY <1>15 DEF Throws
  <2> QED  BY <1>1, <1>12, <1>15, <2>1, PumpEnds
<1> QED  BY <1>3, <1>14, <1>15

\* A pistol that has its number already.
LEMMA UpdateStores ==
  ASSUME IInv, IInv', StoreInv, UpdatePist
  PROVE  StoreInv' /\ TablesStep
<1> DEFINE c     == at - 1
           x     == Current.pist
           old   == before.trk[Obj.id]
           rows  == db.trk[Obj.id]
           then  == Retanked(rows, x, Current.tank)
           after == [db EXCEPT !.trk[Obj.id] = then]
           mistaken == x > max_id_pist /\ x <= max_id_pist + n
<1>1. /\ Doing("set_Trk") /\ at > 1 /\ c \in DOMAIN Obj.pists /\ Obj.pists[c].pist # 0
      /\ Current = Obj.pists[c] /\ UNCHANGED <<max_id_pist, n>>
  BY DEF UpdatePist, AtPistol, Current, locals
<1>2. /\ Obj.id \in Pumps /\ Obj.pists \in Seq(Pistol) /\ at \in Nat
      /\ db \in Content /\ before \in Content /\ {here, disturbed} \subseteq BOOLEAN
      /\ max_id_pist \in Nat /\ n \in Nat
      /\ Keyed(rows) /\ IsFiniteSet(rows)
      /\ PumpSoFar(Obj, c, before, db)
      /\ ~disturbed => PumpAsSent(Obj, c, before, db, max_id_pist, n)
  BY <1>1, PumpInHand
<1>3. \/ /\ db' = IF here THEN after ELSE db
         /\ disturbed' = (disturbed \/ ~here \/ mistaken)
         /\ NextStatement
      \/ Throws(after) /\ NextObject
  BY <1>2 DEF UpdatePist, Content
<1>4. c \in Nat /\ c + 1 = at  BY <1>1, <1>2
<1>5. x \in Nat /\ Current.tank \in Tanks /\ rows \in SUBSET Row /\ old \in SUBSET Row
  <2>1. Current \in Pistol  BY <1>1, <1>2
  <2> QED  BY <1>2, <2>1 DEF Pistol, Content
<1>6. Keyed(then)
  <2> DEFINE tank == Current.tank
  <2>1. tank \in Tanks  BY <1>5
  <2> HIDE DEF rows, x, tank
  <2>2. Keyed(Retanked(rows, x, tank))  BY <1>2, <1>5, <2>1, RetankedKeyed
  <2> QED  BY <2>2 DEF tank
<1>7. then = Retanked(rows, Obj.pists[c].pist, Obj.pists[c].tank)  BY <1>1
<1>8. PartlyUpTo(Obj, c, old, rows)  BY <1>2 DEF PumpSoFar
<1> HIDE DEF c, x, old, rows, then, after, mistaken
<1>9. PartlyUpTo(Obj, c + 1, old, then)
  <2>1. PartlyUpTo(Obj, c + 1, old, Retanked(rows, Obj.pists[c].pist, Obj.pists[c].tank))
    BY <1>1, <1>2, <1>5, <1>8, PartlyRetanked
  <2> QED  BY <1>7, <2>1
<1>10. ~disturbed => /\ db.com_trk = Update(before.com_trk, Obj.id, Obj.to)
                     /\ IsMax(max_id_pist, old) /\ n = Cardinality(NewUpTo(Obj, c))
                     /\ rows = SavedUpTo(Obj, c, max_id_pist, old)
  BY <1>2 DEF PumpAsSent, old, rows
<1>11. ~disturbed /\ ~mistaken =>
         /\ then = SavedUpTo(Obj, c + 1, max_id_pist, old)
         /\ n = Cardinality(NewUpTo(Obj, c + 1))
  <2> SUFFICES ASSUME ~disturbed, ~mistaken
               PROVE  /\ then = SavedUpTo(Obj, c + 1, max_id_pist, old)
                      /\ n = Cardinality(NewUpTo(Obj, c + 1))
    OBVIOUS
  <2>1. ~(/\ Obj.pists[c].pist > max_id_pist
          /\ Obj.pists[c].pist <= max_id_pist + Cardinality(NewUpTo(Obj, c)))
    BY <1>1, <1>10 DEF mistaken, x
  <2>2. Retanked(SavedUpTo(Obj, c, max_id_pist, old), Obj.pists[c].pist, Obj.pists[c].tank)
          = SavedUpTo(Obj, c + 1, max_id_pist, old)
    BY <1>1, <1>2, <1>5, <1>10, <2>1, SavedRetanked
  <2>3. NewUpTo(Obj, c + 1) = NewUpTo(Obj, c)  BY <1>1, <1>2, <1>4, NewUpToNext
  <2> QED  BY <1>7, <1>10, <2>2, <2>3
<1>12. db' \in {db, [db EXCEPT !.trk[Obj.id] = then]}  BY <1>3 DEF Throws, after
<1>13. /\ PumpSoFar(Obj, at, before, db') /\ \A p \in Pumps : Keyed(db'.trk[p])
       /\ at <= Len(Obj.pists) + 1 /\ at \in Nat
  <2>1. PartlyUpTo(Obj, at, before.trk[Obj.id], then) /\ Keyed(then)
    BY <1>4, <1>6, <1>9 DEF old
  <2>2. at - 1 \in DOMAIN Obj.pists  BY <1>1 DEF c
  <2> QED  BY <1>1, <1>12, <2>1, <2>2, RowsSoFar
<1>14. CASE /\ db' = IF here THEN after ELSE db
            /\ disturbed' = (disturbed \/ ~here \/ mistaken)
            /\ NextStatement
  <2>1. ~disturbed' => PumpAsSent(Obj, at, before, db', max_id_pist', n')
    <3> SUFFICES ASSUME ~disturbed' PROVE PumpAsSent(Obj, at, before, db', max_id_pist', n')
      OBVIOUS
    <3>1. ~disturbed /\ ~mistaken /\ db' = after  BY <1>14
    <3>2. db'.trk[Obj.id] = then /\ db'.com_trk = db.com_trk  BY <1>2, <3>1 DEF Content, after
    <3> QED  BY <1>1, <1>4, <1>10, <1>11, <3>1, <3>2 DEF PumpAsSent, old
  <2>2. disturbed' = disturbed \/ disturbed' = TRUE
    <3>1. CASE disturbed \/ ~here \/ mistaken  BY <1>14, <3>1
    <3>2. CASE ~(disturbed \/ ~here \/ mistaken)  BY <1>2, <1>14, <3>2
    <3> QED  BY <3>1, <3>2
  <2>3. at > 0  BY <1>1, <1>13
  <2> QED  BY <1>1, <1>13, <1>14, <2>1, <2>2, <2>3, PumpGoesOn
<1>15. CASE Throws(after) /\ NextObject
  <2>1. disturbed' = TRUE  BY <1>15 DEF Throws
  <2> QED  BY <1>1, <1>13, <1>15, <2>1, PumpEnds
<1> QED  BY <1>3, <1>14, <1>15

\* A restart in the middle of an object leaves it stored in part.
LEMMA RestartStores ==
  ASSUME IInv, IInv', StoreInv, Restart
  PROVE  StoreInv' /\ TablesStep
<1>1. at' = 0 /\ before' = db /\ db' = db /\ disturbed' = TRUE  BY DEF Restart, Done
<1>2. PlaceInv' /\ PumpInv' /\ DeleteInv'  BY <1>1, AtStartNext DEF IInv
<1>3. KeysInv'  BY <1>1, KeysKept DEF StoreInv, KeysInv
<1>4. at \in Nat  BY DEF IInv, TypeOK
<1>5. CASE at = 0
  <2>1. before' = before  BY <1>1, <1>5 DEF StoreInv, PlaceInv
  <2>2. TablesStep  BY <1>1, <2>1, NothingStored
  <2> QED  BY <1>2, <1>3, <2>2 DEF StoreInv
<1>6. CASE at > 0 /\ Doing("set_Trk")
  <2>1. /\ wpc = "busy" /\ i <= Len(request) /\ Obj.do = "set_Trk" /\ Obj.id \in Pumps
        /\ Obj.pists \in Seq(Pistol) /\ PumpSoFar(Obj, at - 1, before, db)
        /\ \A p \in Pumps : /\ Keyed(db.trk[p]) /\ IsFiniteSet(db.trk[p])
                            /\ Keyed(before.trk[p]) /\ IsFiniteSet(before.trk[p])
    BY <1>6, PumpInHand
  <2> DEFINE old == before.trk[Obj.id]
             new == db.trk[Obj.id]
             c   == at - 1
  <2>2. /\ PartlyUpTo(Obj, c, old, new) /\ IsFiniteSet(old) /\ IsFiniteSet(new)
        /\ Keyed(old) /\ Keyed(new) /\ c \in Nat
    BY <1>4, <1>6, <2>1 DEF PumpSoFar
  <2>3. Tables!PistolsPartly(old, Obj, new)
    <3> HIDE DEF old, new, c
    <3> QED  BY <2>1, <2>2, PartlyAtEnd
  <2>4. Tables!Partly(before, Obj, before')
    <3>1. Tables!Partly(before, Obj, db)
      BY <2>1, <2>3 DEF Tables!Partly, Tables!Updated, PumpSoFar, Update
    <3> QED  BY <1>1, <3>1
  <2>5. TablesStep  BY <1>1, <2>1, <2>4, ObjectStored
  <2> QED  BY <1>2, <1>3, <2>5 DEF StoreInv
<1>7. CASE at > 0 /\ Doing("delete_Trk") /\ Obj.pists # <<>>
  <2>1. wpc = "busy" /\ i <= Len(request) /\ Obj.do = "delete_Trk"  BY <1>7 DEF Doing
  <2>2. Obj.pists \in Seq([pist : Nat])  BY <2>1, ObjectInHand, Fields DEF IInv
  <2>3. PICK gone \in SUBSET (1 .. at) : db = Deleted(Obj, gone, before)
    BY <1>7 DEF StoreInv, DeleteInv, Deleted
  <2>4. at <= Len(Obj.pists)  BY <1>7 DEF StoreInv, DeleteInv
  <2>5. gone \in SUBSET DOMAIN Obj.pists
    <3>1. DOMAIN Obj.pists = 1 .. Len(Obj.pists) /\ Len(Obj.pists) \in Nat  BY <2>2
    <3> QED  BY <1>4, <2>4, <3>1
  <2>6. Tables!Partly(before, Obj, db)  BY <1>7, <2>1, <2>3, <2>5 DEF Tables!Partly, Deleted
  <2>7. TablesStep  BY <1>1, <2>1, <2>6, ObjectStored
  <2> QED  BY <1>2, <1>3, <2>7 DEF StoreInv
<1> QED  BY <1>4, <1>5, <1>6, <1>7 DEF StoreInv, PlaceInv

\* Requests come and are answered, and the connect thread acts.
LEMMA SurroundingsStore ==
  ASSUME IInv, IInv', StoreInv,
         Switch \/ Reply \/ (\E r \in Requests : Receive(r)) \/ UNCHANGED vars
  PROVE  StoreInv' /\ TablesStep
<1>1. CASE Reply
  <2>1. at' = 0 /\ before' = before /\ db' = db /\ disturbed' = disturbed  BY <1>1 DEF Reply, Done
  <2>2. at = 0
    <3>1. wpc = "busy" /\ i > Len(request)  BY <1>1 DEF Reply
    <3>2. at \in Nat /\ i \in Nat /\ Len(request) \in Nat
      <4>1. request \in Seq(Object)
        <5>1. <<>> \in Seq(Object)  OBVIOUS
        <5> QED  BY <5>1 DEF IInv, TypeOK
      <4> QED  BY <4>1 DEF IInv, TypeOK
    <3>3. ~(i <= Len(request))  BY <3>1, <3>2
    <3> QED  BY <3>2, <3>3 DEF StoreInv, PlaceInv, Doing
  <2>3. before' = db'  BY <2>1, <2>2 DEF StoreInv, PlaceInv
  <2>4. PlaceInv' /\ PumpInv' /\ DeleteInv'  BY <2>1, <2>3, AtStartNext DEF IInv
  <2>5. KeysInv'  BY <2>1, KeysKept DEF StoreInv, KeysInv
  <2>6. TablesStep  BY <2>1, NothingStored
  <2> QED  BY <2>4, <2>5, <2>6 DEF StoreInv
<1>2. ASSUME NEW r \in Requests, Receive(r) PROVE StoreInv' /\ TablesStep
  <2>1. at' = 0 /\ before' = db /\ db' = db /\ disturbed' = FALSE /\ wpc = "idle"
    BY <1>2 DEF Receive
  <2>2. at = 0
    <3>1. at \in Nat  BY DEF IInv, TypeOK
    <3> QED  BY <2>1, <3>1 DEF StoreInv, PlaceInv, Doing
  <2>3. before' = before  BY <2>1, <2>2 DEF StoreInv, PlaceInv
  <2>4. PlaceInv' /\ PumpInv' /\ DeleteInv'  BY <2>1, AtStartNext DEF IInv
  <2>5. KeysInv'  BY <2>1, KeysKept DEF StoreInv, KeysInv
  <2>6. TablesStep  BY <2>1, <2>3, RequestCame
  <2> QED  BY <2>4, <2>5, <2>6 DEF StoreInv
<1>3. CASE Switch \/ UNCHANGED vars
  <2>1. UNCHANGED <<db, wpc, request, i, at, max_id_pist, n, before, disturbed>>
    BY <1>3 DEF Switch, vars, place, locals
  <2>2. Obj' = Obj /\ (Doing("set_Trk")' <=> Doing("set_Trk"))
        /\ (Doing("delete_Trk")' <=> Doing("delete_Trk"))
    BY <2>1 DEF Obj, Doing
  <2>3. KeysInv' /\ PlaceInv'  BY <2>1, <2>2 DEF StoreInv, KeysInv, PlaceInv
  <2>4. PumpInv'  BY <2>1, <2>2 DEF StoreInv, PumpInv
  <2>5. DeleteInv'  BY <2>1, <2>2 DEF StoreInv, DeleteInv
  <2>6. TablesStep  BY <2>1, NothingStored
  <2> QED  BY <2>3, <2>4, <2>5, <2>6 DEF StoreInv
<1> QED  BY <1>1, <1>2, <1>3

\* The tables as they are set up satisfy StoreInv.
LEMMA InitStoreInv == Init => StoreInv
<1> SUFFICES ASSUME Init PROVE StoreInv
  OBVIOUS
<1>1. TypeOK  BY InitIInv DEF IInv
<1>2. at = 0 /\ before = db  BY DEF Init
<1>3. PlaceInv /\ PumpInv /\ DeleteInv  BY <1>1, <1>2, AtStart
<1>4. \A p \in Pumps : db.trk[p] = {}  BY DEF Init
<1>5. KeysInv  BY <1>2, <1>4, FS_EmptySet DEF KeysInv, Keyed
<1> QED  BY <1>3, <1>5 DEF StoreInv

\* Every step, stuttering included, keeps StoreInv and is one of StationTables.
LEMMA NextStores == IInv /\ IInv' /\ StoreInv /\ [Next]_vars => StoreInv' /\ TablesStep
<1> SUFFICES ASSUME IInv, IInv', StoreInv, [Next]_vars PROVE StoreInv' /\ TablesStep
  OBVIOUS
<1>1. CASE SetTrk
  BY <1>1, PlaceStores, MaxStores, InsertStores, UpdateStores, EndStores DEF SetTrk
<1>2. CASE DeleteTrk  BY <1>2, SinglesStore, DeletePistsStore DEF DeleteTrk
<1> QED  BY <1>1, <1>2, SinglesStore, RestartStores, SurroundingsStore DEF Next

\* The rows of the pump in hand, or what is left of them, are at every moment
\* those that the pistols so far make of the rows before.
THEOREM StoreInvariance == Spec => []StoreInv
  BY ConfigInvariance, InitStoreInv, NextStores, PTL DEF Spec

\* However a request is cut short, by an exception, a switch of the database or
\* a restart, each of its objects is stored as sent or within the limits of
\* Partly: the statements implement StationTables, for any tables and requests.
THEOREM TablesImplemented == Spec => ImplementsTables
<1>1. Init => (~disturbed) = TRUE  BY DEF Init
<1> QED  BY <1>1, ConfigInvariance, StoreInvariance, NextStores, PTL
         DEF Spec, ImplementsTables, Tables!Spec, TablesStep

=============================================================================
