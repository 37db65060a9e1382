-------------------------- MODULE StatementProofs --------------------------
(***************************************************************************)
(* The properties of Statements for any number of addresses and dials.     *)
(* A query that the other thread did not meet has stmt to itself, and      *)
(* every step keeps the balance of statements, exceptions and queries.     *)
(***************************************************************************)
EXTENDS Statements, FiniteSetTheorems, TLAPS

Places == {"idle", "ready", "assign", "execute", "delete"}

TypeOK ==
  /\ con \in Nat /\ azs_id \in Nat /\ thrown \in Nat
  /\ stmt \in Addresses \cup {NoAddress} /\ session \in [Addresses -> Nat]
  /\ pc \in [Threads -> Places] /\ created \in [Threads -> Addresses \cup {NoAddress}]
  /\ raced \in [Threads -> BOOLEAN] /\ crashed \subseteq Threads

\* There is no query before the first dial.
DialledInv == \A t \in Threads : pc[t] # "idle" => con # 0

\* Queries that run at the same time have met.
MeetingInv == \A t, u \in Threads : t # u /\ Busy(t) /\ Busy(u) => raced[t]

\* A query that met none runs on its own statement, get_azs_id on one of con.
OwnInv == \A t \in Threads : ~raced[t] =>
  /\ t \notin crashed
  /\ Busy(t) => created[t] \in Live /\ (pc[t] # "assign" => stmt = created[t])
  /\ t = Connector /\ Busy(t) => session[created[t]] = con
  /\ t = Connector /\ pc[t] = "delete" => azs_id = con

Running == {t \in Threads : Busy(t)}

IInv == TypeOK /\ DialledInv /\ MeetingInv /\ OwnInv /\ OnlyExceptionsLeak

-----------------------------------------------------------------------------
(* Counting.                                                               *)

\* The other one of two threads.
LEMMA OtherThread ==
  \A t \in Threads : Other(t) \in Threads /\ Other(t) # t
                     /\ \A u \in Threads : u = t \/ u = Other(t)
BY AddressesAssumption DEF Other, Threads

\* Addresses and threads are finitely many.
LEMMA Finite ==
  /\ IsFiniteSet(Live) /\ Cardinality(Live) \in Nat
  /\ IsFiniteSet(Running) /\ Cardinality(Running) \in Nat
<1>1. IsFiniteSet(Live)
  BY AddressesAssumption, FS_Subset DEF Live
<1>2. IsFiniteSet({Handler}) /\ IsFiniteSet({Connector})
  BY FS_Singleton
<1>3. IsFiniteSet({Handler} \cup {Connector})
  BY <1>2, FS_Union
<1>4. Running \subseteq {Handler} \cup {Connector}
  BY DEF Running, Threads
<1>5. IsFiniteSet(Running)
  BY <1>3, <1>4, FS_Subset
<1> QED
  BY <1>1, <1>5, FS_CardinalityType

\* The property by the names used here.
LEMMA Leak == OnlyExceptionsLeak <=> Cardinality(Live) <= thrown + Cardinality(Running)
BY DEF OnlyExceptionsLeak, Running

LEMMA InitHolds == Init => IInv
<1> SUFFICES ASSUME Init PROVE IInv
  OBVIOUS
<1>1. TypeOK
  BY DEF Init, TypeOK, Places
<1>2. Live = {} /\ \A t \in Threads : ~Busy(t)
  BY DEF Init, Live, Busy
<1>3. OnlyExceptionsLeak
  BY <1>2, Finite, FS_EmptySet, Leak DEF Init
<1>4. DialledInv /\ MeetingInv /\ OwnInv
  BY <1>2 DEF Init, DialledInv, MeetingInv, OwnInv, Busy
<1> QED
  BY <1>1, <1>3, <1>4 DEF IInv

\* Steps outside the queries.
LEMMA OutsideHolds == IInv /\ (Dial \/ Ready) => IInv'
<1> SUFFICES ASSUME IInv, Dial \/ Ready PROVE IInv'
  OBVIOUS
<1>1. PICK t \in Threads, p \in {"ready", "idle"} :
        /\ pc[t] = "idle" /\ pc' = [pc EXCEPT ![t] = p]
        /\ con' = IF t = Connector THEN con + 1 ELSE con
        /\ t = Handler => con # 0
        /\ UNCHANGED <<stmt, session, azs_id, created, raced, thrown, crashed>>
  BY AddressesAssumption DEF Dial, Ready, Threads
<1>2. TypeOK /\ p \in Places
  BY DEF IInv, Places
<1>3. \A u \in Threads : Busy(u)' = Busy(u) /\ (Busy(u) => u # t /\ pc'[u] = pc[u])
  BY <1>1, <1>2 DEF TypeOK, Busy
<1>4. TypeOK'
  BY <1>1, <1>2 DEF TypeOK
<1>5. DialledInv'
  BY <1>1, <1>2, AddressesAssumption DEF IInv, DialledInv, TypeOK, Threads
<1>6. MeetingInv'
  BY <1>1, <1>3 DEF IInv, MeetingInv
<1>7. OwnInv'
  BY <1>1, <1>2, <1>3 DEF IInv, OwnInv, TypeOK, Live, Busy
<1>8. OnlyExceptionsLeak'
  <2>1. Live' = Live /\ Running' = Running
    BY <1>1, <1>3 DEF Live, Running
  <2> QED
    BY <1>1, <2>1, Leak DEF IInv, OnlyExceptionsLeak, Running
<1> QED
  BY <1>4, <1>5, <1>6, <1>7, <1>8 DEF IInv

\* con->createStatement().
LEMMA CreateHolds ==
  ASSUME IInv, NEW t \in Threads, CreateStatement(t)
  PROVE  IInv'
<1>1. PICK a \in Addresses \ Live :
        /\ session' = [session EXCEPT ![a] = con] /\ created' = [created EXCEPT ![t] = a]
        /\ pc[t] = "ready" /\ pc' = [pc EXCEPT ![t] = "assign"]
        /\ raced' = [u \in Threads |-> IF u = t THEN Busy(Other(t)) ELSE raced[u] \/ Busy(u)]
        /\ crashed = {}
        /\ UNCHANGED <<con, stmt, azs_id, thrown, crashed>>
  BY DEF CreateStatement
<1>2. TypeOK /\ con # 0
  BY <1>1 DEF IInv, DialledInv
<1>3. \A u \in Threads : Busy(u) \in BOOLEAN
  BY DEF Busy
<1>4. TypeOK'
  BY <1>1, <1>2, <1>3, OtherThread DEF TypeOK, Places
<1>5. \A u \in Threads : u # t => u = Other(t) /\ pc'[u] = pc[u] /\ created'[u] = created[u]
                                  /\ Busy(u)' = Busy(u)
  BY <1>1, <1>2, OtherThread DEF TypeOK, Busy
<1>6. ~Busy(t) /\ Busy(t)' /\ pc'[t] = "assign" /\ created'[t] = a
  BY <1>1, <1>2 DEF TypeOK, Busy
<1>7. Live' = Live \cup {a}
  BY <1>1, <1>2 DEF TypeOK, Live
<1>8. DialledInv'
  BY <1>1, <1>2, <1>5 DEF IInv, DialledInv
<1>9. MeetingInv'
  BY <1>1, <1>5, <1>6, OtherThread DEF MeetingInv
<1>10. OwnInv'
  <2> SUFFICES ASSUME NEW u \in Threads, ~raced'[u]
               PROVE  /\ Busy(u)' => created'[u] \in Live' /\ (pc'[u] # "assign" => stmt' = created'[u])
                      /\ u = Connector /\ Busy(u)' => session'[created'[u]] = con'
                      /\ u = Connector /\ pc'[u] = "delete" => azs_id' = con'
    BY <1>1 DEF OwnInv
  <2>1. CASE u = t
    BY <1>1, <1>2, <1>6, <1>7, <2>1 DEF TypeOK
  <2>2. CASE u # t
    <3>1. ~Busy(u)'
      BY <1>1, <1>5, <2>2
    <3> QED
      BY <3>1 DEF Busy
  <2> QED
    BY <2>1, <2>2
<1>11. OnlyExceptionsLeak'
  <2>1. Running' = Running \cup {t} /\ t \notin Running
    BY <1>5, <1>6 DEF Running
  <2>2. Cardinality(Live') = Cardinality(Live) + 1
        /\ Cardinality(Running') = Cardinality(Running) + 1
    BY <1>1, <1>7, <2>1, Finite, FS_AddElement
  <2>3. Cardinality(Live') <= thrown' + Cardinality(Running')
    BY <1>1, <1>2, <2>2, Finite, Leak DEF IInv, TypeOK
  <2> QED
    BY <2>3 DEF OnlyExceptionsLeak, Running
<1> QED
  BY <1>4, <1>8, <1>9, <1>10, <1>11 DEF IInv

\* The steps of a running query that leave all statements alone.
LEMMA InsideHolds ==
  ASSUME IInv, NEW t \in Threads, Assign(t) \/ Execute(t) \/ Dangle(t)
  PROVE  IInv'
<1>1. TypeOK /\ Busy(t)
  BY DEF IInv, Assign, Execute, Dangle, Busy
<1>2. /\ pc' = [pc EXCEPT ![t] = pc'[t]] /\ pc'[t] \in {"execute", "delete"}
      /\ UNCHANGED <<con, session, created, raced, thrown>> /\ crashed = {}
  BY <1>1 DEF Assign, Execute, Dangle, TypeOK
<1>3. \A u \in Threads : u # t => pc'[u] = pc[u]
  BY <1>1, <1>2 DEF TypeOK
<1>4. \A u \in Threads : Busy(u)' = Busy(u)
  BY <1>1, <1>2, <1>3 DEF Busy
<1>5. TypeOK'
  <2>1. stmt' \in Addresses \cup {NoAddress} /\ azs_id' \in Nat /\ crashed' \subseteq Threads
    BY <1>1 DEF Assign, Execute, Dangle, TypeOK, Live
  <2> QED
    BY <1>1, <1>2, <2>1 DEF TypeOK, Places
<1>6. DialledInv'
  BY <1>1, <1>2, <1>3 DEF IInv, DialledInv, Busy
<1>7. MeetingInv'
  BY <1>2, <1>4 DEF IInv, MeetingInv
<1>8. OwnInv'
  <2>1. Live' = Live
    BY <1>2 DEF Live
  <2>2. ASSUME ~raced[t]
        PROVE  /\ t \notin crashed'
               /\ created'[t] \in Live' /\ stmt' = created'[t]
               /\ t = Connector => session'[created'[t]] = con'
                                   /\ (pc'[t] = "delete" => azs_id' = con')
    <3>1. /\ created[t] \in Live /\ (pc[t] # "assign" => stmt = created[t])
          /\ t = Connector => session[created[t]] = con /\ (pc[t] = "delete" => azs_id = con)
      BY <1>1, <2>2 DEF IInv, OwnInv
    <3>2. CASE Assign(t)
      <4>1. stmt' = created[t] /\ pc'[t] = "execute" /\ UNCHANGED crashed
        BY <1>1, <3>2 DEF Assign, TypeOK
      <4> QED
        BY <1>2, <2>1, <3>1, <4>1
    <3>3. CASE Execute(t)
      <4>1. /\ stmt = created[t] /\ UNCHANGED <<stmt, crashed>>
            /\ t = Connector => azs_id' = session[stmt]
        BY <3>1, <3>3 DEF Execute
      <4> QED
        BY <1>2, <2>1, <3>1, <4>1
    <3>4. ~Dangle(t)
      BY <3>1 DEF Dangle
    <3> QED
      BY <3>2, <3>3, <3>4
  <2>3. ASSUME NEW u \in Threads, u # t, ~raced[u]
        PROVE  ~Busy(u)' /\ u \notin crashed'
    <3>1. ~Busy(u)
      BY <1>1, <2>3 DEF IInv, MeetingInv
    <3>2. crashed' \subseteq {t}
      BY <1>2 DEF Assign, Execute, Dangle
    <3> QED
      BY <1>4, <2>3, <3>1, <3>2
  <2> QED
    BY <1>2, <2>2, <2>3 DEF OwnInv, Busy
<1>9. OnlyExceptionsLeak'
  <2>1. Live' = Live /\ Running' = Running
    BY <1>2, <1>4 DEF Live, Running
  <2> QED
    BY <1>2, <2>1, Leak DEF IInv, OnlyExceptionsLeak, Running
<1> QED
  BY <1>5, <1>6, <1>7, <1>8, <1>9 DEF IInv

\* A query ends: with its statement deleted or, by an exception, without.
LEMMA EndHolds ==
  ASSUME IInv, NEW t \in Threads, Delete(t) \/ Catch(t)
  PROVE  IInv'
<1>1. TypeOK
  BY DEF IInv
<1>2. /\ pc' = [pc EXCEPT ![t] = "idle"] /\ crashed = {}
      /\ UNCHANGED <<con, stmt, azs_id, created, raced, crashed>>
  BY DEF Delete, Catch
<1>3. pc'[t] = "idle" /\ \A u \in Threads : u # t => pc'[u] = pc[u]
  BY <1>1, <1>2 DEF TypeOK
<1>4. ~Busy(t)' /\ \A u \in Threads : u # t => Busy(u)' = Busy(u)
  BY <1>3 DEF Busy
<1>5. TypeOK'
  <2>1. session' \in [Addresses -> Nat] /\ thrown' \in Nat
    BY <1>1 DEF Delete, Catch, TypeOK
  <2> QED
    BY <1>1, <1>2, <2>1 DEF TypeOK, Places
<1>6. DialledInv' /\ MeetingInv'
  BY <1>2, <1>3, <1>4 DEF IInv, DialledInv, MeetingInv
<1>7. OwnInv'
  <2> SUFFICES ASSUME NEW u \in Threads, ~raced'[u], Busy(u)'
               PROVE  /\ created'[u] \in Live' /\ (pc'[u] # "assign" => stmt' = created'[u])
                      /\ u = Connector => session'[created'[u]] = con'
                      /\ u = Connector /\ pc'[u] = "delete" => azs_id' = con'
    BY <1>2 DEF OwnInv, Busy
  <2>1. u # t /\ Busy(u) /\ ~raced[u] /\ pc'[u] = pc[u]
    BY <1>2, <1>3, <1>4
  <2>2. ~Busy(t)
    BY <2>1 DEF IInv, MeetingInv
  <2>3. UNCHANGED session
    BY <2>2 DEF Delete, Catch, Busy
  <2> QED
    BY <1>2, <2>1, <2>3 DEF IInv, OwnInv, Live
<1>8. OnlyExceptionsLeak'
  <2>1. CASE Delete(t)
    <3>1. Busy(t) /\ stmt \in Live /\ session' = [session EXCEPT ![stmt] = 0] /\ thrown' = thrown
      BY <2>1 DEF Delete, Busy
    <3>2. Live' = Live \ {stmt} /\ Running' = Running \ {t} /\ t \in Running
      BY <1>1, <1>4, <3>1 DEF TypeOK, Live, Running
    <3>3. Cardinality(Live') = Cardinality(Live) - 1
          /\ Cardinality(Running') = Cardinality(Running) - 1
      BY <3>1, <3>2, Finite, FS_RemoveElement
    <3>4. Cardinality(Live') <= thrown' + Cardinality(Running')
      BY <1>1, <3>1, <3>3, Finite, Leak DEF IInv, TypeOK
    <3> QED
      BY <3>4 DEF OnlyExceptionsLeak, Running
  <2>2. CASE Catch(t) /\ pc[t] = "ready"
    <3>1. ~Busy(t) /\ UNCHANGED <<session, thrown>>
      BY <2>2 DEF Catch, Busy
    <3>2. Live' = Live /\ Running' = Running
      BY <1>4, <3>1 DEF Live, Running
    <3> QED
      BY <3>1, <3>2, Leak DEF IInv, OnlyExceptionsLeak, Running
  <2>3. CASE Catch(t) /\ pc[t] = "execute"
    <3>1. Busy(t) /\ UNCHANGED session /\ thrown' = thrown + 1
      BY <2>3 DEF Catch, Busy
    <3>2. Live' = Live /\ Running' = Running \ {t} /\ t \in Running
      BY <1>4, <3>1 DEF Live, Running
    <3>3. Cardinality(Running') = Cardinality(Running) - 1
      BY <3>2, Finite, FS_RemoveElement
    <3>4. Cardinality(Live') <= thrown' + Cardinality(Running')
      BY <1>1, <3>1, <3>2, <3>3, Finite, Leak DEF IInv, TypeOK
    <3> QED
      BY <3>4 DEF OnlyExceptionsLeak, Running
  <2> QED
    BY <2>1, <2>2, <2>3 DEF Catch
<1> QED
  BY <1>5, <1>6, <1>7, <1>8 DEF IInv

\* After a restart there is nothing yet.
LEMMA RestartHolds == IInv /\ Restart => IInv'
<1> SUFFICES ASSUME IInv, Restart PROVE IInv'
  OBVIOUS
<1>1. TypeOK'
  BY DEF Restart, TypeOK, Places
<1>2. Live' = {} /\ \A t \in Threads : ~Busy(t)'
  BY DEF Restart, Live, Busy
<1>3. Running' = {}
  BY <1>2 DEF Running
<1>4. OnlyExceptionsLeak'
  BY <1>2, <1>3, FS_EmptySet DEF Restart, OnlyExceptionsLeak, Running
<1>5. DialledInv' /\ MeetingInv' /\ OwnInv'
  BY <1>2 DEF Restart, DialledInv, MeetingInv, OwnInv, Busy
<1> QED
  BY <1>1, <1>4, <1>5 DEF IInv

LEMMA NextHolds == IInv /\ [Next]_vars => IInv'
<1> SUFFICES ASSUME IInv, [Next]_vars PROVE IInv'
  OBVIOUS
<1>1. CASE Next
  BY <1>1, OutsideHolds, RestartHolds, CreateHolds, InsideHolds, EndHolds DEF Next, Query
<1>2. CASE UNCHANGED vars
  BY <1>2 DEF IInv, vars, TypeOK, DialledInv, MeetingInv, OwnInv, OnlyExceptionsLeak, Busy, Live
<1> QED
  BY <1>1, <1>2

-----------------------------------------------------------------------------
(* Theorems.                                                               *)

\* The inductive invariant, for any addresses and number of dials.
THEOREM StatementInvariance == Spec => []IInv
BY InitHolds, NextHolds, PTL DEF Spec

\* A query that met no other is sound, whatever happened to stmt before.
THEOREM UndisturbedQueries == Spec => []UndisturbedIsSound
<1>1. IInv => UndisturbedIsSound
  BY DEF IInv, OwnInv, UndisturbedIsSound, Busy
<1> QED
  BY <1>1, StatementInvariance, PTL

\* Statements that are left behind are as many as exceptions at most, races
\* included.
THEOREM LeaksAreExceptions == Spec => []OnlyExceptionsLeak
<1>1. IInv => OnlyExceptionsLeak
  BY DEF IInv
<1> QED
  BY <1>1, StatementInvariance, PTL

=============================================================================
