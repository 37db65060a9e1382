---------------------------- MODULE Statements ----------------------------
(***************************************************************************)
(* The member stmt of Azs_Database.  Each query is the same sequence: take *)
(* con, let it create a statement, store its address in stmt, execute and  *)
(* read what stmt points to, delete what stmt points to; an exception      *)
(* leaves the sequence without the delete.  Handlers run it on the worker, *)
(* get_azs_id runs it on the connect thread after con was replaced, and    *)
(* both use the one stmt without a lock.                                   *)
(***************************************************************************)
EXTENDS Integers, FiniteSets

CONSTANTS
  Handler,      \* the worker thread
  Connector,    \* the thread that runs connect
  Addresses,    \* where statements are allocated; a freed one is used again
  NoAddress,
  MaxSessions   \* bound: how often the process dials successfully

Threads == {Handler, Connector}

ASSUME AddressesAssumption ==
  /\ Handler # Connector /\ NoAddress \notin Addresses
  /\ IsFiniteSet(Addresses)
ASSUME SessionsAssumption == MaxSessions \in Nat

VARIABLES
  con,       \* the session con points to, numbered in the order of the dials
  stmt,      \* the address in the shared member
  session,   \* the session of the statement at each address; 0: there is none
  azs_id,    \* the session azs_id was read from
  pc,        \* where each thread stands in its sequence
  created,   \* history: what the thread's createStatement returned
  raced,     \* history: the other thread ran a query during the thread's last
  thrown,    \* history: the sequences left with their statement undeleted
  crashed    \* the threads that followed a dangling stmt: one at most

vars == <<con, stmt, session, azs_id, pc, created, raced, thrown, crashed>>

Live == {a \in Addresses : session[a] # 0}
Busy(t) == pc[t] \in {"assign", "execute", "delete"}
Other(t) == CHOOSE u \in Threads : u # t

-----------------------------------------------------------------------------

Init ==
  /\ con = 0 /\ azs_id = 0
  /\ stmt = NoAddress /\ session = [a \in Addresses |-> 0]
  /\ pc = [t \in Threads |-> "idle"]
  /\ created = [t \in Threads |-> NoAddress]
  /\ raced = [t \in Threads |-> FALSE]
  /\ thrown = 0 /\ crashed = {}

\* connect: con is replaced, the session before it is left open; setSchema and
\* the rest may still throw before get_azs_id is reached.
Dial ==
  /\ crashed = {} /\ pc[Connector] = "idle" /\ con < MaxSessions
  /\ con' = con + 1
  /\ \E p \in {"ready", "idle"} : pc' = [pc EXCEPT ![Connector] = p]
  /\ UNCHANGED <<stmt, session, azs_id, created, raced, thrown, crashed>>

\* A handler comes to a query, which may be its next.
Ready ==
  /\ crashed = {} /\ pc[Handler] = "idle" /\ con # 0
  /\ pc' = [pc EXCEPT ![Handler] = "ready"]
  /\ UNCHANGED <<con, stmt, session, azs_id, created, raced, thrown, crashed>>

CreateStatement(t) ==
  /\ crashed = {} /\ pc[t] = "ready"
  /\ \E a \in Addresses \ Live :
       /\ session' = [session EXCEPT ![a] = con]
       /\ created' = [created EXCEPT ![t] = a]
  /\ pc' = [pc EXCEPT ![t] = "assign"]
  /\ raced' = [u \in Threads |-> IF u = t THEN Busy(Other(t))
                                 ELSE raced[u] \/ Busy(u)]
  /\ UNCHANGED <<con, stmt, azs_id, thrown, crashed>>

Assign(t) ==
  /\ crashed = {} /\ pc[t] = "assign"
  /\ stmt' = created[t]
  /\ pc' = [pc EXCEPT ![t] = "execute"]
  /\ UNCHANGED <<con, session, azs_id, created, raced, thrown, crashed>>

\* executeQuery or executeUpdate, and the rows.
Execute(t) ==
  /\ crashed = {} /\ pc[t] = "execute" /\ stmt \in Live
  /\ pc' = [pc EXCEPT ![t] = "delete"]
  /\ azs_id' = IF t = Connector THEN session[stmt] ELSE azs_id
  /\ UNCHANGED <<con, stmt, session, created, raced, thrown, crashed>>

\* Mutant: the delete is left out.
DeleteNothing(t) ==
  /\ crashed = {} /\ pc[t] = "delete" /\ stmt \in Live
  /\ pc' = [pc EXCEPT ![t] = "idle"]
  /\ UNCHANGED <<con, stmt, session, azs_id, created, raced, thrown, crashed>>

Delete(t) ==
  /\ crashed = {} /\ pc[t] = "delete" /\ stmt \in Live
  /\ session' = [session EXCEPT ![stmt] = 0]
  /\ pc' = [pc EXCEPT ![t] = "idle"]
  /\ UNCHANGED <<con, stmt, azs_id, created, raced, thrown, crashed>>

\* Mutant: the catch block deletes the statement, too.
CatchDeletes(t) ==
  /\ crashed = {}
  /\ pc[t] = "ready" \/ (pc[t] = "execute" /\ stmt \in Live)
  /\ session' = [a \in Addresses |-> IF a = stmt THEN 0 ELSE session[a]]
  /\ crashed' = IF stmt \in Addresses \ Live THEN {t} ELSE {}
  /\ pc' = [pc EXCEPT ![t] = "idle"]
  /\ UNCHANGED <<con, stmt, azs_id, created, raced, thrown>>

\* catch (const sql::SQLException&): createStatement threw, or the query did.
Catch(t) ==
  /\ crashed = {}
  /\ \/ pc[t] = "ready" /\ thrown' = thrown
     \/ pc[t] = "execute" /\ stmt \in Live /\ thrown' = thrown + 1
  /\ pc' = [pc EXCEPT ![t] = "idle"]
  /\ UNCHANGED <<con, stmt, session, azs_id, created, raced, crashed>>

\* The statement is gone: a call into freed memory or a second delete.
Dangle(t) ==
  /\ crashed = {} /\ pc[t] \in {"execute", "delete"} /\ stmt \notin Live
  /\ crashed' = {t}
  /\ UNCHANGED <<con, stmt, session, azs_id, pc, created, raced, thrown>>

\* The process died and is started again.
Restart ==
  /\ crashed # {}
  /\ con' = 0 /\ azs_id' = 0
  /\ stmt' = NoAddress /\ session' = [a \in Addresses |-> 0]
  /\ pc' = [t \in Threads |-> "idle"]
  /\ created' = [t \in Threads |-> NoAddress]
  /\ raced' = [t \in Threads |-> FALSE]
  /\ thrown' = 0 /\ crashed' = {}

Query(t) == CreateStatement(t) \/ Assign(t) \/ Execute(t) \/ Delete(t)
            \/ Catch(t) \/ Dangle(t)

Next == Dial \/ Ready \/ Restart \/ \E t \in Threads : Query(t)

Spec == Init /\ [][Next]_vars

-----------------------------------------------------------------------------
(* Properties.                                                             *)

\* A query that met no query of the other thread ran on its own statement and
\* never on a dangling one, whatever earlier races and exceptions left in stmt;
\* an azs_id read by such a query belongs to con.
UndisturbedIsSound ==
  \A t \in Threads : ~raced[t] =>
    /\ t \notin crashed
    /\ pc[t] \in {"execute", "delete"} => stmt = created[t] /\ stmt \in Live
    /\ t = Connector /\ pc[t] = "delete" => azs_id = con

\* Only an exception leaves a statement behind, races included: as long as the
\* process lives, there are no more statements than exceptions and running
\* queries.
OnlyExceptionsLeak ==
  Cardinality(Live) <= thrown + Cardinality({t \in Threads : Busy(t)})

=============================================================================
