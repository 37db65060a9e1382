----------------------------- MODULE Connection -----------------------------
(***************************************************************************)
(* How the station server reaches its remote MySQL database: class         *)
(* Azs_Database (connect, connect_async, get_azs_id and the members they   *)
(* share), the settings row that class local_data keeps in azs.db, the     *)
(* connection middleware and the /settings/dberror handlers.               *)
(*                                                                         *)
(* Two kinds of threads touch this state.  Crow runs every handler to      *)
(* completion on its single worker thread (wpc).  Each connect_async       *)
(* starts a detached thread that runs connect (pc[t]); only connect takes  *)
(* connmutex, the worker never does.  The constructor of class azs runs    *)
(* connect before the server listens, which is the thread of wpc = "boot". *)
(***************************************************************************)
EXTENDS Integers, FiniteSets

CONSTANTS
  Infos,     \* the connection settings (host, user, database...) anyone enters
  Schemas,   \* those whose database exists on the server, so setSchema works
  Stations,  \* those whose database holds the station's tables and its id
  NoInfo,    \* empty settings; also a NULL con, an empty azs_id, an empty table
  Threads,   \* identities for the threads that run connect
  NoThread   \* connmutex is free

ASSUME InfosAssumption ==
  /\ Stations \subseteq Schemas /\ Schemas \subseteq Infos
  /\ NoInfo \notin Infos
ASSUME ThreadsAssumption == Threads # {} /\ NoThread \notin Threads

VARIABLES
  up,                 \* the settings whose server accepts connections now
  con,                \* the settings of the session con points to
  session,            \* that session: dead, bare (no schema selected), ready
  isconn, while_conn, last_input_info, last_connect_info, azs_id,
  connmutex,          \* the thread that holds it
  pc,                 \* where each thread stands in connect
  attempt,            \* the argument info of each thread's connect
  wpc,                \* where the Crow worker stands
  winfo,              \* the info the worker is about to pass to connect_async
  mysql_db,           \* the first row of table mysql_db in azs.db
  asked,              \* history: the settings typed last, while the last attempt
                      \* is the one made for them
  id_last,            \* local_data::id_last
  unsaved             \* history: the last set_mysql_conn_info returned false

link   == <<con, session, isconn, azs_id>>
typed  == <<last_input_info, last_connect_info>>
conn   == <<connmutex, pc, attempt>>
worker == <<wpc, winfo, asked>>
disk   == <<mysql_db, id_last, unsaved>>
vars   == <<up, link, while_conn, typed, conn, worker, disk>>

AnyInfo == Infos \cup {NoInfo}

Critical == {"dial", "schema", "valid", "rotate", "store", "commit",
             "station", "fail", "clear", "unlock"}
Places   == {"none", "lock"} \cup Critical
Handlers == {"page", "post"}
Catching(h) == IF h = "page" THEN "page_catch" ELSE "post_catch"
WorkerPlaces == {"dead", "boot", "idle", "last", "async", "send", "flag",
                 "check", "verdict", "page", "page_catch", "post", "post_catch"}

-----------------------------------------------------------------------------
(* The process.  It starts with nothing but azs.db, and may stop anywhere. *)

Init ==
  /\ up \in SUBSET Infos
  /\ mysql_db \in Schemas \cup {NoInfo}
  /\ con = NoInfo /\ session = "dead" /\ isconn = FALSE /\ azs_id = NoInfo
  /\ while_conn = FALSE
  /\ last_input_info = NoInfo /\ last_connect_info = NoInfo
  /\ connmutex = NoThread
  /\ pc = [t \in Threads |-> "none"] /\ attempt = [t \in Threads |-> NoInfo]
  /\ wpc = "dead" /\ winfo = NoInfo /\ asked = NoInfo
  /\ id_last = -1 /\ unsaved = FALSE

\* The process is gone, with every thread and every member; azs.db stays.
Crash ==
  /\ con' = NoInfo /\ session' = "dead" /\ isconn' = FALSE /\ azs_id' = NoInfo
  /\ while_conn' = FALSE
  /\ last_input_info' = NoInfo /\ last_connect_info' = NoInfo
  /\ connmutex' = NoThread
  /\ pc' = [t \in Threads |-> "none"] /\ attempt' = [t \in Threads |-> NoInfo]
  /\ wpc' = "dead" /\ winfo' = NoInfo /\ asked' = NoInfo
  /\ id_last' = -1 /\ unsaved' = FALSE
  /\ UNCHANGED <<up, mysql_db>>

\* A stop, a kill, or a crash: get_azs_id and the handlers share the pointer
\* stmt, and a request during get_azs_id may delete one statement twice.
Stop == wpc # "dead" /\ Crash

\* Mutant: id_last is left uninitialised.
BootZero(t) ==
  /\ wpc = "dead"
  /\ wpc' = "boot"
  /\ id_last' = IF mysql_db = NoInfo THEN 0 ELSE 1
  /\ last_connect_info' = mysql_db
  /\ pc' = [pc EXCEPT ![t] = "lock"]
  /\ attempt' = [attempt EXCEPT ![t] = mysql_db]
  /\ UNCHANGED <<up, link, while_conn, last_input_info, connmutex, winfo, asked,
                 mysql_db, unsaved>>

\* azs::azs: get_mysql_conn_info, setfirst_infomysql, then connect in place.
Boot(t) ==
  /\ wpc = "dead"
  /\ wpc' = "boot"
  /\ id_last' = IF mysql_db = NoInfo THEN -1 ELSE 1
  /\ last_connect_info' = mysql_db
  /\ pc' = [pc EXCEPT ![t] = "lock"]
  /\ attempt' = [attempt EXCEPT ![t] = mysql_db]
  /\ UNCHANGED <<up, link, while_conn, last_input_info, connmutex, winfo, asked,
                 mysql_db, unsaved>>

\* azs::start, once the constructor's connect has returned.
Serve ==
  /\ wpc = "boot" /\ \A t \in Threads : pc[t] = "none"
  /\ wpc' = "idle"
  /\ UNCHANGED <<up, link, while_conn, typed, conn, winfo, asked, disk>>

-----------------------------------------------------------------------------
(* Azs_Database::connect, one action per step other threads can see.       *)

Step(t, from, to) == pc[t] = from /\ pc' = [pc EXCEPT ![t] = to]

Lock(t) ==
  /\ connmutex = NoThread /\ connmutex' = t
  /\ Step(t, "lock", "dial")
  /\ last_input_info' = attempt[t]
  /\ UNCHANGED <<up, link, while_conn, last_connect_info, attempt, worker, disk>>

\* driver->connect: con is only assigned when the server answers.
Dial(t) ==
  /\ \/ /\ attempt[t] \in up
        /\ Step(t, "dial", "schema")
        /\ con' = attempt[t] /\ session' = "bare"
     \/ /\ attempt[t] \notin up
        /\ Step(t, "dial", "fail")
        /\ UNCHANGED <<con, session>>
  /\ UNCHANGED <<up, isconn, azs_id, while_conn, typed, connmutex, attempt,
                 worker, disk>>

SetSchema(t) ==
  /\ \/ /\ session = "bare" /\ attempt[t] \in Schemas
        /\ Step(t, "schema", "valid")
        /\ session' = "ready"
     \/ /\ session = "dead" \/ attempt[t] \notin Schemas
        /\ Step(t, "schema", "fail")
        /\ UNCHANGED session
  /\ UNCHANGED <<up, con, isconn, azs_id, while_conn, typed, connmutex, attempt,
                 worker, disk>>

Validate(t) ==
  /\ Step(t, "valid", "rotate")
  /\ isconn' = (session # "dead")
  /\ UNCHANGED <<up, con, session, azs_id, while_conn, typed, connmutex, attempt,
                 worker, disk>>

\* The new signing secret for other settings; it is kept apart from this state.
RotateSecret(t) ==
  /\ Step(t, "rotate", "store")
  /\ UNCHANGED <<up, link, while_conn, typed, connmutex, attempt, worker, disk>>

\* Mutant: INSERT also when a row is there.
StoreInserts(t) ==
  /\ Step(t, "store", "commit")
  /\ mysql_db' = IF mysql_db # NoInfo THEN mysql_db ELSE attempt[t]
  /\ unsaved' = FALSE
  /\ UNCHANGED <<up, link, while_conn, typed, connmutex, attempt, worker, id_last>>

\* set_mysql_conn_info: an INSERT, whose row comes first only in an empty
\* table, until a start has found a row to UPDATE.  Its result is ignored.
Store(t) ==
  /\ Step(t, "store", "commit")
  /\ \/ /\ mysql_db' = IF id_last = -1 /\ mysql_db # NoInfo
                         THEN mysql_db ELSE attempt[t]
        /\ unsaved' = FALSE
     \/ unsaved' = TRUE /\ UNCHANGED mysql_db
  /\ UNCHANGED <<up, link, while_conn, typed, connmutex, attempt, worker, id_last>>

Commit(t) ==
  /\ Step(t, "commit", "station")
  /\ last_connect_info' = attempt[t]
  /\ UNCHANGED <<up, link, while_conn, last_input_info, connmutex, attempt,
                 worker, disk>>

\* A statement succeeds in a selected database that has the station's tables.
Answers == session = "ready" /\ con \in Stations

\* get_azs_id, which catches its own exception.  A handler that took con before
\* the switch and assigns stmt during this query may have it read the id of the
\* station before: that meeting of the two threads is module Statements, and here
\* the query runs on its own statement (Statements!UndisturbedIsSound).
ReadStation(t) ==
  /\ Step(t, "station", "clear")
  /\ IF Answers THEN azs_id' = con /\ UNCHANGED isconn
                ELSE isconn' = FALSE /\ UNCHANGED azs_id
  /\ UNCHANGED <<up, con, session, while_conn, typed, connmutex, attempt,
                 worker, disk>>

\* Mutant: the catch block leaves isconn alone.
FailKeepsIsconn(t) ==
  /\ Step(t, "fail", "clear")
  /\ UNCHANGED <<up, link, while_conn, typed, connmutex, attempt, worker, disk>>

\* Mutant: the catch block returns without unlocking.
FailReturns(t) ==
  /\ Step(t, "fail", "none")
  /\ isconn' = FALSE /\ while_conn' = FALSE
  /\ UNCHANGED <<up, con, session, azs_id, typed, connmutex, attempt, worker, disk>>

Fail(t) ==
  /\ Step(t, "fail", "clear")
  /\ isconn' = FALSE
  /\ UNCHANGED <<up, con, session, azs_id, while_conn, typed, connmutex, attempt,
                 worker, disk>>

\* Mutant: the flag is lowered only after a success.
ClearIfConnected(t) ==
  /\ Step(t, "clear", "unlock")
  /\ while_conn' = (while_conn /\ ~isconn)
  /\ UNCHANGED <<up, link, typed, connmutex, attempt, worker, disk>>

Clear(t) ==
  /\ Step(t, "clear", "unlock")
  /\ while_conn' = FALSE
  /\ UNCHANGED <<up, link, typed, connmutex, attempt, worker, disk>>

Unlock(t) ==
  /\ Step(t, "unlock", "none")
  /\ connmutex' = NoThread
  /\ attempt' = [attempt EXCEPT ![t] = NoInfo]
  /\ UNCHANGED <<up, link, while_conn, typed, worker, disk>>

Connect(t) ==
  \/ Lock(t) \/ Dial(t) \/ SetSchema(t) \/ Validate(t) \/ RotateSecret(t)
  \/ Store(t) \/ Commit(t) \/ ReadStation(t) \/ Fail(t) \/ Clear(t) \/ Unlock(t)

-----------------------------------------------------------------------------
(* The worker: the middleware, connect_async and the handlers.  A request  *)
(* that the cookie turns away changes nothing here.                        *)

Go(from, to) == wpc = from /\ wpc' = to

\* Mutant: the middleware lets every page through.
BeforeHandleOpen ==
  /\ Go("idle", "page")
  /\ UNCHANGED <<up, link, while_conn, typed, conn, winfo, asked, disk>>

\* Mutant: the middleware shows the error page and does not reconnect.
BeforeHandleGivesUp ==
  /\ Go("idle", IF isconn THEN "page" ELSE "idle")
  /\ UNCHANGED <<up, link, while_conn, typed, conn, winfo, asked, disk>>

\* AuthVerefy and DatabaseVerefy, before every page.
BeforeHandle ==
  /\ Go("idle", IF isconn THEN "page" ELSE "last")
  /\ UNCHANGED <<up, link, while_conn, typed, conn, winfo, asked, disk>>

\* get_last_connect_info copies five strings without connmutex: while connect
\* assigns other settings to them the copy may be any mixture of the two.
Overwritten ==
  \E t \in Threads : pc[t] = "commit" /\ attempt[t] # last_connect_info

CopyLast ==
  /\ Go("last", "async")
  /\ IF Overwritten THEN winfo' \in AnyInfo ELSE winfo' = last_connect_info
  /\ UNCHANGED <<up, link, while_conn, typed, conn, asked, disk>>

\* settingsdb_error_send: settings typed into the form.
SendSettings(info) ==
  /\ Go("idle", "send")
  /\ winfo' = info /\ asked' = info
  /\ UNCHANGED <<up, link, while_conn, typed, conn, disk>>

\* connect_async, called by the middleware ("async") or for the form ("send").
Asks == wpc \in {"async", "send"}

Spawn(t) ==
  /\ Asks /\ wpc' = "flag"
  /\ asked' = IF wpc = "send" THEN asked ELSE NoInfo
  /\ pc[t] = "none"
  /\ pc' = [pc EXCEPT ![t] = "lock"]
  /\ attempt' = [attempt EXCEPT ![t] = winfo]
  /\ last_input_info' = winfo
  /\ UNCHANGED <<up, link, while_conn, last_connect_info, connmutex, winfo, disk>>

\* Mutant: no test of while_conn.
ConnectAsyncAlways(t) == Spawn(t)

ConnectAsync(t) == while_conn = FALSE /\ Spawn(t)

\* An attempt is under way: the settings are dropped, and settingsdb_error_send
\* answers "ok" all the same.
ConnectBusy ==
  /\ while_conn = TRUE
  /\ Asks /\ wpc' = "idle"
  /\ asked' = IF wpc = "send" THEN NoInfo ELSE asked
  /\ UNCHANGED <<up, link, while_conn, typed, conn, winfo, disk>>

SetFlag ==
  /\ Go("flag", "idle")
  /\ while_conn' = TRUE
  /\ UNCHANGED <<up, link, typed, conn, winfo, asked, disk>>

\* settingsdb_error_check: "process" when while_conn, else what isconn says.
ErrorCheck ==
  /\ Go("idle", "check")
  /\ UNCHANGED <<up, link, while_conn, typed, conn, winfo, asked, disk>>

\* Mutant: isconn is read without the flag.
ReadNoFlag ==
  /\ Go("check", "verdict")
  /\ UNCHANGED <<up, link, while_conn, typed, conn, winfo, asked, disk>>

ReadFlag ==
  /\ Go("check", IF while_conn THEN "idle" ELSE "verdict")
  /\ UNCHANGED <<up, link, while_conn, typed, conn, winfo, asked, disk>>

Verdict ==
  /\ Go("verdict", "idle")
  /\ UNCHANGED <<up, link, while_conn, typed, conn, winfo, asked, disk>>

\* POST /auth has no middleware in front of it.
AuthPost ==
  /\ Go("idle", "post")
  /\ UNCHANGED <<up, link, while_conn, typed, conn, winfo, asked, disk>>

\* A handler's statements.  auth_check also fails for a user that is unknown.
Statement(h) ==
  /\ con # NoInfo
  /\ \/ Answers /\ Go(h, "idle")
     \/ (Answers => h = "post") /\ Go(h, Catching(h))
  /\ UNCHANGED <<up, link, while_conn, typed, conn, winfo, asked, disk>>

\* The catch block, after which some handlers go on to their next statement.
Catch(h) ==
  /\ wpc = Catching(h) /\ wpc' \in {h, "idle"}
  /\ isconn' = FALSE
  /\ UNCHANGED <<up, con, session, azs_id, while_conn, typed, conn, winfo, asked, disk>>

\* con->createStatement() through a NULL con.
NullDeref(h) == wpc = h /\ con = NoInfo /\ Crash

HandlerStep ==
  \/ CopyLast \/ (\E t \in Threads : ConnectAsync(t)) \/ ConnectBusy \/ SetFlag
  \/ ReadFlag \/ Verdict
  \/ \E h \in Handlers : Statement(h) \/ Catch(h) \/ NullDeref(h)

Request ==
  \/ BeforeHandle \/ ErrorCheck \/ AuthPost
  \/ \E info \in Infos : SendSettings(info)

-----------------------------------------------------------------------------
(* The MySQL servers.                                                      *)

ServerDown(i) ==
  /\ i \in up /\ up' = up \ {i}
  /\ session' = IF con = i THEN "dead" ELSE session
  /\ UNCHANGED <<con, isconn, azs_id, while_conn, typed, conn, worker, disk>>

ServerUp(i) ==
  /\ i \notin up /\ up' = up \cup {i}
  /\ UNCHANGED <<link, while_conn, typed, conn, worker, disk>>

Next ==
  \/ \E t \in Threads : Boot(t) \/ Connect(t)
  \/ Serve \/ Request \/ HandlerStep \/ Stop
  \/ \E i \in Infos : ServerDown(i) \/ ServerUp(i)

-----------------------------------------------------------------------------
(* Fairness: the operating system runs every thread, the worker goes on    *)
(* with the handler it is in, and no handler has infinitely many           *)
(* statements.  Nobody has to send a request, and servers owe nothing.     *)

HandlerEnds == \E h \in Handlers : Catch(h) /\ wpc' = "idle"

Fairness ==
  /\ \A t \in Threads : WF_vars(Connect(t))
  /\ WF_vars(Serve \/ HandlerStep) /\ SF_vars(HandlerEnds)

Spec == Init /\ [][Next]_vars /\ Fairness

-----------------------------------------------------------------------------
(* Properties.                                                             *)

\* Every variable has its type.
TypeOK ==
  /\ up \subseteq Infos
  /\ con \in AnyInfo /\ session \in {"dead", "bare", "ready"}
  /\ isconn \in BOOLEAN /\ azs_id \in AnyInfo
  /\ while_conn \in BOOLEAN
  /\ last_input_info \in AnyInfo /\ last_connect_info \in AnyInfo
  /\ connmutex \in Threads \cup {NoThread}
  /\ pc \in [Threads -> Places] /\ attempt \in [Threads -> AnyInfo]
  /\ wpc \in WorkerPlaces /\ winfo \in AnyInfo /\ asked \in AnyInfo
  /\ mysql_db \in AnyInfo /\ id_last \in {-1, 1} /\ unsaved \in BOOLEAN

\* An attempt that has not reached while_conn = false.
Pending(t) == pc[t] \notin {"none", "unlock"}

\* One attempt at a time: although while_conn is neither atomic nor locked and
\* is raised only after the thread was spawned, two attempts never race to
\* assign con, so connmutex has nothing to arbitrate but an unlock.
OneAttempt == \A s, t \in Threads : Pending(s) /\ Pending(t) => s = t

\* At most two connect threads exist, however often pages retry.
TwoThreads ==
  \A r, s, t \in Threads :
    pc[r] # "none" /\ pc[s] # "none" /\ pc[t] # "none" => r = s \/ s = t \/ r = t

\* With connmutex free and the database up to the handlers, the session, the
\* station id the queries are filtered by, and the settings the next retry
\* will use are all of the same station: no failure, race or drop of an
\* attempt leaves them mixed.
Settled ==
  isconn /\ connmutex = NoThread =>
    con \in Stations /\ azs_id = con /\ last_connect_info = con

\* A handler behind the middleware never uses a NULL con.
GuardedHasSession == wpc = "page" \/ wpc = "page_catch" => con # NoInfo

\* "connect" and "disconnect" on the settings page are final: nothing is
\* pending any more when isconn is read.  "connect" is about the attempt that
\* connect_async accepted last, which the form shows, its session and its station;
\* and that is the attempt for the settings typed last, unless those were dropped
\* because another one was under way (ConnectBusy), or a page loaded since has
\* made an attempt of its own.
VerdictIsFinal ==
  wpc = "verdict" =>
    /\ \A t \in Threads : ~Pending(t)
    /\ isconn => last_input_info = con /\ azs_id = con
    /\ isconn /\ asked # NoInfo => con = asked

\* The settings form shows the settings of the attempt that is under way.
FormShowsAttempt ==
  \A t \in Threads : Pending(t) /\ wpc # "boot" => last_input_info = attempt[t]

\* The flag says "process" with no attempt behind it: connect_async will
\* refuse every attempt from here on.
FlagLost ==
  while_conn /\ wpc # "flag" /\ \A t \in Threads : ~Pending(t)

\* Only the interleaving in which a whole connect runs before the worker's
\* while_conn = true loses the flag, and nothing but a restart mends it.
OnlyRestartMendsFlag ==
  [][/\ FlagLost /\ ~FlagLost' => wpc' = "dead"
     /\ FlagLost' /\ ~FlagLost => wpc = "flag"]_vars

\* Once a start has found a settings row, azs.db holds what the server last
\* connected with (a restart goes back to it) unless the last write failed.
DiskFollowsMemory ==
  id_last # -1 /\ ~unsaved /\ (\A t \in Threads : pc[t] # "commit") =>
    mysql_db = last_connect_info

\* An attempt has touched con and has not ended yet.
Switching ==
  \E t \in Threads :
    \/ pc[t] \in {"schema", "valid", "rotate", "store", "commit", "station"}
    \/ pc[t] = "clear"
    \/ pc[t] = "fail" /\ con = attempt[t]

\* The threads, connmutex, while_conn and the handlers together implement the
\* simple link of StationLink: one attempt at a time, each of them ending,
\* and the station of a finished attempt or none in between.
LinkPending == {attempt[t] : t \in {s \in Threads : Pending(s)}}
LinkStation == IF isconn /\ ~Switching THEN {con} ELSE {}

Link == INSTANCE StationLink WITH
  Settings <- AnyInfo, pending <- LinkPending, station <- LinkStation,
  jammed <- FlagLost

ImplementsLink == Link!Spec

\* Every attempt comes to an end, and connmutex with it; and every handler
\* returns: the worker waits neither for connmutex nor for an attempt, not even
\* for one whose flag is never lowered.
EverythingReturns ==
  /\ \A t \in Threads : pc[t] # "none" ~> pc[t] = "none"
  /\ wpc \notin {"idle", "dead"} ~> wpc \in {"idle", "dead"}

\* While somebody keeps loading pages, once every server stays up and only complete
\* databases are tried, the connection is there again and again, unless the
\* flag was lost or the process stopped.
Recovers ==
  SF_vars(BeforeHandle) /\ <>[](up = Infos /\ last_input_info \in Stations) =>
    []<>(isconn \/ FlagLost \/ wpc = "dead")

-----------------------------------------------------------------------------
(* The inductive invariant behind the safety properties.                   *)

\* connmutex is held exactly by the thread inside connect.
MutexInv == \A t \in Threads : pc[t] \in Critical <=> connmutex = t

\* A stopped process has no thread and no connection.
DeadInv ==
  wpc = "dead" =>
    /\ isconn = FALSE /\ while_conn = FALSE /\ asked = NoInfo
    /\ \A t \in Threads : pc[t] = "none"

\* An attempt shows in while_conn, unless the worker is just about to set it or
\* the server does not listen yet.
FlagInv ==
  \A t \in Threads : Pending(t) => while_conn \/ wpc \in {"flag", "boot"}

\* A live session was dialled, and so was one that handlers may use.
SessionInv ==
  /\ isconn \/ session # "dead" => con # NoInfo
  /\ GuardedHasSession

\* The session, the station id and the next retry's settings agree.
Agree == con \in Stations /\ azs_id = con /\ last_connect_info = con

\* Where connect stands says how much of Agree it has already restored.
PhaseInv ==
  /\ isconn /\ connmutex = NoThread => Agree
  /\ \A t \in Threads :
       /\ pc[t] \in {"dial", "clear", "unlock"} /\ isconn => Agree
       /\ pc[t] \in {"schema", "valid", "rotate", "store", "commit", "station"}
            => con = attempt[t]
       /\ pc[t] = "station" => last_connect_info = con
       /\ pc[t] = "clear" /\ isconn => con = attempt[t]

\* Who wrote last_input_info last.
InputInv ==
  /\ \A t \in Threads :
       Pending(t) /\ ~(pc[t] = "lock" /\ wpc = "boot") => last_input_info = attempt[t]
  /\ isconn /\ (\A t \in Threads : ~Pending(t)) => last_input_info = con

\* Settings that were typed are about to be tried, or were tried last.
AskedInv ==
  /\ wpc = "boot" => asked = NoInfo
  /\ asked # NoInfo => asked = IF wpc = "send" THEN winfo ELSE last_input_info

\* The verdict is read after while_conn was seen false.
VerdictInv == wpc = "verdict" => \A t \in Threads : ~Pending(t)

\* The stored row is the connected one, or the one about to be committed.
DiskInv ==
  id_last # -1 /\ ~unsaved =>
    /\ \A t \in Threads : pc[t] = "commit" => mysql_db = attempt[t]
    /\ (\A t \in Threads : pc[t] # "commit") => mysql_db = last_connect_info

IInv ==
  /\ TypeOK /\ MutexInv /\ DeadInv /\ OneAttempt /\ FlagInv /\ SessionInv
  /\ PhaseInv /\ InputInv /\ AskedInv /\ VerdictInv /\ DiskInv

=============================================================================
