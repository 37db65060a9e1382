# Verification of the station server (azs_local_server)

`azs_local_server` is the server of a filling station. A browser talks to it
over HTTP (Crow), it keeps its own settings in an SQLite file (`azs.db`) and
works on the station's tables in a remote MySQL database that is often
unreachable. This directory holds TLA+ models of its own code (`src/`,
`include/`, `main.cpp`; `library/` is third-party), the TLC runs that check
them and proofs that TLAPS checks.

## 1. Inventory

| Component | Code | State | Operations |
|---|---|---|---|
| Database connection | `include/model.h` (`Azs_Database`), `src/controller.cpp` (middleware, `/settings/dberror*`), `src/model.cpp` (`get_azs_id`), `include/azs.h` | `con`, `isconn`, `while_conn`, `last_input_info`, `last_connect_info`, `azs_id`, `connmutex`, `stmt` | `connect`, `connect_async`, `get_azs_id`, `before_handle`, `settingsdb_error_send/check` |
| Local settings store | `include/local_data.h` | table `mysql_db`, `id_last` | `get_mysql_conn_info`, `set_mysql_conn_info` |
| Token secret | `include/local_data.h`, `src/local_data.cpp` | table `jwt`, `secretjwt`, `stmt` | `get_secret_jwt`, `generatejwt_secret`, `~local_data` |
| Operator shifts | `src/controller.cpp` (`auth_post`), `src/model.cpp` (`smena_*`), `include/users_controller.h` (`api_outshift`) | table `smena` | log in, close the shift |
| Station configuration | `src/model.cpp` (`set_*`, `delete_*`, `get_*`, `save_Trks`), `include/users_controller.h` | tables `tovar`, `tank`, `com_trk`, `trk`, `loc_const` | the settings API, the pages built from it, the prices and colours on them |
| Sessions and routing | `src/web_tehnology.cpp`, `src/controller.cpp` (`check_coockie`), `src/core.cpp`, `src/view.cpp`, `include/users_controller.h` | tokens in browsers | `create_token`, `verify_token`, `ParseCookie`, dispatch by role |
| Login page | `src/controller.cpp` (`auth_main`), `src/model.cpp` (`get_Users_Name`, `smena_bool`) | none | a read-only list from two queries |
| Entry, build, libraries | `main.cpp`, CMake, Docker, `library/` | none of their own | start and stop |

How they interact. `app.port(3000).run()` without `.multithreaded()` gives Crow
**one worker thread**, so handlers never interleave with each other. What does
interleave with a handler is `Azs_Database::connect`, which `connect_async`
starts on a **detached thread**. Both use the same members of `Azs_Database`
(`con`, `isconn`, `azs_id`, `stmt`, the two `last_*_info`, `while_conn`) and of
`local_data` (`stmt`, `secretjwt`, the `jwt` table). Only `connect` takes
`connmutex`; the worker never does, so the mutex protects `connect` from another
`connect` and from nothing else. Shared flags are plain `bool`s.

What is hard, and so what the models are about:

* the two threads: `while_conn` is tested before and raised *after* the thread
  is spawned; `isconn` is set before `azs_id`, `azs.db` and the token secret
  belong to the new database; a five-string struct is copied unlocked;
* failures: every MySQL statement may throw, alone, in the middle of a handler
  that has written already, and a failure is often reported as an ordinary
  value (`false` = closed shift); SQLite results are partly ignored;
* restarts: what `azs.db` says must agree with what the process did;
* ordering: a number looked up in one database and used in another;
* people: a browser keeps its cookie across all of this, so what a session may do
  depends on which station issued it, with which secret, and when by the clock.

The full list, line by line, is in `PROJECT.json` under `hazards`. What makes
each component correct:

* connection: attempts do not race; with no attempt under way, the session, the
  station id and the settings that are retried and stored belong together; the
  settings page reports an outcome when there is one, that of the attempt
  accepted last (which need not be the settings typed last: those are dropped
  while an attempt is under way); every attempt ends and releases the mutex; the
  worker never blocks; the server reconnects;
* its queries: one that met no query of the other thread ran on its own
  statement, and only exceptions leave a statement behind;
* token secret: memory and disk agree, a rotation ends every session for good
  (but those signed with `""` when the secret could not be loaded), only failed
  writes leave a statement behind, and none is used after its end;
* shifts: one open shift, numbered consecutively, a closed one stays closed, a
  login ends with the user on the open shift, no station writes another's rows;
* station configuration: the tables keep referring to each other, what is saved
  is what was sent, a page never follows a missing reference, a price is shown
  as it was typed;
* sessions: who is let in belongs to the station the server works with, that
  station is left only by its own administrator, a session ends when it should,
  and a header of plain cookies is read into a buffer of exactly its length (for
  other headers the two lengths may differ, and the code does not look);
* login page: everyone is on it once, the operator on shift comes first.

## 2. Modules

| Module | Role |
|---|---|
| `Connection` | the connection component with the settings store: threads, worker, servers, stops and restarts; its properties and its inductive invariant |
| `StationLink` | abstract specification of what the connection promises; `Connection` and `Sessions` implement it |
| `Statements` | the member `stmt` that the queries of both threads share |
| `JwtSecret` | the token secret, one action per SQLite call of the two threads |
| `SecretStore` | abstract specification of what the token secret is to the sessions |
| `Sessions` | browsers, their tokens and requests, beside the thread that switches stations |
| `CookieParse` | `ParseCookie`, both loops character by character, on any header |
| `Shift` | operator shifts over two databases, one action per SQL statement |
| `LoginPage` | the login page's two queries, over the tables and the connect thread of `Shift`, which it extends |
| `StationConfig` | the station's tables under the administrator's requests, one action per SQL statement; its properties, its inductive invariant and the one behind its refinement of `StationTables` |
| `StationTables` | abstract specification of what the settings API promises |
| `PumpPages` | the queries of `get_Trks_with_all`, the pointers between their results, and the pages that follow them |
| `FuelPrice` | a price and a colour between page, float, text and table |
| `ConnectionProofs`, `SessionProofs`, `JwtProofs`, `StatementProofs` | the theorems about `Connection`, `Sessions`, `JwtSecret`, `Statements` |
| `ShiftProofs` | the theorems about `Shift` and `LoginPage` |
| `ConfigProofs` | the theorems about `StationConfig`, and that it implements `StationTables` |
| `PumpProofs` | the theorems about `PumpPages` |
| `TextProofs` | the theorems about `FuelPrice` and `CookieParse` |
| `MCConnection`, `MCStatements`, `MCJwtSecret`, `MCSessions`, `MCCookieParse`, `MCShift`, `MCLoginPage`, `MCStationConfig`, `MCPumpPages`, `MCFuelPrice` | instances for TLC |

How they fit together. Each module but `LoginPage` contains the part of the
connect thread that its component can see, and relies on a result about
`Connection`: there is at most one connect thread that does anything
(`OneAttempt`), which is why `JwtSecret` has one connector, `Shift` one
`switching`, `Statements` one `Connector` and `Sessions` one `place`. That the
reduced thread of `Sessions` is a faithful one is itself checked: both it and
`Connection` implement `StationLink`. In `StationConfig` and `PumpPages` the
thread is `Switch`, any steps of `connect` at any time, which is more than it
can do. In the other direction `Connection` and `Sessions` take the rotation of
the secret as one step, whose inside is `JwtSecret` and which it is because
`JwtSecret` implements `SecretStore`; every module takes a query
as one step (`Connection!ReadStation`, the SQL statements of `Shift`,
`StationConfig`, `PumpPages`), which `Statements` shows to be right for queries
of the two threads that do not meet; and `LoginPage` starts from any tables that
`Shift!OneOpenShift` allows.

### Connection

`pc[t]` is a thread's place in `connect` and each place is one step that other
threads can distinguish:

| Action | Code (`include/model.h`) |
|---|---|
| `Lock` | `connmutex.lock(); last_input_info = info` |
| `Dial`, `SetSchema`, `Validate` | `driver->connect`, `setSchema`, `isconn = con->isValid()` |
| `RotateSecret` | the call of `generatejwt_secret(true)`, whose inside is `JwtSecret` |
| `Store` | `set_mysql_conn_info`, success or failure ignored |
| `Commit` | `last_connect_info = info` |
| `ReadStation` | `get_azs_id`, which catches its own exception |
| `Fail` | the `catch` of `connect` |
| `Clear`, `Unlock` | `while_conn = false`, `connmutex.unlock()` |

`wpc` is the worker's place: `BeforeHandle` is the middleware, `CopyLast`,
`ConnectAsync`/`ConnectBusy` and `SetFlag` are the three steps of
`connect_async(get_last_connect_info())`, `SendSettings` the settings form, which
calls `connect_async` as well (place `"send"` instead of `"async"`),
`ErrorCheck`, `ReadFlag`, `Verdict` the polling handler with its two separate
reads, `AuthPost` the one database handler with no middleware, `Statement` and
`Catch` any handler's SQL statement and its `catch`. `Boot`/`Serve` are the
constructor of class `azs` and `start`; `Stop` ends the process anywhere.

Undefined behaviour is a choice over its outcomes: an unlocked copy of
`last_connect_info` made while a thread assigns it yields any settings at all;
a `NULL` `con` that is dereferenced ends the process (`NullDeref`); so may the
statement pointer that `get_azs_id` and a handler share (`Stop`). The other
outcome of that meeting, an `azs_id` read from the station before, is not in
`Connection` but in `Statements`: `Settled` speaks of attempts whose query for
the station's id met no handler's.

`connect_async` does nothing while `while_conn` is up, and the form answers "ok"
all the same: `ConnectBusy` drops what was typed, and the next poll is about the
attempt under way. The history `asked` keeps the two apart. It holds the settings
typed last as long as the last attempt is the one made for them, and nothing once
they were dropped or a page has retried since.

The data is reduced to what matters: settings are names, of which some have an
existing database (`Schemas`) and some of those the station's tables
(`Stations`). A station's id is the name of its settings.

### StationLink

Three variables: the attempt under way, the station handlers work with, and
whether the slot for attempts is jammed. `Connection` implements it under the
mapping `Link` (see `ImplementsLink`): the threads between spawn and
`while_conn = false` are the attempt, `isconn` outside of a switch is the
station, and the lost flag (below) is the jam.

### JwtSecret

`generatejwt_secret` is cut at every SQLite call (`prepare`, `step`, `column`,
`finalize`, the `exec`s of UPDATE and INSERT) and at the assignment of
`secretjwt`, because the caller that interleaves shares the member `stmt`.
Secrets and statement handles are numbered; `MaxSecrets` and `MaxHandles` bound
them. History variables say whether two calls overlapped (`overlapped`), whether
a failed SELECT was read as an empty table (`misread`), which statements a failed
UPDATE or INSERT has left (`leaked`) and how often the worker failed to load a
secret (`unloaded`). The properties state what holds without overlap: the overlap
itself is a defect of the code the model shows (no lock), and nothing is claimed
of it, nor of memory and disk after a misread SELECT.

A load that fails leaves `secretjwt` empty, and `Sign` goes on with `""`. Such a
token is of no use once a secret is loaded, and is accepted again by the next
failed load, before or after any rotations and restarts. `RotationEndsSessions`
names it as the one exception, and says that it takes two failed loads.

### SecretStore

The secret in use, the secrets that tokens were signed with, whether a rotation
is under way, and whether the promise is off. `JwtSecret` implements it
(`ImplementsStore`): in use is what memory holds, or the disk while memory holds
nothing (`Present`). A rotation therefore takes effect at the UPDATE or INSERT
when no secret was loaded, at the assignment when one was, and at the stop when
the process ends between the two; whichever it is, the old secret is in use up
to that step and never after it, and a rotation that fails leaves it in use.
`present` is not what a token is verified with after a failed load, which is
`""`: `Issue` allows the signature and `RotationEndsSessions` deals with it.

### Statements

Every query of the server is the same sequence on the member `stmt`:
`stmt = con->createStatement()` (`CreateStatement`, then `Assign`, because the
call and the assignment are two steps), `executeQuery` and the rows (`Execute`),
`delete stmt` (`Delete`); an exception leaves it without the delete (`Catch`).
Handlers run it again and again (`Ready`), `get_azs_id` runs it once after each
`Dial`. `session[a]` is the database session that the statement at address `a`
belongs to, and a freed address may be given out again, so that a stale `stmt`
may point to somebody else's statement. A call on freed memory is `Dangle`.
`raced` remembers that a thread's query met one of the other thread.

### Sessions

`cookie[b]` is the token that browser `b` holds: role, secret it was signed
with, local time of its creation; the station and the real time of the login are
history. A request is taken in two steps, because the connect thread runs in
between: the middleware lets it through (`BeforeHandle`, `BeforeHandleDown`,
`SettingsSend`, `AuthCheck`) and then the handler runs (`Handle`, `Connect`,
`Sign`). The thread is `Dial`, `Rotate`, `Store`; `Stop`, `Start` and `Serve`
are the process, and `Tick` the clock. `timetostr` and `strtotime` are local
time: `Offset` gives the time zone at each time, and a local time that comes
twice is read as either of the two.

| Action | Code |
|---|---|
| `BeforeHandle`, `BeforeHandleDown` | `AuthVerefy::before_handle`, `DatabaseVerefy::before_handle` |
| `Handle` | the handlers of `Admin` and `User`, by what they do to the session: `/api/out`, `/api/outshift`, the pages that a user is turned away from, all others |
| `SettingsSend`, `Connect` | `settingsdb_error_send`, `connect_async` |
| `AuthCheck`, `Sign` | the first and the last step of `auth_post`; those in between are `Shift` |

Three histories name the ways in which a session of another station survives
(`lapses`: a failed rotation, a login signed after a switch, a restart with
other settings than the secret's). The rotation is one step here, so the further
ways that `JwtSecret` names, an overlap, a misread SELECT and a secret that
fails to load, are not in `Sessions`. `order` remembers for an attempt on whose
behalf it runs. Each of the exceptions in the properties is needed: without it
TLC finds a counterexample. The release build is modelled; a debug build
(`DEBUG_BUILD`) takes everyone for an administrator.

### CookieParse

The header is a sequence of characters, and each loop takes one action per
character: `CountTurn` counts, `Resize` makes the buffer, and a `CopyTurn` ends a
name or a value (`EndRecord`) or goes on within one (`WithinRecord`) until
`Close`. `parse` is what has been written so far, so `index_parse` is its length,
and `size_parse` is the length of the buffer. Nothing compares the two: once
`parse` is the longer one (not `Fits`), the process may go on or end (`Die`).

The code takes any header, and so does the model (`Headers`): parts without `=`,
empty parts, `=` within a value, `;` at the end, blanks anywhere. `plain` marks
those that a browser makes of plain cookies, with names and values that have no
character of `Marks`; the server's own cookie, a token, is one. What is claimed:

* `SizeOfText`, of every header: by how much text and buffer differ. The text
  takes two quotes and a separator for each part between two `;`, the size counts
  `=` instead; and the size leaves out every blank between a `;` and the next
  name, also those that the second loop does not skip (`Stray`), before a
  delimiter or at the end.
* `ObjectOfCookies`, of plain headers only: the text is the JSON object of the
  cookies and exactly as long as the buffer.

So `foo` has a buffer of 5 and a text of 7 characters, and `n=a=b` fits but is not
the text of an object. That is what the code does; no property claims otherwise.

### Shift

`smena[d]` is the table of database `d`, `NSmen` the index of a row. `Login`,
`AuthCheck`, `Lookup`, `ChangeOperator` or `AddOperator`, and `Reply` are the
statements of `auth_post`; `OutShift`, `CloseLookup`, `SmenaClose` those of
`api_outshift`. Between any two of them the connect thread may replace `con`
(`Dial`), confirm it (`Validate`) and replace `azs_id` (`ReadStation`). A
statement may be lost before it took effect or after. `intact` is the set of
databases that no handler has written after a failed lookup or with a number
from another database: the two ways in which this code does damage a table. The
properties say there is no third.

### LoginPage

`auth_main` is `Load`, `get_Users_Name`, `OperatorOnShift` (`smena_bool` with
the operator's id) and `Render`, each query with its own failure;
`get_Users_Name` may fail after any number of users. `Page` is the exchange of
two list elements that puts the operator first. The connect thread's actions are
those of `Shift`, so `con` and `azs_id` may change between the two queries.

### StationConfig and StationTables

A request is the list of objects that parsing leaves (`json_to_*` either reads
an object completely or the handler returns before the first statement), in the
order of the handler: fuels, tanks, pumps; for `api_trk_save` the screen, then
the places. `Receive` takes it from the middleware, `Reply` answers. In between
each statement is an action with two outcomes: `Works`, on the database `con`
points to (`here`, or another one, of which nothing is kept), and `Throws`,
before or after it took effect.

| Action | Code (`src/model.cpp`) |
|---|---|
| `SetTovar`, `SetTank`, `DeleteTovar`, `DeleteTank` | the function of that name, one statement each |
| `SetTrkPlace`, `SelectMax`, `InsertPist`, `UpdatePist`, `SetTrkEnd` | the statements of `set_Trk`, in one `try`: an exception abandons the pump and the handler goes on with the next |
| `DeletePump`, `DeletePist`, `DeletePistsEnd` | `delete_Trk`, always called with `smart_delete`: a list of pistols is deleted one by one, and a pump without a list is deleted without its pistols |
| `SaveScreen`, `SavePlace` | `save_Trks`, one `try` per statement |

`disturbed` says that a statement of the request failed, ran on another
database, or was an UPDATE by an explicit number that `InsertPist` had given
away an instant before. `StationTables` is the promise: each object is stored in
one step and completely, or, if disturbed, in part and only in the row or pump
it names. Rows of `trk` are a set; `copy` keeps two rows with one number apart.

### PumpPages

`ReadScreen`, `ReadTovars`, `ReadTanks` and `ReadTrks` are the four queries,
each with a `try` of its own, so each may stop after any row while the next runs
all the same. `Tank` and `Link` are the loops that set `tovar_` and `tank_`. The
query for the pumps is taken row by row, because its loop carries something from
one row to the next: `SelectTrks` sends it, `NextRow` is a turn of the loop that
groups rows into pumps (`Joined`), `LastRow` its end, and `TrksFail` an
exception at the query or at any row. The rows are those of the database it was
sent to (`from`), also when the connect thread replaces `con` in the middle.
`Link` shows that `pist` outlives a turn: a pistol whose tank is not found keeps
the tank of the row before. `Render` is `main_trk`, `old_main_settings_config`
or `api_settings_get`; the first two follow `tank_->tovar_` and the second reads
`trks[0]`, and what is not there ends the process (`"dead"`, then `Restart`).
The lists of `api_settings_tovars_get`, `_tanks_get` and `_trks_get` are one of
these queries each (`get_Tovars`, which leaves the price at -1, `get_Tanks`,
`get_Trks`).

### FuelPrice

`Save`, `Get` and `Show` move a price and a colour from the settings page to the
table, back, and to the pump page. The conversions are computed, not assumed:
`FloatOf` is the nearest 24-bit float, `floatToString` rounds it to two
decimals, `to_string` to six, of which `ShownPrice` cuts four; `get_rgb` and
`ColorOf` pack and unpack bytes. Numbers are in hundredths so that they stay
within TLC's 32-bit integers, from 1.00 to 99.99; the `double` between text and
float (the JSON number, `getDouble`) is left out, since rounding twice gives the
same float for a number of two decimals.

## 3. Runs

| Run | Checks | Instance | States |
|---|---|---|---|
| `connection_safety` | `TypeOK`, `OneAttempt`, `Settled`, `GuardedHasSession`, `VerdictIsFinal`, `DiskFollowsMemory`, `OnlyRestartMendsFlag` | 3 settings (complete station, database without tables, server without database), 3 threads, symmetric | 1.65 M |
| `connection_progress` | `EverythingReturns`, `Recovers`, `ImplementsLink` (with its fairness) | 2 settings, 2 threads | 198 k |
| `statements` | `UndisturbedIsSound`, `OnlyExceptionsLeak` | 3 dials, 4 addresses, symmetric | 26 k |
| `secret_rotation` | `SecretOnDisk`, `RotationEndsSessions`, `OnlyFailedWritesLeak`, `CallsAlone`, `ImplementsStore` | 5 secrets, 4 statements | 1.16 M |
| `secret_shutdown` | `FinalizedOnce`, **violated** | the same | stops at the trace |
| `sessions` | `TypeOK`, `OwnSessions`, `ActsOnItsStation`, `LeftByItsAdmin`, `AgeWithinAnHour` | 2 stations, 1 browser, 2 secrets, 4 points in time around the end of summer time, a token lasts 2 of them | 3.49 M |
| `cookie_parse` | `TextOfHeader` (`SizeOfText` and `ObjectOfCookies`) | all headers of up to 6 characters of 4 kinds; up to 3 plain cookies of 2 names and 3 values, 3 separators | 109 k |
| `shifts` | `TypeOK`, `OneOpenShift`, `NumbersConsecutive`, `LoginTakesShift`, `ClosedForGood`, `RowsStayHome` | 2 databases, 2 operators, at most 2 rows when a login starts | 1.76 M |
| `login_page` | `EveryoneOnce`, `OperatorFirst` | 2 databases and stations, 2 operators, all tables of up to 2 shifts | 4.6 M |
| `station_config` | `TypeOK`, `PistolsUnique`, `YesMeansSaved`, `ImplementsTables` | 7 requests on 1 fuel, 2 tanks, 2 pumps; at most 1 pistol per pump when a request starts | 1.43 M |
| `pump_pages` | `PumpsGrouped`, `OwnTank`, `CrashesExplained` | 2 databases, each whole, another station, torn or empty | 222 k |
| `fuel_price` | `KeptAsTyped`, `ShownOneLessAtMost` | every price from 1.00 to 99.99, 3 colours | 109 k |

What they show, in short.

* `connection_safety`. Although `while_conn` is an unlocked flag raised late,
  two attempts never run at once; `Settled` and `DiskFollowsMemory` hold. When
  the settings page says "connect", no attempt is pending, and the session and
  the station are those of the attempt accepted last (`VerdictIsFinal`). That is
  the one for the settings typed last unless those were dropped because another
  was under way, which the page is not told, or a page has retried since. The
  flag can be lost: if a whole `connect` runs between `th.detach()` and
  `while_conn = true`, the flag stays up with nothing behind it and no attempt
  is accepted again. `OnlyRestartMendsFlag` says that this interleaving is the
  only cause and a restart the only cure.
* `connection_progress`. Every attempt and handler ends, and with pages being
  loaded the server is connected again and again once the database answers,
  unless the flag was lost or the process stopped.
* `statements`. Whatever earlier races and exceptions left in `stmt`, a query
  that meets none runs on its own statement and is never the one that crashes;
  races lose no statement, exceptions lose one each.
* `secret_rotation`. Without overlap and misread SELECT, failures do not part
  memory and disk, and no token signed with a secret survives a rotation, nor
  comes back after a restart. A token signed with `""`, after a failed load,
  counts again whenever another load fails. Each failed UPDATE or INSERT leaves
  a statement; without overlap nothing else does.
* `secret_shutdown`. A finding: `~local_data` finalizes a statement that
  `generatejwt_secret` has finalized already.
* `sessions`. A switch ends the sessions of the station before, a handler acts
  on the station of the session that let it in, a working station is left only
  by order of its own administrator, and a session ends on time but for the
  hour that comes twice. The exceptions are part of the properties: a rotation
  that failed, a login that overlaps a switch, a restart with settings older
  than the secret, and requests let through while an attempt is under way.
* `cookie_parse`. For plain cookies the two loops agree on the length, and the
  text is the JSON object, for empty values and any blanks after `;`. For any
  other header the difference is counted exactly: the buffer is too short for a
  part without `=` or a stray blank that no further `=` makes up for.
* `shifts`. Lost answers, stops and wrong logins do not break a shift table.
* `login_page`. Neither failures nor a switch between the two queries lose a
  user or show one twice, and a name is put first only if it has an open shift.
* `station_config`. No failure, repetition or restart gives a number twice, and
  none touches a row that the request does not name; a "yes" to a save is true.
  Three things are needed: that no reconnection comes in between (`strayed`,
  `switched`), and that a request names no number that it is about to create
  (part of `disturbed`). `api_settings_set` and `api_settings_delete` answer
  "success" whatever happened, so no property speaks of that answer.
* `pump_pages`. Grouping is right for every order of a pump's rows, and the
  carried-over `tank_` is harmless as long as lists and tables are complete and
  of one database. Otherwise a page may end the process; `CrashesExplained`
  lists the only ways: a failed query, a switch between two queries, rows that
  refer to nothing, and a configuration page without pumps.
* `fuel_price`. Loading and saving again never changes a price, but the pump
  page cuts where it should round: from 16.00 on it may show a hundredth less.

Bounds, and why they are enough. The connection model is finite by itself: no
counter is bounded, and restarts are unlimited. Three settings give each kind of
server answer a representative; two live threads are the most there can be
(`TwoThreads`, proved for any number), a third shows that `Spawn` is not limited
by the supply. The smaller instance of `connection_progress` keeps one good and
one bad setting and two threads. In `statements` two threads hold at most two
statements at a time and the other addresses hold leaked or none; three dials
are a query before, during and after a switch. Five secrets are one row that is
there already, a load and three rotations, and four statements the overlaps of
two callers across a restart. Logins that start while every table has fewer than
two rows reach tables of two rows; an open and a closed shift, a takeover, a
switch between two stations and rows of a foreign station all occur.

The seven requests of `station_config` have each kind of object, a new pistol
before and after an explicit number, two new pistols, two pumps, a pump without
pistols, and deletions in both modes; they may follow each other in any order
and number. `MaxNumber` = 2 lets a request start while every pump has fewer than
two pistols, numbered below two; a request adds at most two more. The
four contents of `pump_pages` have a pump with two rows (both orders occur), a
pump with none, every kind of dangling reference, tanks whose ids two stations
share with other fuels, and nothing at all.

`sessions` has a switch there and back with its two rotations, and one browser:
two browsers meet only in the order of their requests, which one browser that
logs in and out makes as well, and the theorems hold for any number. Its four
points in time lie before, at, and after the change of the clocks, with tokens
of all ages from new to expired. `login_page` starts from all tables that two
shifts of two stations can make, with operators known at one station and not at
the other. Three cookies have a first, a middle and a last one; values of no,
one and two characters are what the loops can tell apart. Six characters hold
three parts in every combination of name, `=`, `;` and blank. `fuel_price` is
exhaustive up to 99.99.

Fairness. `WF(Connect(t))`: the operating system schedules every thread, and
each call `connect` makes returns. `WF(Serve \/ HandlerStep)`: the worker
continues the handler it is in. `SF(HandlerEnds)`: a handler has finitely many
statements, so it leaves its last catch block. No fairness is assumed of
requests, of the servers, of `Stop` or of restarts. `Recovers` has
`SF(BeforeHandle)` among its own premises: it is about a server whose pages
someone goes on loading (the error page reloads).

`CHECK_DEADLOCK` is never switched off.

## 4. Proofs

`ConnectionProofs` proves, for any finite or infinite set of settings and any
number of threads, with `InfosAssumption` (`Stations \subseteq Schemas
\subseteq Infos`, `NoInfo` no settings) and `ThreadsAssumption` (there is a
thread, and `NoThread` is none):

* `Invariance`: `Spec => []IInv`;
* `TypeCorrect`, `OneAttemptAtATime`, `AtMostTwoThreads`, `SettledAlways`,
  `GuardedHandlers`, `FinalVerdicts`, `FormIsCurrent`, `DiskIsCurrent`: the
  safety invariants of `connection_safety`, that a third connect thread never
  exists, and that the settings form shows the attempt under way;
* `LostFlag`: the action property `OnlyRestartMendsFlag`;
* `Implements`: `Spec => Link!SafeSpec`, every step is one of `StationLink` or a
  stutter.

The inductive invariant and why each part is there. `OneAttempt` is not
inductive: that no second thread is spawned needs to know that a pending attempt
shows in `while_conn`, except right after the spawn, when the worker is busy
with raising it, and at boot, when nobody listens (`FlagInv`, `DeadInv`).
`MutexInv` ties `connmutex` to the places inside `connect`; with `OneAttempt` it
gives `TwoThreads`, since a thread that is not pending still holds the mutex
for one step. `Settled` needs to know how far each place has got in restoring
the agreement of session, station id and settings (`PhaseInv`), and that `con`
is not `NULL` while `isconn` (`SessionInv`). `VerdictInv` and `InputInv` carry
what the polling handler saw across its two reads, and `AskedInv` says that what
was typed last, where it counts, is what the form hands to `connect_async` or
what the last attempt was made with; `DiskInv` bridges the step
between storing the row and committing the settings in memory.

Each `...IInv` lemma takes one group of actions (`ConnectIInv`, `HandlerIInv`,
`RequestIInv`, `SurroundingsIInv`), one step per action; `NextIInv` collects
them. The refinement reuses the invariant: `MappingKept` and `PendingKept` say
which steps leave the mapping alone, the `...Link` lemmas map the rest.

`ConfigProofs` proves of `StationConfig`, for any fuels (`FuelsAssumption`: at
least one, from which the tables are set up), tanks, pumps and requests
(`RequestsAssumption`: lists of objects, and a request that starts with the
screen holds only places, as `save_Trks` does):

* `ConfigInvariance`: `Spec => []IInv`;
* `ConfigTypeCorrect`, `NumbersGivenOnce` (`PistolsUnique`) and `YesIsTrue`
  (`YesMeansSaved`).

`PistolsUnique` is not inductive: `InsertPist` must know that no row has the
number it gives, which is `NumbersInv`: past `SELECT MAX` every number of the
pump is at most `max_id_pist + n`, as long as `MAX` was read in this database.
`SaveInv` says during the request what `YesMeansSaved` says at its end, that
`isconn` remembers every failure of a save. `InsertedKeeps` and `RetankedKeeps`
are the facts about rows; `SingleIInv` and `PistolsIInv` hold what the actions
share.

* `StoreInvariance`: `Spec => []StoreInv`;
* `TablesImplemented`: `Spec => ImplementsTables`, every statement is a step of
  `StationTables` or a stutter.

`StationTables` stores an object in one step, `set_Trk` and `delete_Trk` in as
many statements as a pump has pistols. The mapping shows the tables as they were
before the object in hand (`before`) until its last statement, so what has to be
known is how far the tables have come since. `PumpInv` says it of every
statement of `set_Trk`: undisturbed, the rows are exactly `SavedUpTo`, what the
pistols so far make of the rows before; disturbed, they are some of that
(`PartlyUpTo`): every row is still there, under its key, with its tank or one
that the request sends for its number, and there are no more new rows than new
pistols so far. Rows are followed by their keys, number and copy, so `KeysInv`
is needed: the keys of a pump's rows differ, also when a number occurs twice.
`DeleteInv` is the same for the pistols of `delete_Trk`, and `PlaceInv` says
that nothing else takes more than one statement. The lemmas follow the
statements: `SavedInserted` and `SavedRetanked`, `PartlyInserted` and
`PartlyRetanked` for one pistol, `SavedAtEnd` and `PartlyAtEnd` for the object;
an UPDATE of a number that the request has just given away is why such a request
counts as disturbed. `NextStores` collects the actions and gives both theorems.

`SessionProofs` proves of `Sessions`, for any stations, browsers, validity and
time zone (`TimeAssumption`: local times that are alike lie at most `Hour`
apart): `SessionInvariance`, `SessionTypeCorrect`, `SwitchEndsSessions`
(`OwnSessions`), `HandlersStayHome` (`ActsOnItsStation`), `OnlyAdminsLeave`
(`LeftByItsAdmin`), `AgeIsAlmostRight` (`AgeWithinAnHour`) and
`SessionsImplementLink` (`Spec => Link!SafeSpec`). `OwnSessions` looks at the
present only; that a session from before a switch cannot come back to count
needs `TokensInv` (no token is signed with a secret that is still to be made,
and those of the present secret belong to its `owner`) and `OwnerInv` (between
two attempts the last settings are the owner). `RequestInv` and `OrderInv` carry
what the middleware saw to the handler and to the thread it starts; `ThreadInv`
says how far `con` may be ahead of the last settings.

`ShiftProofs` proves of `Shift`, for any databases, operators and length of the
tables: `ShiftInvariance`, `ShiftTypeCorrect`, `OneShiftOpen` (`OneOpenShift`),
`ShiftsNumbered` (`NumbersConsecutive`), `LoginsTakeShifts` (`LoginTakesShift`),
and the action properties `ClosedShiftsStay` (`ClosedForGood`) and `OwnRowsOnly`
(`RowsStayHome`). What a statement does to a table depends on numbers that the
handler looked up earlier: `Found` says that they are those of the latest row of
the table that the statement will meet, as long as `fresh`. The rest is about
tables alone: `UpdatesKeep` for the two UPDATEs and `AppendKeeps` for the
INSERT, whose number is a count of rows.

Of `LoginPage` it proves, for any databases, operators, users and tables that are
`FitForPage` (`TablesAssumption`): `PageInvariance`, `EveryoneListed`
(`EveryoneOnce`) and `OperatorListedFirst` (`OperatorFirst`). That the tables are
fit for it is no assumption about the code but `PageFindsTables`, a theorem of
`Shift`: it holds of every database in `intact` at any time, so the page is
right there, and nothing is claimed of it where a handler has damaged a table.
The page is right for the two stations that were asked, `listed` and `looked`,
which need not be one station: `ListInv` and `LookedInv` say what is known of
each answer on the way to the page. `ExchangeKeeps` is why putting the operator
first, by an exchange over `temp`, neither loses nor repeats anyone.

`JwtProofs` proves of `JwtSecret`, for any number of secrets and statements:
`SecretInvariance`, `SecretTypeCorrect`, `SecretsStored` (`SecretOnDisk`),
`RotationsEndSessions` (`RotationEndsSessions`), `LeaksAreFailedWrites`
(`OnlyFailedWritesLeak`), `AloneIsSafe` (`CallsAlone`) and `StoreImplemented`
(`ImplementsStore`). `AloneInv` says that without overlap at most one thread is
inside and `stmt` is its own, `CleanInv` that besides it only what failed writes
have left is alive, and `BlankInv` that a worker about to sign with `""`, or a
token signed with it, comes from a failed load, so that a retired `""` in use is
the second one; `StoredInv` follows how far the disk is ahead of memory at each
place, and `FreshInv` keeps a secret under way apart from the retired ones, with
`NumbersInv` for the secrets still to come. The refinement goes action by
action: most steps are unseen (`UnseenInStore`); an UPDATE, an INSERT, an
assignment, an early return and a stop each end a rotation, with or without
effect (`EndInStore`), because memory and disk differ at the end of a rotation
only (`PresentStored`) and its secret is new to every session (`RotationIsNew`).

`StatementProofs` proves of `Statements`, for any finite set of addresses and
any number of dials: `StatementInvariance`, `UndisturbedQueries`
(`UndisturbedIsSound`) and `LeaksAreExceptions` (`OnlyExceptionsLeak`).
`MeetingInv` says that two running queries have met, so that a query that met
none has `stmt` to itself (`OwnInv`); the second theorem is a balance of
statements, exceptions and running queries that every step keeps, races
included.

`PumpProofs` proves of `PumpPages`, for any databases and tables of any length:
`PagesInvariance`, `PumpsAreGrouped` (`PumpsGrouped`), `PistolsOwnTank`
(`OwnTank`) and `PagesCrash` (`CrashesExplained`). `LoopInv` says of every turn
of the loop that the pumps so far are the groups of the rows so far and end with
the pump of the last row; one row more (`JoinedGroups`) is right because the
rows come ordered by pump and no row comes twice. `LinksInv` says that a pistol
whose tank is in the list leads to that tank, and a tank to its fuel likewise;
that nothing was carried over is then a matter of the tables (`WholeIsLinked`).
A tank that is not in the list may inherit one, and nothing is claimed of it.
`UnreadInv` says which lists are still empty.

`TextProofs` proves of `FuelPrice`, for any prices from 1.00 to 99.99 and any
colours: `PriceKept` (`KeptAsTyped`) and `PriceShown` (`ShownOneLessAtMost`).
`Exponent` finds the exponent of a price's float, `NearestBound` bounds the
error of a rounding, and `AtExponent` shows, for each of the seven exponents,
that two decimals of the float are the price again and the four digits that the
page cuts off lose a hundredth at most. `RoundTrip` and `ColorKept` collect that
for the invariant: what was typed, what is in the form and what is in the table
agree.

Of `CookieParse` it proves, for headers of any characters and any length
(`HeadersAssumption`) and for plain headers of any number of cookies, names,
values and separators of any length (`TextsAssumption`: none of a name's or a
value's characters means anything to the loops; `SeparatorsAssumption`: a `;` and
any blanks):

* `ParseInvariance` and `CookiesAreObject` (`ObjectOfCookies`), which are about
  plain headers and say nothing of others;
* `SizesOfTexts` (`SizeOfText`), which is about every header;
* `TextsOfHeaders` (`TextOfHeader`), the two together, which the run checks.

Plain headers. The header and the JSON text are concatenations over the cookies,
and two facts about such concatenations need an induction: what one element more
adds (`FlattenAppend`), and that what stands in a part stands in the whole
(`PartOfLast`). The library's induction theorems cannot be used, so `Induction`
is proved here from the well-foundedness of the finite sets of numbers, for sets
instead of predicates. `Start`, `Equals` and `End` are the places of a cookie in
the header, `Layout` says what stands there. `CountAt` and `CopyAt` say, for a
character of a cookie, what the two loops have counted and written when they get
there, and what `mark` and `index_last_record` are; `CountStep` and `CopyStep`
take them to the next character, which may belong to the next cookie. At the end
of the first loop the count is the length of the text that the second one makes
(`AtLast`): that is why the loops agree although one skips the blanks after a
`;` by leaving them out of the count and the other by moving the start of the
next name.

Any header. `SizeInv` says at every turn what the lengths are in numbers of
places already passed: parts ended, `=` met, blanks counted off, and blanks
skipped. `PassOne`, `PassAll`, `PassRange` and `PassNone` count the places passed
from one turn to the next. `mark` means something else in the two loops:
`MarkStep` says what it is in the first, and `NoneSkipped` and `AllSkipped` say
when a blank is left out by the second. `CopyOneSize` is the turn of the second
loop, by length; at the end the difference of the two sums is `SizeOfText`.

Only model-checked: the liveness properties `EverythingReturns` and `Recovers`
and the liveness half of `ImplementsLink`: the proof system has neither fairness
nor ENABLED here. `FinalizedOnce` does not hold. Every safety invariant and every
action property that a passing run checks is a theorem.

## 5. Not modelled, and what is left

* Third-party libraries (`library/`: Crow, jwt-cpp, nlohmann json, MySQL
  connector, SQLite, OpenSSL) are modelled by how the code uses them: one Crow
  worker, statements that throw, SQLite results, tokens that verify with one
  secret. They are all but some 2200 lines of the tree, so a count of lines
  covered over the whole tree says little of this project; of the server's own
  code nearly all that keeps or changes state is modelled.
* HTML, CSS, JavaScript and the static files, log output, CMake and Docker:
  no state, nothing to check.
* Sessions at the MySQL server: `con` is replaced without being closed
  (`Statements!Dial`), so there is no promise to state.
* The end time of a shift, which a second closing moves; the contents of names.
* The meeting of `get_azs_id` with a handler's query is in `Statements` and not
  composed with `Connection`: the product of the two is out of TLC's reach.
