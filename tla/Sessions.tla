------------------------------ MODULE Sessions ------------------------------
(***************************************************************************)
(* Who may do what, and on which station: the tokens that auth_post puts   *)
(* into the browsers' cookies (create_token), the check of a cookie        *)
(* (check_coockie, verify_token), and the requests it lets through, beside *)
(* the thread that connects the server to another station and replaces the *)
(* secret tokens are signed with (Azs_Database::connect).                  *)
(*                                                                         *)
(* The release build; a debug build takes everyone for an administrator.   *)
(* The inside of connect_async is in Connection and that of the rotation   *)
(* in JwtSecret: here an attempt is four steps and the rotation is one,    *)
(* which works or fails.                                                   *)
(***************************************************************************)
EXTENDS Integers

CONSTANTS
  Infos,       \* the connection settings of the stations
  NoInfo,      \* empty settings, an empty table, a NULL con
  Browsers,
  NoToken,     \* an empty cookie
  Limit,       \* how long a token is valid (100 minutes)
  Hour,        \* how far the clocks are put back in autumn (60 minutes)
  Offset,      \* the time zone: local time minus UTC, at each time
  MaxTime,     \* bound: the last time that is looked at
  MaxSecrets   \* bound: secrets that are generated

Time == 0 .. MaxTime

\* put_time of localtime.
timetostr(t) == t + Offset[t]

\* Local times that are alike lie at most an Hour apart.
ASSUME TimeAssumption ==
  /\ Limit \in Nat /\ Hour \in Nat /\ MaxTime \in Nat /\ MaxSecrets \in Nat
  /\ Offset \in [Time -> Int]
  /\ \A t, u \in Time : timetostr(t) = timetostr(u) => t - u <= Hour
ASSUME NamesAssumption == NoInfo \notin Infos

Token == [admin : BOOLEAN, secret : 0 .. MaxSecrets, time_create : Int,
          station : Infos, at : Time]
ASSUME NoTokenAssumption == NoToken \notin Token

\* A page or a list, one that only administrators have, and the three requests that
\* treat the session or the user differently.
Urls == {"main", "settings", "trk_save", "out", "outshift"}

VARIABLES
  now,
  con, isconn, last_connect_info,
  mysql_db,    \* the first row of table mysql_db in azs.db
  known,       \* id_last # -1: a row was there when the server started
  secret,      \* the secret in memory and in azs.db, numbered as generated
  place,       \* of the connect thread: "none", "dial", "rotate", "store"
  attempt,     \* what it connects to
  order,       \* on whose behalf: see Order
  work,        \* the request that the worker is at
  cookie,      \* refresh_token of each browser; its station and time of login
               \* (at) are history
  owner,       \* history: the settings the present secret was made for
  lapses       \* history: why sessions of other stations may have survived

link == <<con, isconn, last_connect_info, mysql_db, known>>
thread == <<place, attempt, order>>
vars == <<now, link, secret, thread, work, cookie, owner, lapses>>

Settings == Infos \cup {NoInfo}

\* down: isconn was false when the request was let through; amid: an attempt was
\* under way then; station: whose administrator asked.
Order == [down : BOOLEAN, amid : BOOLEAN, station : Settings]
Boot  == [down |-> TRUE, amid |-> FALSE, station |-> NoInfo]

Idle == [pc |-> "idle"]
Work ==
  [pc : {"dead", "boot", "idle"}]
    \cup [pc : {"handle"}, browser : Browsers, url : Urls, amid : BOOLEAN]
    \cup [pc : {"sign"}, browser : Browsers, admin : BOOLEAN, station : Infos]
    \cup [pc : {"connect"}, info : Settings, order : Order]

Init ==
  /\ now = 0
  /\ mysql_db \in Settings /\ owner = mysql_db
  /\ con = NoInfo /\ isconn = FALSE /\ last_connect_info = NoInfo /\ known = FALSE
  /\ secret = 0 /\ lapses = {}
  /\ place = "none" /\ attempt = NoInfo /\ order = Boot
  /\ work = [pc |-> "dead"]
  /\ cookie = [b \in Browsers |-> NoToken]

Tick ==
  /\ now < MaxTime /\ now' = now + 1
  /\ UNCHANGED <<link, secret, thread, work, cookie, owner, lapses>>

-----------------------------------------------------------------------------
(* Tokens.                                                                 *)

\* Mutant: mktime without tm_isdst = -1, which takes every time for winter time.
strtotimeWinter(l) == {t \in Time : t + Offset[MaxTime] = l}

\* mktime with tm_isdst = -1: a local time that came twice may be read as either.
strtotime(l) == {t \in Time : timetostr(t) = l}

\* Mutant: the signature is not looked at.
verify_tokenAny(token) == token.secret \in 0 .. MaxSecrets

verify_token(token) == token.secret = secret

\* What check_coockie may return.
check_coockie(token) ==
  IF token = NoToken THEN {-1}
  ELSE {IF verify_token(token) /\ now - t < Limit
        THEN IF token.admin THEN 1 ELSE 0
        ELSE -1 : t \in strtotime(token.time_create)}

create_token(admin, station) ==
  [admin |-> admin, secret |-> secret, time_create |-> timetostr(now),
   station |-> station, at |-> now]

-----------------------------------------------------------------------------
(* The connect thread.                                                     *)

\* connect_async: nothing happens while another attempt is under way.
connect_async(info, o) ==
  \/ place = "none" /\ place' = "dial" /\ attempt' = info /\ order' = o
  \/ place # "none" /\ UNCHANGED thread

\* connect and setSchema: isValid may still say no, and an exception may come
\* after con was replaced.
Dial ==
  /\ place = "dial"
  /\ \/ /\ attempt # NoInfo
        /\ con' = attempt /\ isconn' \in BOOLEAN
        /\ place' = "rotate" /\ UNCHANGED <<attempt, order>>
     \/ /\ con' \in {con} \cup ({attempt} \ {NoInfo})
        /\ isconn' = FALSE
        /\ place' = "none" /\ attempt' = NoInfo /\ order' = Boot
  /\ UNCHANGED <<now, last_connect_info, mysql_db, known, secret, work, cookie, owner,
                 lapses>>

\* Mutant: compared with the settings typed in last, which are these.
RotateNever ==
  /\ place = "rotate" /\ place' = "store"
  /\ UNCHANGED <<now, link, secret, attempt, order, work, cookie, owner, lapses>>

\* generatejwt_secret(true), for other settings than the last ones.
Rotate ==
  /\ place = "rotate" /\ place' = "store"
  /\ \/ /\ attempt = last_connect_info
        /\ UNCHANGED <<secret, owner, lapses>>
     \/ /\ attempt # last_connect_info /\ secret < MaxSecrets
        /\ secret' = secret + 1 /\ owner' = attempt /\ lapses' = {}
     \/ /\ attempt # last_connect_info
        /\ lapses' = lapses \cup {"rotation"}
        /\ UNCHANGED <<secret, owner>>
  /\ UNCHANGED <<now, link, attempt, order, work, cookie>>

\* set_mysql_conn_info, whose result is ignored and whose INSERT does not change
\* the first row; last_connect_info; get_azs_id, which may throw.
Store ==
  /\ place = "store" /\ place' = "none" /\ attempt' = NoInfo /\ order' = Boot
  /\ mysql_db' \in {mysql_db, IF known \/ mysql_db = NoInfo THEN attempt ELSE mysql_db}
  /\ last_connect_info' = attempt
  /\ isconn' \in {isconn, FALSE}
  /\ UNCHANGED <<now, con, known, secret, work, cookie, owner, lapses>>

-----------------------------------------------------------------------------
(* The worker: one request at a time, let through first and served then.   *)

Finish == work' = Idle

\* A cookie that is refused is cleared by the answer.
Refuse(b) == cookie' = [cookie EXCEPT ![b] = NoToken] /\ UNCHANGED work

\* AuthVerefy::before_handle of a connected server.
BeforeHandle(b, url) ==
  /\ work = Idle /\ isconn = TRUE
  /\ \E result \in check_coockie(cookie[b]) :
       \/ /\ result # -1
          /\ work' = [pc |-> "handle", browser |-> b, url |-> url, amid |-> place # "none"]
          /\ UNCHANGED cookie
       \/ result = -1 /\ Refuse(b)
  /\ UNCHANGED <<now, link, secret, thread, owner, lapses>>

\* AuthVerefy and DatabaseVerefy without a connection: connect again as before.
BeforeHandleDown ==
  /\ work = Idle /\ isconn = FALSE
  /\ work' = [pc |-> "connect", info |-> last_connect_info,
              order |-> [down |-> TRUE, amid |-> place # "none", station |-> NoInfo]]
  /\ UNCHANGED <<now, link, secret, thread, cookie, owner, lapses>>

\* The handlers of class Admin and class User.  /api/out runs no statement, and
\* like /api/outshift ends the session; a user who asks for the settings loses his, and one who
\* saves pump positions is sent to the main page.
Handle(b) ==
  /\ work.pc = "handle" /\ work.browser = b
  /\ LET turned == work.url \in {"settings", "trk_save"} /\ ~cookie[b].admin
         ends   == work.url \in {"out", "outshift"} \/ (turned /\ work.url = "settings")
     IN /\ isconn' \in IF turned \/ work.url = "out" THEN {isconn} ELSE {isconn, FALSE}
        /\ cookie' = IF ends THEN [cookie EXCEPT ![b] = NoToken] ELSE cookie
  /\ Finish
  /\ UNCHANGED <<now, con, last_connect_info, mysql_db, known, secret, thread, owner,
                 lapses>>

\* Mutant: the form is open to every session.
SettingsSendAny(b, info) ==
  /\ work = Idle
  /\ work' = [pc |-> "connect", info |-> info,
              order |-> [down |-> TRUE, amid |-> place # "none", station |-> NoInfo]]
  /\ UNCHANGED <<now, link, secret, thread, cookie, owner, lapses>>

\* settingsdb_error_send: an administrator, or anyone while there is no connection.
SettingsSend(b, info) ==
  /\ work = Idle
  /\ \/ isconn = FALSE \/ 1 \in check_coockie(cookie[b])
  /\ work' = [pc |-> "connect", info |-> info,
              order |-> [down |-> ~isconn, amid |-> place # "none",
                         station |-> IF isconn THEN cookie[b].station ELSE NoInfo]]
  /\ UNCHANGED <<now, link, secret, thread, cookie, owner, lapses>>

Connect ==
  /\ work.pc = "connect" /\ connect_async(work.info, work.order)
  /\ Finish
  /\ UNCHANGED <<now, link, secret, cookie, owner, lapses>>

\* Mutant: a query on a NULL con is answered.
AuthCheckNull(b) ==
  /\ work = Idle
  /\ work' = [pc |-> "sign", browser |-> b, admin |-> FALSE, station |-> con]
  /\ UNCHANGED <<now, link, secret, thread, cookie, owner, lapses>>

\* auth_post: auth_check, on the database that con points to.
AuthCheck(b) ==
  /\ work = Idle /\ con # NoInfo
  /\ \/ /\ \E admin \in BOOLEAN :
             work' = [pc |-> "sign", browser |-> b, admin |-> admin, station |-> con]
        /\ UNCHANGED isconn
     \/ isconn' = FALSE /\ UNCHANGED work
  /\ UNCHANGED <<now, con, last_connect_info, mysql_db, known, secret, thread, cookie,
                 owner, lapses>>

\* The statements about the shift (module Shift) have run, or failed; then
\* create_token, with the secret of that moment.
Sign(b) ==
  /\ work.pc = "sign" /\ work.browser = b
  /\ cookie' = [cookie EXCEPT ![b] = create_token(work.admin, work.station)]
  /\ lapses' = lapses \cup IF work.station = owner THEN {} ELSE {"login"}
  /\ isconn' \in {isconn, FALSE}
  /\ Finish
  /\ UNCHANGED <<now, con, last_connect_info, mysql_db, known, secret, thread, owner>>

-----------------------------------------------------------------------------
(* The process.                                                            *)

\* azs.db and the browsers' cookies stay.
Stop ==
  /\ work.pc # "dead" /\ work' = [pc |-> "dead"]
  /\ place' = "none" /\ attempt' = NoInfo /\ order' = Boot
  /\ con' = NoInfo /\ isconn' = FALSE /\ last_connect_info' = NoInfo /\ known' = FALSE
  /\ UNCHANGED <<now, mysql_db, secret, cookie, owner, lapses>>

\* class azs: the stored settings are the last ones, and connect runs in place.
Start ==
  /\ work.pc = "dead" /\ work' = [pc |-> "boot"]
  /\ last_connect_info' = mysql_db /\ known' = (mysql_db # NoInfo)
  /\ place' = "dial" /\ attempt' = mysql_db /\ order' = Boot
  /\ lapses' = lapses \cup IF mysql_db = owner THEN {} ELSE {"restart"}
  /\ UNCHANGED <<now, con, isconn, mysql_db, secret, cookie, owner>>

Serve ==
  /\ work.pc = "boot" /\ place = "none" /\ Finish
  /\ UNCHANGED <<now, link, secret, thread, cookie, owner, lapses>>

Next ==
  \/ Tick \/ Dial \/ Rotate \/ Store
  \/ \E b \in Browsers :
       \/ \E url \in Urls : BeforeHandle(b, url)
       \/ \E info \in Infos : SettingsSend(b, info)
       \/ Handle(b) \/ AuthCheck(b) \/ Sign(b)
  \/ BeforeHandleDown \/ Connect \/ Stop \/ Start \/ Serve

Spec == Init /\ [][Next]_vars

-----------------------------------------------------------------------------
(* Properties.                                                             *)

\* Every variable has its type.
TypeOK ==
  /\ now \in Time /\ secret \in 0 .. MaxSecrets
  /\ {con, last_connect_info, mysql_db, attempt, owner} \subseteq Settings
  /\ isconn \in BOOLEAN /\ known \in BOOLEAN
  /\ place \in {"none", "dial", "rotate", "store"} /\ order \in Order
  /\ work \in Work
  /\ cookie \in [Browsers -> Token \cup {NoToken}]
  /\ lapses \subseteq {"rotation", "login", "restart"}

\* con belongs to another station already, and the old secret still counts.
Switching == place = "rotate" /\ attempt # last_connect_info

Signed(token) == token # NoToken /\ verify_token(token)

\* Once a switch has replaced the secret, no session of another station is left:
\* every token that counts was given to someone who logged in at the station
\* the server works with.  There are three ways to lose this, until the next
\* switch: the rotation failed ("rotation"), a login was checked at one station
\* and signed at the other ("login"), or the server was started with settings
\* that are not those of the secret ("restart": stopped between rotation and
\* saving, the saving failed, or the row of the first run was kept).
OwnSessions ==
  isconn /\ ~Switching /\ lapses = {} =>
    \A b \in Browsers : Signed(cookie[b]) => cookie[b].station = con

\* A handler works on the station whose session let it in, although it looks
\* at con long after: only an attempt that was under way when the request came
\* in can have moved it.
ActsOnItsStation ==
  work.pc = "handle" =>
    work.amid \/ lapses # {} \/ cookie[work.browser].station = con

\* A station that works is left for another only by the order of one of its own
\* administrators, or by a request that was let through while an earlier attempt
\* was under way: the form, open to all when there is no connection, or a page
\* that retries the settings of before.
LeftByItsAdmin ==
  place = "dial" /\ isconn /\ attempt # last_connect_info =>
    order.amid \/ lapses # {} \/ (~order.down /\ order.station = con)

\* A session's age is exact, except after a login in the hour that comes twice
\* in autumn, and then it is wrong by no more than that hour: a session lasts
\* at least Limit - Hour and less than Limit + Hour.
AgeWithinAnHour ==
  \A b \in Browsers : Signed(cookie[b]) =>
    LET token == cookie[b]
        age   == now - token.at
    IN /\ check_coockie(token) # {-1} => age < Limit + Hour
       /\ -1 \in check_coockie(token) => age >= Limit - Hour
       /\ (\A t \in Time : timetostr(t) = timetostr(token.at) => t = token.at) =>
            (check_coockie(token) = {-1} <=> age >= Limit)

\* The inductive invariant.
TokensInv ==
  \A b \in Browsers : cookie[b] # NoToken =>
    /\ cookie[b].at <= now /\ cookie[b].time_create = timetostr(cookie[b].at)
    /\ cookie[b].secret <= secret
    /\ lapses = {} /\ cookie[b].secret = secret => cookie[b].station = owner

ThreadInv ==
  /\ place \in {"none", "dial"} /\ isconn => con = last_connect_info
  /\ place \in {"rotate", "store"} => con = attempt /\ attempt # NoInfo
  /\ place = "none" => attempt = NoInfo
  /\ work.pc = "dead" => place = "none" /\ ~isconn

\* The last settings, once they are stored, are those of the secret.
OwnerInv ==
  lapses = {} =>
    /\ place = "store" => owner = attempt
    /\ place # "store" /\ work.pc # "dead" => owner = last_connect_info

\* What a request that came in with no attempt under way may rely on.
RequestInv ==
  /\ work.pc = "handle" =>
       /\ cookie[work.browser] # NoToken
       /\ work.amid \/ place = "none"
       /\ work.amid \/ lapses # {} \/ cookie[work.browser].station = con
  /\ work.pc = "connect" /\ ~work.order.amid => place = "none"

Holds(o) == o.amid \/ (o.down /\ ~isconn) \/ (~o.down /\ (lapses # {} \/ o.station = con))

OrderInv ==
  /\ work.pc = "connect" => Holds(work.order)
  /\ place = "dial" => Holds(order)

IInv == TypeOK /\ TokensInv /\ ThreadInv /\ OwnerInv /\ RequestInv /\ OrderInv

\* Seen from outside, attempts and stations behave as StationLink says.
LinkPending == IF place = "none" THEN {} ELSE {attempt}
LinkStation == IF isconn /\ place \notin {"rotate", "store"} THEN {con} ELSE {}
Link ==
  INSTANCE StationLink WITH
    Settings <- Settings, Stations <- Infos,
    pending <- LinkPending, station <- LinkStation, jammed <- FALSE
ImplementsLink == Link!SafeSpec

=============================================================================
