---------------------------- MODULE SessionProofs ---------------------------
(***************************************************************************)
(* Proofs about Sessions for any stations, browsers, time zone and limit:  *)
(* sessions end with the switch to another station, what a handler or an   *)
(* order to switch may rely on, and how wrong a session's age can be.      *)
(***************************************************************************)
EXTENDS Sessions, TLAPS

USE TimeAssumption, NamesAssumption, NoTokenAssumption

-----------------------------------------------------------------------------
(* The helpers.                                                            *)

\* What the worker is at decides what there is to know of it.
LEMMA WorkFields ==
  ASSUME work \in Work
  PROVE  /\ work.pc \in {"dead", "boot", "idle", "handle", "sign", "connect"}
         /\ work = Idle => work.pc = "idle"
         /\ work.pc = "handle" => work.browser \in Browsers /\ work.amid \in BOOLEAN
         /\ work.pc = "sign" => /\ work.browser \in Browsers
                               /\ work.admin \in BOOLEAN /\ work.station \in Infos
         /\ work.pc = "connect" => work.info \in Settings /\ work.order \in Order
<1>1. CASE work \in [pc : {"dead", "boot", "idle"}]  BY <1>1 DEF Idle
<1>2. CASE work \in [pc : {"handle"}, browser : Browsers, url : Urls, amid : BOOLEAN]
  BY <1>2 DEF Idle
<1>3. CASE work \in [pc : {"sign"}, browser : Browsers, admin : BOOLEAN, station : Infos]
  BY <1>3 DEF Idle
<1>4. CASE work \in [pc : {"connect"}, info : Settings, order : Order]  BY <1>4 DEF Idle
<1> QED  BY <1>1, <1>2, <1>3, <1>4 DEF Work

\* An idle worker is a worker, and no request depends on it.
LEMMA IdleWork == Idle \in Work /\ Idle.pc = "idle"
  BY DEF Idle, Work

\* A request that is about to call connect_async.
LEMMA ConnectWork ==
  ASSUME NEW i \in Settings, NEW o \in Order
  PROVE  LET w == [pc |-> "connect", info |-> i, order |-> o] IN
         w \in Work /\ w.pc = "connect" /\ w.info = i /\ w.order = o
  BY DEF Work

\* Who starts an attempt is an order.
LEMMA BootOrder == Boot \in Order
  BY DEF Boot, Order, Settings

\* What a failed statement may do to isconn.
LEMMA NotRaised ==
  ASSUME NEW x \in BOOLEAN, NEW y \in {x, FALSE}
  PROVE  y \in BOOLEAN /\ (y => x)
<1>1. CASE y = x  BY <1>1
<1>2. CASE y = FALSE  BY <1>2
<1> QED  BY <1>1, <1>2

\* Whatever a check answers other than -1, the token is there and is signed with
\* the present secret.
LEMMA CheckedIsSigned ==
  ASSUME NEW token, NEW result \in check_coockie(token), result # -1
  PROVE  Signed(token)
  BY DEF check_coockie, Signed

-----------------------------------------------------------------------------
(* IInv is inductive.                                                      *)

\* A server that is not running, and browsers without cookies.
LEMMA InitIInv == Init => IInv
<1> SUFFICES ASSUME Init PROVE IInv
  OBVIOUS
<1>1. TypeOK
  <2>1. {con, last_connect_info, mysql_db, attempt, owner} \subseteq Settings
    BY DEF Init, Settings
  <2>2. work \in Work  BY DEF Init, Work
  <2>3. now \in Time /\ secret \in 0 .. MaxSecrets  BY DEF Init, Time
  <2>4. cookie \in [Browsers -> Token \cup {NoToken}]  BY DEF Init
  <2> QED  BY <2>1, <2>2, <2>3, <2>4, BootOrder DEF Init, TypeOK
<1>2. TokensInv /\ ThreadInv /\ OwnerInv
  BY DEF Init, TokensInv, ThreadInv, OwnerInv
<1>3. RequestInv /\ OrderInv  BY DEF Init, RequestInv, OrderInv
<1> QED  BY <1>1, <1>2, <1>3 DEF IInv

\* The connect thread.
LEMMA ThreadIInv ==
  ASSUME IInv, Dial \/ Rotate \/ Store
  PROVE  IInv'
<1> USE DEF IInv
<1>0. TypeOK /\ work \in Work  BY DEF TypeOK
<1>1. CASE Dial
  <2>1. TypeOK'  BY <1>1, BootOrder DEF Dial, TypeOK, Settings
  <2>2. TokensInv'  BY <1>1 DEF Dial, TokensInv, verify_token
  <2>3. ThreadInv' /\ OwnerInv'  BY <1>1 DEF Dial, ThreadInv, OwnerInv
  <2>4. RequestInv' /\ OrderInv'
    BY <1>1, <1>0, WorkFields DEF Dial, RequestInv, OrderInv, Holds, TypeOK, Order
  <2> QED  BY <2>1, <2>2, <2>3, <2>4
<1>2. CASE Rotate
  <2>1. TypeOK'
    <3>1. secret' \in 0 .. MaxSecrets  BY <1>2 DEF Rotate, TypeOK
    <3>2. owner' \in Settings /\ lapses' \subseteq {"rotation", "login", "restart"}
      BY <1>2 DEF Rotate, TypeOK
    <3> QED  BY <1>2, <3>1, <3>2 DEF Rotate, link, TypeOK
  <2>2. TokensInv'
    BY <1>2 DEF Rotate, link, TokensInv, OwnerInv, TypeOK, Token
  <2>3. ThreadInv' /\ OwnerInv'
    BY <1>2 DEF Rotate, link, ThreadInv, OwnerInv
  <2>4. RequestInv' /\ OrderInv'
    BY <1>2, <1>0, WorkFields DEF Rotate, link, RequestInv, OrderInv, Holds, TypeOK, Order
  <2> QED  BY <2>1, <2>2, <2>3, <2>4
<1>3. CASE Store
  <2>1. TypeOK'  BY <1>3, BootOrder DEF Store, TypeOK, Settings
  <2>2. TokensInv'  BY <1>3 DEF Store, TokensInv
  <2>3. ThreadInv' /\ OwnerInv'  BY <1>3 DEF Store, ThreadInv, OwnerInv
  <2>4. RequestInv' /\ OrderInv'
    BY <1>3, <1>0, WorkFields DEF Store, RequestInv, OrderInv, Holds, TypeOK, Order
  <2> QED  BY <2>1, <2>2, <2>3, <2>4
<1> QED  BY <1>1, <1>2, <1>3

\* A request behind AuthVerefy, let through or turned away.
LEMMA BeforeHandleIInv ==
  ASSUME IInv, NEW b \in Browsers, NEW url \in Urls, BeforeHandle(b, url)
  PROVE  IInv'
<1> USE DEF IInv
<1>1. PICK result \in check_coockie(cookie[b]) :
        \/ /\ result # -1
           /\ work' = [pc |-> "handle", browser |-> b, url |-> url, amid |-> place # "none"]
           /\ UNCHANGED cookie
        \/ result = -1 /\ Refuse(b)
  BY DEF BeforeHandle
<1>2. work = Idle /\ isconn = TRUE
      /\ UNCHANGED <<now, link, secret, thread, owner, lapses>>
  BY DEF BeforeHandle
<1> USE <1>2 DEF link, thread
<1>3. CASE result # -1
  <2>1. work' = [pc |-> "handle", browser |-> b, url |-> url, amid |-> place # "none"]
        /\ UNCHANGED cookie
    BY <1>1, <1>3
  <2>2. work' \in Work /\ work'.pc = "handle" /\ work'.browser = b
        /\ work'.amid = (place # "none")
    BY <2>1 DEF Work
  <2>3. Signed(cookie[b])  BY <1>1, <1>3, CheckedIsSigned
  <2>4. TypeOK' /\ TokensInv'  BY <2>1, <2>2 DEF TypeOK, TokensInv
  <2>5. ThreadInv' /\ OwnerInv'
    BY <2>2, IdleWork DEF ThreadInv, OwnerInv
  <2>6. RequestInv'
    BY <2>1, <2>2, <2>3, IdleWork DEF RequestInv, Signed, verify_token, TokensInv, OwnerInv,
       ThreadInv
  <2>7. OrderInv'  BY <2>2 DEF OrderInv, Holds
  <2> QED  BY <2>4, <2>5, <2>6, <2>7
<1>4. CASE result = -1
  <2>1. cookie' = [cookie EXCEPT ![b] = NoToken] /\ UNCHANGED work
    BY <1>1, <1>4 DEF Refuse
  <2>2. TypeOK' /\ TokensInv'  BY <2>1 DEF TypeOK, TokensInv
  <2>3. ThreadInv' /\ OwnerInv'  BY <2>1 DEF ThreadInv, OwnerInv
  <2>4. RequestInv' /\ OrderInv'
    BY <2>1, IdleWork DEF RequestInv, OrderInv, Holds
  <2> QED  BY <2>2, <2>3, <2>4
<1> QED  BY <1>3, <1>4

\* New settings from the form.
LEMMA SettingsSendIInv ==
  ASSUME IInv, NEW b \in Browsers, NEW info \in Infos, SettingsSend(b, info)
  PROVE  IInv'
<1> USE DEF IInv
<1> USE DEF SettingsSend, link, thread
<1> DEFINE o == [down |-> ~isconn, amid |-> place # "none",
                 station |-> IF isconn THEN cookie[b].station ELSE NoInfo]
<1>1. isconn => Signed(cookie[b])
  <2> SUFFICES ASSUME isconn PROVE Signed(cookie[b])
    OBVIOUS
  <2>1. isconn = TRUE  BY DEF TypeOK
  <2>2. 1 \in check_coockie(cookie[b])  BY <2>1
  <2> QED  BY <2>2, CheckedIsSigned
<1>2. o \in Order /\ o.amid = (place # "none") /\ o.down = ~isconn
      /\ (isconn => o.station = cookie[b].station)
  BY <1>1 DEF Order, Settings, TypeOK, Signed, Token
<1>3. work' = [pc |-> "connect", info |-> info, order |-> o]
  OBVIOUS
<1> HIDE DEF o
<1>4. work' \in Work /\ work'.pc = "connect" /\ work'.order = o
  BY <1>2, <1>3, ConnectWork DEF Settings
<1>5. TypeOK' /\ TokensInv'  BY <1>4 DEF TypeOK, TokensInv
<1>6. ThreadInv' /\ OwnerInv'  BY <1>4, IdleWork DEF ThreadInv, OwnerInv
<1>7. RequestInv'  BY <1>2, <1>4 DEF RequestInv
<1>8. OrderInv'
  BY <1>1, <1>2, <1>4, IdleWork DEF OrderInv, Holds, Signed, verify_token, TokensInv,
     OwnerInv, ThreadInv, TypeOK
<1> QED  BY <1>5, <1>6, <1>7, <1>8

\* A page without a connection, and a login.
LEMMA RequestIInv ==
  ASSUME IInv, BeforeHandleDown \/ \E b \in Browsers : AuthCheck(b)
  PROVE  IInv'
<1> USE DEF IInv
<1>1. CASE BeforeHandleDown
  <2> USE <1>1 DEF BeforeHandleDown, link, thread
  <2> DEFINE o == [down |-> TRUE, amid |-> place # "none", station |-> NoInfo]
  <2>1. o \in Order /\ o.down /\ o.amid = (place # "none")  BY DEF Order, Settings
  <2>2. work' = [pc |-> "connect", info |-> last_connect_info, order |-> o]
    OBVIOUS
  <2> HIDE DEF o
  <2>3. last_connect_info \in Settings  BY DEF TypeOK
  <2>7. work' \in Work /\ work'.pc = "connect" /\ work'.order = o
    BY ONLY <2>1, <2>2, <2>3, ConnectWork
  <2>4. TypeOK' /\ TokensInv'  BY <2>7 DEF TypeOK, TokensInv
  <2>5. ThreadInv' /\ OwnerInv'  BY <2>7, IdleWork DEF ThreadInv, OwnerInv
  <2>6. RequestInv' /\ OrderInv'
    BY <2>1, <2>7 DEF RequestInv, OrderInv, Holds
  <2> QED  BY <2>4, <2>5, <2>6
<1>2. ASSUME NEW b \in Browsers, AuthCheck(b) PROVE IInv'
  <2> USE <1>2 DEF AuthCheck, thread
  <2>1. work' = work \/ (work' \in Work /\ work'.pc = "sign")
    BY DEF Work, TypeOK, Settings
  <2>2. isconn' \in {isconn, FALSE}
    OBVIOUS
  <2>3. TypeOK' /\ TokensInv'  BY <2>1, <2>2 DEF TypeOK, TokensInv
  <2>4. ThreadInv' /\ OwnerInv'
    BY <2>1, <2>2, IdleWork DEF ThreadInv, OwnerInv
  <2>5. RequestInv' /\ OrderInv'
    BY <2>1, <2>2, IdleWork DEF RequestInv, OrderInv, Holds
  <2> QED  BY <2>3, <2>4, <2>5
<1> QED  BY <1>1, <1>2

\* Handlers that do what they were let through for.
LEMMA ServiceIInv ==
  ASSUME IInv, Connect \/ \E b \in Browsers : Handle(b) \/ Sign(b)
  PROVE  IInv'
<1> USE DEF IInv
<1>0. TypeOK /\ work \in Work /\ isconn \in BOOLEAN  BY DEF TypeOK
<1>1. ASSUME NEW b \in Browsers, Handle(b) PROVE IInv'
  <2>1. /\ work.pc = "handle" /\ work' = Idle
        /\ cookie' \in {cookie, [cookie EXCEPT ![b] = NoToken]}
        /\ UNCHANGED <<now, con, last_connect_info, mysql_db, known, secret, place,
                       attempt, order, owner, lapses>>
    BY <1>1 DEF Handle, Finish, thread
  <2>2. isconn' \in {isconn, FALSE}  BY <1>1 DEF Handle
  <2>3. isconn' \in BOOLEAN /\ (isconn' => isconn)  BY <1>0, <2>2, NotRaised
  <2>4. TypeOK' /\ TokensInv'  BY <2>1, <2>3, IdleWork DEF TypeOK, TokensInv
  <2>5. ThreadInv' /\ OwnerInv'  BY <2>1, <2>3, IdleWork DEF ThreadInv, OwnerInv
  <2>6. RequestInv' /\ OrderInv'
    BY <2>1, <2>3, IdleWork DEF RequestInv, OrderInv, Holds
  <2> QED  BY <2>4, <2>5, <2>6
<1>2. CASE Connect
  <2>1. /\ work.pc = "connect" /\ work.info \in Settings /\ work.order \in Order
        /\ work' = Idle /\ UNCHANGED <<now, link, secret, cookie, owner, lapses>>
    BY <1>0, <1>2, WorkFields DEF Connect, Finish
  <2>2. \/ /\ place = "none" /\ place' = "dial"
           /\ attempt' = work.info /\ order' = work.order
        \/ place # "none" /\ UNCHANGED <<place, attempt, order>>
    BY <1>2 DEF Connect, connect_async, thread
  <2> USE DEF link
  <2>3. TypeOK'  BY <2>1, <2>2, IdleWork DEF TypeOK
  <2>4. TokensInv'  BY <2>1 DEF TokensInv
  <2>5. ThreadInv' /\ OwnerInv'  BY <2>1, <2>2, IdleWork DEF ThreadInv, OwnerInv
  <2>6. RequestInv' /\ OrderInv'
    BY <2>1, <2>2, IdleWork DEF RequestInv, OrderInv, Holds
  <2> QED  BY <2>3, <2>4, <2>5, <2>6
<1>3. ASSUME NEW b \in Browsers, Sign(b) PROVE IInv'
  <2> DEFINE token == create_token(work.admin, work.station)
  <2>1. /\ work.pc = "sign" /\ work.admin \in BOOLEAN /\ work.station \in Infos
        /\ work' = Idle /\ cookie' = [cookie EXCEPT ![b] = token]
        /\ UNCHANGED <<now, con, last_connect_info, mysql_db, known, secret, place,
                       attempt, order, owner>>
    BY <1>0, <1>3, WorkFields DEF Sign, Finish, thread
  <2>2. /\ lapses' \subseteq {"rotation", "login", "restart"}
        /\ lapses' = {} => lapses = {} /\ work.station = owner
    BY <1>3 DEF Sign, TypeOK
  <2>3. /\ token.at = now /\ token.time_create = timetostr(now)
        /\ token.secret = secret /\ token.station = work.station
    BY DEF create_token
  <2>4. isconn' \in BOOLEAN /\ (isconn' => isconn)  
    <3>1. isconn' \in {isconn, FALSE}  BY <1>3 DEF Sign
    <3> QED  BY <1>0, <3>1, NotRaised
  <2>5. token \in Token
    <3>1. timetostr(now) \in Int  BY DEF timetostr, TypeOK, Time
    <3> QED  BY <2>1, <3>1 DEF create_token, Token, TypeOK
  <2> HIDE DEF token
  <2>6. TypeOK'  BY <2>1, <2>2, <2>4, <2>5, IdleWork DEF TypeOK
  <2>7. TokensInv'  BY <2>1, <2>2, <2>4, <2>3 DEF TokensInv, TypeOK, Time
  <2>8. ThreadInv' /\ OwnerInv'
    BY <2>1, <2>2, <2>4, IdleWork DEF ThreadInv, OwnerInv
  <2>9. RequestInv' /\ OrderInv'
    BY <2>1, <2>2, <2>4, IdleWork DEF RequestInv, OrderInv, Holds
  <2> QED  BY <2>6, <2>7, <2>8, <2>9
<1> QED  BY <1>1, <1>2, <1>3

\* The clock, the process, and steps that change nothing here.
LEMMA ProcessIInv ==
  ASSUME IInv, Tick \/ Stop \/ Start \/ Serve \/ UNCHANGED vars
  PROVE  IInv'
<1> USE DEF IInv
<1>1. CASE Tick
  <2> USE <1>1 DEF Tick, link, thread
  <2>1. TypeOK'  BY DEF TypeOK, Time
  <2>2. TokensInv'  BY DEF TokensInv, TypeOK, Time, Token
  <2>3. ThreadInv' /\ OwnerInv' /\ RequestInv' /\ OrderInv'
    BY DEF ThreadInv, OwnerInv, RequestInv, OrderInv, Holds
  <2> QED  BY <2>1, <2>2, <2>3
<1>2. CASE Stop
  <2> USE <1>2 DEF Stop
  <2>1. work' \in Work /\ work'.pc = "dead"  BY DEF Work
  <2>2. TypeOK'  BY <2>1, BootOrder DEF TypeOK, Settings
  <2>3. TokensInv'  BY DEF TokensInv
  <2>4. ThreadInv' /\ OwnerInv'  BY <2>1 DEF ThreadInv, OwnerInv
  <2>5. RequestInv' /\ OrderInv'  BY <2>1 DEF RequestInv, OrderInv
  <2> QED  BY <2>2, <2>3, <2>4, <2>5
<1>3. CASE Start
  <2> USE <1>3 DEF Start
  <2>1. work' \in Work /\ work'.pc = "boot"  BY DEF Work
  <2>2. TypeOK'  BY <2>1, BootOrder DEF TypeOK, Settings
  <2>3. TokensInv'  BY DEF TokensInv
  <2>4. ThreadInv' /\ OwnerInv'  BY <2>1 DEF ThreadInv, OwnerInv
  <2>5. RequestInv' /\ OrderInv'
    BY <2>1 DEF RequestInv, OrderInv, ThreadInv, Holds, Boot
  <2> QED  BY <2>2, <2>3, <2>4, <2>5
<1>4. CASE Serve
  <2> USE <1>4 DEF Serve, Finish, link, thread
  <2>1. TypeOK' /\ TokensInv'  BY IdleWork DEF TypeOK, TokensInv
  <2>2. ThreadInv' /\ OwnerInv'  BY IdleWork DEF ThreadInv, OwnerInv
  <2>3. RequestInv' /\ OrderInv'  BY IdleWork DEF RequestInv, OrderInv
  <2> QED  BY <2>1, <2>2, <2>3
<1>5. CASE UNCHANGED vars
  <2> USE <1>5 DEF vars, link, thread
  <2>1. TypeOK' /\ TokensInv'  BY DEF TypeOK, TokensInv
  <2>2. ThreadInv' /\ OwnerInv'  BY DEF ThreadInv, OwnerInv
  <2>3. RequestInv' /\ OrderInv'  BY DEF RequestInv, OrderInv, Holds
  <2> QED  BY <2>1, <2>2, <2>3
<1> QED  BY <1>1, <1>2, <1>3, <1>4, <1>5

\* Every step, stuttering included.
LEMMA NextIInv == IInv /\ [Next]_vars => IInv'
<1> SUFFICES ASSUME IInv, [Next]_vars PROVE IInv'
  OBVIOUS
<1>1. ASSUME NEW b \in Browsers, NEW url \in Urls, BeforeHandle(b, url) PROVE IInv'
  BY <1>1, BeforeHandleIInv
<1>2. ASSUME NEW b \in Browsers, NEW info \in Infos, SettingsSend(b, info) PROVE IInv'
  BY <1>2, SettingsSendIInv
<1>3. ASSUME NEW b \in Browsers, AuthCheck(b) PROVE IInv'
  BY <1>3, RequestIInv
<1>4. ASSUME NEW b \in Browsers, Handle(b) \/ Sign(b) PROVE IInv'
  BY <1>4, ServiceIInv
<1>5. ASSUME BeforeHandleDown PROVE IInv'  BY <1>5, RequestIInv
<1>6. ASSUME Connect PROVE IInv'  BY <1>6, ServiceIInv
<1>7. CASE Dial \/ Rotate \/ Store  BY <1>7, ThreadIInv
<1>8. CASE Tick \/ Stop \/ Start \/ Serve \/ UNCHANGED vars  BY <1>8, ProcessIInv
<1> QED  BY <1>1, <1>2, <1>3, <1>4, <1>5, <1>6, <1>7, <1>8 DEF Next

\* IInv holds in every reachable state, for any stations, browsers, clocks,
\* failures, stops and restarts.
THEOREM SessionInvariance == Spec => []IInv
  BY InitIInv, NextIInv, PTL DEF Spec

-----------------------------------------------------------------------------
(* What follows from it.                                                   *)

\* Every variable of the sessions keeps its type.
THEOREM SessionTypeCorrect == Spec => []TypeOK
<1>1. IInv => TypeOK  BY DEF IInv
<1> QED  BY <1>1, SessionInvariance, PTL

\* A switch to another station ends every session of the one before, for any
\* number of stations and browsers, unless the secret was not replaced, a login
\* was signed too late, or a restart went back to other settings.
THEOREM SwitchEndsSessions == Spec => []OwnSessions
<1>1. IInv => OwnSessions
  <2> SUFFICES ASSUME IInv, isconn, ~Switching, lapses = {} PROVE
                 \A b \in Browsers : Signed(cookie[b]) => cookie[b].station = con
    BY DEF OwnSessions
  <2>1. con = owner
    BY DEF IInv, ThreadInv, OwnerInv, Switching, TypeOK
  <2> QED  BY <2>1 DEF IInv, TokensInv, Signed, verify_token
<1> QED  BY <1>1, SessionInvariance, PTL

\* A handler works on the station whose session let it in, unless an attempt was
\* under way when its request came in.
THEOREM HandlersStayHome == Spec => []ActsOnItsStation
<1>1. IInv => ActsOnItsStation  BY DEF IInv, RequestInv, ActsOnItsStation
<1> QED  BY <1>1, SessionInvariance, PTL

\* A working station is left only by the order of one of its administrators, or
\* by a request that was let through while an earlier attempt was under way.
THEOREM OnlyAdminsLeave == Spec => []LeftByItsAdmin
<1>1. IInv => LeftByItsAdmin
  BY DEF IInv, OrderInv, Holds, LeftByItsAdmin
<1> QED  BY <1>1, SessionInvariance, PTL

\* Whatever the time zone does, a session's age is wrong by at most the Hour that
\* comes twice, and right for a login at a local time that comes once.
THEOREM AgeIsAlmostRight == Spec => []AgeWithinAnHour
<1>1. IInv => AgeWithinAnHour
  <2> SUFFICES ASSUME IInv, NEW b \in Browsers, Signed(cookie[b]) PROVE
                 LET token == cookie[b]
                     age   == now - token.at
                 IN /\ check_coockie(token) # {-1} => age < Limit + Hour
                    /\ -1 \in check_coockie(token) => age >= Limit - Hour
                    /\ (\A t \in Time : timetostr(t) = timetostr(token.at) => t = token.at) =>
                         (check_coockie(token) = {-1} <=> age >= Limit)
    BY DEF AgeWithinAnHour
  <2> DEFINE token == cookie[b]
             answer(t) == IF now - t < Limit THEN IF token.admin THEN 1 ELSE 0 ELSE -1
             readings == strtotime(token.time_create)
  <2>1. token \in Token /\ now \in Time
    BY DEF IInv, TypeOK, Signed
  <2>2. token.at \in Time /\ token.time_create = timetostr(token.at)
    BY <2>1 DEF IInv, TokensInv, Signed, Token
  <2>3. token.at \in readings  BY <2>2 DEF strtotime
  <2>4. \A t \in readings : /\ t \in Time /\ t - token.at <= Hour
                            /\ token.at - t <= Hour /\ timetostr(t) = timetostr(token.at)
    BY <2>2 DEF strtotime
  <2>5. check_coockie(token) = {answer(t) : t \in readings}
    BY DEF check_coockie, Signed
  <2>6. \A t \in readings : answer(t) = -1 <=> now - t >= Limit
    BY <2>1, <2>4 DEF Time
  <2> HIDE DEF answer, readings, token
  <2>7. check_coockie(token) # {-1} => \E t \in readings : now - t < Limit
    BY <2>1, <2>3, <2>4, <2>5, <2>6 DEF Time
  <2>8. -1 \in check_coockie(token) => \E t \in readings : now - t >= Limit
    BY <2>5, <2>6
  <2>9. check_coockie(token) # {-1} => now - token.at < Limit + Hour
    BY <2>1, <2>2, <2>4, <2>7 DEF Time
  <2>10. -1 \in check_coockie(token) => now - token.at >= Limit - Hour
    BY <2>1, <2>2, <2>4, <2>8 DEF Time
  <2>11. ASSUME \A t \in Time : timetostr(t) = timetostr(token.at) => t = token.at
         PROVE  check_coockie(token) = {-1} <=> now - token.at >= Limit
    <3>1. readings = {token.at}  BY <2>3, <2>4, <2>11
    <3>2. check_coockie(token) = {answer(token.at)}  BY <2>5, <3>1
    <3> QED  BY <2>3, <2>6, <3>2
  <2> QED  BY <2>9, <2>10, <2>11 DEF token
<1> QED  BY <1>1, SessionInvariance, PTL

-----------------------------------------------------------------------------
(* The refinement.                                                         *)

\* Steps that move neither the thread nor what it connects to.
LEMMA LinkKept ==
  ASSUME UNCHANGED <<place, attempt, con, isconn>>
  PROVE  UNCHANGED Link!vars
  BY DEF Link!vars, LinkPending, LinkStation

\* A statement that fails leaves the station.
LEMMA LinkLeft ==
  ASSUME IInv, UNCHANGED <<place, attempt, con>>, isconn' \in {isconn, FALSE}
  PROVE  [Link!Next]_(Link!vars)
<1>1. CASE isconn' = isconn  BY <1>1, LinkKept
<1>2. CASE isconn' = FALSE
  <2>1. LinkStation' = {} /\ LinkPending' = LinkPending
    BY <1>2 DEF LinkStation, LinkPending
  <2> QED  BY <2>1 DEF Link!Next, Link!Leave, Link!vars
<1> QED  BY <1>1, <1>2

\* Every step of the connect thread.
LEMMA ThreadLink ==
  ASSUME IInv, Dial \/ Rotate \/ Store
  PROVE  [Link!Next]_(Link!vars)
<1>0. /\ attempt \in Settings /\ isconn \in BOOLEAN
  BY DEF IInv, TypeOK
<1>1. CASE Dial
  <2>1. CASE place' = "rotate"
    <3>1. LinkPending' = LinkPending /\ LinkStation' = {}
      BY <1>1, <2>1 DEF Dial, LinkPending, LinkStation
    <3> QED  BY <3>1 DEF Link!Next, Link!Leave, Link!vars
  <2>2. CASE place' # "rotate"
    <3>1. LinkPending = {attempt} /\ LinkPending' = {} /\ LinkStation' = {}
      BY <1>1, <2>2 DEF Dial, LinkPending, LinkStation
    <3>2. Link!Finish  BY <3>1 DEF Link!Finish
    <3> QED  BY <3>2 DEF Link!Next
  <2> QED  BY <2>1, <2>2
<1>2. CASE Rotate
  <2>1. LinkPending' = LinkPending /\ LinkStation' = LinkStation
    BY <1>2 DEF Rotate, link, LinkPending, LinkStation
  <2> QED  BY <2>1 DEF Link!vars
<1>3. CASE Store
  <2>1. con = attempt /\ attempt \in Infos
    BY <1>3 DEF Store, IInv, TypeOK, ThreadInv, Settings
  <2>2. LinkPending = {attempt} /\ LinkPending' = {}
    BY <1>3 DEF Store, LinkPending
  <2>3. LinkStation' \in {{}, {attempt}}
    BY <1>3, <2>1 DEF Store, LinkStation
  <2>4. LinkPending \cap Infos = {attempt}  BY <2>1, <2>2
  <2>5. Link!Finish  BY <2>2, <2>3, <2>4 DEF Link!Finish
  <2> QED  BY <2>5 DEF Link!Next
<1> QED  BY <1>1, <1>2, <1>3

\* Every step of the worker.
LEMMA WorkerLink ==
  ASSUME IInv, BeforeHandleDown \/ Connect \/ \E b \in Browsers :
                 \/ \E url \in Urls : BeforeHandle(b, url)
                 \/ \E info \in Infos : SettingsSend(b, info)
                 \/ Handle(b) \/ AuthCheck(b) \/ Sign(b)
  PROVE  [Link!Next]_(Link!vars)
<1>1. CASE Connect
  <2>1. CASE place # "none"
    BY <1>1, <2>1, LinkKept DEF Connect, connect_async, thread, link
  <2>2. CASE place = "none"
    <3>1. work.info \in Settings  BY <1>1, WorkFields DEF Connect, IInv, TypeOK
    <3>2. LinkPending = {} /\ LinkPending' = {work.info} /\ LinkStation' = LinkStation
      BY <1>1, <2>2 DEF Connect, connect_async, link, LinkPending, LinkStation
    <3>3. Link!Try(work.info)  BY <3>2 DEF Link!Try
    <3> QED  BY <3>1, <3>3 DEF Link!Next
  <2> QED  BY <2>1, <2>2
<1>2. ASSUME NEW b \in Browsers, Handle(b) \/ Sign(b) PROVE [Link!Next]_(Link!vars)
  <2>1. isconn' \in {isconn, FALSE} /\ UNCHANGED <<place, attempt, con>>
    BY <1>2 DEF Handle, Sign, thread
  <2> QED  BY <2>1, LinkLeft
<1>3. ASSUME NEW b \in Browsers, AuthCheck(b) PROVE [Link!Next]_(Link!vars)
  <2>1. isconn' \in {isconn, FALSE} /\ UNCHANGED <<place, attempt, con>>
    BY <1>3 DEF AuthCheck, thread
  <2> QED  BY <2>1, LinkLeft
<1>4. CASE BeforeHandleDown
  BY <1>4, LinkKept DEF BeforeHandleDown, link, thread
<1>5. ASSUME NEW b \in Browsers, NEW url \in Urls, BeforeHandle(b, url)
      PROVE  [Link!Next]_(Link!vars)
  BY <1>5, LinkKept DEF BeforeHandle, link, thread
<1>6. ASSUME NEW b \in Browsers, NEW info \in Infos, SettingsSend(b, info)
      PROVE  [Link!Next]_(Link!vars)
  BY <1>6, LinkKept DEF SettingsSend, link, thread
<1> QED  BY <1>1, <1>2, <1>3, <1>4, <1>5, <1>6

\* The clock and the process.
LEMMA ProcessLink ==
  ASSUME IInv, Tick \/ Stop \/ Start \/ Serve \/ UNCHANGED vars
  PROVE  [Link!Next]_(Link!vars)
<1>1. CASE Tick \/ Serve \/ UNCHANGED vars
  BY <1>1, LinkKept DEF Tick, Serve, vars, link, thread
<1>2. CASE Stop
  <2>1. LinkPending' = {} /\ LinkStation' = {}
    BY <1>2 DEF Stop, LinkPending, LinkStation
  <2> QED  BY <2>1 DEF Link!Next, Link!Restart
<1>3. CASE Start
  <2>1. mysql_db \in Settings /\ place = "none" /\ ~isconn
    BY <1>3 DEF Start, IInv, TypeOK, ThreadInv
  <2>2. LinkPending = {} /\ LinkPending' = {mysql_db} /\ LinkStation' = LinkStation
    BY <1>3, <2>1 DEF Start, LinkPending, LinkStation
  <2>3. Link!Try(mysql_db)  BY <2>2 DEF Link!Try
  <2> QED  BY <2>1, <2>3 DEF Link!Next
<1> QED  BY <1>1, <1>2, <1>3

\* The part of connect that sessions depend on behaves like StationLink, as the
\* whole of it does (Connection): one attempt at a time, and no station but that
\* of an attempt that has ended.
THEOREM SessionsImplementLink == Spec => ImplementsLink
<1>1. Init => Link!Init
  BY DEF Init, Link!Init, LinkPending, LinkStation
<1>2. IInv /\ [Next]_vars => [Link!Next]_(Link!vars)
  BY ThreadLink, WorkerLink, ProcessLink DEF Next
<1> QED  BY <1>1, <1>2, SessionInvariance, PTL
      DEF Spec, ImplementsLink, Link!SafeSpec

=============================================================================
