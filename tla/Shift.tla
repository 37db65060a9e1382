------------------------------- MODULE Shift -------------------------------
(***************************************************************************)
(* Operator shifts.  POST /auth opens a shift or takes over the open one   *)
(* (auth_post, auth_check, smena_bool, smena_change_operator,              *)
(* smena_add_operator), GET /api/outshift closes it (smena_close).         *)
(*                                                                         *)
(* Each handler is several statements with no transaction around them.     *)
(* Between two of them the connect thread may point con to another         *)
(* database and, later, azs_id to its station; any statement may fail,     *)
(* before or after it took effect; and the process may stop.  The connect  *)
(* thread is here what module Connection shows of it to a handler.         *)
(***************************************************************************)
EXTENDS Integers, FiniteSets, Sequences

CONSTANTS
  Databases,   \* one per station; the station id in database d is d as well
  Operators,   \* rows of loc_users
  MaxShifts    \* bound: no login starts once a table has this many rows

ASSUME MaxShiftsAssumption == MaxShifts \in Nat

VARIABLES
  smena,      \* for each database its table; NSmen is the index of a row
  con, azs_id, isconn,
  switching,  \* the connect thread: "no", "dialled", "valid"
  wpc,        \* the worker: "idle", or the next statement of its handler
  user,       \* the operator who logs in
  last_id, last_nn, status,   \* what smena_bool handed to the handler
  fresh,      \* history: that lookup worked, on the present con and azs_id
  wrote,      \* history: the handler's last statement took effect
  intact      \* history: the databases written by undisturbed handlers only

handler == <<user, last_id, last_nn, status, wrote>>
station == <<con, azs_id, isconn, switching>>
vars    == <<smena, station, wpc, handler, fresh, intact>>

Row == [azs : Databases, nn : Nat, op : Operators, open : BOOLEAN]

\* The rows of station a in table rows.
Of(rows, a) == {i \in DOMAIN rows : rows[i].azs = a}

\* ORDER BY NSmen DESC LIMIT 1.
IsLatest(rows, a, i) == i \in Of(rows, a) /\ \A j \in Of(rows, a) : j <= i

Init ==
  /\ smena = [d \in Databases |-> <<>>]
  /\ con \in Databases /\ azs_id = con /\ isconn = TRUE /\ switching = "no"
  /\ wpc = "idle" /\ user \in Operators
  /\ last_id = -1 /\ last_nn = -1 /\ status = FALSE
  /\ fresh = FALSE /\ wrote = FALSE /\ intact = Databases

-----------------------------------------------------------------------------
(* The connect thread, and the process.                                    *)

Dial(d) ==
  /\ switching = "no" /\ switching' = "dialled"
  /\ con' = d /\ fresh' = (fresh /\ d = con)
  /\ UNCHANGED <<smena, azs_id, isconn, wpc, handler, intact>>

\* setSchema, then isconn = con->isValid(), before azs_id is read.
Validate ==
  /\ switching = "dialled"
  /\ \/ switching' = "valid" /\ isconn' = TRUE
     \/ switching' = "no" /\ isconn' = FALSE
  /\ UNCHANGED <<smena, con, azs_id, wpc, handler, fresh, intact>>

\* get_azs_id, which keeps the old id when its query fails.
ReadStation ==
  /\ switching = "valid" /\ switching' = "no"
  /\ \/ azs_id' = con /\ UNCHANGED isconn
     \/ isconn' = FALSE /\ UNCHANGED azs_id
  /\ fresh' = (fresh /\ azs_id' = azs_id)
  /\ UNCHANGED <<smena, con, wpc, handler, intact>>

\* Stop and start again on any database: no handler survives.
Restart ==
  /\ con' \in Databases /\ azs_id' = con' /\ isconn' = TRUE
  /\ switching' = "no" /\ wpc' = "idle" /\ fresh' = FALSE
  /\ UNCHANGED <<smena, handler, intact>>

-----------------------------------------------------------------------------
(* The two handlers.                                                       *)

Go(from, to) == wpc = from /\ wpc' = to

\* auth_post: the worker takes a login, connected or not.
Login(u) ==
  /\ Go("idle", "auth")
  /\ \A d \in Databases : Len(smena[d]) < MaxShifts
  /\ user' = u /\ last_id' = 0 /\ last_nn' = 0 /\ status' = FALSE
  /\ fresh' = FALSE /\ wrote' = FALSE
  /\ UNCHANGED <<smena, station, intact>>

\* api_outshift: behind the middleware, so only while isconn.
OutShift ==
  /\ Go("idle", "close_lookup") /\ isconn
  /\ last_id' = -1 /\ last_nn' = -1 /\ status' = FALSE
  /\ fresh' = FALSE /\ wrote' = FALSE
  /\ UNCHANGED <<smena, station, user, intact>>

\* auth_check: a wrong password, or an unknown user, whose missing row is an
\* exception that marks the database disconnected.
AuthCheck ==
  /\ wpc = "auth"
  /\ \/ wpc' = "lookup" /\ UNCHANGED isconn
     \/ wpc' = "idle" /\ isconn' \in {isconn, FALSE}
  /\ UNCHANGED <<smena, con, azs_id, switching, handler, fresh, intact>>

\* Mutant: no WHERE id_azs.
SmenaBoolAny ==
  \/ /\ smena[con] # <<>>
     /\ last_id' = Len(smena[con]) /\ last_nn' = smena[con][Len(smena[con])].nn
     /\ status' = smena[con][Len(smena[con])].open
     /\ fresh' = TRUE
     /\ UNCHANGED isconn
  \/ /\ smena[con] = <<>>
     /\ fresh' = TRUE
     /\ UNCHANGED <<last_id, last_nn, status, isconn>>

\* smena_bool(&last_id, &last_nn): the latest shift of azs_id, open or closed.
\* No row leaves the out parameters alone, and so does a failure, which the
\* caller cannot tell from a closed shift.
SmenaBool ==
  \/ /\ \E i \in Of(smena[con], azs_id) :
          /\ IsLatest(smena[con], azs_id, i)
          /\ last_id' = i /\ last_nn' = smena[con][i].nn
          /\ status' = smena[con][i].open
     /\ fresh' = TRUE
     /\ UNCHANGED isconn
  \/ /\ Of(smena[con], azs_id) = {}
     /\ fresh' = TRUE
     /\ UNCHANGED <<last_id, last_nn, status, isconn>>
  \/ /\ isconn' = FALSE
     /\ fresh' = FALSE
     /\ UNCHANGED <<last_id, last_nn, status>>

Lookup ==
  /\ Go("lookup", "write")
  /\ SmenaBool
  /\ UNCHANGED <<smena, con, azs_id, switching, user, wrote, intact>>

CloseLookup ==
  /\ Go("close_lookup", "close")
  /\ SmenaBool
  /\ UNCHANGED <<smena, con, azs_id, switching, user, wrote, intact>>

\* A statement that writes the present database: it may be lost before it took
\* effect, or its answer after; either marks the database disconnected.
Write(rows) ==
  /\ \/ /\ smena' = [smena EXCEPT ![con] = rows] /\ wrote' = TRUE
        /\ isconn' \in {isconn, FALSE}
     \/ /\ UNCHANGED <<smena, wrote>> /\ isconn' = FALSE
  /\ intact' = IF fresh THEN intact ELSE intact \ {con}
  /\ UNCHANGED <<con, azs_id, switching, user, last_id, last_nn, status, fresh>>

\* Mutant: the latest shift is taken over even if it is closed.
ChangeAnyShift ==
  /\ Go("write", "reply")
  /\ Write([i \in DOMAIN smena[con] |->
              IF i = last_id THEN [smena[con][i] EXCEPT !.op = user]
                             ELSE smena[con][i]])

\* UPDATE smena SET id_operator WHERE NSmen = last_id, whatever row that is.
ChangeOperator ==
  /\ status /\ Go("write", "reply")
  /\ Write([i \in DOMAIN smena[con] |->
              IF i = last_id THEN [smena[con][i] EXCEPT !.op = user]
                             ELSE smena[con][i]])

\* Mutant: a shift is added also while one is open.
AddAlways ==
  /\ Go("write", "reply")
  /\ Write(Append(smena[con],
                  [azs |-> azs_id, nn |-> last_nn + 1, op |-> user, open |-> TRUE]))

\* Mutant: no nn++.
AddSameNumber ==
  /\ ~status /\ Go("write", "reply")
  /\ Write(Append(smena[con],
                  [azs |-> azs_id, nn |-> last_nn, op |-> user, open |-> TRUE]))

\* Mutant: operator and station swapped.
AddSwapped ==
  /\ ~status /\ Go("write", "reply")
  /\ Write(Append(smena[con],
                  [azs |-> user, nn |-> last_nn + 1, op |-> azs_id, open |-> TRUE]))

\* smena_add_operator.
AddOperator ==
  /\ ~status /\ Go("write", "reply")
  /\ Write(Append(smena[con],
                  [azs |-> azs_id, nn |-> last_nn + 1, op |-> user, open |-> TRUE]))

\* The token and status "yes", whatever became of the statement.
Reply ==
  /\ Go("reply", "idle")
  /\ UNCHANGED <<smena, station, handler, fresh, intact>>

\* smena_close ignores the status it looked up.
SmenaClose ==
  /\ Go("close", "idle")
  /\ Write([i \in DOMAIN smena[con] |->
              IF i = last_id THEN [smena[con][i] EXCEPT !.open = FALSE]
                             ELSE smena[con][i]])

Next ==
  \/ \E d \in Databases : Dial(d)
  \/ Validate \/ ReadStation \/ Restart
  \/ (\E u \in Operators : Login(u)) \/ AuthCheck \/ Lookup
  \/ ChangeOperator \/ AddOperator \/ Reply
  \/ OutShift \/ CloseLookup \/ SmenaClose

Spec == Init /\ [][Next]_vars

-----------------------------------------------------------------------------
(* Properties.  intact[d] fails only when a handler wrote d although its    *)
(* lookup had failed or had been made on another database or station id:   *)
(* nothing else, no lost answer, stop, retry or wrong login, can make the   *)
(* shifts of a station wrong.                                              *)

\* Every variable has its type.
TypeOK ==
  /\ smena \in [Databases -> Seq(Row)]
  /\ con \in Databases /\ azs_id \in Databases /\ isconn \in BOOLEAN
  /\ switching \in {"no", "dialled", "valid"}
  /\ wpc \in {"idle", "auth", "lookup", "write", "reply", "close_lookup", "close"}
  /\ user \in Operators /\ last_id \in Nat \cup {-1} /\ last_nn \in Nat \cup {-1}
  /\ status \in BOOLEAN /\ fresh \in BOOLEAN /\ wrote \in BOOLEAN
  /\ intact \subseteq Databases

\* A station never has a second open shift, nor an open one before its latest.
OneOpenShift ==
  \A d \in intact : \A a \in Databases : \A i \in Of(smena[d], a) :
    smena[d][i].open => IsLatest(smena[d], a, i)

\* A station's shifts are numbered 1, 2, 3... without gap or repetition.
NumbersConsecutive ==
  \A d \in intact : \A i \in DOMAIN smena[d] :
    smena[d][i].nn = Cardinality({j \in Of(smena[d], smena[d][i].azs) : j <= i})

\* A closed shift is never opened again and stays with its last operator:
\* statements address rows by a number looked up before, with no condition.
ClosedForGood ==
  [][\A d \in intact' : \A i \in DOMAIN smena[d] :
       ~smena[d][i].open => smena'[d][i] = smena[d][i]]_vars

\* After a login whose statement took effect, the shift it looked up, or the one it
\* added, is open, the station's latest, and the user's own.
LoginTakesShift ==
  wpc = "reply" /\ fresh /\ wrote /\ con \in intact =>
    \E i \in Of(smena[con], azs_id) :
      /\ IsLatest(smena[con], azs_id, i)
      /\ smena[con][i].open /\ smena[con][i].op = user

\* A station's rows change only in its own database while handlers find the
\* connection settled; a row of another station comes from a switch.
RowsStayHome ==
  [][\A d \in Databases :
       smena'[d] # smena[d] /\ azs_id = con /\ fresh =>
         d = con /\ \A i \in DOMAIN smena[d] :
                     smena[d][i].azs # d => smena'[d][i] = smena[d][i]]_vars

=============================================================================
