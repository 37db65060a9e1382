----------------------------- MODULE LoginPage -----------------------------
(***************************************************************************)
(* The login page (auth_main): the names of the station's users, with the  *)
(* operator of the open shift moved to the front.  Two queries with a try  *)
(* of their own, get_Users_Name and smena_bool(&userid), run on whatever   *)
(* con and azs_id are at the time.                                         *)
(*                                                                         *)
(* The page is one more handler of the only worker, so the shifts do not   *)
(* change while it runs: the tables are any that module Shift leaves, and  *)
(* the connect thread is that of Shift.                                    *)
(***************************************************************************)
EXTENDS Shift, SequencesExt

CONSTANTS
  Users,      \* loc_users: in each database the operators of each station
  Tables,     \* contents of table smena
  NoStation   \* a query that failed

ASSUME UsersAssumption ==
  \A d, a \in Databases : Users[d][a] \subseteq Operators /\ IsFiniteSet(Users[d][a])

\* No shift of a station is open but its last one.
FitForPage(rows) ==
  /\ rows \in Seq(Row)
  /\ \A i, j \in DOMAIN rows : i < j /\ rows[i].azs = rows[j].azs => ~rows[i].open

\* What Shift!OneOpenShift promises.
ASSUME TablesAssumption == \A rows \in Tables : FitForPage(rows)

VARIABLES
  res,      \* the vector of users
  userid,   \* the operator that smena_bool found, as a set: {} for nobody
  open,     \* whether a shift is open, ctx["smena"]
  listed, looked   \* history: database and station of each complete query

list == <<res, userid, open, listed, looked>>
all  == <<vars, list>>

PageInit ==
  /\ smena \in [Databases -> Tables]
  /\ con \in Databases /\ azs_id = con /\ isconn = TRUE /\ switching = "no"
  /\ wpc = "idle"
  /\ res = <<>> /\ userid = {} /\ open = FALSE
  /\ listed = NoStation /\ looked = NoStation
  /\ user \in Operators /\ last_id = -1 /\ last_nn = -1 /\ status = FALSE
  /\ fresh = FALSE /\ wrote = FALSE /\ intact = Databases

\* The variables are local to auth_main.
Return ==
  /\ res' = <<>> /\ userid' = {} /\ open' = FALSE
  /\ listed' = NoStation /\ looked' = NoStation

-----------------------------------------------------------------------------

\* GET /, behind the middleware.
Load ==
  /\ Go("idle", "users") /\ isconn = TRUE
  /\ UNCHANGED <<smena, station, handler, fresh, intact, list>>

\* The users of azs_id, in the order of the server, as far as they could be read.
get_Users_Name ==
  /\ Go("users", "operator")
  /\ \E users \in SetToSeqs(Users[con][azs_id]) : \E n \in 0 .. Len(users) :
       /\ res' = SubSeq(users, 1, n)
       /\ \/ n = Len(users) /\ listed' = <<con, azs_id>> /\ UNCHANGED isconn
          \/ isconn' = FALSE /\ UNCHANGED listed
  /\ UNCHANGED <<smena, con, azs_id, switching, handler, fresh, intact, userid, open,
                 looked>>

\* Mutant: the out parameter is not filled.
OperatorNobody ==
  /\ Go("operator", "render")
  /\ \/ /\ \E i \in Of(smena[con], azs_id) :
             IsLatest(smena[con], azs_id, i) /\ open' = smena[con][i].open
        /\ looked' = <<con, azs_id>> /\ UNCHANGED <<userid, isconn>>
     \/ isconn' = FALSE /\ UNCHANGED <<userid, open, looked>>
  /\ UNCHANGED <<smena, con, azs_id, switching, handler, fresh, intact, res, listed>>

\* smena_bool(&userid): the operator of the latest shift, and whether it is open.
OperatorOnShift ==
  /\ Go("operator", "render")
  /\ \/ /\ \E i \in Of(smena[con], azs_id) :
             /\ IsLatest(smena[con], azs_id, i)
             /\ userid' = {smena[con][i].op} /\ open' = smena[con][i].open
        /\ looked' = <<con, azs_id>> /\ UNCHANGED isconn
     \/ /\ Of(smena[con], azs_id) = {}
        /\ looked' = <<con, azs_id>> /\ UNCHANGED <<userid, open, isconn>>
     \/ isconn' = FALSE /\ UNCHANGED <<userid, open, looked>>
  /\ UNCHANGED <<smena, con, azs_id, switching, handler, fresh, intact, res, listed>>

\* Mutant: res[0] is not put aside.
SwappedLost(i) == [res EXCEPT ![1] = res[i]]

\* res[0] and res[i] exchanged.
Swapped(i) == [res EXCEPT ![1] = res[i], ![i] = res[1]]

\* ctx["users"]: the operator of an open shift comes first, if he is on the list.
Page ==
  IF open /\ \E i \in DOMAIN res : res[i] \in userid
  THEN Swapped(CHOOSE i \in DOMAIN res : res[i] \in userid) ELSE res

Render ==
  /\ Go("render", "idle") /\ Return
  /\ UNCHANGED <<smena, station, handler, fresh, intact>>

PageNext ==
  \/ ((\E d \in Databases : Dial(d)) \/ Validate \/ ReadStation) /\ UNCHANGED list
  \/ Restart /\ Return
  \/ Load \/ get_Users_Name \/ OperatorOnShift \/ Render

PageSpec == PageInit /\ [][PageNext]_all

-----------------------------------------------------------------------------
(* Properties.                                                             *)

\* Who can log in is on the page once: bringing the operator to the front loses
\* nobody and shows nobody twice, and no switch of databases between the two
\* queries mixes the lists of two stations.
EveryoneOnce ==
  wpc = "render" /\ listed # NoStation =>
    /\ ToSet(Page) = Users[listed[1]][listed[2]]
    /\ IsInjective(Page)

\* The page says that a shift is open, and puts its operator first, whenever the
\* station has one and he is on the list.  Only a failed query can prevent it: a
\* switch of databases between the two queries may put the operator of another
\* station first, but never somebody who has no open shift.
OperatorFirst ==
  wpc = "render" /\ looked # NoStation =>
    LET rows == smena[looked[1]] IN
    /\ \A i \in Of(rows, looked[2]) : rows[i].open =>
         open /\ (rows[i].op \in ToSet(Page) => Page[1] = rows[i].op)
    /\ open => \E i \in Of(rows, looked[2]) : rows[i].open

\* The list shows nobody twice, and is whole when it was read to its end.
ListInv ==
  /\ res \in Seq(Operators) /\ IsInjective(res)
  /\ wpc \in {"idle", "users"} => listed = NoStation
  /\ listed # NoStation =>
       /\ listed \in Databases \X Databases
       /\ ToSet(res) = Users[listed[1]][listed[2]]

\* userid and open are those of the latest shift, or nobody's.
LookedInv ==
  /\ wpc # "render" => userid = {} /\ open = FALSE /\ looked = NoStation
  /\ looked # NoStation =>
       /\ looked \in Databases \X Databases
       /\ LET rows == smena[looked[1]] IN
          \/ Of(rows, looked[2]) = {} /\ userid = {} /\ open = FALSE
          \/ \E i \in Of(rows, looked[2]) :
               /\ IsLatest(rows, looked[2], i)
               /\ userid = {rows[i].op} /\ open = rows[i].open

\* The inductive invariant of the login page.
PageInv ==
  /\ smena \in [Databases -> Tables] /\ con \in Databases /\ azs_id \in Databases
  /\ wpc \in {"idle", "users", "operator", "render"}
  /\ ListInv /\ LookedInv

=============================================================================
