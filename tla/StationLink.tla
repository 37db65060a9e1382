---------------------------- MODULE StationLink ----------------------------
(***************************************************************************)
(* What the connection machinery promises the rest of the server, without  *)
(* threads, locks or flags: at any time at most one attempt is under way,  *)
(* every attempt ends, and the handlers are connected either to nothing or *)
(* to the station of an attempt that ended.                                *)
(*                                                                         *)
(* It also says what is not promised: the attempt slot can jam for good.   *)
(***************************************************************************)
CONSTANTS Settings, Stations

VARIABLES
  pending,   \* {} or the settings of the attempt under way, {i}
  station,   \* {} or the station the handlers work with, {i}
  jammed     \* no attempt will be accepted until a restart

vars == <<pending, station, jammed>>

TypeOK ==
  /\ pending \subseteq Settings /\ station \subseteq Stations
  /\ jammed \in BOOLEAN

Init == pending = {} /\ station = {} /\ jammed = FALSE

Try(i) ==
  /\ pending = {} /\ ~jammed
  /\ pending' = {i}
  /\ UNCHANGED <<station, jammed>>

\* The attempt ends, connected to what was asked for or to nothing.
Finish ==
  /\ pending # {} /\ pending' = {}
  /\ station' \in {{}, pending \cap Stations}
  /\ UNCHANGED jammed

\* A statement failed, or an attempt is replacing the session.
Leave ==
  /\ station # {} /\ station' = {}
  /\ UNCHANGED <<pending, jammed>>

Jam ==
  /\ pending = {} /\ ~jammed /\ jammed' = TRUE
  /\ UNCHANGED <<pending, station>>

Restart == pending' = {} /\ station' = {} /\ jammed' = FALSE

Next ==
  \/ \E i \in Settings : Try(i)
  \/ Finish \/ Leave \/ Jam \/ Restart

SafeSpec == Init /\ [][Next]_vars

Spec == SafeSpec /\ WF_vars(Finish)

=============================================================================
