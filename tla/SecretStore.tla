---------------------------- MODULE SecretStore ----------------------------
(***************************************************************************)
(* What the token secret is to the sessions: one value that comes into     *)
(* use, and is replaced, at one instant and for good, whatever fails and   *)
(* whenever the process stops, as long as the two threads that keep it do  *)
(* not overlap and no SELECT fails.  JwtSecret implements it.              *)
(***************************************************************************)
EXTENDS Naturals

NoSecret == 0

VARIABLES
  present,   \* the secret that verifies tokens, or will once it is loaded
  issued,    \* the secrets that tokens were signed with
  ordered,   \* a rotation has begun and not taken effect yet
  spoilt     \* the promise is off

vars == <<present, issued, ordered, spoilt>>

Init ==
  /\ present \in Nat /\ issued = {present} \ {NoSecret}
  /\ ordered = FALSE /\ spoilt = FALSE

Unused(s) == s \in Nat /\ s \notin issued \cup {present, NoSecret}

\* The first secret of a station that has none.
First ==
  /\ present = NoSecret /\ Unused(present')
  /\ UNCHANGED <<issued, ordered, spoilt>>

\* Other connection settings: the next secret is on its way.
Order ==
  /\ ~ordered /\ ordered' = TRUE
  /\ UNCHANGED <<present, issued, spoilt>>

\* It takes effect, and with it every session ends.
Rotate ==
  /\ ordered /\ ordered' = FALSE
  /\ Unused(present')
  /\ UNCHANGED <<issued, spoilt>>

\* It fails, or the process stops, and the old one stays in use.
Abandon ==
  /\ ordered /\ ordered' = FALSE
  /\ UNCHANGED <<present, issued, spoilt>>

\* A token is signed, with "" if the secret could not be loaded.
Issue ==
  /\ \E s \in {present, NoSecret} : issued' = issued \cup {s}
  /\ UNCHANGED <<present, ordered, spoilt>>

\* The threads overlapped, or a SELECT failed.
Spoil == spoilt' = TRUE

Next == First \/ Order \/ Rotate \/ Abandon \/ Issue \/ Spoil

Spec == Init /\ [][Next]_vars

=============================================================================
