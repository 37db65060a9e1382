----------------------------- MODULE JwtProofs -----------------------------
(***************************************************************************)
(* The properties of JwtSecret for any number of secrets and statements.   *)
(* The invariant follows one call of generatejwt_secret at a time: what it *)
(* holds in stmt, what it has put on the disk, and that the secret it      *)
(* brings is new to everybody.                                             *)
(***************************************************************************)
EXTENDS JwtSecret, TLAPS

\* Where generatejwt_secret holds a statement.
Holding == {"step", "update", "insert", "column", "finalize"}

Undisturbed == ~overlapped /\ ~misread

\* Only the connect thread regenerates, only the worker reads and signs.
PlacesInv == pc["worker"] # "update" /\ pc["connector"] \notin {"column", "sign"}

\* Nothing is numbered higher than what was generated.
NumbersInv ==
  /\ jwt <= secrets /\ secretjwt <= secrets
  /\ \A a \in Actors : secret[a] <= secrets
  /\ \A s \in issued \cup retired : s <= secrets

\* Calls that do not overlap have stmt to themselves.
AloneInv == ~overlapped =>
  /\ ~(Active("worker") /\ Active("connector"))
  /\ \A a \in Actors : pc[a] \in Holding => stmt \in live

\* The statements are the one that a caller holds and those left behind before.
CleanInv ==
  /\ \A h \in leaked \cup {stmt} : h <= handles
  /\ ~overlapped =>
       /\ \A a \in Actors : pc[a] \in Holding =>
            live = leaked \cup {stmt} /\ stmt \notin leaked
       /\ (\A a \in Actors : pc[a] \notin Holding) => live = leaked

\* Memory follows the disk, which is ahead of it at the end of a call only.
StoredInv == Undisturbed =>
  /\ (\A a \in Actors : pc[a] \notin {"finalize", "assign"}) =>
       secretjwt \in {jwt, NoSecret}
  /\ \A a \in Actors : pc[a] \in {"finalize", "assign"} => jwt = secret[a]
  /\ \A a \in Actors : pc[a] = "insert" => jwt = NoSecret
  /\ Active("worker") => secretjwt = NoSecret
  /\ pc["worker"] = "column" => jwt # NoSecret

\* A secret on its way is not a retired one; that of a rotation is unknown,
\* and so is the one the worker brings until it finds another on the disk.
FreshInv == Undisturbed =>
  /\ {secretjwt, jwt} \cap retired \subseteq {NoSecret}
  /\ \A a \in Actors : Active(a) => secret[a] # NoSecret /\ secret[a] \notin retired
  /\ Active("connector") => secret["connector"] \notin issued \cup {secretjwt}
  /\ pc["worker"] \in {"prepare", "step", "insert"} => secret["worker"] \notin issued

\* A "" is signed or verified with after a load that failed, and finds another
\* "" to match only after a second one.
BlankInv == Undisturbed =>
  /\ retired \subseteq issued
  /\ NoSecret \in issued => unloaded # 0
  /\ pc["worker"] = "sign" /\ secretjwt = NoSecret =>
       unloaded # 0 /\ (NoSecret \in issued => unloaded = 2)

IInv ==
  /\ TypeOK /\ PlacesInv /\ NumbersInv /\ AloneInv /\ CleanInv /\ StoredInv /\ FreshInv
  /\ BlankInv

-----------------------------------------------------------------------------
LEMMA InitHolds == Init => IInv
<1> SUFFICES ASSUME Init PROVE IInv
  OBVIOUS
<1>1. jwt \in Secret /\ 1 \in Secret /\ 0 \in Secret /\ 0 \in Handle
  BY BoundsAssumption DEF Init, Secret, Handle, NoSecret
<1>2. TypeOK
  <2>1. pc \in [Actors -> {"none"}] /\ secret \in [Actors -> Secret]
    BY <1>1 DEF Init, NoSecret
  <2>2. unloaded \in 0 .. 2 /\ handles \in Handle /\ stmt \in Handle
    BY <1>1 DEF Init, Null
  <2>3. secretjwt \in Secret /\ secrets \in Secret /\ jwt \in Secret
    BY <1>1 DEF Init, NoSecret
  <2>4. live \subseteq Handle /\ leaked \subseteq Handle /\ retired \subseteq Secret
    BY DEF Init
  <2>5. issued \subseteq Secret
    BY <2>3 DEF Init
  <2>6. running \in BOOLEAN /\ {overlapped, misread, misused} \subseteq BOOLEAN
    BY DEF Init
  <2> QED
    BY <2>1, <2>2, <2>3, <2>4, <2>5, <2>6 DEF TypeOK
<1>3. PlacesInv /\ AloneInv
  <2>1. \A a \in Actors : pc[a] = "none"
    BY DEF Init
  <2>2. pc["worker"] = "none" /\ pc["connector"] = "none"
    BY <2>1 DEF Actors
  <2> QED
    BY <2>1, <2>2 DEF PlacesInv, AloneInv, Active, Holding
<1>4. NumbersInv
  BY DEF Init, NumbersInv, Actors, NoSecret
<1>5. StoredInv /\ FreshInv
  BY DEF Init, StoredInv, FreshInv, Undisturbed, Active, Actors, NoSecret
<1>6. CleanInv /\ BlankInv
  BY DEF Init, CleanInv, BlankInv, Undisturbed, Holding, Actors, Null
<1> QED
  BY <1>2, <1>3, <1>4, <1>5, <1>6 DEF IInv

\* A process that is gone leaves only its disk.
LEMMA DieHolds ==
  ASSUME IInv, Die, misused' \in BOOLEAN
  PROVE  IInv'
<1>1. /\ \A a \in Actors : pc'[a] = "none" /\ secret'[a] = NoSecret
      /\ running' = FALSE /\ secretjwt' = NoSecret /\ live' = {} /\ leaked' = {} /\ stmt' = Null
      /\ UNCHANGED <<jwt, secrets, handles, issued, retired, overlapped, unloaded, misread>>
  BY DEF Die
<1>2. TypeOK'
  <2>1. NoSecret \in Secret /\ Null \in Handle
    BY BoundsAssumption DEF Secret, Handle, NoSecret, Null
  <2>2. pc' \in [Actors -> {"none"}] /\ secret' \in [Actors -> Secret]
    BY <2>1 DEF Die
  <2> QED
    BY <1>1, <2>1, <2>2 DEF IInv, TypeOK
<1>3. NumbersInv'
  BY <1>1 DEF IInv, NumbersInv, TypeOK, Secret, NoSecret
<1>4. PlacesInv' /\ AloneInv' /\ StoredInv' /\ FreshInv' /\ BlankInv'
  BY <1>1 DEF IInv, PlacesInv, AloneInv, StoredInv, FreshInv, BlankInv, Undisturbed, Active,
              Holding, Actors
<1>5. CleanInv'
  BY <1>1 DEF IInv, TypeOK, CleanInv, Handle, Null, Holding, Actors
<1> QED
  BY <1>2, <1>3, <1>4, <1>5 DEF IInv

\* A call of generatejwt_secret begins: its secret is new to everybody.
LEMMA GenerateHolds ==
  ASSUME IInv, NEW a \in Actors, Generate(a, "prepare"), a = "worker" => secretjwt = NoSecret
  PROVE  IInv'
<1>1. /\ pc' = [pc EXCEPT ![a] = "prepare"] /\ pc[a] = "none"
      /\ secret' = [secret EXCEPT ![a] = secrets + 1]
      /\ secrets' = secrets + 1 /\ secrets < MaxSecrets
      /\ overlapped' = (overlapped \/ pc[Other(a)] \notin {"none", "sign"})
      /\ UNCHANGED <<running, jwt, secretjwt, stmt, live, handles, issued, retired, leaked,
                     unloaded, misread, misused>>
  BY DEF Generate, Step
<1>2. TypeOK /\ NumbersInv /\ secrets \in Nat
  BY DEF IInv, TypeOK, Secret
<1>3. secrets + 1 \in Secret
  BY <1>1, <1>2, BoundsAssumption DEF Secret
<1>4. TypeOK'
  <2>1. overlapped' \in BOOLEAN
    BY <1>1, <1>2 DEF TypeOK
  <2> QED
    BY <1>1, <1>2, <1>3, <2>1 DEF TypeOK
<1>5. NumbersInv'
  BY <1>1, <1>2 DEF NumbersInv, TypeOK, Secret
<1>6. pc'[a] = "prepare" /\ secret'[a] = secrets + 1
  BY <1>1, <1>2 DEF TypeOK
<1>7. \A b \in Actors : b # a => b = Other(a) /\ pc'[b] = pc[b] /\ secret'[b] = secret[b]
  BY <1>1, <1>2 DEF TypeOK, Actors, Other
<1>8. ~overlapped' => ~overlapped /\ \A b \in Actors : b # a => ~Active(b)
  BY <1>1, <1>7 DEF Active
<1>9. PlacesInv'
  BY <1>6, <1>7 DEF IInv, PlacesInv, Actors
<1>10. AloneInv'
  BY <1>1, <1>6, <1>7, <1>8 DEF IInv, AloneInv, Active, Holding, Actors
<1>11. CleanInv'
  BY <1>1, <1>6, <1>7, <1>8 DEF IInv, CleanInv, Active, Holding, Actors
<1>12. StoredInv'
  BY <1>1, <1>6, <1>7, <1>8 DEF IInv, StoredInv, Undisturbed, Active, Actors
<1>13. FreshInv'
  <2>1. secrets + 1 \notin issued \cup retired \cup {secretjwt, NoSecret}
    BY <1>2 DEF NumbersInv, NoSecret, TypeOK, Secret
  <2> QED
    BY <1>1, <1>6, <1>7, <1>8, <2>1 DEF IInv, FreshInv, Undisturbed, Active, Actors
<1>14. BlankInv'
  BY <1>1, <1>6, <1>7, <1>8 DEF IInv, BlankInv, Undisturbed, Actors
<1> QED
  BY <1>4, <1>5, <1>9, <1>10, <1>11, <1>12, <1>13, <1>14 DEF IInv

LEMMA RotateHolds == IInv /\ Rotate => IInv'
BY GenerateHolds DEF Rotate, Actors

LEMMA GetSecretHolds == IInv /\ GetSecret => IInv'
<1> SUFFICES ASSUME IInv, GetSecret PROVE IInv'
  OBVIOUS
<1>1. CASE secretjwt = NoSecret /\ Generate("worker", "prepare")
  BY <1>1, GenerateHolds DEF Actors
<1>2. CASE secretjwt # NoSecret /\ Step("worker", "none", "sign")
           /\ UNCHANGED <<running, jwt, secretjwt, stmt, live, secret, secrets, handles,
                          history, misused>>
  <2>1. TypeOK' /\ NumbersInv'
    BY <1>2 DEF IInv, TypeOK, NumbersInv, Step, history
  <2>2. PlacesInv' /\ AloneInv' /\ CleanInv'
    BY <1>2 DEF IInv, TypeOK, PlacesInv, AloneInv, CleanInv, Active, Holding, Actors, Step, history
  <2>3. StoredInv' /\ FreshInv'
    BY <1>2 DEF IInv, TypeOK, StoredInv, FreshInv, Undisturbed, Active, Actors, Step, history
  <2>4. BlankInv'
    <3>1. secretjwt' # NoSecret /\ UNCHANGED <<issued, retired, overlapped, unloaded, misread>>
      BY <1>2 DEF history
    <3> QED
      BY <3>1 DEF IInv, BlankInv, Undisturbed
  <2> QED
    BY <2>1, <2>2, <2>3, <2>4 DEF IInv
<1> QED
  BY <1>1, <1>2 DEF GetSecret

\* A statement is prepared, or stmt is NULL and the call returns.
LEMMA PrepareHolds ==
  ASSUME IInv, NEW a \in Actors, Prepare(a)
  PROVE  IInv'
<1>1. TypeOK'
  <2>1. Null \in Handle /\ (handles < MaxHandles => handles + 1 \in Handle)
    BY BoundsAssumption DEF IInv, TypeOK, Handle, Null
  <2> QED
    BY <2>1 DEF IInv, TypeOK, Prepare, Step, Fails, Return
<1>2. PlacesInv'
  BY DEF IInv, TypeOK, PlacesInv, Prepare, Step, Fails, Return, Actors
<1>3. NumbersInv'
  BY DEF IInv, NumbersInv, Prepare, Fails
<1>4. AloneInv'
  BY DEF IInv, TypeOK, AloneInv, Active, Holding, Prepare, Step, Fails, Return, Actors
<1>5. CleanInv'
  BY DEF IInv, TypeOK, CleanInv, AloneInv, Active, Holding, Actors, Handle, Null,
         Prepare, Step, Fails, Return
<1>6. StoredInv'
  BY DEF IInv, TypeOK, StoredInv, Undisturbed, Active, Prepare, Step, Fails, Return, Actors
<1>7. FreshInv'
  BY DEF IInv, TypeOK, FreshInv, Undisturbed, Active, Prepare, Step, Fails, Return, Actors
<1>8. BlankInv'
  BY DEF IInv, TypeOK, PlacesInv, BlankInv, Undisturbed, Prepare, Step, Fails, Return, Actors
<1> QED
  BY <1>1, <1>2, <1>3, <1>4, <1>5, <1>6, <1>7, <1>8 DEF IInv

\* The SELECT tells the UPDATE from the INSERT.
LEMMA SelectRowHolds ==
  ASSUME IInv, NEW a \in Actors, SelectRow(a)
  PROVE  IInv'
<1>1. TypeOK'
  BY DEF IInv, TypeOK, SelectRow, Step
<1>2. PlacesInv'
  BY DEF IInv, TypeOK, PlacesInv, SelectRow, Step, Regenerates, Actors
<1>3. NumbersInv'
  BY DEF IInv, NumbersInv, SelectRow
<1>4. AloneInv'
  BY DEF IInv, TypeOK, AloneInv, Active, SelectRow, Step, Actors
<1>5. CleanInv'
  BY DEF IInv, TypeOK, CleanInv, AloneInv, Active, Holding, Actors, SelectRow, Step
<1>6. StoredInv'
  BY DEF IInv, TypeOK, StoredInv, Undisturbed, Active, SelectRow, Step, Actors
<1>7. FreshInv'
  BY DEF IInv, TypeOK, FreshInv, Undisturbed, Active, SelectRow, Step, Actors
<1>8. BlankInv'
  BY DEF IInv, TypeOK, PlacesInv, BlankInv, Undisturbed, SelectRow, Step, Actors
<1> QED
  BY <1>1, <1>2, <1>3, <1>4, <1>5, <1>6, <1>7, <1>8 DEF IInv

\* UPDATE of the row; a failure returns and leaves the statement.
LEMMA UpdateHolds ==
  ASSUME IInv, NEW a \in Actors, Update(a)
  PROVE  IInv'
<1>1. TypeOK'
  BY DEF IInv, TypeOK, Update, Step, Fails, Return
<1>2. PlacesInv'
  BY DEF IInv, TypeOK, PlacesInv, Update, Step, Fails, Return, Actors
<1>3. NumbersInv'
  BY DEF IInv, NumbersInv, Update, Fails
<1>4. AloneInv'
  BY DEF IInv, TypeOK, AloneInv, Active, Holding, Update, Step, Fails, Return, Actors
<1>5. CleanInv'
  BY DEF IInv, TypeOK, CleanInv, AloneInv, Active, Holding, Actors, Update, Step, Fails, Return
<1>6. StoredInv'
  BY DEF IInv, TypeOK, StoredInv, Undisturbed, AloneInv, Active, Update, Step, Fails, Return, Actors
<1>7. FreshInv'
  BY DEF IInv, TypeOK, FreshInv, Undisturbed, Active, Update, Step, Fails, Return, Actors
<1>8. BlankInv'
  BY DEF IInv, TypeOK, PlacesInv, BlankInv, Undisturbed, Update, Step, Fails, Return, Actors
<1> QED
  BY <1>1, <1>2, <1>3, <1>4, <1>5, <1>6, <1>7, <1>8 DEF IInv

\* INSERT of a row.
LEMMA InsertHolds ==
  ASSUME IInv, NEW a \in Actors, Insert(a)
  PROVE  IInv'
<1>1. TypeOK'
  BY DEF IInv, TypeOK, Insert, Step, Fails, Return
<1>2. PlacesInv'
  BY DEF IInv, TypeOK, PlacesInv, Insert, Step, Fails, Return, Actors
<1>3. NumbersInv'
  BY DEF IInv, NumbersInv, Insert, Fails
<1>4. AloneInv'
  BY DEF IInv, TypeOK, AloneInv, Active, Holding, Insert, Step, Fails, Return, Actors
<1>5. CleanInv'
  BY DEF IInv, TypeOK, CleanInv, AloneInv, Active, Holding, Actors, Insert, Step, Fails, Return
<1>6. StoredInv'
  BY DEF IInv, TypeOK, StoredInv, Undisturbed, AloneInv, Active, Insert, Step, Fails, Return, Actors
<1>7. FreshInv'
  BY DEF IInv, TypeOK, FreshInv, Undisturbed, Active, Insert, Step, Fails, Return, Actors
<1>8. BlankInv'
  BY DEF IInv, TypeOK, PlacesInv, BlankInv, Undisturbed, Insert, Step, Fails, Return, Actors
<1> QED
  BY <1>1, <1>2, <1>3, <1>4, <1>5, <1>6, <1>7, <1>8 DEF IInv

\* The worker takes the secret of the row.
LEMMA ColumnHolds ==
  ASSUME IInv, NEW a \in Actors, Column(a)
  PROVE  IInv'
<1>1. TypeOK'
  BY DEF IInv, TypeOK, Column, Step, history
<1>2. PlacesInv'
  BY DEF IInv, PlacesInv, Column, Step
<1>3. NumbersInv'
  BY DEF IInv, NumbersInv, Column, history
<1>4. AloneInv'
  BY DEF IInv, AloneInv, Active, Column, Step, history
<1>5. CleanInv'
  BY DEF IInv, TypeOK, CleanInv, AloneInv, Active, Holding, Actors, Column, Step, history
<1>6. StoredInv'
  BY DEF IInv, TypeOK, StoredInv, Undisturbed, Active, Column, Step, history
<1>7. FreshInv'
  BY DEF IInv, FreshInv, StoredInv, PlacesInv, Undisturbed, Active, Column, Step, history,
         Actors
<1>8. BlankInv'
  BY DEF IInv, TypeOK, PlacesInv, BlankInv, Undisturbed, Column, Step, history, Actors
<1> QED
  BY <1>1, <1>2, <1>3, <1>4, <1>5, <1>6, <1>7, <1>8 DEF IInv

\* sqlite3_finalize.
LEMMA FinalizeHolds ==
  ASSUME IInv, NEW a \in Actors, Finalize(a)
  PROVE  IInv'
<1>1. TypeOK'
  BY DEF IInv, TypeOK, Finalize, Step, history
<1>2. PlacesInv'
  BY DEF IInv, PlacesInv, Finalize, Step
<1>3. NumbersInv'
  BY DEF IInv, NumbersInv, Finalize, history
<1>4. AloneInv'
  BY DEF IInv, TypeOK, AloneInv, Active, Holding, Finalize, Step, history, Actors
<1>5. CleanInv'
  BY DEF IInv, TypeOK, CleanInv, AloneInv, Active, Holding, Actors, Finalize, Step, history
<1>6. StoredInv'
  BY DEF IInv, StoredInv, Undisturbed, Active, Finalize, Step, history
<1>7. FreshInv'
  BY DEF IInv, FreshInv, Undisturbed, Active, Finalize, Step, history
<1>8. BlankInv'
  BY DEF IInv, TypeOK, PlacesInv, BlankInv, Undisturbed, Finalize, Step, history, Actors
<1> QED
  BY <1>1, <1>2, <1>3, <1>4, <1>5, <1>6, <1>7, <1>8 DEF IInv

\* Memory catches up with the disk; after a rotation, what was issued is retired.
LEMMA AssignHolds ==
  ASSUME IInv, NEW a \in Actors, Assign(a)
  PROVE  IInv'
<1>1. TypeOK'
  BY DEF IInv, TypeOK, Assign, Step, Return
<1>2. PlacesInv'
  BY DEF IInv, PlacesInv, Assign, Step, Return
<1>3. NumbersInv'
  BY DEF IInv, NumbersInv, Assign
<1>4. AloneInv'
  BY DEF IInv, AloneInv, Active, Holding, Assign, Step, Return
<1>5. CleanInv'
  BY DEF IInv, TypeOK, CleanInv, AloneInv, Active, Holding, Actors, Assign, Step, Return
<1>6. StoredInv'
  BY DEF IInv, TypeOK, StoredInv, Undisturbed, AloneInv, Active, Assign, Step, Return, Actors
<1>7. FreshInv'
  BY DEF IInv, TypeOK, FreshInv, StoredInv, AloneInv, Undisturbed, Active, Assign, Step,
         Return, Regenerates, Actors
<1>8. BlankInv'
  BY DEF IInv, TypeOK, PlacesInv, BlankInv, Undisturbed, Assign, Step, Return, StoredInv,
         FreshInv, Active, Actors
<1> QED
  BY <1>1, <1>2, <1>3, <1>4, <1>5, <1>6, <1>7, <1>8 DEF IInv

\* The worker signs with what is in memory.
LEMMA SignHolds ==
  ASSUME IInv, Sign
  PROVE  IInv'
<1>1. TypeOK'
  BY DEF IInv, TypeOK, Sign, Step
<1>2. PlacesInv'
  BY DEF IInv, PlacesInv, Sign, Step
<1>3. NumbersInv'
  BY DEF IInv, NumbersInv, Sign
<1>4. AloneInv'
  BY DEF IInv, AloneInv, Active, Holding, Sign, Step
<1>5. CleanInv'
  BY DEF IInv, TypeOK, CleanInv, AloneInv, Active, Holding, Actors, Sign, Step
<1>6. StoredInv'
  BY DEF IInv, StoredInv, Undisturbed, Active, Sign, Step
<1>7. FreshInv'
  BY DEF IInv, FreshInv, Undisturbed, Active, Sign, Step
<1>8. BlankInv'
  BY DEF IInv, TypeOK, PlacesInv, BlankInv, Undisturbed, Sign, Step, Actors
<1> QED
  BY <1>1, <1>2, <1>3, <1>4, <1>5, <1>6, <1>7, <1>8 DEF IInv

\* A call on a finalized statement happens to calls that overlapped only.
LEMMA MisuseHolds ==
  ASSUME IInv, NEW a \in Actors, Misuse(a)
  PROVE  IInv'
<1>1. TypeOK /\ misused' \in BOOLEAN
  BY DEF IInv, TypeOK, Misuse
<1>2. overlapped
  BY DEF IInv, AloneInv, Misuse, Holding
<1>3. CASE Die
  BY <1>1, <1>3, DieHolds
<1>4. ASSUME pc[a] # "column",
             pc' = [pc EXCEPT ![a] = IF pc[a] = "step" THEN "insert" ELSE "assign"],
             UNCHANGED <<running, jwt, secretjwt, stmt, live, secret, secrets, handles, history>>
      PROVE  IInv'
  <2>1. TypeOK' /\ NumbersInv'
    BY <1>1, <1>4 DEF IInv, TypeOK, NumbersInv, history
  <2>2. PlacesInv'
    BY <1>1, <1>4 DEF IInv, TypeOK, PlacesInv, Actors
  <2>3. AloneInv' /\ CleanInv' /\ StoredInv' /\ FreshInv' /\ BlankInv'
    BY <1>2, <1>4 DEF IInv, AloneInv, CleanInv, StoredInv, FreshInv, BlankInv, Undisturbed, history
  <2> QED
    BY <2>1, <2>2, <2>3 DEF IInv
<1> QED
  BY <1>3, <1>4 DEF Misuse

\* The process stops or starts.
LEMMA ProcessHolds == IInv /\ (Shutdown \/ Kill \/ Start) => IInv'
<1> SUFFICES ASSUME IInv, Shutdown \/ Kill \/ Start PROVE IInv'
  OBVIOUS
<1>1. CASE Shutdown \/ Kill
  <2>1. Die /\ misused' \in BOOLEAN
    BY <1>1 DEF Shutdown, Kill, IInv, TypeOK
  <2> QED
    BY <2>1, DieHolds
<1>2. CASE Start
  BY <1>2 DEF Start, IInv, TypeOK, PlacesInv, NumbersInv, AloneInv, CleanInv, StoredInv, FreshInv,
              BlankInv, Undisturbed, Active, Holding, history
<1> QED
  BY <1>1, <1>2

LEMMA NextHolds == IInv /\ [Next]_vars => IInv'
<1> SUFFICES ASSUME IInv, [Next]_vars PROVE IInv'
  OBVIOUS
<1>1. ASSUME NEW a \in Actors, GenerateStep(a) PROVE IInv'
  BY <1>1, PrepareHolds, SelectRowHolds, UpdateHolds, InsertHolds, ColumnHolds, FinalizeHolds,
     AssignHolds, MisuseHolds DEF GenerateStep
<1>2. CASE UNCHANGED vars
  BY <1>2 DEF IInv, vars, history, TypeOK, PlacesInv, NumbersInv, AloneInv, CleanInv, StoredInv,
              FreshInv, BlankInv, Undisturbed, Active, Holding
<1> QED
  BY <1>1, <1>2, RotateHolds, GetSecretHolds, SignHolds, ProcessHolds DEF Next

-----------------------------------------------------------------------------
(* Theorems.                                                               *)

\* The inductive invariant, for any number of secrets and statements.
THEOREM SecretInvariance == Spec => []IInv
BY InitHolds, NextHolds, PTL DEF Spec

\* Type correctness.
THEOREM SecretTypeCorrect == Spec => []TypeOK
<1>1. IInv => TypeOK
  BY DEF IInv
<1> QED
  BY <1>1, SecretInvariance, PTL

\* Memory and azs.db part only by an overlap of the threads or a failed SELECT.
THEOREM SecretsStored == Spec => []SecretOnDisk
<1>1. IInv => SecretOnDisk
  BY DEF IInv, StoredInv, SecretOnDisk, Undisturbed, Idle
<1> QED
  BY <1>1, SecretInvariance, PTL

\* A completed rotation ends the earlier sessions for good, but for those that
\* were signed with "": one more failed load accepts them.
THEOREM RotationsEndSessions == Spec => []RotationEndsSessions
<1>1. IInv => RotationEndsSessions
  BY DEF IInv, FreshInv, BlankInv, RotationEndsSessions, Undisturbed
<1> QED
  BY <1>1, SecretInvariance, PTL

\* A call leaves a statement behind if its UPDATE or INSERT failed, and only then.
THEOREM LeaksAreFailedWrites == Spec => []OnlyFailedWritesLeak
<1>1. IInv => OnlyFailedWritesLeak
  BY DEF IInv, CleanInv, OnlyFailedWritesLeak, Idle, Holding
<1> QED
  BY <1>1, SecretInvariance, PTL

\* Threads that do not overlap never use a statement after its end.
THEOREM AloneIsSafe == Spec => []CallsAlone
<1>1. IInv => CallsAlone
  BY DEF IInv, AloneInv, CallsAlone, Holding
<1> QED
  BY <1>1, SecretInvariance, PTL

-----------------------------------------------------------------------------
(* To the sessions a rotation is atomic: JwtSecret implements SecretStore. *)

InStore == [Store!Next]_(Store!vars)

\* Memory and disk agree but at the end of a rotation.
LEMMA PresentStored ==
  ASSUME IInv, Undisturbed
  PROVE  /\ Present \in Nat /\ Present <= secrets
         /\ secretjwt \in {Present, NoSecret}
         /\ Present # jwt => pc["connector"] \in {"finalize", "assign"} /\ jwt = secret["connector"]
<1>1. jwt \in Nat /\ secretjwt \in Nat /\ jwt <= secrets /\ secretjwt <= secrets
  BY DEF IInv, TypeOK, NumbersInv, Secret
<1>2. ASSUME Present # jwt
      PROVE  pc["connector"] \in {"finalize", "assign"} /\ jwt = secret["connector"]
  BY <1>2 DEF IInv, StoredInv, Undisturbed, Active, Present, Actors
<1> QED
  BY <1>1, <1>2 DEF Present

\* The secret of a rotation that has not taken effect is new to every session.
LEMMA RotationIsNew ==
  ASSUME IInv, Undisturbed, Active("connector"), secret["connector"] # Present
  PROVE  Store!Unused(secret["connector"])
<1>1. secret["connector"] \in Nat /\ secret["connector"] \notin issued \cup {NoSecret}
  BY DEF IInv, TypeOK, FreshInv, Undisturbed, Secret, Actors
<1> QED
  BY <1>1 DEF Store!Unused, Store!NoSecret, NoSecret

\* What leaves the secret and the connect thread's rotation alone is unseen.
LEMMA UnseenInStore ==
  ASSUME Present' = Present, issued' = issued, overlapped' = overlapped, misread' = misread,
         Active("connector")' = Active("connector"),
         Active("connector") => secret'["connector"] = secret["connector"]
  PROVE  InStore
BY DEF InStore, Store!vars

\* The rotation is over, and took effect in this very step or not at all.
LEMMA EndInStore ==
  ASSUME IInv, Undisturbed, Active("connector"),
         UNCHANGED <<issued, overlapped, misread>>,
         Present' \in {Present, secret["connector"]},
         ~Active("connector")' \/ Present' = secret'["connector"]
  PROVE  InStore
<1>1. CASE Present = secret["connector"]
  BY <1>1 DEF InStore, Store!vars
<1>2. CASE Present # secret["connector"] /\ Present' = Present /\ ~Active("connector")'
  BY <1>2 DEF InStore, Store!Next, Store!Abandon
<1>3. CASE Present # secret["connector"] /\ Present' = secret["connector"]
  BY <1>3, RotationIsNew DEF InStore, Store!Next, Store!Rotate
<1>4. CASE Present # secret["connector"] /\ Present' = Present /\ Present' = secret'["connector"]
           /\ Active("connector")'
  BY <1>4 DEF InStore, Store!Next, Store!Abandon
<1> QED
  BY <1>1, <1>2, <1>3, <1>4

\* A rotation begins, or the worker's load does.
LEMMA GenerateInStore ==
  ASSUME IInv, Undisturbed, Undisturbed', NEW a \in Actors, Generate(a, "prepare"),
         a = "worker" => secretjwt = NoSecret
  PROVE  InStore
<1>1. /\ pc' = [pc EXCEPT ![a] = "prepare"] /\ pc[a] = "none"
      /\ secret' = [secret EXCEPT ![a] = secrets + 1]
      /\ UNCHANGED <<jwt, secretjwt, issued, misread>>
      /\ overlapped' = overlapped
  <2>1. overlapped = FALSE /\ overlapped' = FALSE
    BY DEF IInv, TypeOK, Generate, Undisturbed
  <2> QED
    BY <2>1 DEF Generate, Step
<1>2. Present' = Present
  BY <1>1 DEF Present
<1>3. CASE a = "worker"
  BY <1>1, <1>2, <1>3, UnseenInStore DEF IInv, TypeOK, Active, Actors
<1>4. CASE a = "connector"
  <2>1. ~Active("connector") /\ Active("connector")' /\ secret'["connector"] = secrets + 1
    BY <1>1, <1>4 DEF IInv, TypeOK, Active, Actors
  <2>2. secrets + 1 # Present
    BY PresentStored DEF IInv, TypeOK, Secret
  <2> QED
    BY <1>1, <1>2, <2>1, <2>2 DEF InStore, Store!Next, Store!Order
<1> QED
  BY <1>3, <1>4 DEF Actors

\* A call that returns early leaves the secret as it is.
LEMMA ReturnInStore ==
  ASSUME IInv, Undisturbed, NEW a \in Actors, NEW from, Active(a), Step(a, from, Return(a)),
         UNCHANGED <<jwt, secretjwt, secret, issued, overlapped, misread>>
  PROVE  InStore
<1>1. Present' = Present
  BY DEF Present
<1>2. CASE a = "worker"
  BY <1>1, <1>2, UnseenInStore DEF IInv, TypeOK, Step, Active, Actors
<1>3. CASE a = "connector"
  <2>1. ~Active("connector")'
    BY <1>3 DEF IInv, TypeOK, Step, Return, Active, Actors
  <2> QED
    BY <1>1, <1>3, <2>1, EndInStore
<1> QED
  BY <1>2, <1>3 DEF Actors

\* A call that goes on without a write is unseen.
LEMMA ProceedInStore ==
  ASSUME IInv, NEW a \in Actors, Active(a), NEW to, to \notin {"none", "sign"},
         pc' = [pc EXCEPT ![a] = to],
         a = "connector" => secret'[a] = secret[a],
         a = "worker" => secret'["connector"] = secret["connector"],
         UNCHANGED <<jwt, secretjwt, issued, overlapped, misread>>
  PROVE  InStore
<1>1. Present' = Present
  BY DEF Present
<1>2. Active("connector")' = Active("connector")
  BY DEF IInv, TypeOK, Active, Actors
<1>3. secret'["connector"] = secret["connector"]
  BY DEF Actors
<1> QED
  BY <1>1, <1>2, <1>3, UnseenInStore

LEMMA PrepareInStore ==
  ASSUME IInv, Undisturbed, NEW a \in Actors, Prepare(a)
  PROVE  InStore
<1>1. Active(a)
  BY DEF Prepare, Step, Fails, Active
<1>2. CASE Step(a, "prepare", "step")
  BY <1>1, <1>2, ProceedInStore DEF Prepare, Step
<1>3. CASE Step(a, "prepare", Return(a))
  BY <1>1, <1>3, ReturnInStore DEF Prepare, Fails
<1> QED
  BY <1>2, <1>3 DEF Prepare, Fails

LEMMA SelectRowInStore ==
  ASSUME IInv, Undisturbed', NEW a \in Actors, SelectRow(a)
  PROVE  InStore
<1>1. PICK to \in {"update", "column", "insert"} : pc' = [pc EXCEPT ![a] = to]
  BY DEF SelectRow, Step
<1>2. Active(a) /\ UNCHANGED <<jwt, secretjwt, secret, issued, overlapped, misread>>
  BY DEF SelectRow, Step, Active, Undisturbed
<1> QED
  BY <1>1, <1>2, ProceedInStore

\* With no secret in memory the UPDATE is the rotation.
LEMMA UpdateInStore ==
  ASSUME IInv, Undisturbed, NEW a \in Actors, Update(a)
  PROVE  InStore
<1>1. a = "connector" /\ Active(a)
  BY DEF IInv, PlacesInv, Update, Step, Fails, Active, Actors
<1>2. CASE Step(a, "update", "finalize") /\ jwt' = secret[a]
  <2>1. /\ Active("connector")'
        /\ UNCHANGED <<secretjwt, secret, issued, overlapped, misread>>
    BY <1>1, <1>2 DEF IInv, TypeOK, Update, Step, Fails, Active, Actors
  <2>2. CASE secretjwt = NoSecret
    BY <1>1, <1>2, <2>1, <2>2, EndInStore DEF Present
  <2>3. CASE secretjwt # NoSecret
    BY <1>1, <2>1, <2>3, UnseenInStore DEF Present
  <2> QED
    BY <2>2, <2>3
<1>3. CASE Step(a, "update", Return(a)) /\ UNCHANGED jwt
  BY <1>1, <1>3, ReturnInStore DEF Update
<1> QED
  BY <1>2, <1>3 DEF Update, Fails

\* The INSERT is the rotation, or brings the first secret.
LEMMA InsertInStore ==
  ASSUME IInv, Undisturbed, NEW a \in Actors, Insert(a)
  PROVE  InStore
<1>1. pc[a] = "insert" /\ Active(a) /\ UNCHANGED <<secretjwt, secret, issued, overlapped, misread>>
  BY DEF Insert, Step, Fails, Active
<1>2. jwt = NoSecret /\ secretjwt = NoSecret
  BY <1>1 DEF IInv, StoredInv, AloneInv, Undisturbed, Active, Actors
<1>3. CASE Step(a, "insert", "finalize") /\ jwt' = IF jwt = NoSecret THEN secret[a] ELSE jwt
  <2>1. Present = NoSecret /\ Present' = secret[a]
    BY <1>1, <1>2, <1>3 DEF Present
  <2>2. CASE a = "connector"
    <3>1. Active("connector")'
      BY <1>3, <2>2 DEF IInv, TypeOK, Step, Active, Actors
    <3> QED
      BY <1>1, <2>1, <2>2, <3>1, EndInStore
  <2>3. CASE a = "worker"
    <3>1. ~Active("connector") /\ ~Active("connector")'
      BY <1>1, <1>3, <2>3 DEF IInv, AloneInv, TypeOK, Undisturbed, Step, Active, Actors
    <3>2. secret[a] \in Nat /\ secret[a] \notin issued \cup {NoSecret}
      BY <1>1, <2>3 DEF IInv, TypeOK, FreshInv, Undisturbed, Secret, Actors
    <3> QED
      BY <1>1, <2>1, <3>1, <3>2
      DEF InStore, Store!Next, Store!First, Store!Unused, Store!NoSecret, NoSecret
  <2> QED
    BY <2>2, <2>3 DEF Actors
<1>4. CASE Step(a, "insert", Return(a)) /\ UNCHANGED jwt
  BY <1>1, <1>4, ReturnInStore
<1> QED
  BY <1>3, <1>4 DEF Insert, Fails

LEMMA ColumnInStore ==
  ASSUME IInv, NEW a \in Actors, Column(a)
  PROVE  InStore
<1>1. a = "worker" /\ Active(a) /\ secret'["connector"] = secret["connector"]
  BY DEF IInv, TypeOK, PlacesInv, Column, Step, Active, Actors
<1> QED
  BY <1>1, ProceedInStore DEF Column, Step, history

LEMMA FinalizeInStore ==
  ASSUME IInv, NEW a \in Actors, Finalize(a)
  PROVE  InStore
<1>1. Active(a)
  BY DEF Finalize, Step, Active
<1> QED
  BY <1>1, ProceedInStore DEF Finalize, Step, history

\* With a secret in memory its replacement is the rotation.
LEMMA AssignInStore ==
  ASSUME IInv, Undisturbed, NEW a \in Actors, Assign(a)
  PROVE  InStore
<1>1. /\ pc[a] = "assign" /\ Active(a) /\ secretjwt' = secret[a]
      /\ UNCHANGED <<jwt, secret, issued, overlapped, misread>>
  BY DEF Assign, Step, Active
<1>2. jwt = secret[a]
  BY <1>1 DEF IInv, StoredInv, Undisturbed
<1>3. Present' = secret[a]
  BY <1>1, <1>2 DEF Present
<1>4. CASE a = "worker"
  <2>1. Present = secret[a]
    BY <1>1, <1>2, <1>4 DEF IInv, StoredInv, Undisturbed, Present
  <2>2. Active("connector")' = Active("connector")
    BY <1>4 DEF IInv, TypeOK, Assign, Step, Active, Actors
  <2> QED
    BY <1>1, <1>3, <2>1, <2>2, UnseenInStore
<1>5. CASE a = "connector"
  <2>1. ~Active("connector")'
    BY <1>5 DEF IInv, TypeOK, Assign, Step, Return, Active, Actors
  <2> QED
    BY <1>1, <1>3, <1>5, <2>1, EndInStore
<1> QED
  BY <1>4, <1>5 DEF Actors

\* The process is gone: what counts from now on is the disk.
LEMMA DieInStore ==
  ASSUME IInv, Undisturbed, Die
  PROVE  InStore
<1>1. Present' = jwt /\ ~Active("connector")' /\ UNCHANGED <<issued, overlapped, misread>>
  BY DEF Die, Present, Active, Actors, history
<1>2. CASE Active("connector")
  BY <1>1, <1>2, PresentStored, EndInStore
<1>3. CASE ~Active("connector")
  <2>1. Present = jwt
    BY <1>3, PresentStored DEF Active
  <2> QED
    BY <1>1, <1>3, <2>1, UnseenInStore DEF Active
<1> QED
  BY <1>2, <1>3

LEMMA SignInStore ==
  ASSUME IInv, Undisturbed, Sign
  PROVE  InStore
<1>1. Present' = Present /\ UNCHANGED <<secret, overlapped, misread>>
  BY DEF Sign, Present
<1>2. Active("connector")' = Active("connector")
  BY DEF IInv, TypeOK, Sign, Step, Active, Actors
<1>3. CASE issued' = issued \cup {secretjwt}
  BY <1>1, <1>2, <1>3, PresentStored
  DEF InStore, Store!Next, Store!Issue, Store!NoSecret, NoSecret
<1>4. CASE issued' = issued
  BY <1>1, <1>2, <1>4, UnseenInStore
<1> QED
  BY <1>3, <1>4 DEF Sign

\* Every step is one of the store.
LEMMA NextInStore == IInv /\ [Next]_vars => InStore
<1> SUFFICES ASSUME IInv, [Next]_vars PROVE InStore
  OBVIOUS
<1>1. CASE ~Undisturbed'
  BY <1>1 DEF Undisturbed, InStore, Store!Next, Store!Spoil
<1>2. CASE UNCHANGED vars
  BY <1>2, UnseenInStore DEF vars, history, Present, Active
<1>3. ASSUME Undisturbed', Next PROVE InStore
  <2>1. Undisturbed
    <3>1. ASSUME NEW a \in Actors, GenerateStep(a) PROVE Undisturbed
      <4>1. CASE Prepare(a) \/ SelectRow(a) \/ Update(a) \/ Insert(a)
        BY <1>3, <4>1 DEF Undisturbed, Prepare, SelectRow, Update, Insert, Fails
      <4>2. CASE Column(a) \/ Finalize(a) \/ Assign(a)
        BY <1>3, <4>2 DEF Undisturbed, Column, Finalize, Assign, history
      <4>3. CASE Misuse(a)
        <5>1. UNCHANGED <<overlapped, misread>>
          BY <4>3 DEF Misuse, Die, history
        <5> QED
          BY <1>3, <5>1 DEF Undisturbed
      <4> QED
        BY <3>1, <4>1, <4>2, <4>3 DEF GenerateStep
    <3>2. CASE Rotate \/ GetSecret
      BY <1>3, <3>2 DEF IInv, TypeOK, Undisturbed, Rotate, GetSecret, Generate, history
    <3>3. CASE Sign \/ Shutdown \/ Kill \/ Start
      BY <1>3, <3>3 DEF Undisturbed, Sign, Shutdown, Kill, Die, Start, history
    <3> QED
      BY <1>3, <3>1, <3>2, <3>3 DEF Next
  <2>2. ASSUME NEW a \in Actors, GenerateStep(a) PROVE InStore
    <3>1. ~Misuse(a)
      BY <2>1 DEF IInv, AloneInv, Undisturbed, Misuse, Holding
    <3> QED
      BY <1>3, <2>1, <2>2, <3>1, PrepareInStore, SelectRowInStore, UpdateInStore, InsertInStore,
         ColumnInStore, FinalizeInStore, AssignInStore DEF GenerateStep
  <2>3. CASE Rotate
    BY <1>3, <2>1, <2>3, GenerateInStore DEF Rotate, Actors
  <2>4. CASE GetSecret
    <3>1. CASE secretjwt = NoSecret /\ Generate("worker", "prepare")
      BY <1>3, <2>1, <3>1, GenerateInStore DEF Actors
    <3>2. CASE /\ Step("worker", "none", "sign")
               /\ UNCHANGED <<running, jwt, secretjwt, stmt, live, secret, secrets, handles,
                              history, misused>>
      BY <3>2, UnseenInStore DEF IInv, TypeOK, Step, Present, Active, Actors, history
    <3> QED
      BY <2>4, <3>1, <3>2 DEF GetSecret
  <2>5. CASE Sign
    BY <2>1, <2>5, SignInStore
  <2>6. CASE Shutdown \/ Kill
    BY <2>1, <2>6, DieInStore DEF Shutdown, Kill
  <2>7. CASE Start
    BY <2>7, UnseenInStore DEF Start, Present, Active, history
  <2> QED
    BY <1>3, <2>2, <2>3, <2>4, <2>5, <2>6, <2>7 DEF Next
<1> QED
  BY <1>1, <1>2, <1>3

\* The threads, the statements and the failures of JwtSecret are unseen by the
\* sessions: to them there is one secret, replaced at one instant and for good.
THEOREM StoreImplemented == Spec => ImplementsStore
<1>1. Init => Store!Init
  <2> SUFFICES ASSUME Init PROVE Store!Init
    OBVIOUS
  <2>1. Present = jwt /\ jwt \in Nat /\ ~Active("connector")
    BY DEF Init, Present, Active, Actors, NoSecret
  <2> QED
    BY <2>1 DEF Init, Store!Init, Store!NoSecret, NoSecret
<1> QED
  BY <1>1, SecretInvariance, NextInStore, PTL DEF Spec, ImplementsStore, Store!Spec, InStore

=============================================================================
