----------------------------- MODULE JwtSecret -----------------------------
(***************************************************************************)
(* The secret that signs session tokens: class local_data keeps it in      *)
(* memory (secretjwt) and in table jwt of azs.db (generatejwt_secret,      *)
(* get_secret_jwt, ~local_data).                                           *)
(*                                                                         *)
(* Two threads call it without a lock: the worker, which loads the secret  *)
(* the first time a token is made or verified, and the connect thread,     *)
(* which replaces it when it connects with other settings (one at a time,  *)
(* Connection!OneAttempt).  isconn is already true by then, so the poll of *)
(* the settings page that sees it verifies its cookie at that moment.  All *)
(* their SQLite calls go through one member, stmt.                         *)
(***************************************************************************)
EXTENDS Naturals, FiniteSets

CONSTANTS
  MaxSecrets,   \* bound: calls of generate_secret_key
  MaxHandles    \* bound: prepared statements

ASSUME BoundsAssumption == MaxSecrets \in Nat \ {0} /\ MaxHandles \in Nat

\* Secrets are numbered as they are generated and 0 is ""; handles as they are
\* prepared and 0 is NULL.
NoSecret == 0
Null     == 0
Secret   == 0 .. MaxSecrets
Handle   == 0 .. MaxHandles

Actors == {"worker", "connector"}
Other(a) == IF a = "worker" THEN "connector" ELSE "worker"
Regenerates(a) == a = "connector"

VARIABLES
  running,
  jwt,         \* the first row of table jwt, the only one that is read
  secretjwt, stmt,
  live,        \* the statements prepared and not finalized
  pc, secret,  \* each caller's place in generatejwt_secret and its local secret
  secrets, handles,   \* how many were made so far
  issued,      \* the secrets the worker has signed tokens with
  retired,     \* history: those issued before the last completed rotation
  overlapped,  \* history: two calls of generatejwt_secret overlapped
  leaked,      \* history: the statements that a failed UPDATE or INSERT left
  unloaded,    \* history: how often the worker failed to load a secret; two
               \* times are not told from more
  misread,     \* history: a failed SELECT was taken for an empty table
  misused      \* history: a statement was used after sqlite3_finalize

history == <<issued, retired, overlapped, leaked, unloaded, misread>>
vars == <<running, jwt, secretjwt, stmt, live, pc, secret, secrets, handles,
          history, misused>>

Idle == \A a \in Actors : pc[a] = "none"

Init ==
  /\ running = TRUE
  /\ jwt \in {NoSecret, 1} /\ secrets = 1
  /\ secretjwt = NoSecret /\ stmt = Null /\ live = {} /\ handles = 0
  /\ pc = [a \in Actors |-> "none"] /\ secret = [a \in Actors |-> NoSecret]
  /\ issued = {jwt} \ {NoSecret} /\ retired = {}
  /\ leaked = {} /\ unloaded = 0
  /\ overlapped = FALSE /\ misread = FALSE /\ misused = FALSE

Step(a, from, to) == pc[a] = from /\ pc' = [pc EXCEPT ![a] = to]

\* The process is gone; azs.db, and the tokens in the browsers, stay.
Die ==
  /\ running' = FALSE
  /\ pc' = [a \in Actors |-> "none"] /\ secret' = [a \in Actors |-> NoSecret]
  /\ secretjwt' = NoSecret /\ stmt' = Null /\ live' = {} /\ leaked' = {}
  /\ UNCHANGED <<jwt, secrets, handles, issued, retired, overlapped, unloaded, misread>>

-----------------------------------------------------------------------------
(* generatejwt_secret.                                                     *)

\* generate_secret_key; the connect thread comes here for other settings only.
Generate(a, next) ==
  /\ secrets < MaxSecrets
  /\ secrets' = secrets + 1
  /\ secret' = [secret EXCEPT ![a] = secrets + 1]
  /\ Step(a, "none", next)
  /\ overlapped' = (overlapped \/ pc[Other(a)] \notin {"none", "sign"})
  /\ UNCHANGED <<running, jwt, secretjwt, stmt, live, handles, issued, retired,
                 leaked, unloaded, misread, misused>>

Rotate == running /\ Generate("connector", "prepare")

\* get_secret_jwt: verify_token and create_token load the secret once.
GetSecret ==
  /\ running
  /\ \/ secretjwt = NoSecret /\ Generate("worker", "prepare")
     \/ /\ secretjwt # NoSecret /\ Step("worker", "none", "sign")
        /\ UNCHANGED <<running, jwt, secretjwt, stmt, live, secret, secrets,
                       handles, history, misused>>

\* Where a caller goes when generatejwt_secret returns.
Return(a) == IF a = "worker" THEN "sign" ELSE "none"

\* return "", without a new secretjwt.
Fails(a, from) ==
  /\ Step(a, from, Return(a))
  /\ unloaded' = IF a = "worker" /\ unloaded < 2 THEN unloaded + 1 ELSE unloaded

\* sqlite3_prepare_v2 stores NULL when it fails.
Prepare(a) ==
  /\ \/ /\ handles < MaxHandles
        /\ Step(a, "prepare", "step")
        /\ handles' = handles + 1
        /\ stmt' = handles + 1 /\ live' = live \cup {handles + 1}
        /\ UNCHANGED unloaded
     \/ /\ Fails(a, "prepare")
        /\ stmt' = Null
        /\ UNCHANGED <<live, handles>>
  /\ UNCHANGED <<running, jwt, secretjwt, secret, secrets, issued, retired,
                 overlapped, leaked, misread, misused>>

\* sqlite3_step: anything but a row is taken for an empty table.
SelectRow(a) ==
  /\ stmt \in live
  /\ \/ /\ jwt # NoSecret
        /\ Step(a, "step", IF Regenerates(a) THEN "update" ELSE "column")
        /\ UNCHANGED misread
     \/ /\ jwt = NoSecret /\ Step(a, "step", "insert")
        /\ UNCHANGED misread
     \/ /\ Step(a, "step", "insert")
        /\ misread' = TRUE
  /\ UNCHANGED <<running, jwt, secretjwt, stmt, live, secret, secrets, handles,
                 issued, retired, overlapped, leaked, unloaded, misused>>

\* Mutant: a failed UPDATE does not return.
UpdateGoesOn(a) ==
  /\ Step(a, "update", "finalize")
  /\ jwt' \in {jwt, secret[a]}
  /\ UNCHANGED <<running, secretjwt, stmt, live, secret, secrets, handles, history,
                 misused>>

\* Mutant: the UPDATE matches no row.
UpdateNothing(a) ==
  /\ Step(a, "update", "finalize")
  /\ UNCHANGED <<running, jwt, secretjwt, stmt, live, secret, secrets, handles,
                 history, misused>>

\* A failed UPDATE or INSERT returns at once and leaves stmt unfinalized.
Update(a) ==
  /\ \/ /\ Step(a, "update", "finalize")
        /\ jwt' = secret[a] /\ UNCHANGED <<leaked, unloaded>>
     \/ /\ Fails(a, "update")
        /\ leaked' = leaked \cup {stmt} /\ UNCHANGED jwt
  /\ UNCHANGED <<running, secretjwt, stmt, live, secret, secrets, handles, issued,
                 retired, overlapped, misread, misused>>

\* Mutant: the INSERT path finalizes before the common end does.
InsertFinalizes(a) ==
  /\ Step(a, "insert", "finalize")
  /\ jwt' = IF jwt = NoSecret THEN secret[a] ELSE jwt
  /\ live' = live \ {stmt}
  /\ UNCHANGED <<running, secretjwt, stmt, secret, secrets, handles, history,
                 misused>>

\* The row of a second INSERT comes after the first one and is never read.
Insert(a) ==
  /\ \/ /\ Step(a, "insert", "finalize")
        /\ jwt' = IF jwt = NoSecret THEN secret[a] ELSE jwt
        /\ UNCHANGED <<leaked, unloaded>>
     \/ /\ Fails(a, "insert")
        /\ leaked' = leaked \cup {stmt} /\ UNCHANGED jwt
  /\ UNCHANGED <<running, secretjwt, stmt, live, secret, secrets, handles, issued,
                 retired, overlapped, misread, misused>>

\* sqlite3_column_text of the row that the statement stands on.
Column(a) ==
  /\ stmt \in live
  /\ Step(a, "column", "finalize")
  /\ secret' = [secret EXCEPT ![a] = jwt]
  /\ UNCHANGED <<running, jwt, secretjwt, stmt, live, secrets, handles, history,
                 misused>>

\* Mutant: no sqlite3_finalize.
FinalizeNot(a) ==
  /\ Step(a, "finalize", "assign")
  /\ UNCHANGED <<running, jwt, secretjwt, stmt, live, secret, secrets, handles,
                 history, misused>>

\* stmt keeps pointing to the finalized statement.
Finalize(a) ==
  /\ stmt \in live
  /\ Step(a, "finalize", "assign")
  /\ live' = live \ {stmt}
  /\ UNCHANGED <<running, jwt, secretjwt, stmt, secret, secrets, handles, history,
                 misused>>

Assign(a) ==
  /\ Step(a, "assign", Return(a))
  /\ secretjwt' = secret[a]
  /\ retired' = IF Regenerates(a) THEN retired \cup issued ELSE retired
  /\ UNCHANGED <<running, jwt, stmt, live, secret, secrets, handles, issued,
                 overlapped, leaked, unloaded, misread, misused>>

\* A call on a statement that the other thread finalized, or on none: SQLite
\* may notice and do nothing, or the process dies.
Misuse(a) ==
  /\ stmt \notin live /\ pc[a] \in {"step", "column", "finalize"}
  /\ misused' = (misused \/ stmt # Null)
  /\ \/ Die
     \/ /\ pc[a] # "column"
        /\ pc' = [pc EXCEPT ![a] = IF pc[a] = "step" THEN "insert" ELSE "assign"]
        /\ UNCHANGED <<running, jwt, secretjwt, stmt, live, secret, secrets,
                       handles, history>>

\* The worker signs, or verifies, with what secretjwt holds then; while it is
\* being assigned, perhaps with a mixture that no later token matches.
Sign ==
  /\ Step("worker", "sign", "none")
  /\ \/ issued' = issued \cup {secretjwt}
     \/ pc["connector"] = "assign" /\ UNCHANGED issued
  /\ UNCHANGED <<running, jwt, secretjwt, stmt, live, secret, secrets, handles,
                 retired, overlapped, leaked, unloaded, misread, misused>>

-----------------------------------------------------------------------------
(* The process.                                                            *)

\* ~local_data: handlers have returned, a detached connect thread may not have.
Shutdown ==
  /\ running /\ pc["worker"] = "none"
  /\ misused' = (misused \/ (stmt # Null /\ stmt \notin live))
  /\ Die

Kill == running /\ Die /\ UNCHANGED misused

\* get_mysql_conn_info has left stmt NULL before anyone asks for a secret.
Start ==
  /\ ~running /\ running' = TRUE
  /\ UNCHANGED <<jwt, secretjwt, stmt, live, pc, secret, secrets, handles, history,
                 misused>>

GenerateStep(a) ==
  \/ Prepare(a) \/ SelectRow(a) \/ Update(a) \/ Insert(a) \/ Column(a)
  \/ Finalize(a) \/ Assign(a) \/ Misuse(a)

Next ==
  \/ \E a \in Actors : GenerateStep(a)
  \/ Rotate \/ GetSecret \/ Sign \/ Shutdown \/ Kill \/ Start

Spec == Init /\ [][Next]_vars

-----------------------------------------------------------------------------
(* Properties.                                                             *)

\* Every variable has its type.
TypeOK ==
  /\ running \in BOOLEAN /\ jwt \in Secret /\ secretjwt \in Secret
  /\ stmt \in Handle /\ live \subseteq Handle
  /\ pc \in [Actors -> {"none", "prepare", "step", "update", "insert", "column",
                        "finalize", "assign", "sign"}]
  /\ secret \in [Actors -> Secret] /\ secrets \in Secret /\ handles \in Handle
  /\ issued \subseteq Secret /\ retired \subseteq Secret
  /\ leaked \subseteq Handle /\ unloaded \in 0 .. 2
  /\ {overlapped, misread, misused} \subseteq BOOLEAN

\* Once loaded, the secret in memory is the one in azs.db, so that sessions
\* outlive a restart: no failed UPDATE or INSERT, stop or rotation parts them,
\* only an overlap of the two threads or a failed SELECT does.
SecretOnDisk ==
  ~overlapped /\ ~misread /\ Idle /\ secretjwt # NoSecret => jwt = secretjwt

\* A rotation ends the sessions there were: a token issued before it is not
\* accepted after it, nor after any restart.  One kind of token is excepted: the
\* worker that fails to load the secret signs, and verifies, with "", so that a
\* token from one such failure is accepted in the next, however many rotations
\* lie between them.
RotationEndsSessions ==
  ~overlapped /\ ~misread =>
    /\ secretjwt # NoSecret => secretjwt \notin retired
    /\ Idle /\ jwt # NoSecret => jwt \notin retired
    /\ pc["worker"] = "sign" /\ secretjwt \in retired => unloaded = 2

\* The statements that are alive between two calls are those whose UPDATE or
\* INSERT failed: a call that ends in any other way leaves none behind.
OnlyFailedWritesLeak == ~overlapped /\ Idle => live = leaked

\* Between the threads, a statement is used after its end only when two calls
\* overlap; the destructor is apart (FinalizedOnce).
CallsAlone == ~overlapped => \A a \in Actors :
  pc[a] \in {"step", "column", "finalize"} => stmt \in live

\* sqlite3.h: "It is a grievous error for the application to try to use a
\* prepared statement after it has been finalized."
FinalizedOnce == ~misused

-----------------------------------------------------------------------------
(* Refinement.                                                             *)

\* Inside generatejwt_secret.
Active(a) == pc[a] \notin {"none", "sign"}

\* What the next token is verified with, unless its secret fails to load.
Present == IF secretjwt # NoSecret THEN secretjwt ELSE jwt

Store == INSTANCE SecretStore WITH
  present <- Present,
  ordered <- Active("connector") /\ Present # secret["connector"],
  spoilt  <- overlapped \/ misread

\* To the sessions a rotation is atomic: the old secret verifies tokens up to
\* one instant and the new one from then on, although memory and azs.db change
\* one after the other, either may fail and the process may stop in between.
ImplementsStore == Store!Spec

=============================================================================
