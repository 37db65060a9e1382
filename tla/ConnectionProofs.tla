-------------------------- MODULE ConnectionProofs --------------------------
(***************************************************************************)
(* Proofs about Connection for any settings and any number of threads:     *)
(* IInv is an inductive invariant, the safety properties follow from it,   *)
(* and every step of the connection machinery is a step of StationLink.    *)
(***************************************************************************)
EXTENDS Connection, TLAPS

USE InfosAssumption, ThreadsAssumption
USE DEF AnyInfo, Critical, Places, Handlers, WorkerPlaces, Pending, Step, Go, Asks,
        link, typed, conn, worker, disk
USE DEF IInv, TypeOK, MutexInv, DeadInv, OneAttempt, FlagInv, SessionInv,
        GuardedHasSession, PhaseInv, Agree, InputInv, AskedInv, VerdictInv, DiskInv

-----------------------------------------------------------------------------
(* IInv is inductive.                                                      *)

\* The stopped process satisfies the invariant.
LEMMA InitIInv == Init => IInv
  BY DEF Init

\* connect, step by step, on whatever thread runs it.
LEMMA ConnectIInv == ASSUME IInv, NEW t \in Threads, Connect(t) PROVE IInv'
<1>1. CASE Lock(t)          BY <1>1 DEF Lock
<1>2. CASE Dial(t)          BY <1>2 DEF Dial
<1>3. CASE SetSchema(t)     BY <1>3 DEF SetSchema
<1>4. CASE Validate(t)      BY <1>4 DEF Validate
<1>5. CASE RotateSecret(t)  BY <1>5 DEF RotateSecret
<1>6. CASE Store(t)
  <2>1. MutexInv' /\ DeadInv' /\ OneAttempt' /\ FlagInv'  BY <1>6 DEF Store
  <2>2. TypeOK'
    <3>1. unsaved' = TRUE \/ unsaved' = FALSE  BY <1>6 DEF Store
    <3>2. unsaved' \in BOOLEAN  BY <3>1
    <3> QED  BY <1>6, <3>2 DEF Store
  <2>3. SessionInv' /\ VerdictInv'  BY <1>6 DEF Store
  <2>4. PhaseInv'                                         BY <1>6 DEF Store
  <2>5. InputInv' /\ AskedInv'                                         BY <1>6 DEF Store
  <2>6. DiskInv'                                          BY <1>6 DEF Store
  <2> QED  BY <2>1, <2>2, <2>3, <2>4, <2>5, <2>6
<1>7. CASE Commit(t)        BY <1>7 DEF Commit
<1>8. CASE ReadStation(t)
  <2>1. MutexInv' /\ DeadInv' /\ OneAttempt' /\ FlagInv'
    BY <1>8 DEF ReadStation
  <2>2. TypeOK'
    <3>1. isconn' \in BOOLEAN  BY <1>8 DEF ReadStation
    <3> QED  BY <1>8, <3>1 DEF ReadStation
  <2>3. SessionInv' /\ VerdictInv'  BY <1>8 DEF ReadStation
  <2>4. PhaseInv'                              BY <1>8 DEF ReadStation, Answers
  <2>5. InputInv' /\ AskedInv'                              BY <1>8 DEF ReadStation
  <2>6. DiskInv'                               BY <1>8 DEF ReadStation
  <2> QED  BY <2>1, <2>2, <2>3, <2>4, <2>5, <2>6
<1>9. CASE Fail(t)
  <2>1. MutexInv' /\ DeadInv' /\ OneAttempt' /\ FlagInv'  BY <1>9 DEF Fail
  <2>2. TypeOK'
    <3>1. isconn' = TRUE \/ isconn' = FALSE  BY <1>9 DEF Fail
    <3>2. isconn' \in BOOLEAN  BY <3>1
    <3> QED  BY <1>9, <3>2 DEF Fail
  <2>3. SessionInv' /\ VerdictInv'  BY <1>9 DEF Fail
  <2>4. PhaseInv'                                         BY <1>9 DEF Fail
  <2>5. InputInv' /\ AskedInv'                                         BY <1>9 DEF Fail
  <2>6. DiskInv'                                          BY <1>9 DEF Fail
  <2> QED  BY <2>1, <2>2, <2>3, <2>4, <2>5, <2>6
<1>10. CASE Clear(t)
  <2>1. MutexInv' /\ DeadInv' /\ OneAttempt' /\ FlagInv'  BY <1>10 DEF Clear
  <2>2. TypeOK'
    <3>1. while_conn' = TRUE \/ while_conn' = FALSE  BY <1>10 DEF Clear
    <3>2. while_conn' \in BOOLEAN  BY <3>1
    <3> QED  BY <1>10, <3>2 DEF Clear
  <2>3. SessionInv' /\ VerdictInv'  BY <1>10 DEF Clear
  <2>4. PhaseInv'                                         BY <1>10 DEF Clear
  <2>5. InputInv' /\ AskedInv'                                         BY <1>10 DEF Clear
  <2>6. DiskInv'                                          BY <1>10 DEF Clear
  <2> QED  BY <2>1, <2>2, <2>3, <2>4, <2>5, <2>6
<1>11. CASE Unlock(t)       BY <1>11 DEF Unlock
<1> QED  BY <1>1, <1>2, <1>3, <1>4, <1>5, <1>6, <1>7, <1>8, <1>9, <1>10, <1>11
         DEF Connect

\* The worker inside a handler.
LEMMA HandlerIInv == ASSUME IInv, HandlerStep PROVE IInv'
<1>1. CASE CopyLast  BY <1>1 DEF CopyLast
<1>2. ASSUME NEW t \in Threads, ConnectAsync(t) PROVE IInv'
  BY <1>2 DEF ConnectAsync, Spawn
<1>3. CASE ConnectBusy  BY <1>3 DEF ConnectBusy
<1>4. CASE SetFlag      BY <1>4 DEF SetFlag
<1>5. CASE ReadFlag     BY <1>5 DEF ReadFlag
<1>6. CASE Verdict      BY <1>6 DEF Verdict
<1>7. ASSUME NEW h \in Handlers, Statement(h) PROVE IInv'
  BY <1>7 DEF Statement, Catching
<1>8. ASSUME NEW h \in Handlers, Catch(h) PROVE IInv'
  <2>1. MutexInv' /\ OneAttempt' /\ FlagInv'  BY <1>8 DEF Catch, Catching
  <2>2. TypeOK'
    <3>1. isconn' = TRUE \/ isconn' = FALSE  BY <1>8 DEF Catch, Catching
    <3>2. isconn' \in BOOLEAN  BY <3>1
    <3> QED  BY <1>8, <3>2 DEF Catch, Catching
  <2>3. DeadInv' /\ SessionInv' /\ VerdictInv'  BY <1>8 DEF Catch, Catching
  <2>4. PhaseInv'  BY <1>8 DEF Catch, Catching
  <2>5. InputInv' /\ AskedInv'  BY <1>8 DEF Catch, Catching
  <2>6. DiskInv'   BY <1>8 DEF Catch, Catching
  <2> QED  BY <2>1, <2>2, <2>3, <2>4, <2>5, <2>6
<1>9. ASSUME NEW h \in Handlers, NullDeref(h) PROVE IInv'
  BY <1>9 DEF NullDeref, Crash
<1> QED  BY <1>1, <1>2, <1>3, <1>4, <1>5, <1>6, <1>7, <1>8, <1>9 DEF HandlerStep

\* A request that arrives at the idle worker.
LEMMA RequestIInv == ASSUME IInv, Request PROVE IInv'
<1>1. CASE BeforeHandle  BY <1>1 DEF BeforeHandle
<1>2. CASE ErrorCheck    BY <1>2 DEF ErrorCheck
<1>3. CASE AuthPost      BY <1>3 DEF AuthPost
<1>4. ASSUME NEW info \in Infos, SendSettings(info) PROVE IInv'
  BY <1>4 DEF SendSettings
<1> QED  BY <1>1, <1>2, <1>3, <1>4 DEF Request

\* The process and the servers around it.
LEMMA SurroundingsIInv ==
  ASSUME IInv,
         \/ \E t \in Threads : Boot(t)
         \/ Serve \/ Stop
         \/ \E i \in Infos : ServerDown(i) \/ ServerUp(i)
  PROVE  IInv'
<1>1. ASSUME NEW t \in Threads, Boot(t) PROVE IInv'  BY <1>1 DEF Boot
<1>2. CASE Serve  BY <1>2 DEF Serve
<1>3. CASE Stop   BY <1>3 DEF Stop, Crash
<1>4. ASSUME NEW i \in Infos, ServerDown(i) PROVE IInv'  BY <1>4 DEF ServerDown
<1>5. ASSUME NEW i \in Infos, ServerUp(i) PROVE IInv'    BY <1>5 DEF ServerUp
<1> QED  BY <1>1, <1>2, <1>3, <1>4, <1>5

\* Every step, stuttering included.
LEMMA NextIInv == IInv /\ [Next]_vars => IInv'
<1> SUFFICES ASSUME IInv, [Next]_vars PROVE IInv'
  OBVIOUS
<1>1. CASE Next
  BY <1>1, ConnectIInv, HandlerIInv, RequestIInv, SurroundingsIInv DEF Next
<1>2. CASE UNCHANGED vars
  <2>1. UNCHANGED <<up, con, session, isconn, azs_id, while_conn, last_input_info,
                    last_connect_info, connmutex, pc, attempt>>
    BY <1>2 DEF vars
  <2>2. UNCHANGED <<wpc, winfo, asked, mysql_db, id_last, unsaved>>
    BY <1>2 DEF vars
  <2>3. TypeOK' /\ MutexInv' /\ DeadInv' /\ OneAttempt' /\ FlagInv'
    BY <2>1, <2>2
  <2>4. SessionInv'
    BY <2>1, <2>2
  <2>5. PhaseInv' /\ InputInv'
    BY <2>1, <2>2
  <2>6. AskedInv' /\ VerdictInv' /\ DiskInv'
    BY <2>1, <2>2
  <2> QED  BY <2>3, <2>4, <2>5, <2>6
<1> QED  BY <1>1, <1>2

HIDE DEF IInv, TypeOK

\* IInv holds in every reachable state of connect, connect_async, the handlers
\* and the servers, whatever the number of threads and settings.
THEOREM Invariance == Spec => []IInv
  BY InitIInv, NextIInv, PTL DEF Spec

-----------------------------------------------------------------------------
(* The safety properties.                                                  *)

\* Every variable has its type.
THEOREM TypeCorrect == Spec => []TypeOK
<1>1. IInv => TypeOK  BY DEF IInv
<1> QED  BY <1>1, Invariance, PTL

\* while_conn, unlocked and raised late as it is, lets one attempt run at a time.
THEOREM OneAttemptAtATime == Spec => []OneAttempt
<1>1. IInv => OneAttempt  BY DEF IInv
<1> QED  BY <1>1, Invariance, PTL

\* Of three connect threads two are the same: one may be past while_conn = false
\* and still hold connmutex, and another one may be waiting for it.
THEOREM AtMostTwoThreads == Spec => []TwoThreads
<1>1. IInv => TwoThreads
  <2> SUFFICES ASSUME IInv,
                      NEW r \in Threads, NEW s \in Threads, NEW t \in Threads,
                      pc[r] # "none", pc[s] # "none", pc[t] # "none"
               PROVE  r = s \/ s = t \/ r = t
    BY DEF TwoThreads
  <2>1. \A p, q \in Threads : pc[p] = "unlock" /\ pc[q] = "unlock" => p = q
    BY DEF IInv
  <2>2. \A p, q \in Threads : Pending(p) /\ Pending(q) => p = q
    BY DEF IInv
  <2> QED  BY <2>1, <2>2 DEF IInv, TypeOK
<1> QED  BY <1>1, Invariance, PTL

\* Whatever attempts failed, raced or were dropped, a database that is up while
\* connmutex is free is one station's throughout.
THEOREM SettledAlways == Spec => []Settled
<1>1. IInv => Settled  BY DEF IInv, Settled
<1> QED  BY <1>1, Invariance, PTL

\* No handler behind the middleware dereferences a NULL con.
THEOREM GuardedHandlers == Spec => []GuardedHasSession
<1>1. IInv => GuardedHasSession  BY DEF IInv
<1> QED  BY <1>1, Invariance, PTL

\* What /settings/dberror/check answers is the outcome of the last attempt that
\* was accepted, which is the one for the settings typed last, unless they were
\* dropped or a page has retried since.
THEOREM FinalVerdicts == Spec => []VerdictIsFinal
<1>1. IInv => VerdictIsFinal
  <2> SUFFICES ASSUME IInv, wpc = "verdict"
               PROVE  /\ \A t \in Threads : ~Pending(t)
                      /\ isconn => last_input_info = con /\ azs_id = con
                      /\ isconn /\ asked # NoInfo => con = asked
    BY DEF VerdictIsFinal
  <2>1. \A t \in Threads : ~Pending(t)  BY DEF IInv
  <2>2. isconn => last_input_info = con  BY <2>1 DEF IInv
  <2>3. isconn => azs_id = con
    <3>1. CASE connmutex = NoThread  BY <3>1 DEF IInv
    <3>2. CASE connmutex # NoThread
      <4>1. connmutex \in Threads /\ pc[connmutex] = "unlock"  BY <3>2, <2>1 DEF IInv, TypeOK
      <4> QED  BY <4>1 DEF IInv
    <3> QED  BY <3>1, <3>2
  <2>4. asked # NoInfo => asked = last_input_info  BY DEF IInv
  <2> QED  BY <2>1, <2>2, <2>3, <2>4
<1> QED  BY <1>1, Invariance, PTL

\* The settings form and the attempt under way agree.
THEOREM FormIsCurrent == Spec => []FormShowsAttempt
<1>1. IInv => FormShowsAttempt  BY DEF IInv, FormShowsAttempt
<1> QED  BY <1>1, Invariance, PTL

\* Past its first start, a restart goes back to what the server connected with.
THEOREM DiskIsCurrent == Spec => []DiskFollowsMemory
<1>1. IInv => DiskFollowsMemory  BY DEF IInv, DiskFollowsMemory
<1> QED  BY <1>1, Invariance, PTL

-----------------------------------------------------------------------------
(* The action properties.                                                  *)

\* A lost flag is mended by nothing but the end of the process, and lost only
\* in the worker's assignment after the spawn.
THEOREM LostFlag == Spec => OnlyRestartMendsFlag
<1> DEFINE P == /\ FlagLost /\ ~FlagLost' => wpc' = "dead"
                /\ FlagLost' /\ ~FlagLost => wpc = "flag"
<1>1. IInv /\ [Next]_vars => [P]_vars
  <2> SUFFICES ASSUME IInv, Next PROVE P
    OBVIOUS
  <2> USE DEF FlagLost
  <2>1. ASSUME NEW t \in Threads, Boot(t) PROVE P  BY <2>1 DEF Boot, IInv, TypeOK
  <2>2. ASSUME NEW t \in Threads, Connect(t) PROVE P
    BY <2>2 DEF Connect, Lock, Dial, SetSchema, Validate, RotateSecret, Store,
                Commit, ReadStation, Fail, Clear, Unlock, IInv, TypeOK
  <2>3. CASE Serve \/ Stop  BY <2>3 DEF Serve, Stop, Crash
  <2>4. CASE Request
    BY <2>4 DEF Request, BeforeHandle, ErrorCheck, AuthPost, SendSettings
  <2>5. CASE HandlerStep
    BY <2>5 DEF HandlerStep, CopyLast, ConnectAsync, Spawn, ConnectBusy, SetFlag,
                ReadFlag, Verdict, Statement, Catch, Catching, NullDeref, Crash,
                IInv, TypeOK
  <2>6. ASSUME NEW i \in Infos, ServerDown(i) \/ ServerUp(i) PROVE P
    BY <2>6 DEF ServerDown, ServerUp
  <2> QED  BY <2>1, <2>2, <2>3, <2>4, <2>5, <2>6 DEF Next
<1> QED  BY <1>1, Invariance, PTL DEF Spec, OnlyRestartMendsFlag

-----------------------------------------------------------------------------
(* Connection implements StationLink (its safety part).                    *)

\* The mapping depends only on these variables.
LEMMA MappingKept ==
  ASSUME UNCHANGED <<con, isconn, while_conn, pc, attempt>>,
         wpc' # "flag", wpc # "flag"
  PROVE  UNCHANGED <<LinkPending, LinkStation, FlagLost>>
  BY DEF LinkPending, LinkStation, Switching, FlagLost

\* The attempts under way stay the same if threads only move within connect.
LEMMA PendingKept ==
  ASSUME \A t \in Threads : Pending(t)' <=> Pending(t),
         \A t \in Threads : Pending(t) => attempt[t]' = attempt[t]
  PROVE  LinkPending' = LinkPending
  BY DEF LinkPending

LEMMA LinkInit == Init => Link!Init
  BY DEF Init, Link!Init, LinkPending, LinkStation, FlagLost

\* connect: its last assignment, while_conn = false, ends the abstract attempt.
LEMMA ConnectLink ==
  ASSUME IInv, NEW t \in Threads, Connect(t)
  PROVE  [Link!Next]_(Link!vars)
<1> USE DEF IInv, TypeOK, Link!vars, LinkStation, Switching, FlagLost
<1>1. CASE Clear(t)
  <2>1. LinkPending = {attempt[t]} /\ LinkPending' = {}
    BY <1>1 DEF Clear, LinkPending
  <2>2. LinkStation' \in {{}, {attempt[t]} \cap Stations}
    BY <1>1 DEF Clear
  <2>3. FlagLost = FALSE /\ FlagLost' = FALSE  BY <1>1 DEF Clear
  <2> QED  BY <2>1, <2>2, <2>3 DEF Link!Next, Link!Finish
<1>2. CASE ~Clear(t)
  <2>1. LinkPending' = LinkPending
    <3>1. \A s \in Threads : Pending(s)' <=> Pending(s)
      BY <1>2 DEF Connect, Lock, Dial, SetSchema, Validate, RotateSecret, Store,
                  Commit, ReadStation, Fail, Unlock
    <3>2. \A s \in Threads : Pending(s) => attempt[s]' = attempt[s]
      BY <1>2 DEF Connect, Lock, Dial, SetSchema, Validate, RotateSecret, Store,
                  Commit, ReadStation, Fail, Unlock
    <3> QED  BY <3>1, <3>2, PendingKept
  <2>2. FlagLost' = FlagLost
    BY <1>2 DEF Connect, Lock, Dial, SetSchema, Validate, RotateSecret, Store,
                Commit, ReadStation, Fail, Unlock
  <2>3. LinkStation' = LinkStation \/ LinkStation' = {}
    BY <1>2 DEF Connect, Lock, Dial, SetSchema, Validate, RotateSecret, Store,
                Commit, ReadStation, Fail, Unlock
  <2> QED  BY <2>1, <2>2, <2>3 DEF Link!Next, Link!Leave
<1> QED  BY <1>1, <1>2

\* The worker: an accepted connect_async starts the abstract attempt.
LEMMA HandlerLink ==
  ASSUME IInv, HandlerStep
  PROVE  [Link!Next]_(Link!vars)
<1> USE DEF IInv, TypeOK, Link!vars
<1>1. ASSUME NEW t \in Threads, ConnectAsync(t) PROVE Link!Try(winfo)
  <2>1. LinkPending = {} /\ LinkPending' = {winfo}
    BY <1>1 DEF ConnectAsync, Spawn, LinkPending
  <2>2. LinkStation' = LinkStation
    BY <1>1 DEF ConnectAsync, Spawn, LinkStation, Switching
  <2>3. FlagLost = FALSE /\ FlagLost' = FALSE
    BY <1>1 DEF ConnectAsync, Spawn, FlagLost
  <2> QED  BY <2>1, <2>2, <2>3 DEF Link!Try
<1>2. CASE SetFlag
  <2>1. UNCHANGED <<LinkPending, LinkStation>> /\ FlagLost = FALSE
    BY <1>2 DEF SetFlag, LinkPending, LinkStation, Switching, FlagLost
  <2>2. FlagLost' => LinkPending = {}
    BY <1>2 DEF SetFlag, LinkPending, FlagLost
  <2>3. FlagLost' \in BOOLEAN  BY DEF FlagLost
  <2> QED  BY <2>1, <2>2, <2>3 DEF Link!Next, Link!Jam
<1>3. CASE CopyLast \/ ConnectBusy \/ ReadFlag \/ Verdict
  BY <1>3, MappingKept DEF CopyLast, ConnectBusy, ReadFlag, Verdict
<1>4. ASSUME NEW h \in Handlers, Statement(h) PROVE UNCHANGED Link!vars
  BY <1>4, MappingKept DEF Statement, Catching
<1>5. ASSUME NEW h \in Handlers, Catch(h) PROVE [Link!Next]_(Link!vars)
  <2>1. UNCHANGED <<LinkPending, FlagLost>> /\ LinkStation' = {}
    BY <1>5 DEF Catch, Catching, LinkPending, LinkStation, FlagLost
  <2> QED  BY <2>1 DEF Link!Next, Link!Leave
<1>6. ASSUME NEW h \in Handlers, NullDeref(h) PROVE Link!Restart
  BY <1>6 DEF NullDeref, Crash, Link!Restart, LinkPending, LinkStation, FlagLost
<1>7. ASSUME NEW t \in Threads, ConnectAsync(t) PROVE Link!Next
  BY <1>1, <1>7 DEF Link!Next
<1> QED  BY <1>2, <1>3, <1>4, <1>5, <1>6, <1>7 DEF HandlerStep, Link!Next

\* The process, its requests and the servers.
LEMMA SurroundingsLink ==
  ASSUME IInv,
         \/ \E t \in Threads : Boot(t)
         \/ Serve \/ Stop \/ Request
         \/ \E i \in Infos : ServerDown(i) \/ ServerUp(i)
  PROVE  [Link!Next]_(Link!vars)
<1> USE DEF IInv, TypeOK, Link!vars
<1>1. ASSUME NEW t \in Threads, Boot(t) PROVE Link!Next
  <2>1. LinkPending = {} /\ LinkPending' = {mysql_db}
    BY <1>1 DEF Boot, LinkPending
  <2>2. LinkStation' = LinkStation  BY <1>1 DEF Boot, LinkStation, Switching
  <2>3. FlagLost = FALSE /\ FlagLost' = FALSE  BY <1>1 DEF Boot, FlagLost
  <2> QED  BY <2>1, <2>2, <2>3 DEF Link!Next, Link!Try
<1>2. CASE Serve  BY <1>2, MappingKept DEF Serve
<1>3. CASE Stop
  <2>1. Link!Restart
    BY <1>3 DEF Stop, Crash, Link!Restart, LinkPending, LinkStation, FlagLost
  <2> QED  BY <2>1 DEF Link!Next
<1>4. CASE Request
  BY <1>4, MappingKept DEF Request, BeforeHandle, ErrorCheck, AuthPost, SendSettings
<1>5. ASSUME NEW i \in Infos, ServerDown(i) \/ ServerUp(i) PROVE UNCHANGED Link!vars
  BY <1>5 DEF ServerDown, ServerUp, LinkPending, LinkStation, Switching, FlagLost
<1> QED  BY <1>1, <1>2, <1>3, <1>4, <1>5

\* Threads, mutex, flag and handlers behave like StationLink: one attempt at a
\* time, and no station but that of an attempt that has ended.
THEOREM Implements == Spec => Link!SafeSpec
<1>1. IInv /\ [Next]_vars => [Link!Next]_(Link!vars)
  <2> SUFFICES ASSUME IInv, [Next]_vars PROVE [Link!Next]_(Link!vars)
    OBVIOUS
  <2>1. CASE Next
    BY <2>1, ConnectLink, HandlerLink, SurroundingsLink DEF Next
  <2>2. CASE UNCHANGED vars
    BY <2>2 DEF vars, Link!vars, LinkPending, LinkStation, Switching, FlagLost
  <2> QED  BY <2>1, <2>2
<1> QED  BY <1>1, LinkInit, Invariance, PTL DEF Spec, Link!SafeSpec

=============================================================================
