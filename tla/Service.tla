------------------------------ MODULE Service ------------------------------
(***************************************************************************)
(* A service built on the library: pkg/bootstrap runs the function that    *)
(* binds its parts, waits for a signal or for the end of the context, and  *)
(* returns.  The binding is that of the example service (a monitoring and  *)
(* a public HTTP server), with the database connection and the health      *)
(* check of it that the example leaves to the reader.  A monitoring        *)
(* request asks for the health of the service, a public one runs a         *)
(* transaction.                                                            *)
(*                                                                         *)
(* The parts share one thing, the application context.  Nothing ends the   *)
(* process here: the caller of Bootstrap, and the goroutines that the      *)
(* parts have started, go on.                                              *)
(***************************************************************************)
EXTENDS Naturals, Sequences, FiniteSets

CONSTANTS HealthRequests,   \* bound of the model: requests of the monitoring
          ExecRequests,     \* bound of the model: requests of the public server
          Checks,           \* the health checks; DBCheck is that of the database
          DBCheck,
          Servers,          \* the HTTP servers
          BindOrder,        \* bindFn starts them in this order
          ServerOf          \* [Requests -> the server that a request goes to]

Requests == HealthRequests \cup ExecRequests

ASSUME ServiceAssumption ==
    /\ HealthRequests \cap ExecRequests = {}
    /\ BindOrder \in Seq(Servers)
    /\ Len(BindOrder) = Cardinality(Servers)
    /\ \A s \in Servers : \E i \in 1 .. Len(BindOrder) : BindOrder[i] = s
    /\ ServerOf \in [Requests -> Servers]
    /\ DBCheck \in Checks
    /\ IsFiniteSet(Checks)

ID == [c \in Checks |-> c]  \* "a unique identifier for the healthcheck"

checksCount == Cardinality(Checks)

VARIABLES
    main,           \* where Bootstrap is
    bound,          \* how many servers bindFn has started
    quit,           \* the channel of signals holds one
    ctxDone,        \* the application context is done
    \* the parts
    handle, db, readers, disconnecting,             \* SQLConn
    listener, serving, stopping, request,           \* HTTPServer
    check, resCh, closed, report, failing,          \* HealthCheck
    exec, tx, answerLost,                           \* SQLTransaction
    pointer         \* [ExecRequests -> what DB() returned to the handler]

SQL == INSTANCE SQLConn WITH Users <- HealthRequests
HTTP == INSTANCE HTTPServer
Health == INSTANCE HealthCheck WITH Requests <- HealthRequests
Tx == INSTANCE SQLTransaction WITH Execs <- ExecRequests

bootVars == <<main, bound, quit, ctxDone>>
sqlVars == <<handle, db, readers, disconnecting>>
serverVars == <<listener, serving, stopping, request>>
healthVars == <<check, resCh, closed, report, failing>>
txVars == <<exec, tx, answerLost>>
vars == <<bootVars, sqlVars, serverVars, healthVars,
          txVars, pointer>>

Init ==
    /\ main = "start"
    /\ bound = 0
    /\ quit = FALSE
    /\ ctxDone = FALSE
    /\ SQL!SQLInit
    /\ HTTP!ServerInit
    /\ Health!HealthInit
    /\ Tx!TxInit
    /\ pointer = [r \in ExecRequests |-> "none"]

\* Bootstrap itself moves: the requests, and what they use, do not.
requestVars == <<healthVars, txVars, pointer>>

-----------------------------------------------------------------------------
(* Bootstrap *)

\* Bootstrap returns an error: the deferred cancel ends the context.
Fail ==
    /\ main' = "failed"
    /\ ctxDone' = TRUE
    /\ UNCHANGED <<bound, quit>>

Goto(l) ==
    /\ main' = l
    /\ UNCHANGED <<bound, quit, ctxDone>>

\* The metrics client and the logger are created.
Configure ==
    /\ main = "start"
    /\ Goto("bind database") \/ Fail
    /\ UNCHANGED <<sqlVars, serverVars, requestVars>>

\* bindFn, one part at a time: the database, then each server.
BindDatabase ==
    /\ main = "bind database"
    /\ \/ SQL!Connect /\ Goto("bind servers")
       \/ SQL!ConnectError /\ Fail
       \/ SQL!CheckError /\ Fail
    /\ UNCHANGED <<serverVars, requestVars>>

BindServer ==
    /\ main = "bind servers"
    /\ bound < Len(BindOrder)
    /\ \/ /\ HTTP!Start(BindOrder[bound + 1])
          /\ bound' = bound + 1
          /\ UNCHANGED <<main, quit, ctxDone>>
       \/ HTTP!StartError(BindOrder[bound + 1]) /\ Fail
    /\ UNCHANGED <<sqlVars, requestVars>>

\* bindFn returns nil: signal.Notify, and the goroutine that waits for a signal
\* or for the end of the context.
Notify ==
    /\ main = "bind servers"
    /\ bound = Len(BindOrder)
    /\ Goto("running")
    /\ UNCHANGED <<sqlVars, serverVars, requestVars>>

\* A signal comes, and the channel has room for one.  (Before signal.Notify a
\* signal ends the process; nobody reads those that come after this one.)
Signal ==
    /\ main = "running"
    /\ quit' = TRUE
    /\ UNCHANGED <<main, bound, ctxDone, sqlVars, serverVars, requestVars>>

\* The goroutine: a signal, or the end of the context.
Awake ==
    /\ main = "running"
    /\ quit \/ ctxDone
    /\ main' = "cancel"
    /\ quit' = FALSE
    /\ UNCHANGED <<bound, ctxDone, sqlVars, serverVars, requestVars>>

\* The goroutine cancels the context and closes done.
Cancel ==
    /\ main = "cancel"
    /\ main' = "done"
    /\ ctxDone' = TRUE
    /\ UNCHANGED <<bound, quit, sqlVars, serverVars, requestVars>>

\* Bootstrap says "application stopped" and returns nil, which cancels again.
Stop ==
    /\ main = "done"
    /\ main' = "stopped"
    /\ ctxDone' = TRUE
    /\ UNCHANGED <<bound, quit, sqlVars, serverVars, requestVars>>

\* The context that the caller gave to Bootstrap (WithContext) is done.
ParentDone ==
    /\ ~ctxDone
    /\ ctxDone' = TRUE
    /\ UNCHANGED <<main, bound, quit, sqlVars, serverVars, requestVars>>

Main == Configure \/ BindDatabase \/ BindServer \/ Notify \/ Awake \/ Cancel \/ Stop

-----------------------------------------------------------------------------
(* The goroutines of the parts *)

Server(s) ==
    /\ HTTP!ServerStep(s)
    /\ UNCHANGED <<bootVars, sqlVars, requestVars>>

ServerFails(s) ==
    /\ HTTP!ServeFails(s)
    /\ UNCHANGED <<bootVars, sqlVars, requestVars>>

Disconnecter ==
    /\ SQL!DisconnectBegin \/ SQL!Disconnect
    /\ UNCHANGED <<bootVars, serverVars, requestVars>>

-----------------------------------------------------------------------------
(* A request for the health of the service *)

HealthAccept(r) ==
    /\ HTTP!Accept(r)
    /\ Health!ServeHTTP(r)
    /\ UNCHANGED <<bootVars, sqlVars, txVars, pointer>>

\* The check of the database, by SQLConn.HealthCheck.
DBCheckBegin(r) ==
    /\ check[r][DBCheck] = "running"
    /\ \/ /\ SQL!CheckUnavailable
          /\ Health!SendResult(r, DBCheck, Health!Error)
       \/ /\ r \notin readers
          /\ SQL!CheckBegin(r)
          /\ UNCHANGED healthVars
    /\ UNCHANGED <<bootVars, serverVars, txVars, pointer>>

DBCheckEnd(r) ==
    /\ SQL!CheckEnd(r)
    /\ \E err \in {Health!Nil, Health!Error} : Health!SendResult(r, DBCheck, err)
    /\ UNCHANGED <<bootVars, serverVars, txVars, pointer>>

\* Any other check, of a service that is not ours.
OtherCheck(r, c) ==
    /\ c # DBCheck
    /\ \E err \in {Health!Nil, Health!Error} : Health!SendResult(r, c, err)
    /\ UNCHANGED <<bootVars, sqlVars, serverVars, txVars, pointer>>

HealthAnswer(r) ==
    /\ Health!WriteResult(r)
    /\ HTTP!Answer(r)
    /\ UNCHANGED <<bootVars, sqlVars, txVars, pointer>>

HealthStep(r) ==
    \/ DBCheckBegin(r)
    \/ DBCheckEnd(r)
    \/ \E c \in Checks : OtherCheck(r, c)
    \/ HealthAnswer(r)

-----------------------------------------------------------------------------
(* A request that runs a transaction *)

ExecAccept(r) ==
    /\ HTTP!Accept(r)
    /\ UNCHANGED <<bootVars, sqlVars, requestVars>>

\* The handler calls DB, and keeps the pointer.
GetDB(r) ==
    /\ request[r] = "active"
    /\ pointer[r] = "none"
    /\ SQL!Readable
    /\ pointer' = [pointer EXCEPT ![r] = db]
    /\ UNCHANGED <<bootVars, sqlVars, serverVars, healthVars,
                   txVars>>

\* The handler calls Exec with it: the handle may be closed by now.
ExecBegin(r) ==
    /\ \/ pointer[r] = "nil" /\ Tx!BeginPanic(r)
       \/ pointer[r] = "handle" /\ Tx!BeginError(r)
       \/ pointer[r] = "handle" /\ handle = "open" /\ Tx!Begin(r)
    /\ UNCHANGED <<bootVars, sqlVars, serverVars, healthVars,
                   pointer>>

ExecStep(r) ==
    /\ Tx!ExecStep(r)
    /\ UNCHANGED <<bootVars, sqlVars, serverVars, healthVars,
                   pointer>>

\* The client of the request is gone.
ClientGone(r) ==
    /\ Tx!ContextDone(r)
    /\ UNCHANGED <<bootVars, sqlVars, serverVars, healthVars,
                   pointer>>

ExecAnswer(r) ==
    /\ Tx!Returned(r)
    /\ HTTP!Answer(r)
    /\ UNCHANGED <<bootVars, sqlVars, requestVars>>

ExecHandler(r) == GetDB(r) \/ ExecBegin(r) \/ ExecStep(r) \/ ExecAnswer(r)

-----------------------------------------------------------------------------

Next ==
    \/ Main
    \/ Signal
    \/ ParentDone
    \/ Disconnecter
    \/ \E s \in Servers : Server(s) \/ ServerFails(s)
    \/ \E r \in HealthRequests : HealthAccept(r) \/ HealthStep(r)
    \/ \E r \in ExecRequests : ExecAccept(r) \/ ExecHandler(r) \/ ClientGone(r)

Spec == Init /\ [][Next]_vars

\* Every goroutine runs.  A check and a function that runs in a transaction
\* return: the check of the database has a timeout, the others are asked to.
\* Nobody has to send a request or a signal.  (A reader that waits for the lock
\* of the connection gets it: the writer comes once.)
Fairness ==
    /\ WF_vars(Main)
    /\ WF_vars(Disconnecter)
    /\ \A s \in Servers : WF_vars(Server(s))
    /\ \A r \in HealthRequests : WF_vars(HealthStep(r))
    /\ \A r \in ExecRequests : WF_vars(ExecHandler(r))

FairSpec == Spec /\ Fairness

-----------------------------------------------------------------------------
(* Properties *)

\* The variables of Bootstrap and of the parts keep their types, and a request
\* has a pointer to the database only when its handler has begun.
TypeOK ==
    /\ main \in {"start", "bind database", "bind servers", "running", "cancel",
                 "done", "stopped", "failed"}
    /\ bound \in 0 .. Len(BindOrder)
    /\ quit \in BOOLEAN
    /\ ctxDone \in BOOLEAN
    /\ SQL!SQLTypeOK
    /\ HTTP!ServerTypeOK
    /\ Health!HealthTypeOK
    /\ Tx!TxTypeOK
    /\ pointer \in [ExecRequests -> {"none", "nil", "handle"}]
    /\ \A r \in ExecRequests : pointer[r] # "none" => request[r] # "none"

\* SQLConn: the end of the context never closes the database under a check.
CheckUsesOpenDB == SQL!CheckUsesOpenDB

\* healthcheck: the answer to a request for the health of the service is true.
ReportTellsFailures == Health!ReportTellsFailures

\* healthcheck: no check sends on a closed channel.
NoSendOnClosed == Health!NoSendOnClosed

\* sqltransaction: Exec returns what happened, and leaves nothing open.
ExecTellsOutcome == Tx!ExecTellsOutcome

\* What the service holds is given back: no server listens or runs, the field of
\* SQLConn is empty, and the handle of the database, if one was opened, is closed.
\* The exception is the handle of a Connect that failed its check, in a Bootstrap
\* that failed with it: sqlconn.go:130-132 returns without closing it.
Released ==
    /\ main \in {"stopped", "failed"}
    /\ \A s \in Servers : HTTP!Over(s)
    /\ db = "nil"
    /\ disconnecting \in {"none", "done"}
    /\ handle # "open" \/ (main = "failed" /\ SQL!Leaked)

\* A signal, the end of the context or an error in the middle of the binding:
\* what has been started by then is stopped, all of it, and what Connect has
\* returned is closed.  It is not said that Bootstrap waits for it (it does not,
\* see StoppedIsStopped), nor that a database that failed its check is closed.
EverythingStops ==
    (quit \/ ctxDone \/ main \in {"stopped", "failed"}) ~> Released

\* A request that a server has taken is answered, also when the service is being
\* stopped, and its connection to the database closed, in the meantime.
TakenIsAnswered ==
    \A r \in Requests : (request[r] = "active") ~> (request[r] = "answered")

\* Bootstrap says "application stopped" when it is: the servers have been shut
\* down, and no request is in progress.  It does not hold: servers still drain.
StoppedIsStopped ==
    main = "stopped" =>
       /\ \A s \in Servers : HTTP!Over(s)
       /\ \A r \in Requests : request[r] # "active"
=============================================================================
