--------------------------- MODULE ServiceProofs ---------------------------
(***************************************************************************)
(* Proofs about Service, for every set of requests, checks and servers.    *)
(* The parts of the service share only the context, so that the invariant  *)
(* of each is proved alone: the steps of the others leave its variables as *)
(* they are.                                                               *)
(***************************************************************************)
EXTENDS Service, FiniteSetTheorems, TLAPS

\* What sqlconn keeps: its types, and a check that uses an open database.
SQLInv == SQL!SQLTypeOK /\ SQL!CheckUsesOpenDB

\* The steps of the other parts.
LEMMA OthersKeepSQL ==
    ASSUME Next,
           ~BindDatabase,
           ~Disconnecter,
           \A r \in HealthRequests : ~DBCheckBegin(r) /\ ~DBCheckEnd(r)
    PROVE  UNCHANGED sqlVars
  <1>1. CASE Main
    BY <1>1 DEF Main, Configure, BindServer, Notify, Awake, Cancel, Stop
  <1>2. CASE Signal \/ ParentDone
    BY <1>2 DEF Signal, ParentDone
  <1>3. CASE \E s \in Servers : Server(s) \/ ServerFails(s)
    BY <1>3 DEF Server, ServerFails
  <1>4. CASE \E r \in HealthRequests : HealthAccept(r) \/ HealthStep(r)
    BY <1>4 DEF HealthAccept, HealthStep, OtherCheck, HealthAnswer
  <1>5. CASE \E r \in ExecRequests : ExecAccept(r) \/ ExecHandler(r) \/ ClientGone(r)
    BY <1>5 DEF ExecAccept, ExecHandler, ClientGone, GetDB, ExecBegin, ExecStep,
                ExecAnswer
  <1> QED
    BY <1>1, <1>2, <1>3, <1>4, <1>5 DEF Next

LEMMA SQLInvInit == Init => SQLInv
  BY DEF Init, SQLInv, SQL!SQLInit, SQL!SQLTypeOK, SQL!CheckUsesOpenDB

LEMMA SQLInvStep == SQLInv /\ [Next]_vars => SQLInv'
  <1> SUFFICES ASSUME SQLInv, [Next]_vars PROVE SQLInv'
    OBVIOUS
  <1> USE DEF SQLInv, SQL!SQLTypeOK, SQL!CheckUsesOpenDB
  <1>1. CASE BindDatabase
    BY <1>1 DEF BindDatabase, SQL!Connect, SQL!ConnectError, SQL!CheckError, SQL!sqlVars
  <1>2. CASE Disconnecter
    BY <1>2 DEF Disconnecter, SQL!DisconnectBegin, SQL!Disconnect
  <1>3. ASSUME NEW r \in HealthRequests, DBCheckBegin(r)
        PROVE  SQLInv'
    BY <1>3 DEF DBCheckBegin, SQL!CheckUnavailable, SQL!CheckBegin, SQL!sqlVars
  <1>4. ASSUME NEW r \in HealthRequests, DBCheckEnd(r)
        PROVE  SQLInv'
    BY <1>4 DEF DBCheckEnd, SQL!CheckEnd
  <1>5. CASE UNCHANGED sqlVars
    BY <1>5 DEF sqlVars
  <1>6. CASE UNCHANGED vars
    BY <1>6 DEF vars, sqlVars
  <1> QED
    BY <1>1, <1>2, <1>3, <1>4, <1>5, <1>6, OthersKeepSQL

\* sqlconn: whatever the number of checks in progress, disconnect does not
\* close the database under one of them.
THEOREM ChecksUseOpenDB == Spec => []CheckUsesOpenDB
  <1>1. SQLInv => CheckUsesOpenDB
    BY DEF SQLInv, CheckUsesOpenDB
  <1> QED
    BY SQLInvInit, SQLInvStep, <1>1, PTL DEF Spec

-----------------------------------------------------------------------------
(* sqltransaction *)

\* What is known of a transaction at each point of its call of Exec.  (It does
\* not matter what the database does, nor when the client goes.)
Unsettled(e) == tx[e] \in {"open", "rolled back"}
NotDone(e) == tx[e] \in {"none", "rolled back"}
DoneUnknown(e) == tx[e] = "committed" /\ answerLost[e]

TxInv ==
    /\ Tx!TxTypeOK
    /\ \A e \in ExecRequests :
          /\ exec[e] = "none" => tx[e] = "none"
          /\ exec[e] \in {"run", "commit"} => Unsettled(e)
          /\ exec[e] \in {"rollback error", "rollback panic"} =>
                Unsettled(e) \/ DoneUnknown(e)
          /\ exec[e] = "nil" => tx[e] = "committed"
          /\ exec[e] \in {"error", "panic"} => NotDone(e) \/ DoneUnknown(e)

LEMMA OthersKeepTx ==
    ASSUME Next,
           \A r \in ExecRequests : ~ExecBegin(r) /\ ~ExecStep(r) /\ ~ClientGone(r)
    PROVE  UNCHANGED txVars
  <1>1. CASE Main
    BY <1>1 DEF Main, Configure, BindDatabase, BindServer, Notify, Awake, Cancel,
                Stop, requestVars
  <1>2. CASE Signal \/ ParentDone \/ Disconnecter
    BY <1>2 DEF Signal, ParentDone, Disconnecter, requestVars
  <1>3. CASE \E s \in Servers : Server(s) \/ ServerFails(s)
    BY <1>3 DEF Server, ServerFails, requestVars
  <1>4. CASE \E r \in HealthRequests : HealthAccept(r) \/ HealthStep(r)
    BY <1>4 DEF HealthAccept, HealthStep, DBCheckBegin, DBCheckEnd, OtherCheck,
                HealthAnswer
  <1>5. CASE \E r \in ExecRequests : ExecAccept(r) \/ ExecHandler(r) \/ ClientGone(r)
    BY <1>5 DEF ExecAccept, ExecHandler, GetDB, ExecAnswer, requestVars
  <1> QED
    BY <1>1, <1>2, <1>3, <1>4, <1>5 DEF Next

LEMMA TxInvInit == Init => TxInv
  BY DEF Init, TxInv, Tx!TxInit, Tx!TxTypeOK

LEMMA TxInvStep == TxInv /\ [Next]_vars => TxInv'
  <1> SUFFICES ASSUME TxInv, [Next]_vars PROVE TxInv'
    OBVIOUS
  <1> USE DEF TxInv, Tx!TxTypeOK, Unsettled, NotDone, DoneUnknown
  <1>1. ASSUME NEW r \in ExecRequests, ExecBegin(r) PROVE TxInv'
    BY <1>1 DEF ExecBegin, Tx!BeginPanic, Tx!BeginError, Tx!Begin, Tx!Return
  <1>2. ASSUME NEW r \in ExecRequests, ExecStep(r) PROVE TxInv'
    <2>1. CASE Tx!Run(r)
      BY <2>1 DEF Tx!Run
    <2>2. CASE Tx!Commit(r)
      BY <2>2 DEF Tx!Commit, Tx!Return
    <2>3. CASE Tx!Rollback(r)
      BY <2>3 DEF Tx!Rollback, Tx!Return
    <2> QED
      BY <1>2, <2>1, <2>2, <2>3 DEF ExecStep, Tx!ExecStep
  <1>3. ASSUME NEW r \in ExecRequests, ClientGone(r) PROVE TxInv'
    BY <1>3 DEF ClientGone, Tx!ContextDone
  <1>4. CASE UNCHANGED txVars
    BY <1>4 DEF txVars
  <1>5. CASE UNCHANGED vars
    BY <1>5 DEF vars, txVars
  <1> QED
    BY <1>1, <1>2, <1>3, <1>4, <1>5, OthersKeepTx

\* sqltransaction: what Exec returns is what happened, whatever the function it
\* runs, the database and the client do, and however many calls there are.
THEOREM ExecReturnsOutcome == Spec => []ExecTellsOutcome
  <1>1. TxInv => ExecTellsOutcome
    BY DEF TxInv, Tx!TxTypeOK, ExecTellsOutcome, Tx!ExecTellsOutcome, Tx!Returned,
           Unsettled, NotDone, DoneUnknown
  <1> QED
    BY TxInvInit, TxInvStep, <1>1, PTL DEF Spec

-----------------------------------------------------------------------------
(* bootstrap and httpserver *)

\* Bootstrap and the servers keep their types, and a request whose handler has
\* a pointer to the database has been taken by a server.
ServerInv ==
    /\ main \in {"start", "bind database", "bind servers", "running", "cancel",
                 "done", "stopped", "failed"}
    /\ bound \in 0 .. Len(BindOrder)
    /\ quit \in BOOLEAN
    /\ ctxDone \in BOOLEAN
    /\ HTTP!ServerTypeOK
    /\ pointer \in [ExecRequests -> {"none", "nil", "handle"}]
    /\ \A r \in ExecRequests : pointer[r] # "none" => request[r] # "none"

LEMMA BindOrderSeq ==
    /\ Len(BindOrder) \in Nat
    /\ \A i \in 1 .. Len(BindOrder) : BindOrder[i] \in Servers
  <1>1. BindOrder \in Seq(Servers)
    BY ServiceAssumption
  <1> QED
    BY <1>1

LEMMA ServerInvInit == Init => ServerInv
  <1> SUFFICES ASSUME Init PROVE ServerInv
    OBVIOUS
  <1>1. bound \in 0 .. Len(BindOrder)
    BY BindOrderSeq DEF Init
  <1>2. HTTP!ServerTypeOK
    BY DEF Init, HTTP!ServerInit, HTTP!ServerTypeOK
  <1> QED
    BY <1>1, <1>2 DEF Init, ServerInv

\* The bounds of the number of servers that bindFn has started.
LEMMA NextServer ==
    ASSUME bound \in 0 .. Len(BindOrder), bound < Len(BindOrder)
    PROVE  bound + 1 \in 0 .. Len(BindOrder) /\ BindOrder[bound + 1] \in Servers
  <1>1. Len(BindOrder) \in Nat
    BY BindOrderSeq
  <1>2. bound + 1 \in 0 .. Len(BindOrder) /\ bound + 1 \in 1 .. Len(BindOrder)
    BY <1>1
  <1> QED
    BY <1>2, BindOrderSeq

LEMMA ServerTypeStep ==
    ASSUME HTTP!ServerTypeOK,
           NEW s \in Servers, HTTP!ServerStep(s) \/ HTTP!ServeFails(s)
    PROVE  HTTP!ServerTypeOK' /\ UNCHANGED request
  <1> USE DEF HTTP!ServerTypeOK
  <1>1. CASE HTTP!Serve(s)
    BY <1>1 DEF HTTP!Serve, HTTP!ServeReturns
  <1>2. CASE HTTP!ServeEnds(s) \/ HTTP!ServeFails(s)
    BY <1>2 DEF HTTP!ServeEnds, HTTP!ServeFails, HTTP!ServeReturns
  <1>3. CASE HTTP!ShutdownBegin(s)
    BY <1>3 DEF HTTP!ShutdownBegin
  <1>4. CASE HTTP!ShutdownDrained(s) \/ HTTP!ShutdownTimeout(s)
    BY <1>4 DEF HTTP!ShutdownDrained, HTTP!ShutdownTimeout
  <1> QED
    BY <1>1, <1>2, <1>3, <1>4 DEF HTTP!ServerStep

LEMMA RequestTypeStep ==
    ASSUME HTTP!ServerTypeOK,
           NEW r \in Requests, HTTP!Accept(r) \/ HTTP!Answer(r)
    PROVE  /\ HTTP!ServerTypeOK'
           /\ \A q \in Requests : request[q] # "none" => request'[q] # "none"
  BY DEF HTTP!ServerTypeOK, HTTP!Accept, HTTP!Answer

LEMMA ServerInvStep == SQLInv /\ ServerInv /\ [Next]_vars => ServerInv'
  <1> SUFFICES ASSUME SQLInv, ServerInv, [Next]_vars PROVE ServerInv'
    OBVIOUS
  <1> USE DEF ServerInv, requestVars, serverVars, bootVars
  <1>1. CASE Configure
    BY <1>1 DEF Configure, Goto, Fail, HTTP!ServerTypeOK
  <1>2. CASE BindDatabase
    BY <1>2 DEF BindDatabase, Goto, Fail, HTTP!ServerTypeOK
  <1>3. CASE BindServer
    <2>1. bound + 1 \in 0 .. Len(BindOrder) /\ BindOrder[bound + 1] \in Servers
      BY <1>3, NextServer DEF BindServer
    <2>2. CASE HTTP!Start(BindOrder[bound + 1])
      <3>1. HTTP!ServerTypeOK' /\ UNCHANGED request
        BY <2>1, <2>2 DEF HTTP!Start, HTTP!ServerTypeOK
      <3>2. bound' \in 0 .. Len(BindOrder)
        BY <1>3, <2>1 DEF BindServer, Fail
      <3>3. main' \in {main, "failed"} /\ quit' = quit /\ ctxDone' \in BOOLEAN
        BY <1>3 DEF BindServer, Fail
      <3> QED
        BY <1>3, <3>1, <3>2, <3>3 DEF BindServer
    <2>3. CASE HTTP!StartError(BindOrder[bound + 1]) /\ Fail
      BY <1>3, <2>3 DEF BindServer, HTTP!StartError, HTTP!serverVars, Fail,
                        HTTP!ServerTypeOK
    <2> QED
      BY <1>3, <2>2, <2>3 DEF BindServer
  <1>4. CASE Notify \/ Awake \/ Cancel \/ Stop
    BY <1>4 DEF Notify, Goto, Awake, Cancel, Stop, HTTP!ServerTypeOK
  <1>5. CASE Signal \/ ParentDone \/ Disconnecter
    BY <1>5 DEF Signal, ParentDone, Disconnecter, HTTP!ServerTypeOK
  <1>6. ASSUME NEW s \in Servers, Server(s) \/ ServerFails(s) PROVE ServerInv'
    BY <1>6, ServerTypeStep DEF Server, ServerFails
  <1>7. ASSUME NEW r \in HealthRequests, HealthAccept(r) \/ HealthAnswer(r)
        PROVE  ServerInv'
    BY <1>7, RequestTypeStep DEF HealthAccept, HealthAnswer, Requests
  <1>8. ASSUME NEW r \in ExecRequests, ExecAccept(r) \/ ExecAnswer(r)
        PROVE  ServerInv'
    BY <1>8, RequestTypeStep DEF ExecAccept, ExecAnswer, Requests
  <1>9. ASSUME NEW r \in ExecRequests, GetDB(r) PROVE ServerInv'
    <2>1. pointer' \in [ExecRequests -> {"none", "nil", "handle"}]
      BY <1>9 DEF GetDB, SQLInv, SQL!SQLTypeOK
    <2> QED
      BY <1>9, <2>1 DEF GetDB, HTTP!ServerTypeOK
  <1>10. CASE UNCHANGED <<bootVars, serverVars, pointer>>
    BY <1>10 DEF HTTP!ServerTypeOK
  <1>11. CASE UNCHANGED vars
    BY <1>11 DEF vars, HTTP!ServerTypeOK
  <1>12. ASSUME NEW r \in HealthRequests, HealthStep(r), ~HealthAnswer(r)
         PROVE  UNCHANGED <<bootVars, serverVars, pointer>>
    BY <1>12 DEF HealthStep, DBCheckBegin, DBCheckEnd, OtherCheck
  <1>13. ASSUME NEW r \in ExecRequests, ExecBegin(r) \/ ExecStep(r) \/ ClientGone(r)
         PROVE  UNCHANGED <<bootVars, serverVars, pointer>>
    BY <1>13 DEF ExecBegin, ExecStep, ClientGone
  <1> QED
    BY <1>1, <1>2, <1>3, <1>4, <1>5, <1>6, <1>7, <1>8, <1>9, <1>10, <1>11, <1>12,
       <1>13 DEF Next, Main, ExecHandler, HealthStep

-----------------------------------------------------------------------------
(* healthcheck *)

ResultType == [id : {ID[c] : c \in Checks}, err : {Health!Nil, Health!Error}]

\* The channel of results tells, once each, the checks that are done, and which
\* of them failed.
Tells(results, state, bad) ==
    /\ \A i \in 1 .. Len(results) : state[results[i].id] = "done"
    /\ \A i \in 1 .. Len(results) :
          results[i].err = Health!Error <=> results[i].id \in bad
    /\ \A i, j \in 1 .. Len(results) : results[i].id = results[j].id => i = j
    /\ \A c \in Checks : state[c] = "done" =>
          \E i \in 1 .. Len(results) : results[i].id = c

Truthful(r) ==
    /\ report[r].status = IF failing[r] = {} THEN Health!StatusOK
                                           ELSE Health!StatusServiceUnavailable
    /\ report[r].bad = failing[r]

HealthInv ==
    /\ Health!HealthTypeOK
    /\ \A r \in HealthRequests :
          /\ \A c \in failing[r] : check[r][c] = "done"
          /\ closed[r] => (\A c \in Checks : check[r][c] = "done") /\ Truthful(r)
          /\ ~closed[r] => /\ report[r].status = 0
                           /\ Tells(resCh[r], check[r], failing[r])

LEMMA ChecksCount == checksCount \in Nat
  BY FS_CardinalityType, ServiceAssumption DEF checksCount

LEMMA IDIsTheCheck == {ID[c] : c \in Checks} = Checks /\ \A c \in Checks : ID[c] = c
  BY DEF ID

LEMMA ResultFields ==
    ASSUME NEW result \in ResultType
    PROVE  result.id \in Checks /\ result.err \in {Health!Nil, Health!Error}
  <1>1. ResultType = [id : Checks, err : {Health!Nil, Health!Error}]
    BY IDIsTheCheck DEF ResultType
  <1> QED
    BY <1>1

\* One more result, of a check that had none, is one more check that is told of.
LEMMA TellsOneMore ==
    ASSUME NEW results \in Seq(ResultType),
           NEW state \in [Checks -> {"none", "running", "done"}],
           NEW bad \in SUBSET Checks, \A k \in bad : state[k] = "done",
           Tells(results, state, bad),
           NEW c \in Checks, state[c] = "running",
           NEW err \in {Health!Nil, Health!Error}
    PROVE  Tells(Append(results, [id |-> ID[c], err |-> err]),
                 [state EXCEPT ![c] = "done"],
                 IF err # Health!Nil THEN bad \cup {c} ELSE bad)
  <1> DEFINE new == [id |-> c, err |-> err]
             results1 == Append(results, new)
             state1 == [state EXCEPT ![c] = "done"]
             bad1 == IF err # Health!Nil THEN bad \cup {c} ELSE bad
             n == Len(results)
  <1>1. new \in ResultType /\ n \in Nat
    BY IDIsTheCheck DEF ResultType
  <1>2. /\ Len(results1) = n + 1
        /\ results1[n + 1] = new
        /\ \A i \in 1 .. n : results1[i] = results[i]
    BY <1>1
  <1>3. \A i \in 1 .. n : results[i].id \in Checks
    <2>1. \A i \in 1 .. n : results[i] \in ResultType
      OBVIOUS
    <2> QED
      BY <2>1, ResultFields
  <1>4. \A i \in 1 .. n : state[results[i].id] = "done" /\ results[i].id # c
    BY DEF Tells
  <1>5. \A i \in 1 .. n + 1 : i \in 1 .. n \/ i = n + 1
    BY <1>1
  <1>6. n + 1 \in 1 .. n + 1 /\ \A i \in 1 .. n : i \in 1 .. n + 1
    BY <1>1
  <1> HIDE DEF results1, n
  <1>7. \A i \in 1 .. n + 1 : state1[results1[i].id] = "done"
    BY <1>2, <1>3, <1>4, <1>5
  <1>8. ASSUME NEW i \in 1 .. n + 1
        PROVE  results1[i].err = Health!Error <=> results1[i].id \in bad1
    <2>1. CASE i \in 1 .. n
      <3>1. results[i].err = Health!Error <=> results[i].id \in bad
        BY <2>1 DEF Tells, n
      <3>2. results[i].id \in bad <=> results[i].id \in bad1
        BY <1>4, <2>1
      <3> QED
        BY <1>2, <2>1, <3>1, <3>2
    <2>2. CASE i = n + 1
      <3>1. results1[i].err = err /\ results1[i].id = c
        BY <1>2, <2>2
      <3>2. c \notin bad
        OBVIOUS
      <3> QED
        BY <3>1, <3>2 DEF Health!Nil, Health!Error
    <2> QED
      BY <1>5, <2>1, <2>2
  <1>9. ASSUME NEW i \in 1 .. n + 1, NEW j \in 1 .. n + 1,
               results1[i].id = results1[j].id
        PROVE  i = j
    <2>1. CASE i \in 1 .. n /\ j \in 1 .. n
      BY <1>2, <1>9, <2>1 DEF Tells, n
    <2>2. CASE i = n + 1 \/ j = n + 1
      BY <1>2, <1>4, <1>5, <1>9, <2>2
    <2> QED
      BY <1>5, <2>1, <2>2
  <1>10. ASSUME NEW k \in Checks, state1[k] = "done"
         PROVE  \E i \in 1 .. n + 1 : results1[i].id = k
    <2>1. CASE k = c
      BY <1>2, <1>6, <2>1
    <2>2. CASE k # c
      <3>1. PICK i \in 1 .. n : results[i].id = k
        BY <1>10, <2>2 DEF Tells, n
      <3> QED
        BY <1>2, <1>6, <3>1
    <2> QED
      BY <2>1, <2>2
  <1>11. Tells(results1, state1, bad1)
    BY <1>2, <1>7, <1>8, <1>9, <1>10 DEF Tells
  <1> QED
    BY <1>11, IDIsTheCheck DEF results1

\* When every check is done, what is read from the channel is the truth.
LEMMA BadIsFailing ==
    ASSUME NEW results \in Seq(ResultType), NEW state,
           NEW bad \in SUBSET Checks,
           Tells(results, state, bad), \A c \in Checks : state[c] = "done"
    PROVE  /\ Health!Bad(results) = bad
           /\ (\E i \in 1 .. Len(results) : results[i].err # Health!Nil) <=> bad # {}
  <1>1. Len(results) \in Nat
    OBVIOUS
  <1>2. \A i \in 1 .. Len(results) :
           results[i].id \in Checks /\ results[i].err \in {Health!Nil, Health!Error}
    <2>1. \A i \in 1 .. Len(results) : results[i] \in ResultType
      OBVIOUS
    <2> QED
      BY <2>1, ResultFields
  <1>3. \A i \in 1 .. Len(results) : results[i].err # Health!Nil <=> results[i].id \in bad
    BY <1>2 DEF Tells, Health!Nil, Health!Error
  <1>4. \A c \in Checks : \E i \in 1 .. Len(results) : results[i].id = c
    BY DEF Tells
  <1>5. \A i \in 1 .. Len(results) : \A j \in i + 1 .. Len(results) :
           results[j].id # results[i].id
    BY <1>1 DEF Tells
  <1>6. \A k \in Checks : k \in bad <=>
           \E i \in 1 .. Len(results) :
              /\ results[i].id = k
              /\ results[i].err # Health!Nil
              /\ \A j \in i + 1 .. Len(results) : results[j].id # k
    BY <1>3, <1>4, <1>5
  <1>7. Health!Bad(results) = bad
    BY <1>6, IDIsTheCheck DEF Health!Bad
  <1> QED
    BY <1>3, <1>4, <1>7

LEMMA OthersKeepHealth ==
    ASSUME Next,
           \A r \in HealthRequests : ~HealthAccept(r) /\ ~HealthStep(r)
    PROVE  UNCHANGED healthVars
  <1>1. CASE Main
    BY <1>1 DEF Main, Configure, BindDatabase, BindServer, Notify, Awake, Cancel,
                Stop, requestVars
  <1>2. CASE Signal \/ ParentDone \/ Disconnecter
    BY <1>2 DEF Signal, ParentDone, Disconnecter, requestVars
  <1>3. CASE \E s \in Servers : Server(s) \/ ServerFails(s)
    BY <1>3 DEF Server, ServerFails, requestVars
  <1>4. CASE \E r \in ExecRequests : ExecAccept(r) \/ ExecHandler(r) \/ ClientGone(r)
    BY <1>4 DEF ExecAccept, ExecHandler, GetDB, ExecBegin, ExecStep, ExecAnswer,
                ClientGone, requestVars
  <1> QED
    BY <1>1, <1>2, <1>3, <1>4 DEF Next

LEMMA HealthInvInit == Init => HealthInv
  <1> SUFFICES ASSUME Init PROVE HealthInv
    OBVIOUS
  <1> USE DEF Init, Health!HealthInit, Health!NoReport
  <1>1. checksCount \in Nat
    BY ChecksCount
  <1>2. Health!HealthTypeOK
    <2>1. resCh \in [HealthRequests -> Seq([id : {ID[c] : c \in Checks},
                                           err : {Health!Nil, Health!Error}])]
      OBVIOUS
    <2>2. \A r \in HealthRequests : Len(resCh[r]) <= checksCount
      BY <1>1
    <2>3. report \in [HealthRequests ->
             [status : {0, Health!StatusOK, Health!StatusServiceUnavailable},
              bad : SUBSET {ID[c] : c \in Checks}]]
      OBVIOUS
    <2> QED
      BY <2>1, <2>2, <2>3 DEF Health!HealthTypeOK
  <1>3. \A r \in HealthRequests : Tells(resCh[r], check[r], failing[r])
    BY DEF Tells
  <1> QED
    BY <1>2, <1>3 DEF HealthInv

\* The three steps of the handler.
LEMMA HealthServe ==
    ASSUME HealthInv, NEW r \in HealthRequests, Health!ServeHTTP(r)
    PROVE  HealthInv'
  <1> USE DEF Health!ServeHTTP
  <1>1. Health!HealthTypeOK'
    BY DEF HealthInv, Health!HealthTypeOK
  <1>2. \A q \in HealthRequests : q # r => check'[q] = check[q]
    BY DEF HealthInv, Health!HealthTypeOK
  <1>3. check'[r] = [c \in Checks |-> "running"]
    BY DEF HealthInv, Health!HealthTypeOK
  <1>4. failing[r] = {} /\ ~closed[r]
    BY ServiceAssumption DEF HealthInv, Health!HealthTypeOK
  <1>5. Tells(resCh[r], check'[r], failing[r])
    <2>1. \A i \in 1 .. Len(resCh[r]) : resCh[r][i].id \in Checks
      <3>1. resCh[r] \in Seq(ResultType)
        BY DEF HealthInv, Health!HealthTypeOK, ResultType
      <3>2. \A i \in 1 .. Len(resCh[r]) : resCh[r][i] \in ResultType
        BY <3>1
      <3> QED
        BY <3>2, ResultFields
    <2>2. \A i \in 1 .. Len(resCh[r]) : FALSE
      BY <1>4, <2>1 DEF HealthInv, Tells
    <2> QED
      BY <1>3, <2>2 DEF Tells
  <1>6. UNCHANGED <<resCh, closed, report, failing>>
    OBVIOUS
  <1> HIDE DEF Health!ServeHTTP
  <1>7. ASSUME NEW q \in HealthRequests
        PROVE  /\ \A c \in failing'[q] : check'[q][c] = "done"
               /\ closed'[q] => (\A c \in Checks : check'[q][c] = "done") /\ Truthful(q)'
               /\ ~closed'[q] => /\ report'[q].status = 0
                                 /\ Tells(resCh'[q], check'[q], failing'[q])
    <2>1. CASE q = r
      BY <1>4, <1>5, <1>6, <2>1 DEF HealthInv
    <2>2. CASE q # r
      BY <1>2, <1>6, <2>2 DEF HealthInv, Truthful
    <2> QED
      BY <2>1, <2>2
  <1> QED
    BY <1>1, <1>7 DEF HealthInv

LEMMA HealthSend ==
    ASSUME HealthInv, NEW r \in HealthRequests, NEW c \in Checks,
           NEW err \in {Health!Nil, Health!Error}, Health!SendResult(r, c, err)
    PROVE  HealthInv'
  <1> DEFINE result == [id |-> ID[c], err |-> err]
  <1>1. check \in [HealthRequests -> [Checks -> {"none", "running", "done"}]]
    BY DEF HealthInv, Health!HealthTypeOK
  <1>2. /\ resCh \in [HealthRequests -> Seq(ResultType)]
        /\ failing \in [HealthRequests -> SUBSET Checks]
    BY DEF HealthInv, Health!HealthTypeOK, ResultType
  <1>3. result \in ResultType
    BY DEF ResultType
  <1>4. /\ check' = [check EXCEPT ![r] = [check[r] EXCEPT ![c] = "done"]]
        /\ resCh' = [resCh EXCEPT ![r] = Append(resCh[r], result)]
        /\ failing' = [failing EXCEPT ![r] =
                         IF err # Health!Nil THEN failing[r] \cup {c} ELSE failing[r]]
        /\ UNCHANGED <<closed, report>>
    BY <1>1, <1>2 DEF Health!SendResult
  <1>5. /\ check'[r] = [check[r] EXCEPT ![c] = "done"]
        /\ resCh'[r] = Append(resCh[r], result)
        /\ failing'[r] = IF err # Health!Nil THEN failing[r] \cup {c} ELSE failing[r]
    BY <1>1, <1>2, <1>4
  <1>6. \A q \in HealthRequests : q # r =>
           check'[q] = check[q] /\ resCh'[q] = resCh[q] /\ failing'[q] = failing[q]
    BY <1>1, <1>2, <1>4
  <1>7. check[r][c] = "running" /\ Len(resCh[r]) < checksCount /\ ~closed[r]
    <2>1. check[r][c] = "running" /\ Len(resCh[r]) < checksCount
      BY DEF Health!SendResult
    <2>2. closed[r] => check[r][c] = "done"
      BY DEF HealthInv
    <2> QED
      BY <2>1, <2>2
  <1>8. Health!HealthTypeOK'
    <2>1. check' \in [HealthRequests -> [Checks -> {"none", "running", "done"}]]
      BY <1>1, <1>4
    <2>2. resCh' \in [HealthRequests -> Seq(ResultType)]
      <3>1. Append(resCh[r], result) \in Seq(ResultType)
        BY <1>2, <1>3
      <3> QED
        BY <1>2, <1>4, <3>1
    <2>3. \A q \in HealthRequests : Len(resCh'[q]) <= checksCount
      <3>1. checksCount \in Nat
        BY ChecksCount
      <3>2. resCh[r] \in Seq(ResultType)
        BY <1>2
      <3>3. Len(resCh'[r]) = Len(resCh[r]) + 1 /\ Len(resCh[r]) \in Nat
        BY <1>3, <1>5, <3>2
      <3>4. Len(resCh'[r]) <= checksCount
        BY <1>7, <3>1, <3>3
      <3>5. \A q \in HealthRequests : Len(resCh[q]) <= checksCount
        BY DEF HealthInv, Health!HealthTypeOK
      <3> QED
        BY <1>6, <3>4, <3>5
    <2>4. failing' \in [HealthRequests -> SUBSET Checks]
      BY <1>2, <1>4
    <2>5. UNCHANGED <<closed, report>>
      BY <1>4
    <2> HIDE DEF result
    <2> QED
      BY <2>1, <2>2, <2>3, <2>4, <2>5 DEF HealthInv, Health!HealthTypeOK, ResultType
  <1>9. \A k \in failing'[r] : check'[r][k] = "done"
    BY <1>1, <1>2, <1>5 DEF HealthInv
  <1>10. Tells(resCh'[r], check'[r], failing'[r])
    <2>1. resCh[r] \in Seq(ResultType) /\ failing[r] \in SUBSET Checks
      BY <1>2
    <2>2. check[r] \in [Checks -> {"none", "running", "done"}]
      BY <1>1
    <2>3. /\ Tells(resCh[r], check[r], failing[r])
          /\ \A k \in failing[r] : check[r][k] = "done"
      BY <1>7 DEF HealthInv
    <2> QED
      <3> DEFINE failing1 == IF err # Health!Nil THEN failing[r] \cup {c} ELSE failing[r]
      <3>1. Tells(Append(resCh[r], result), [check[r] EXCEPT ![c] = "done"], failing1)
        BY <1>7, <2>1, <2>2, <2>3, TellsOneMore
      <3> QED
        BY <1>5, <3>1
  <1>11. closed' = closed /\ report' = report
    BY <1>4
  <1> QED
    BY <1>6, <1>7, <1>8, <1>9, <1>10, <1>11 DEF HealthInv, Truthful

LEMMA HealthWrite ==
    ASSUME HealthInv, NEW r \in HealthRequests, Health!WriteResult(r)
    PROVE  HealthInv'
  <1> DEFINE status == IF \E i \in 1 .. Len(resCh[r]) : resCh[r][i].err # Health!Nil
                       THEN Health!StatusServiceUnavailable ELSE Health!StatusOK
  <1>1. /\ resCh \in [HealthRequests -> Seq(ResultType)]
        /\ closed \in [HealthRequests -> BOOLEAN]
        /\ failing \in [HealthRequests -> SUBSET Checks]
    BY DEF HealthInv, Health!HealthTypeOK, ResultType
  <1>2. report \in [HealthRequests ->
           [status : {0, Health!StatusOK, Health!StatusServiceUnavailable},
            bad : SUBSET Checks]]
    BY IDIsTheCheck DEF HealthInv, Health!HealthTypeOK
  <1>3. \A c \in Checks : check[r][c] = "done"
    BY DEF Health!WriteResult
  <1>4. /\ Health!Bad(resCh[r]) = failing[r]
        /\ (\E i \in 1 .. Len(resCh[r]) : resCh[r][i].err # Health!Nil) <=> failing[r] # {}
    <2>1. Tells(resCh[r], check[r], failing[r])
      BY DEF HealthInv, Health!WriteResult
    <2>2. resCh[r] \in Seq(ResultType) /\ failing[r] \in SUBSET Checks
      BY <1>1
    <2> QED
      BY <1>3, <2>1, <2>2, BadIsFailing
  <1>5. /\ report' = [report EXCEPT ![r] = [status |-> status, bad |-> failing[r]]]
        /\ resCh' = [resCh EXCEPT ![r] = <<>>]
        /\ closed' = [closed EXCEPT ![r] = TRUE]
        /\ UNCHANGED <<check, failing>>
    BY <1>4 DEF Health!WriteResult
  <1>6. /\ status \in {0, Health!StatusOK, Health!StatusServiceUnavailable}
        /\ status = IF failing[r] = {} THEN Health!StatusOK
                                      ELSE Health!StatusServiceUnavailable
    BY <1>4
  <1> HIDE DEF status
  <1>7. Health!HealthTypeOK'
    <2>1. report' \in [HealthRequests ->
             [status : {0, Health!StatusOK, Health!StatusServiceUnavailable},
              bad : SUBSET Checks]]
      <3>1. [status |-> status, bad |-> failing[r]] \in
               [status : {0, Health!StatusOK, Health!StatusServiceUnavailable},
                bad : SUBSET Checks]
        BY <1>1, <1>6
      <3> QED
        BY <1>2, <1>5, <3>1
    <2>2. /\ resCh' \in [HealthRequests -> Seq(ResultType)]
          /\ closed' \in [HealthRequests -> BOOLEAN]
      BY <1>1, <1>5
    <2>3. \A q \in HealthRequests : Len(resCh'[q]) <= checksCount
      <3>1. checksCount \in Nat
        BY ChecksCount
      <3>2. \A q \in HealthRequests : resCh'[q] = <<>> \/ resCh'[q] = resCh[q]
        BY <1>1, <1>5
      <3>3. \A q \in HealthRequests : Len(resCh[q]) <= checksCount
        BY DEF HealthInv, Health!HealthTypeOK
      <3>4. Len(<<>>) <= checksCount
        BY <3>1
      <3> QED
        BY <3>2, <3>3, <3>4
    <2>4. report' \in [HealthRequests ->
             [status : {0, Health!StatusOK, Health!StatusServiceUnavailable},
              bad : SUBSET {ID[c] : c \in Checks}]]
      BY <2>1, IDIsTheCheck
    <2>5. UNCHANGED <<check, failing>>
      BY <1>5
    <2> QED
      BY <2>2, <2>3, <2>4, <2>5 DEF HealthInv, Health!HealthTypeOK, ResultType
  <1>8. \A q \in HealthRequests : q # r =>
           report'[q] = report[q] /\ resCh'[q] = resCh[q] /\ closed'[q] = closed[q]
    BY <1>1, <1>2, <1>5
  <1>9. closed'[r] /\ Truthful(r)'
    <2>1. closed'[r] /\ report'[r] = [status |-> status, bad |-> failing[r]]
      BY <1>1, <1>2, <1>5
    <2> QED
      BY <1>5, <1>6, <2>1 DEF Truthful
  <1>10. check' = check /\ failing' = failing
    BY <1>5
  <1> QED
    BY <1>3, <1>7, <1>8, <1>9, <1>10 DEF HealthInv, Truthful

LEMMA HealthInvStep == HealthInv /\ [Next]_vars => HealthInv'
  <1> SUFFICES ASSUME HealthInv, [Next]_vars PROVE HealthInv'
    OBVIOUS
  <1>1. ASSUME NEW r \in HealthRequests, HealthAccept(r)
        PROVE  HealthInv'
    BY <1>1, HealthServe DEF HealthAccept
  <1>2. ASSUME UNCHANGED healthVars PROVE HealthInv'
    <2>1. Health!HealthTypeOK'
      BY <1>2 DEF healthVars, HealthInv, Health!HealthTypeOK
    <2> QED
      BY <1>2, <2>1 DEF healthVars, HealthInv, Truthful
  <1>3. ASSUME NEW r \in HealthRequests, DBCheckBegin(r) \/ DBCheckEnd(r)
        PROVE  HealthInv'
    <2>1. \/ UNCHANGED healthVars
          \/ \E err \in {Health!Nil, Health!Error} : Health!SendResult(r, DBCheck, err)
      BY <1>3 DEF DBCheckBegin, DBCheckEnd
    <2>2. DBCheck \in Checks
      BY ServiceAssumption
    <2> QED
      BY <1>2, <2>1, <2>2, HealthSend
  <1>4. ASSUME NEW r \in HealthRequests, NEW c \in Checks, OtherCheck(r, c)
        PROVE  HealthInv'
    BY <1>4, HealthSend DEF OtherCheck
  <1>5. ASSUME NEW r \in HealthRequests, HealthAnswer(r)
        PROVE  HealthInv'
    BY <1>5, HealthWrite DEF HealthAnswer
  <1>6. CASE UNCHANGED vars
    BY <1>2, <1>6 DEF vars
  <1> QED
    BY <1>1, <1>2, <1>3, <1>4, <1>5, <1>6, OthersKeepHealth DEF HealthStep

\* healthcheck: the answer to each request is true, whatever the number of
\* checks and the order in which they end.
THEOREM AnswersAreTrue == Spec => []ReportTellsFailures
  <1>1. HealthInv => ReportTellsFailures
    <2> SUFFICES ASSUME HealthInv, NEW r \in HealthRequests, Health!Written(r)
                 PROVE  /\ (report[r].status = Health!StatusServiceUnavailable)
                              = (failing[r] # {})
                        /\ report[r].bad = {ID[c] : c \in failing[r]}
      BY DEF ReportTellsFailures, Health!ReportTellsFailures
    <2>1. closed[r]
      BY DEF HealthInv, Health!Written
    <2>2. Truthful(r)
      BY <2>1 DEF HealthInv
    <2>3. failing[r] = {ID[c] : c \in failing[r]}
      BY IDIsTheCheck DEF HealthInv, Health!HealthTypeOK
    <2>4. (report[r].status = Health!StatusServiceUnavailable) <=> (failing[r] # {})
      BY <2>2 DEF Truthful, Health!StatusOK, Health!StatusServiceUnavailable
    <2> QED
      BY <2>2, <2>3, <2>4 DEF Truthful
  <1> QED
    BY HealthInvInit, HealthInvStep, <1>1, PTL DEF Spec

\* healthcheck: the handler never closes the channel of results before the last
\* check has sent its own, which would be a panic in that check.
THEOREM ChannelOutlivesChecks == Spec => []NoSendOnClosed
  <1>1. HealthInv => NoSendOnClosed
    BY DEF HealthInv, NoSendOnClosed, Health!NoSendOnClosed
  <1> QED
    BY HealthInvInit, HealthInvStep, <1>1, PTL DEF Spec

-----------------------------------------------------------------------------
(* The whole service *)

\* Every variable of the service, and of its parts, keeps its type.
THEOREM TypeCorrect == Spec => []TypeOK
  <1>1. SQLInv /\ TxInv /\ ServerInv /\ HealthInv => TypeOK
    BY DEF TypeOK, SQLInv, TxInv, ServerInv, HealthInv
  <1> QED
    BY SQLInvInit, SQLInvStep, TxInvInit, TxInvStep, ServerInvInit, ServerInvStep,
       HealthInvInit, HealthInvStep, <1>1, PTL DEF Spec
=============================================================================
