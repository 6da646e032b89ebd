---------------------------- MODULE HealthCheck ----------------------------
(***************************************************************************)
(* pkg/healthcheck: the Handler, serving requests.  ServeHTTP runs every   *)
(* check in a goroutine of its own, waits for all of them on a WaitGroup,  *)
(* then reads their results from a buffered channel and closes it.         *)
(*                                                                         *)
(* A component of Service, which says what each check does.                *)
(***************************************************************************)
EXTENDS Naturals, Sequences

CONSTANTS Requests,         \* the requests for the health of the service
          Checks,           \* the checks of the Handler
          checksCount,      \* their number, the capacity of the channels
          ID                \* [Checks -> the identifier of the check]

VARIABLES check,            \* [Requests -> [Checks -> where its goroutine is]]
          resCh,            \* [Requests -> the channel of results]
          closed,           \* [Requests -> resCh is closed]
          report,           \* [Requests -> what the handler has written]
          failing           \* history: [Requests -> the checks that failed]

healthVars == <<check, resCh, closed, report, failing>>

Nil == "nil"                \* a check returned no error
Error == "error"

StatusOK == 200
StatusServiceUnavailable == 503

NoReport == [status |-> 0, bad |-> {}]

HealthInit ==
    /\ check = [r \in Requests |-> [c \in Checks |-> "none"]]
    /\ resCh = [r \in Requests |-> <<>>]
    /\ closed = [r \in Requests |-> FALSE]
    /\ report = [r \in Requests |-> NoReport]
    /\ failing = [r \in Requests |-> {}]

\* ServeHTTP starts the checks.
ServeHTTP(r) ==
    /\ \A c \in Checks : check[r][c] = "none"
    /\ check' = [check EXCEPT ![r] = [c \in Checks |-> "running"]]
    /\ UNCHANGED <<resCh, closed, report, failing>>

\* The buffer has room for all the checks but one.
SendResult_ShortBuffer(r, c, err) ==
    /\ check[r][c] = "running"
    /\ Len(resCh[r]) < checksCount - 1
    /\ check' = [check EXCEPT ![r][c] = "done"]
    /\ resCh' = [resCh EXCEPT ![r] = Append(@, [id |-> ID[c], err |-> err])]
    /\ failing' = [failing EXCEPT ![r] = IF err # Nil THEN @ \cup {c} ELSE @]
    /\ UNCHANGED <<closed, report>>

\* A check returns: its goroutine sends the result (the buffer has room for
\* every check), then runs the deferred wg.Done.
SendResult(r, c, err) ==
    /\ check[r][c] = "running"
    /\ Len(resCh[r]) < checksCount
    /\ check' = [check EXCEPT ![r][c] = "done"]
    /\ resCh' = [resCh EXCEPT ![r] = Append(@, [id |-> ID[c], err |-> err])]
    /\ failing' = [failing EXCEPT ![r] = IF err # Nil THEN @ \cup {c} ELSE @]
    /\ UNCHANGED <<closed, report>>

\* The results in the channel, as data: the identifiers with an error.  A later
\* result overwrites an earlier one of the same identifier.
Bad(results) ==
    {ID[c] : c \in {k \in Checks :
       \E i \in 1 .. Len(results) :
          /\ results[i].id = ID[k]
          /\ results[i].err # Nil
          /\ \A j \in i + 1 .. Len(results) : results[j].id # ID[k]}}

\* ServeHTTP does not wait for the last check.
WriteResult_NoWait(r) ==
    /\ \A c \in Checks : check[r][c] # "none"
    /\ \E c \in Checks : check[r][c] = "done"
    /\ ~closed[r]
    /\ report' = [report EXCEPT ![r] =
          [status |-> IF \E i \in 1 .. Len(resCh[r]) : resCh[r][i].err # Nil
                      THEN StatusServiceUnavailable ELSE StatusOK,
           bad |-> Bad(resCh[r])]]
    /\ resCh' = [resCh EXCEPT ![r] = <<>>]
    /\ closed' = [closed EXCEPT ![r] = TRUE]
    /\ UNCHANGED <<check, failing>>

\* The status is that of the last result.
WriteResult_LastStatus(r) ==
    /\ \A c \in Checks : check[r][c] = "done"
    /\ ~closed[r]
    /\ report' = [report EXCEPT ![r] =
          [status |-> IF resCh[r] # <<>> /\ resCh[r][Len(resCh[r])].err # Nil
                      THEN StatusServiceUnavailable ELSE StatusOK,
           bad |-> Bad(resCh[r])]]
    /\ resCh' = [resCh EXCEPT ![r] = <<>>]
    /\ closed' = [closed EXCEPT ![r] = TRUE]
    /\ UNCHANGED <<check, failing>>

\* wg.Wait returns: ServeHTTP drains the channel, writes the status and the
\* data, and closes the channel.
WriteResult(r) ==
    /\ \A c \in Checks : check[r][c] = "done"
    /\ ~closed[r]
    /\ report' = [report EXCEPT ![r] =
          [status |-> IF \E i \in 1 .. Len(resCh[r]) : resCh[r][i].err # Nil
                      THEN StatusServiceUnavailable ELSE StatusOK,
           bad |-> Bad(resCh[r])]]
    /\ resCh' = [resCh EXCEPT ![r] = <<>>]
    /\ closed' = [closed EXCEPT ![r] = TRUE]
    /\ UNCHANGED <<check, failing>>

Written(r) == report[r].status # 0

\* Every variable keeps its type, and the results fit in the channel.
HealthTypeOK ==
    /\ check \in [Requests -> [Checks -> {"none", "running", "done"}]]
    /\ resCh \in [Requests -> Seq([id : {ID[c] : c \in Checks}, err : {Nil, Error}])]
    /\ \A r \in Requests : Len(resCh[r]) <= checksCount
    /\ closed \in [Requests -> BOOLEAN]
    /\ report \in [Requests -> [status : {0, StatusOK, StatusServiceUnavailable},
                                bad : SUBSET {ID[c] : c \in Checks}]]
    /\ failing \in [Requests -> SUBSET Checks]

\* The answer tells the truth: its status is "unavailable" when, and only when,
\* a check of this request failed, whatever the order in which they ended, and
\* the data name the checks that did.
ReportTellsFailures ==
    \A r \in Requests : Written(r) =>
       /\ (report[r].status = StatusServiceUnavailable) = (failing[r] # {})
       /\ report[r].bad = {ID[c] : c \in failing[r]}

\* No check sends its result on the closed channel, which would panic.
NoSendOnClosed ==
    \A r \in Requests : closed[r] => \A c \in Checks : check[r][c] # "running"
=============================================================================
