----------------------------- MODULE MySQLLock -----------------------------
(***************************************************************************)
(* pkg/mysqllock: the callers of Acquire on one MySQLLock, for one key.    *)
(*                                                                         *)
(* Acquire takes a connection (a MySQL session) out of the pool of the     *)
(* sql.DB, asks the server for the lock with GET_LOCK, and keeps the       *)
(* connection as long as it holds the lock: the lock belongs to the        *)
(* session.  A goroutine runs a query on the connection from time to time, *)
(* lest the server end an idle session.  The function returned to release  *)
(* the lock runs RELEASE_LOCK, cancels the goroutine's context and gives   *)
(* the connection back.                                                    *)
(*                                                                         *)
(* Outside src/: the server (sessions, re-entrant user locks, the end of   *)
(* idle sessions) and database/sql (the pool; the operations on a          *)
(* connection exclude each other, and Close waits for open rows).          *)
(*                                                                         *)
(* A definition whose name holds an underscore is a mutant: the definition *)
(* named before the underscore with one plausible mistake in it.           *)
(***************************************************************************)
EXTENDS Integers, FiniteSets

CONSTANTS Clients,            \* the callers of Acquire
          MaxSessions,        \* bound of the model: sessions known at a time
          MaxCount,           \* bound of the model: locks on one session
          KeepAliveInterval,  \* keepAliveInterval, in ticks
          WaitTimeout,        \* the server ends a session idle for so long
          MaxKinds            \* bound of the model: kinds of failure at a time

\* The failures that the properties tell apart.
SessionLost == "session lost"       \* the connection to the server is lost
ReleaseFails == "release fails"     \* RELEASE_LOCK fails, the session is fine
KeepAliveFails == "keep-alive fails" \* one query fails, the session is fine

ASSUME MySQLLockAssumption ==
    /\ MaxSessions \in Nat \ {0}
    /\ MaxCount \in Nat \ {0}
    /\ KeepAliveInterval \in Nat \ {0}
    /\ WaitTimeout \in Nat
    /\ KeepAliveInterval < WaitTimeout

Sessions == 1 .. MaxSessions
NoSession == 0

VARIABLES
    \* the server
    alive,      \* the sessions that the server knows
    owner,      \* the session that owns the lock, or NoSession
    count,      \* how many times it has acquired it
    idle,       \* [Sessions -> ticks since its last statement]
    \* database/sql
    pool,       \* the sessions whose connections are free
    \* the callers and their keep-alive goroutines
    pc,         \* [Clients -> where the caller is]
    conn,       \* [Clients -> the session of its connection]
    ctxDone,    \* [Clients -> releaseCtx is cancelled]
    keep,       \* [Clients -> where keepConnectionAlive is]
    elapsed,    \* [Clients -> ticks that its timer has counted]
    failed      \* history: the kinds of failure there have been

server == <<alive, owner, count, idle>>
goroutine == <<keep, elapsed>>
vars == <<server, pool, pc, conn, ctxDone, goroutine, failed>>

Init ==
    /\ alive = {}
    /\ owner = NoSession
    /\ count = 0
    /\ idle = [s \in Sessions |-> 0]
    /\ pool = {}
    /\ pc = [c \in Clients |-> "out"]
    /\ conn = [c \in Clients |-> NoSession]
    /\ ctxDone = [c \in Clients |-> FALSE]
    /\ keep = [c \in Clients |-> "none"]
    /\ elapsed = [c \in Clients |-> 0]
    /\ failed = {}

\* A failure happens.
Fails(f) ==
    /\ failed' = failed \cup {f}
    /\ Cardinality(failed') <= MaxKinds

-----------------------------------------------------------------------------
(* The server *)

\* The session s ends: its lock is free.
EndSession(s) ==
    /\ alive' = alive \ {s}
    /\ owner' = IF owner = s THEN NoSession ELSE owner
    /\ count' = IF owner = s THEN 0 ELSE count

\* The server ends a session that has been idle too long.
Expire(s) ==
    /\ s \in alive
    /\ idle[s] = WaitTimeout
    /\ EndSession(s)
    /\ UNCHANGED <<idle, pool, pc, conn, ctxDone, goroutine, failed>>

\* A connection is lost, and the server ends its session.
Lose(s) ==
    /\ s \in alive
    /\ EndSession(s)
    /\ Fails(SessionLost)
    /\ UNCHANGED <<idle, pool, pc, conn, ctxDone, goroutine>>

\* Time passes, except while a query is in flight or a keep-alive is due.
Busy(s) == \E c \in Clients : conn[c] = s /\ pc[c] \in {"get", "release"}

Tick ==
    /\ \A c \in Clients :
          \/ keep[c] = "none"
          \/ keep[c] = "sleep" /\ elapsed[c] < KeepAliveInterval
    /\ idle' = [s \in Sessions |->
                  IF s \notin alive \/ Busy(s) THEN 0
                  ELSE IF idle[s] < WaitTimeout THEN idle[s] + 1
                  ELSE WaitTimeout]
    /\ elapsed' = [c \in Clients |->
                     IF keep[c] = "sleep" THEN elapsed[c] + 1 ELSE 0]
    /\ UNCHANGED <<alive, owner, count, pool, pc, conn, ctxDone, keep, failed>>

-----------------------------------------------------------------------------
(* Acquire *)

\* Conn: a free connection, or a new one.  (Of a caller that has acquired the
\* lock before, the goroutine has ended: one that has not only has a closed
\* connection left, and a context that is done.)
Acquire(c) ==
    /\ pc[c] = "out"
    /\ keep[c] = "none"
    /\ \E s \in Sessions :
          /\ IF pool \cap alive # {} THEN s \in pool \cap alive
             ELSE s \notin alive /\ \A d \in Clients : conn[d] # s
          /\ alive' = alive \cup {s}
          /\ pool' = pool \ {s}
          /\ idle' = [idle EXCEPT ![s] = 0]
          /\ conn' = [conn EXCEPT ![c] = s]
    /\ pc' = [pc EXCEPT ![c] = "get"]
    /\ UNCHANGED <<owner, count, ctxDone, goroutine, failed>>

\* No goroutine is started to keep the connection alive.
GetLockAcquired_NoKeepAlive(c) ==
    /\ pc[c] = "get"
    /\ conn[c] \in alive
    /\ owner \in {NoSession, conn[c]}
    /\ count < MaxCount
    /\ owner' = conn[c]
    /\ count' = count + 1
    /\ idle' = [idle EXCEPT ![conn[c]] = 0]
    /\ ctxDone' = [ctxDone EXCEPT ![c] = FALSE]
    /\ pc' = [pc EXCEPT ![c] = "held"]
    /\ UNCHANGED <<alive, pool, conn, goroutine, failed>>

\* GET_LOCK returns 1: Acquire starts the goroutine and returns releaseFunc.
GetLockAcquired(c) ==
    /\ pc[c] = "get"
    /\ conn[c] \in alive
    /\ owner \in {NoSession, conn[c]}
    /\ count < MaxCount
    /\ owner' = conn[c]
    /\ count' = count + 1
    /\ idle' = [idle EXCEPT ![conn[c]] = 0]
    /\ ctxDone' = [ctxDone EXCEPT ![c] = FALSE]
    /\ keep' = [keep EXCEPT ![c] = "sleep"]
    /\ elapsed' = [elapsed EXCEPT ![c] = 0]
    /\ pc' = [pc EXCEPT ![c] = "held"]
    /\ UNCHANGED <<alive, pool, conn, failed>>

\* GET_LOCK returns 0 when another session owned the lock for as long as its
\* timeout (ErrTimeout), or NULL for an error of the server (ErrFailed).
GetLockRefused(c) ==
    /\ pc[c] = "get"
    /\ conn[c] \in alive
    /\ idle' = [idle EXCEPT ![conn[c]] = 0]
    /\ pc' = [pc EXCEPT ![c] = "giveup"]
    /\ UNCHANGED <<alive, owner, count, pool, conn, ctxDone, goroutine, failed>>

\* The query fails, and with it Scan: the session is lost, or the caller's
\* context is done and the driver cuts the connection.
GetLockError(c) ==
    /\ pc[c] = "get"
    /\ EndSession(conn[c])
    /\ pc' = [pc EXCEPT ![c] = "giveup"]
    /\ UNCHANGED <<idle, pool, conn, ctxDone, goroutine, failed>>

\* closeConnection: back to the pool, if the session still exists.
ReturnConnection(c) ==
    /\ pool' = IF conn[c] \in alive THEN pool \cup {conn[c]} ELSE pool
    /\ conn' = [conn EXCEPT ![c] = NoSession]
    /\ pc' = [pc EXCEPT ![c] = "out"]

\* Acquire returns its error and keeps the connection.
GiveUp_NoClose(c) ==
    /\ pc[c] = "giveup"
    /\ pc' = [pc EXCEPT ![c] = "out"]
    /\ UNCHANGED <<server, pool, conn, ctxDone, goroutine, failed>>

\* Acquire closes the connection and returns its error.
GiveUp(c) ==
    /\ pc[c] = "giveup"
    /\ ReturnConnection(c)
    /\ UNCHANGED <<server, ctxDone, goroutine, failed>>

-----------------------------------------------------------------------------
(* releaseFunc *)

\* The caller calls the function that Acquire returned, once.
Release(c) ==
    /\ pc[c] = "held"
    /\ pc' = [pc EXCEPT ![c] = "release"]
    /\ UNCHANGED <<server, pool, conn, ctxDone, goroutine, failed>>

\* The lock is forgotten and not released.
ReleaseLock_Skip(c) ==
    /\ pc[c] = "release"
    /\ keep[c] # "query"
    /\ pc' = [pc EXCEPT ![c] = "cancel"]
    /\ UNCHANGED <<server, pool, conn, ctxDone, goroutine, failed>>

\* RELEASE_LOCK runs when no other operation is using the connection.  It
\* releases the lock once, fails with the session, is refused by the driver (the
\* rows of the goroutine are open: the connection is dropped), or fails alone.
ReleaseLock(c) ==
    LET s == conn[c] IN
    /\ pc[c] = "release"
    /\ keep[c] # "query"
    /\ \/ /\ s \in alive
          /\ count' = IF owner = s THEN count - 1 ELSE count
          /\ owner' = IF owner = s /\ count = 1 THEN NoSession ELSE owner
          /\ idle' = [idle EXCEPT ![s] = 0]
          /\ UNCHANGED <<alive, failed>>
       \/ s \notin alive /\ UNCHANGED <<server, failed>>
       \/ keep[c] = "rows" /\ EndSession(s) /\ UNCHANGED <<idle, failed>>
       \/ s \in alive /\ Fails(ReleaseFails) /\ UNCHANGED server
    /\ pc' = [pc EXCEPT ![c] = "cancel"]
    /\ UNCHANGED <<pool, conn, ctxDone, goroutine>>

\* The context of the goroutine is left as it is.
CancelReleaseCtx_Skip(c) ==
    /\ pc[c] = "cancel"
    /\ pc' = [pc EXCEPT ![c] = "close"]
    /\ UNCHANGED <<server, pool, conn, ctxDone, goroutine, failed>>

\* The deferred cancelReleaseCtx; when the goroutine has a query in flight,
\* the driver may cut the connection.
CancelReleaseCtx(c) ==
    /\ pc[c] = "cancel"
    /\ ctxDone' = [ctxDone EXCEPT ![c] = TRUE]
    /\ \/ UNCHANGED <<alive, owner, count>>
       \/ keep[c] \in {"query", "rows"} /\ EndSession(conn[c])
    /\ pc' = [pc EXCEPT ![c] = "close"]
    /\ UNCHANGED <<idle, pool, conn, goroutine, failed>>

\* The deferred closeConnection waits for the rows of the goroutine.
CloseConnection(c) ==
    /\ pc[c] = "close"
    /\ keep[c] \notin {"query", "rows"}
    /\ ReturnConnection(c)
    /\ UNCHANGED <<server, ctxDone, goroutine, failed>>

-----------------------------------------------------------------------------
(* keepConnectionAlive *)

\* The interval has passed.  A query on a connection given back, or with a
\* context that is done, fails, and the goroutine ends.
KeepAliveQuery(c) ==
    /\ keep[c] = "sleep"
    /\ elapsed[c] = KeepAliveInterval
    /\ keep' = [keep EXCEPT ![c] =
                  IF conn[c] = NoSession \/ ctxDone[c] THEN "none" ELSE "query"]
    /\ elapsed' = [elapsed EXCEPT ![c] = 0]
    /\ UNCHANGED <<server, pool, pc, conn, ctxDone, failed>>

\* The query succeeds.
KeepAliveAnswer(c) ==
    /\ keep[c] = "query"
    /\ conn[c] \in alive
    /\ idle' = [idle EXCEPT ![conn[c]] = 0]
    /\ keep' = [keep EXCEPT ![c] = "rows"]
    /\ UNCHANGED <<alive, owner, count, pool, pc, conn, ctxDone, elapsed, failed>>

\* The query fails: the goroutine logs the error and ends.
KeepAliveError(c) ==
    /\ keep[c] = "query"
    /\ IF conn[c] \in alive THEN Fails(KeepAliveFails) ELSE UNCHANGED failed
    /\ keep' = [keep EXCEPT ![c] = "none"]
    /\ UNCHANGED <<server, pool, pc, conn, ctxDone, elapsed>>

\* The rows are closed.
KeepAliveClose(c) ==
    /\ keep[c] = "rows"
    /\ keep' = [keep EXCEPT ![c] = "sleep"]
    /\ UNCHANGED <<server, pool, pc, conn, ctxDone, elapsed, failed>>

\* The context is done.
KeepAliveDone(c) ==
    /\ keep[c] = "sleep"
    /\ ctxDone[c]
    /\ keep' = [keep EXCEPT ![c] = "none"]
    /\ elapsed' = [elapsed EXCEPT ![c] = 0]
    /\ UNCHANGED <<server, pool, pc, conn, ctxDone, failed>>

Caller(c) ==
    \/ ReleaseLock(c)
    \/ CancelReleaseCtx(c)
    \/ CloseConnection(c)
    \/ GiveUp(c)

KeepAlive(c) ==
    \/ KeepAliveQuery(c)
    \/ KeepAliveAnswer(c)
    \/ KeepAliveError(c)
    \/ KeepAliveClose(c)
    \/ KeepAliveDone(c)

Next ==
    \/ Tick
    \/ \E s \in Sessions : Expire(s) \/ Lose(s)
    \/ \E c \in Clients :
          \/ Acquire(c)
          \/ GetLockAcquired(c)
          \/ GetLockRefused(c)
          \/ GetLockError(c)
          \/ Release(c)
          \/ Caller(c)
          \/ KeepAlive(c)

Spec == Init /\ [][Next]_vars

\* The callers and the goroutines run, and the server answers or fails their
\* queries; the mutex of a connection starves nobody that waits for it, hence
\* the strong fairness.  Nobody has to acquire or to release the lock, and time
\* need not pass.
Fairness ==
    \A c \in Clients :
       WF_vars(Caller(c)) /\ WF_vars(KeepAlive(c)) /\ SF_vars(ReleaseLock(c))

FairSpec == Spec /\ Fairness

-----------------------------------------------------------------------------
(* Properties *)

\* Every variable keeps its type, the lock has an owner when it is counted, and
\* a caller has a connection exactly from its Acquire to the end of its call
\* of releaseFunc (or of a failed Acquire).
TypeOK ==
    /\ alive \subseteq Sessions
    /\ owner \in alive \cup {NoSession}
    /\ count \in Nat
    /\ (count = 0) = (owner = NoSession)
    /\ idle \in [Sessions -> 0 .. WaitTimeout]
    /\ pool \subseteq Sessions
    /\ pc \in [Clients -> {"out", "get", "giveup", "held", "release", "cancel",
                           "close"}]
    /\ conn \in [Clients -> Sessions \cup {NoSession}]
    /\ ctxDone \in [Clients -> BOOLEAN]
    /\ keep \in [Clients -> {"none", "sleep", "query", "rows"}]
    /\ elapsed \in [Clients -> 0 .. KeepAliveInterval]
    /\ failed \subseteq {SessionLost, ReleaseFails, KeepAliveFails}
    /\ \A c \in Clients : (conn[c] = NoSession) = (pc[c] = "out")

\* Two callers never have the lock at the same time: between the return of
\* Acquire and the call of the function it returned, a caller is alone.
MutualExclusion ==
    \A c, d \in Clients : pc[c] = "held" /\ pc[d] = "held" => c = d

\* As long as no connection is lost and no keep-alive query fails, a caller
\* that has the lock has it on the server too, and alone, for however long it
\* keeps it: the keep-alive comes before the server ends the session.
HolderOwnsLock ==
    failed \cap {SessionLost, KeepAliveFails} = {} =>
       /\ \A c \in Clients : pc[c] = "held" => owner = conn[c]
       /\ MutualExclusion

\* As long as no RELEASE_LOCK fails, no connection is given back to the pool
\* with the lock still on it, where the next user of the connection would have
\* it without asking.
LockNotPooled == ReleaseFails \notin failed => owner \notin pool

\* A caller that releases the lock gets through, and its goroutine ends, with
\* no need for the next keep-alive to come due.
ReleaseEnds ==
    \A c \in Clients :
       (pc[c] = "release") ~> (pc[c] = "out" /\ keep[c] = "none")
=============================================================================
