--------------------------- MODULE DatabaseProofs ----------------------------
(***************************************************************************)
(* Proofs about the two components that keep their state in a database:    *)
(* MySQLLock, and EnumDB with EnumCache.                                   *)
(*                                                                         *)
(* MySQLLock, for any callers, sessions and intervals (the keep-alive      *)
(* being shorter than the patience of the server): types, HolderOwnsLock   *)
(* and LockNotPooled.  A caller with the lock has a session of its own,    *)
(* which the server knows, and whose idle time is bounded by what the      *)
(* timer of its goroutine has counted: it cannot expire.  A lock that is   *)
(* owned belongs to the session of a caller that has not released it yet.  *)
(*                                                                         *)
(* EnumDB, for any tables, IDs, names and goroutines: what a reader of a   *)
(* cache sees (ReadsWhatWasSet), how bits and names are converted          *)
(* (BitsRoundTrip), and what New gives (LoadsAllOrNothing).  Both maps     *)
(* mirror a set of pairs: each of their entries is a pair of the set, and  *)
(* each pair has an entry.  While a goroutine writes, the map of names is  *)
(* one pair ahead of the map of IDs.                                       *)
(***************************************************************************)
EXTENDS MySQLLock, EnumDB, TLAPS

-----------------------------------------------------------------------------
(* MySQLLock.                                                              *)

\* A connection has one user, or is free.
Conns == /\ \A c, d \in Clients : conn[c] = conn[d] /\ conn[c] # NoSession => c = d
         /\ \A c \in Clients : conn[c] \notin pool

\* How long the session of a caller can have been idle.
Rest(c) == IF keep[c] = "sleep" THEN elapsed[c]
           ELSE IF keep[c] = "query" THEN KeepAliveInterval ELSE 0

\* The caller c has the lock, and its goroutine keeps its session from expiring.
Holder(c) == /\ conn[c] \in alive
             /\ owner = conn[c]
             /\ keep[c] # "none"
             /\ ~ctxDone[c]
             /\ idle[conn[c]] <= Rest(c)

\* No session was lost, and no query of a goroutine failed.
NoLoss == SessionLost \notin failed /\ KeepAliveFails \notin failed
Holds == NoLoss => \A c \in Clients : pc[c] = "held" => Holder(c)

\* The owner of the lock is the session of a caller that is to release it.
Owned == ReleaseFails \notin failed /\ owner # NoSession =>
             /\ count = 1
             /\ \E c \in Clients : conn[c] = owner /\ pc[c] \in {"held", "release"}

LockInv == TypeOK /\ Conns /\ Holds /\ Owned

\* The kinds of failure differ.
LEMMA Kinds == /\ SessionLost # ReleaseFails /\ SessionLost # KeepAliveFails
               /\ ReleaseFails # KeepAliveFails
BY DEF SessionLost, ReleaseFails, KeepAliveFails

\* Initially there is no session.
LEMMA LockInvInit == Init => LockInv
BY MySQLLockAssumption
   DEF Init, LockInv, TypeOK, Conns, Holds, Owned, Sessions, NoSession

-----------------------------------------------------------------------------
(* The invariant is kept by each action: one lemma for each. *)

LEMMA TickKeeps ==
    ASSUME LockInv, Tick
    PROVE  LockInv'
<1> USE MySQLLockAssumption, Kinds DEF Sessions, NoSession, server, goroutine
<1>1. TypeOK'
  <2>1. idle' \in [Sessions -> 0 .. WaitTimeout]
    <3>1. \A s \in Sessions : idle[s] \in 0 .. WaitTimeout
      BY DEF LockInv, TypeOK
    <3>2. \A s \in Sessions : (IF s \notin alive \/ Busy(s) THEN 0
                               ELSE IF idle[s] < WaitTimeout THEN idle[s] + 1
                               ELSE WaitTimeout) \in 0 .. WaitTimeout
      BY <3>1
    <3> QED
      BY <3>2 DEF Tick
  <2>2. elapsed' \in [Clients -> 0 .. KeepAliveInterval]
    BY DEF Tick, LockInv, TypeOK
  <2>3. UNCHANGED <<alive, owner, count, pool, pc, conn, ctxDone, keep, failed>>
    BY DEF Tick
  <2> QED
    BY <2>1, <2>2, <2>3 DEF LockInv, TypeOK
<1>2. Conns'
  BY DEF Tick, Busy, LockInv, TypeOK, Conns
<1>3. Holds'
  BY DEF Tick, Busy, LockInv, TypeOK, Conns, Holds, Holder, Rest, NoLoss
<1>4. Owned'
  BY DEF Tick, Busy, LockInv, TypeOK, Conns, Owned
<1> QED
  BY <1>1, <1>2, <1>3, <1>4 DEF LockInv

LEMMA ExpireKeeps ==
    ASSUME LockInv, NEW s \in Sessions, Expire(s)
    PROVE  LockInv'
<1> USE MySQLLockAssumption, Kinds DEF Sessions, NoSession, server, goroutine
<1>1. TypeOK'
  BY DEF Expire, EndSession, LockInv, TypeOK
<1>2. Conns'
  BY DEF Expire, EndSession, LockInv, TypeOK, Conns
<1>3. Holds'
  BY DEF Expire, EndSession, LockInv, TypeOK, Conns, Holds, Holder, Rest, NoLoss
<1>4. Owned'
  BY DEF Expire, EndSession, LockInv, TypeOK, Conns, Owned
<1> QED
  BY <1>1, <1>2, <1>3, <1>4 DEF LockInv

LEMMA LoseKeeps ==
    ASSUME LockInv, NEW s \in Sessions, Lose(s)
    PROVE  LockInv'
<1> USE MySQLLockAssumption, Kinds DEF Sessions, NoSession, server, goroutine
<1>1. TypeOK'
  BY DEF Lose, EndSession, Fails, LockInv, TypeOK
<1>2. Conns'
  BY DEF Lose, EndSession, Fails, LockInv, TypeOK, Conns
<1>3. Holds'
  BY DEF Lose, EndSession, Fails, LockInv, TypeOK, Conns, Holds, Holder, Rest, NoLoss
<1>4. Owned'
  BY DEF Lose, EndSession, Fails, LockInv, TypeOK, Conns, Owned
<1> QED
  BY <1>1, <1>2, <1>3, <1>4 DEF LockInv

LEMMA AcquireKeeps ==
    ASSUME LockInv, NEW c \in Clients, Acquire(c)
    PROVE  LockInv'
<1> USE MySQLLockAssumption, Kinds DEF Sessions, NoSession, server, goroutine
<1>1. TypeOK'
  <2>1. PICK s \in Sessions :
           /\ alive' = alive \cup {s} /\ pool' = pool \ {s}
           /\ idle' = [idle EXCEPT ![s] = 0] /\ conn' = [conn EXCEPT ![c] = s]
    BY DEF Acquire
  <2>2. /\ pc' = [pc EXCEPT ![c] = "get"]
        /\ UNCHANGED <<owner, count, ctxDone, keep, elapsed, failed>>
    BY DEF Acquire
  <2>3. idle' \in [Sessions -> 0 .. WaitTimeout]
    BY <2>1 DEF LockInv, TypeOK
  <2>4. conn' \in [Clients -> Sessions \cup {NoSession}]
    BY <2>1 DEF LockInv, TypeOK
  <2>5. pc' \in [Clients -> {"out", "get", "giveup", "held", "release", "cancel", "close"}]
    BY <2>2 DEF LockInv, TypeOK
  <2>6. \A d \in Clients : (conn'[d] = NoSession) <=> (pc'[d] = "out")
    BY <2>1, <2>2 DEF LockInv, TypeOK
  <2>7. alive' \subseteq Sessions /\ owner' \in alive' \cup {NoSession} /\ pool' \subseteq Sessions
    BY <2>1, <2>2 DEF LockInv, TypeOK
  <2> QED
    BY <2>2, <2>3, <2>4, <2>5, <2>6, <2>7 DEF LockInv, TypeOK
<1>2. Conns'
  BY DEF Acquire, LockInv, TypeOK, Conns
<1>3. Holds'
  BY DEF Acquire, LockInv, TypeOK, Conns, Holds, Holder, Rest, NoLoss
<1>4. Owned'
  BY DEF Acquire, LockInv, TypeOK, Conns, Owned
<1> QED
  BY <1>1, <1>2, <1>3, <1>4 DEF LockInv

LEMMA GetLockAcquiredKeeps ==
    ASSUME LockInv, NEW c \in Clients, GetLockAcquired(c)
    PROVE  LockInv'
<1> USE MySQLLockAssumption, Kinds DEF Sessions, NoSession, server, goroutine
<1>1. TypeOK'
  <2>1. idle' \in [Sessions -> 0 .. WaitTimeout]
    BY DEF GetLockAcquired, LockInv, TypeOK
  <2>2. \A d \in Clients : (conn'[d] = NoSession) = (pc'[d] = "out")
    BY DEF GetLockAcquired, LockInv, TypeOK
  <2>3. /\ alive' \subseteq Sessions /\ owner' \in alive' \cup {NoSession}
        /\ count' \in Nat /\ (count' = 0) = (owner' = NoSession)
    BY DEF GetLockAcquired, LockInv, TypeOK
  <2>4. pc' \in [Clients -> {"out", "get", "giveup", "held", "release", "cancel", "close"}]
    BY DEF GetLockAcquired, LockInv, TypeOK
  <2>5. /\ ctxDone' \in [Clients -> BOOLEAN]
        /\ keep' \in [Clients -> {"none", "sleep", "query", "rows"}]
        /\ elapsed' \in [Clients -> 0 .. KeepAliveInterval]
    BY DEF GetLockAcquired, LockInv, TypeOK
  <2>6. UNCHANGED <<pool, conn, failed>>
    BY DEF GetLockAcquired
  <2> QED
    BY <2>1, <2>2, <2>3, <2>4, <2>5, <2>6 DEF LockInv, TypeOK
<1>2. Conns'
  BY DEF GetLockAcquired, LockInv, TypeOK, Conns
<1>3. Holds'
  BY DEF GetLockAcquired, LockInv, TypeOK, Conns, Holds, Holder, Rest, NoLoss
<1>4. Owned'
  BY DEF GetLockAcquired, LockInv, TypeOK, Conns, Owned
<1> QED
  BY <1>1, <1>2, <1>3, <1>4 DEF LockInv

LEMMA GetLockRefusedKeeps ==
    ASSUME LockInv, NEW c \in Clients, GetLockRefused(c)
    PROVE  LockInv'
<1> USE MySQLLockAssumption, Kinds DEF Sessions, NoSession, server, goroutine
<1>1. TypeOK'
  <2>1. idle' \in [Sessions -> 0 .. WaitTimeout]
    BY DEF GetLockRefused, LockInv, TypeOK
  <2>2. \A d \in Clients : (conn'[d] = NoSession) = (pc'[d] = "out")
    BY DEF GetLockRefused, LockInv, TypeOK
  <2>3. /\ alive' \subseteq Sessions /\ owner' \in alive' \cup {NoSession}
        /\ count' \in Nat /\ (count' = 0) = (owner' = NoSession)
    BY DEF GetLockRefused, LockInv, TypeOK
  <2> QED
    BY <2>1, <2>2, <2>3 DEF GetLockRefused, LockInv, TypeOK
<1>2. Conns'
  BY DEF GetLockRefused, LockInv, TypeOK, Conns
<1>3. Holds'
  BY DEF GetLockRefused, LockInv, TypeOK, Conns, Holds, Holder, Rest, NoLoss
<1>4. Owned'
  BY DEF GetLockRefused, LockInv, TypeOK, Conns, Owned
<1> QED
  BY <1>1, <1>2, <1>3, <1>4 DEF LockInv

LEMMA GetLockErrorKeeps ==
    ASSUME LockInv, NEW c \in Clients, GetLockError(c)
    PROVE  LockInv'
<1> USE MySQLLockAssumption, Kinds DEF Sessions, NoSession, server, goroutine
<1>1. TypeOK'
  BY DEF GetLockError, EndSession, LockInv, TypeOK
<1>2. Conns'
  BY DEF GetLockError, EndSession, LockInv, TypeOK, Conns
<1>3. Holds'
  BY DEF GetLockError, EndSession, LockInv, TypeOK, Conns, Holds, Holder, Rest, NoLoss
<1>4. Owned'
  BY DEF GetLockError, EndSession, LockInv, TypeOK, Conns, Owned
<1> QED
  BY <1>1, <1>2, <1>3, <1>4 DEF LockInv

LEMMA ReleaseKeeps ==
    ASSUME LockInv, NEW c \in Clients, Release(c)
    PROVE  LockInv'
<1> USE MySQLLockAssumption, Kinds DEF Sessions, NoSession, server, goroutine
<1>1. TypeOK'
  BY DEF Release, LockInv, TypeOK
<1>2. Conns'
  BY DEF Release, LockInv, TypeOK, Conns
<1>3. Holds'
  BY DEF Release, LockInv, TypeOK, Conns, Holds, Holder, Rest, NoLoss
<1>4. Owned'
  BY DEF Release, LockInv, TypeOK, Conns, Owned
<1> QED
  BY <1>1, <1>2, <1>3, <1>4 DEF LockInv

LEMMA ReleaseLockKeeps ==
    ASSUME LockInv, NEW c \in Clients, ReleaseLock(c)
    PROVE  LockInv'
<1> USE MySQLLockAssumption, Kinds DEF Sessions, NoSession, server, goroutine
<1>1. TypeOK'
  <2>1. /\ pc' = [pc EXCEPT ![c] = "cancel"] /\ pc[c] = "release"
        /\ UNCHANGED <<pool, conn, ctxDone, keep, elapsed>>
    BY DEF ReleaseLock
  <2>2. /\ alive' \subseteq Sessions
        /\ owner' \in alive' \cup {NoSession}
        /\ count' \in Nat
        /\ (count' = 0) <=> (owner' = NoSession)
    <3>0. /\ alive \subseteq Sessions /\ owner \in alive \cup {NoSession} /\ count \in Nat
          /\ (count = 0) <=> (owner = NoSession)
      BY DEF LockInv, TypeOK
    <3>1. CASE /\ conn[c] \in alive
               /\ count' = IF owner = conn[c] THEN count - 1 ELSE count
               /\ owner' = IF owner = conn[c] /\ count = 1 THEN NoSession ELSE owner
               /\ alive' = alive
      BY <3>0, <3>1
    <3>2. CASE UNCHANGED <<alive, owner, count>>
      BY <3>0, <3>2
    <3>3. CASE EndSession(conn[c])
      BY <3>0, <3>3 DEF EndSession
    <3> QED
      BY <3>1, <3>2, <3>3 DEF ReleaseLock
  <2>3. idle' \in [Sessions -> 0 .. WaitTimeout]
    <3>0. alive \subseteq Sessions /\ idle \in [Sessions -> 0 .. WaitTimeout]
      BY DEF LockInv, TypeOK
    <3>1. \/ idle' = idle
          \/ conn[c] \in alive /\ idle' = [idle EXCEPT ![conn[c]] = 0]
      BY DEF ReleaseLock
    <3>2. 0 \in 0 .. WaitTimeout
      OBVIOUS
    <3> QED
      BY <3>0, <3>1, <3>2
  <2>4. failed' \subseteq {SessionLost, ReleaseFails, KeepAliveFails}
    BY DEF ReleaseLock, Fails, LockInv, TypeOK
  <2>5. pc' \in [Clients -> {"out", "get", "giveup", "held", "release", "cancel", "close"}]
    BY <2>1 DEF LockInv, TypeOK
  <2>6. \A d \in Clients : (conn'[d] = NoSession) <=> (pc'[d] = "out")
    BY <2>1 DEF LockInv, TypeOK
  <2> QED
    BY <2>1, <2>2, <2>3, <2>4, <2>5, <2>6 DEF LockInv, TypeOK
<1>2. Conns'
  BY DEF ReleaseLock, EndSession, Fails, LockInv, TypeOK, Conns
<1>3. Holds'
  BY DEF ReleaseLock, EndSession, Fails, LockInv, TypeOK, Conns, Holds, Holder, Rest, NoLoss
<1>4. Owned'
  BY DEF ReleaseLock, EndSession, Fails, LockInv, TypeOK, Conns, Owned
<1> QED
  BY <1>1, <1>2, <1>3, <1>4 DEF LockInv

LEMMA CancelReleaseCtxKeeps ==
    ASSUME LockInv, NEW c \in Clients, CancelReleaseCtx(c)
    PROVE  LockInv'
<1> USE MySQLLockAssumption, Kinds DEF Sessions, NoSession, server, goroutine
<1>1. TypeOK'
  <2>1. /\ pc' = [pc EXCEPT ![c] = "close"] /\ pc[c] = "cancel"
        /\ ctxDone' = [ctxDone EXCEPT ![c] = TRUE]
        /\ UNCHANGED <<idle, pool, conn, keep, elapsed, failed>>
    BY DEF CancelReleaseCtx
  <2>2. /\ alive' \subseteq Sessions
        /\ owner' \in alive' \cup {NoSession}
        /\ count' \in Nat
        /\ (count' = 0) <=> (owner' = NoSession)
    <3>0. /\ alive \subseteq Sessions /\ owner \in alive \cup {NoSession} /\ count \in Nat
          /\ (count = 0) <=> (owner = NoSession)
      BY DEF LockInv, TypeOK
    <3>1. CASE UNCHANGED <<alive, owner, count>>
      BY <3>0, <3>1
    <3>2. CASE EndSession(conn[c])
      BY <3>0, <3>2 DEF EndSession
    <3> QED
      BY <3>1, <3>2 DEF CancelReleaseCtx
  <2>3. ctxDone' \in [Clients -> BOOLEAN]
    BY <2>1 DEF LockInv, TypeOK
  <2>4. pc' \in [Clients -> {"out", "get", "giveup", "held", "release", "cancel", "close"}]
    BY <2>1 DEF LockInv, TypeOK
  <2>5. \A d \in Clients : (conn'[d] = NoSession) <=> (pc'[d] = "out")
    BY <2>1 DEF LockInv, TypeOK
  <2> QED
    BY <2>1, <2>2, <2>3, <2>4, <2>5 DEF LockInv, TypeOK
<1>2. Conns'
  BY DEF CancelReleaseCtx, EndSession, LockInv, TypeOK, Conns
<1>3. Holds'
  BY DEF CancelReleaseCtx, EndSession, LockInv, TypeOK, Conns, Holds, Holder, Rest, NoLoss
<1>4. Owned'
  BY DEF CancelReleaseCtx, EndSession, LockInv, TypeOK, Conns, Owned
<1> QED
  BY <1>1, <1>2, <1>3, <1>4 DEF LockInv

LEMMA CloseConnectionKeeps ==
    ASSUME LockInv, NEW c \in Clients, CloseConnection(c)
    PROVE  LockInv'
<1> USE MySQLLockAssumption, Kinds DEF Sessions, NoSession, server, goroutine
<1>1. TypeOK'
  BY DEF CloseConnection, ReturnConnection, LockInv, TypeOK
<1>2. Conns'
  BY DEF CloseConnection, ReturnConnection, LockInv, TypeOK, Conns
<1>3. Holds'
  BY DEF CloseConnection, ReturnConnection, LockInv, TypeOK, Conns, Holds, Holder, Rest, NoLoss
<1>4. Owned'
  BY DEF CloseConnection, ReturnConnection, LockInv, TypeOK, Conns, Owned
<1> QED
  BY <1>1, <1>2, <1>3, <1>4 DEF LockInv

LEMMA GiveUpKeeps ==
    ASSUME LockInv, NEW c \in Clients, GiveUp(c)
    PROVE  LockInv'
<1> USE MySQLLockAssumption, Kinds DEF Sessions, NoSession, server, goroutine
<1>1. TypeOK'
  BY DEF GiveUp, ReturnConnection, LockInv, TypeOK
<1>2. Conns'
  BY DEF GiveUp, ReturnConnection, LockInv, TypeOK, Conns
<1>3. Holds'
  BY DEF GiveUp, ReturnConnection, LockInv, TypeOK, Conns, Holds, Holder, Rest, NoLoss
<1>4. Owned'
  BY DEF GiveUp, ReturnConnection, LockInv, TypeOK, Conns, Owned
<1> QED
  BY <1>1, <1>2, <1>3, <1>4 DEF LockInv

LEMMA KeepAliveQueryKeeps ==
    ASSUME LockInv, NEW c \in Clients, KeepAliveQuery(c)
    PROVE  LockInv'
<1> USE MySQLLockAssumption, Kinds DEF Sessions, NoSession, server, goroutine
<1>1. TypeOK'
  BY DEF KeepAliveQuery, LockInv, TypeOK
<1>2. Conns'
  BY DEF KeepAliveQuery, LockInv, TypeOK, Conns
<1>3. Holds'
  BY DEF KeepAliveQuery, LockInv, TypeOK, Conns, Holds, Holder, Rest, NoLoss
<1>4. Owned'
  BY DEF KeepAliveQuery, LockInv, TypeOK, Conns, Owned
<1> QED
  BY <1>1, <1>2, <1>3, <1>4 DEF LockInv

LEMMA KeepAliveAnswerKeeps ==
    ASSUME LockInv, NEW c \in Clients, KeepAliveAnswer(c)
    PROVE  LockInv'
<1> USE MySQLLockAssumption, Kinds DEF Sessions, NoSession, server, goroutine
<1>1. TypeOK'
  <2>1. idle' \in [Sessions -> 0 .. WaitTimeout]
    BY DEF KeepAliveAnswer, LockInv, TypeOK
  <2>2. \A d \in Clients : (conn'[d] = NoSession) = (pc'[d] = "out")
    BY DEF KeepAliveAnswer, LockInv, TypeOK
  <2>3. /\ alive' \subseteq Sessions /\ owner' \in alive' \cup {NoSession}
        /\ count' \in Nat /\ (count' = 0) = (owner' = NoSession)
    BY DEF KeepAliveAnswer, LockInv, TypeOK
  <2> QED
    BY <2>1, <2>2, <2>3 DEF KeepAliveAnswer, LockInv, TypeOK
<1>2. Conns'
  BY DEF KeepAliveAnswer, LockInv, TypeOK, Conns
<1>3. Holds'
  BY DEF KeepAliveAnswer, LockInv, TypeOK, Conns, Holds, Holder, Rest, NoLoss
<1>4. Owned'
  BY DEF KeepAliveAnswer, LockInv, TypeOK, Conns, Owned
<1> QED
  BY <1>1, <1>2, <1>3, <1>4 DEF LockInv

LEMMA KeepAliveErrorKeeps ==
    ASSUME LockInv, NEW c \in Clients, KeepAliveError(c)
    PROVE  LockInv'
<1> USE MySQLLockAssumption, Kinds DEF Sessions, NoSession, server, goroutine
<1>1. TypeOK'
  BY DEF KeepAliveError, Fails, LockInv, TypeOK
<1>2. Conns'
  BY DEF KeepAliveError, Fails, LockInv, TypeOK, Conns
<1>3. Holds'
  BY DEF KeepAliveError, Fails, LockInv, TypeOK, Conns, Holds, Holder, Rest, NoLoss
<1>4. Owned'
  BY DEF KeepAliveError, Fails, LockInv, TypeOK, Conns, Owned
<1> QED
  BY <1>1, <1>2, <1>3, <1>4 DEF LockInv

LEMMA KeepAliveCloseKeeps ==
    ASSUME LockInv, NEW c \in Clients, KeepAliveClose(c)
    PROVE  LockInv'
<1> USE MySQLLockAssumption, Kinds DEF Sessions, NoSession, server, goroutine
<1>1. TypeOK'
  BY DEF KeepAliveClose, LockInv, TypeOK
<1>2. Conns'
  BY DEF KeepAliveClose, LockInv, TypeOK, Conns
<1>3. Holds'
  BY DEF KeepAliveClose, LockInv, TypeOK, Conns, Holds, Holder, Rest, NoLoss
<1>4. Owned'
  BY DEF KeepAliveClose, LockInv, TypeOK, Conns, Owned
<1> QED
  BY <1>1, <1>2, <1>3, <1>4 DEF LockInv

LEMMA KeepAliveDoneKeeps ==
    ASSUME LockInv, NEW c \in Clients, KeepAliveDone(c)
    PROVE  LockInv'
<1> USE MySQLLockAssumption, Kinds DEF Sessions, NoSession, server, goroutine
<1>1. TypeOK'
  BY DEF KeepAliveDone, LockInv, TypeOK
<1>2. Conns'
  BY DEF KeepAliveDone, LockInv, TypeOK, Conns
<1>3. Holds'
  BY DEF KeepAliveDone, LockInv, TypeOK, Conns, Holds, Holder, Rest, NoLoss
<1>4. Owned'
  BY DEF KeepAliveDone, LockInv, TypeOK, Conns, Owned
<1> QED
  BY <1>1, <1>2, <1>3, <1>4 DEF LockInv

LEMMA StutterKeeps ==
    ASSUME LockInv, UNCHANGED vars
    PROVE  LockInv'
<1> USE MySQLLockAssumption, Kinds DEF Sessions, NoSession, server, goroutine
<1>1. TypeOK'
  BY DEF vars, LockInv, TypeOK
<1>2. Conns'
  BY DEF vars, LockInv, TypeOK, Conns
<1>3. Holds'
  BY DEF vars, LockInv, TypeOK, Conns, Holds, Holder, Rest, NoLoss
<1>4. Owned'
  BY DEF vars, LockInv, TypeOK, Conns, Owned
<1> QED
  BY <1>1, <1>2, <1>3, <1>4 DEF LockInv

-----------------------------------------------------------------------------

\* Every step keeps the invariant, which therefore always holds.
LEMMA LockInvNext == LockInv /\ [Next]_vars => LockInv'
BY TickKeeps, ExpireKeeps, LoseKeeps, AcquireKeeps, GetLockAcquiredKeeps,
   GetLockRefusedKeeps, GetLockErrorKeeps, ReleaseKeeps, ReleaseLockKeeps,
   CancelReleaseCtxKeeps, CloseConnectionKeeps, GiveUpKeeps, KeepAliveQueryKeeps,
   KeepAliveAnswerKeeps, KeepAliveErrorKeeps, KeepAliveCloseKeeps, KeepAliveDoneKeeps,
   StutterKeeps
   DEF Next, Caller, KeepAlive

LEMMA LockInvariant == Spec => []LockInv
BY LockInvInit, LockInvNext, PTL DEF Spec

\* Types; and a caller has a connection exactly from its Acquire to the end of
\* its call of releaseFunc (mysqllock.go, Acquire).
THEOREM LockTypeCorrect == Spec => []TypeOK
<1>1. LockInv => TypeOK
  BY DEF LockInv
<1> QED
  BY <1>1, LockInvariant, PTL

\* Between the return of Acquire and the call of releaseFunc the caller owns the
\* lock on the server, and no other caller is in between, unless a connection was
\* lost or a query of keepConnectionAlive failed: no session expires that is held.
THEOREM HolderOwns == Spec => []HolderOwnsLock
<1>1. ASSUME LockInv, NoLoss
      PROVE  (\A c \in Clients : pc[c] = "held" => owner = conn[c]) /\ MutualExclusion
  <2>1. \A c \in Clients : pc[c] = "held" => owner = conn[c]
    BY <1>1 DEF LockInv, Holds, Holder
  <2>2. \A c \in Clients : pc[c] = "held" => conn[c] # NoSession
    BY <1>1 DEF LockInv, TypeOK
  <2> QED
    BY <1>1, <2>1, <2>2 DEF LockInv, Conns, MutualExclusion
<1>2. LockInv => HolderOwnsLock
  BY <1>1 DEF NoLoss, HolderOwnsLock
<1> QED
  BY <1>2, LockInvariant, PTL

\* A connection that closeConnection gave back to the pool does not own the lock,
\* unless a RELEASE_LOCK failed on a session that lived on.
THEOREM PoolOwnsNothing == Spec => []LockNotPooled
<1>1. ASSUME LockInv, ReleaseFails \notin failed, owner \in pool
      PROVE  FALSE
  <2>1. owner # NoSession
    BY <1>1 DEF LockInv, TypeOK, Sessions, NoSession
  <2> QED
    BY <1>1, <2>1 DEF LockInv, Owned, Conns
<1>2. LockInv => LockNotPooled
  BY <1>1 DEF LockNotPooled
<1> QED
  BY <1>2, LockInvariant, PTL

-----------------------------------------------------------------------------
(* EnumDB and EnumCache.                                                   *)

MirrorName(f, S) == /\ \A i \in DOMAIN f : <<i, f[i]>> \in S
                    /\ \A p \in S : p[1] \in DOMAIN f
MirrorID(g, S) == /\ \A n \in DOMAIN g : <<g[n], n>> \in S
                  /\ \A p \in S : p[2] \in DOMAIN g
Mirror(c, S) == MirrorName(c.name, S) /\ MirrorID(c.id, S)

\* The cache that the goroutines share.
CacheTypes ==
    /\ writer \in Goroutines \cup {None}
    /\ readers \subseteq Goroutines
    /\ todo \subseteq Pairs
    /\ half \subseteq Pairs
    /\ written \subseteq Pairs
CacheMirrors ==
    /\ MirrorName(name, written \cup half)
    /\ MirrorID(id, written)
LockOK ==
    /\ readers # {} => writer = None
    /\ writer = None => half = {}
    /\ half = {} \/ \E p \in half : half = {p}
CacheInv == CacheTypes /\ CacheMirrors /\ LockOK

\* New and loadTableEnumCache.
LoadTypes ==
    /\ phase \in {"loading", "loaded", "failed"}
    /\ DOMAIN enum \subseteq Tables
    /\ table = {} \/ \E t \in Tables : table = {t}
    /\ stmt \in {"none", "open", "closed"} /\ rows \in {"none", "open", "closed"}
Unused == phase = "loading" => writer = None /\ readers = {} /\ half = {}
EnumMirrors == \A t \in DOMAIN enum : Mirror(enum[t], Rows[t])
TableMirrors ==
    phase = "loading" /\ rows = "open" =>
        \A t \in table : pending \subseteq Rows[t] /\ Mirror(cache, Rows[t] \ pending)
Closed ==
    /\ phase = "loading" => rows # "closed"
    /\ phase = "loading" /\ table = {} => stmt = "none" /\ rows = "none"
    /\ phase # "loading" => stmt # "open" /\ rows # "open"
Outcome ==
    /\ phase = "loaded" => DOMAIN enum = Tables
    /\ phase = "failed" => enum = Empty
LoadInv == LoadTypes /\ Unused /\ EnumMirrors /\ TableMirrors /\ Closed /\ Outcome

EnumInv == CacheInv /\ LoadInv

-----------------------------------------------------------------------------

\* ec.name[id] = name adds a pair to what the map of names mirrors.
LEMMA WithNameMirrors ==
    ASSUME NEW f, NEW S \in SUBSET Pairs, NEW p \in Pairs, MirrorName(f, S)
    PROVE  MirrorName(WithName(f, p), S \cup {p})
<1>1. DOMAIN WithName(f, p) = DOMAIN f \cup {p[1]}
  BY DEF WithName
<1>2. \A i \in DOMAIN WithName(f, p) :
          WithName(f, p)[i] = IF i = p[1] THEN p[2] ELSE f[i]
  BY DEF WithName
<1>3. p = <<p[1], p[2]>>
  BY DEF Pairs
<1> QED
  BY <1>1, <1>2, <1>3 DEF MirrorName

\* ec.id[name] = id adds it to what the map of IDs mirrors.
LEMMA WithIDMirrors ==
    ASSUME NEW g, NEW S \in SUBSET Pairs, NEW p \in Pairs, MirrorID(g, S)
    PROVE  MirrorID(WithID(g, p), S \cup {p})
<1>1. DOMAIN WithID(g, p) = DOMAIN g \cup {p[2]}
  BY DEF WithID
<1>2. \A n \in DOMAIN WithID(g, p) :
          WithID(g, p)[n] = IF n = p[2] THEN p[1] ELSE g[n]
  BY DEF WithID
<1>3. p = <<p[1], p[2]>>
  BY DEF Pairs
<1> QED
  BY <1>1, <1>2, <1>3 DEF MirrorID

\* What a mirror has entries for.
LEMMA MirrorDomains ==
    ASSUME NEW f, NEW g, NEW S \in SUBSET Pairs, MirrorName(f, S), MirrorID(g, S)
    PROVE  DOMAIN f = {p[1] : p \in S} /\ DOMAIN g = {p[2] : p \in S}
<1>1. ASSUME NEW i \in DOMAIN f PROVE i \in {p[1] : p \in S}
  <2>1. <<i, f[i]>> \in S /\ <<i, f[i]>>[1] = i
    BY DEF MirrorName
  <2> QED
    BY <2>1
<1>2. ASSUME NEW n \in DOMAIN g PROVE n \in {p[2] : p \in S}
  <2>1. <<g[n], n>> \in S /\ <<g[n], n>>[2] = n
    BY DEF MirrorID
  <2> QED
    BY <2>1
<1> QED
  BY <1>1, <1>2 DEF MirrorName, MirrorID

LEMMA EmptyMirrors == MirrorName(Empty, {}) /\ MirrorID(Empty, {})
BY DEF MirrorName, MirrorID, Empty

-----------------------------------------------------------------------------
(* The cache.                                                              *)

LEMMA CacheInvInit == CacheInit => CacheInv
BY EmptyMirrors DEF CacheInit, CacheInv, CacheTypes, CacheMirrors, LockOK

\* A step of a goroutine keeps the maps one pair apart at most, and that only
\* while it has the lock.
LEMMA CacheInvNext == CacheInv /\ CacheNext => CacheInv'
<1> SUFFICES ASSUME CacheInv, NEW g \in Goroutines,
                    \/ Lock(g) \/ SetName(g) \/ SetID(g) \/ Unlock(g)
                    \/ RLock(g) \/ RUnlock(g)
             PROVE  CacheInv'
  BY DEF CacheNext
<1>0. g # None
  BY EnumAssumption
<1>1. CASE Lock(g)
  <2>1. todo' \subseteq Pairs
    BY <1>1 DEF Lock, Enums
  <2>2. CacheMirrors'
    BY <1>1 DEF Lock, CacheInv, CacheMirrors
  <2> QED
    BY <1>0, <1>1, <2>1, <2>2 DEF Lock, CacheInv, CacheTypes, LockOK
<1>2. CASE SetName(g)
  <2>1. PICK p \in todo : name' = WithName(name, p) /\ half' = {p} /\ todo' = todo \ {p}
    BY <1>2 DEF SetName
  <2>2. /\ half = {} /\ writer = g /\ id' = id /\ writer' = writer
        /\ readers' = readers /\ written' = written
    BY <1>2 DEF SetName
  <2>3. p \in Pairs /\ written \in SUBSET Pairs
    BY DEF CacheInv, CacheTypes
  <2>4. MirrorName(name, written)
    BY <2>2 DEF CacheInv, CacheMirrors
  <2>5. CacheMirrors'
    BY <2>1, <2>2, <2>3, <2>4, WithNameMirrors DEF CacheInv, CacheMirrors
  <2>6. CacheTypes'
    BY <2>1, <2>2, <2>3 DEF CacheInv, CacheTypes
  <2>7. LockOK'
    BY <1>0, <2>1, <2>2 DEF CacheInv, LockOK
  <2> QED
    BY <2>5, <2>6, <2>7 DEF CacheInv
<1>3. CASE SetID(g)
  <2>1. PICK p \in half : id' = WithID(id, p) /\ written' = written \cup {p}
    BY <1>3 DEF SetID
  <2>2. /\ half' = {} /\ writer = g /\ name' = name /\ writer' = writer
        /\ readers' = readers /\ todo' = todo
    BY <1>3 DEF SetID
  <2>3. p \in Pairs /\ written \in SUBSET Pairs
    BY DEF CacheInv, CacheTypes
  <2>4. half = {p}
    BY DEF CacheInv, LockOK
  <2>5. written' \cup half' = written \cup half
    BY <2>1, <2>2, <2>4
  <2>6. CacheMirrors'
    BY <2>1, <2>2, <2>3, <2>5, WithIDMirrors DEF CacheInv, CacheMirrors
  <2>7. CacheTypes'
    BY <2>1, <2>2, <2>3 DEF CacheInv, CacheTypes
  <2>8. LockOK'
    BY <2>2 DEF CacheInv, LockOK
  <2> QED
    BY <2>6, <2>7, <2>8 DEF CacheInv
<1>4. CASE Unlock(g)
  BY <1>4 DEF Unlock, CacheInv, CacheTypes, CacheMirrors, LockOK
<1>5. CASE RLock(g)
  BY <1>5 DEF RLock, CacheInv, CacheTypes, CacheMirrors, LockOK
<1>6. CASE RUnlock(g)
  BY <1>6 DEF RUnlock, CacheInv, CacheTypes, CacheMirrors, LockOK
<1> QED
  BY <1>1, <1>2, <1>3, <1>4, <1>5, <1>6

LEMMA CacheInvStutters == CacheInv /\ UNCHANGED cacheVars => CacheInv'
BY DEF cacheVars, CacheInv, CacheTypes, CacheMirrors, LockOK

-----------------------------------------------------------------------------
(* The load.                                                               *)

LEMMA EmptyDomain == DOMAIN Empty = {}
BY DEF Empty

LEMMA EnumInvInit == EnumInit => EnumInv
BY CacheInvInit, EmptyDomain
   DEF EnumInit, EnumInv, LoadInv, LoadTypes, Unused, EnumMirrors, TableMirrors, Closed, Outcome,
       CacheInit

\* A call that fails closes what is open, and gives no cache.
LEMMA FailKeeps == EnumInv /\ Fail => EnumInv'
<1> SUFFICES ASSUME EnumInv, Fail PROVE EnumInv'
  OBVIOUS
<1>1. CacheInv'
  BY CacheInvStutters DEF Fail, EnumInv
<1>2. /\ phase' = "failed" /\ stmt' = Close(stmt) /\ rows' = Close(rows)
      /\ enum' = Empty /\ table' = table
  BY DEF Fail
<1>3. DOMAIN enum' = {}
  BY <1>2, EmptyDomain
<1>4. Close(stmt) \in {"none", "closed"} /\ Close(rows) \in {"none", "closed"}
  BY DEF EnumInv, LoadInv, LoadTypes, Close
<1>5. LoadTypes'
  BY <1>2, <1>3, <1>4 DEF EnumInv, LoadInv, LoadTypes
<1> QED
  BY <1>1, <1>2, <1>3, <1>4, <1>5
     DEF EnumInv, LoadInv, Unused, EnumMirrors, TableMirrors, Closed, Outcome

\* Each step of New, and of a goroutine after it, keeps what the caches mirror.
LEMMA EnumInvNext == EnumInv /\ [EnumNext]_enumVars => EnumInv'
<1> SUFFICES ASSUME EnumInv, [EnumNext]_enumVars PROVE EnumInv'
  OBVIOUS
<1> USE DEF Loading
<1>1. CASE Prepare
  <2>1. CacheInv'
    BY <1>1, CacheInvStutters DEF Prepare, EnumInv
  <2>2. PICK t \in Tables : table' = {t}
    BY <1>1 DEF Prepare
  <2>3. /\ phase = "loading" /\ table = {} /\ phase' = phase /\ enum' = enum
        /\ rows' = rows /\ stmt' = "open" /\ rows = "none"
    BY <1>1 DEF Prepare, EnumInv, LoadInv, Closed
  <2>4. LoadTypes'
    BY <2>2, <2>3 DEF EnumInv, LoadInv, LoadTypes
  <2> QED
    BY <1>1, <2>1, <2>2, <2>3, <2>4
       DEF Prepare, cacheVars, EnumInv, LoadInv, Unused, EnumMirrors, TableMirrors, Closed, Outcome
<1>2. CASE Query
  <2>1. CacheInv'
    BY <1>2, CacheInvStutters DEF Query, EnumInv
  <2>2. /\ phase = "loading" /\ table # {} /\ rows' = "open"
        /\ pending' = UNION {Rows[t] : t \in table} /\ cache' = NewCache
        /\ phase' = phase /\ enum' = enum /\ table' = table /\ stmt' = stmt
    BY <1>2 DEF Query
  <2>3. PICK t \in Tables : table = {t}
    BY <2>2 DEF EnumInv, LoadInv, LoadTypes
  <2>4. pending' = Rows[t]
    BY <2>2, <2>3
  <2>5. Rows[t] \ pending' = {}
    BY <2>4
  <2>6. Mirror(cache', {})
    BY <2>2, EmptyMirrors DEF Mirror, NewCache
  <2>7. TableMirrors'
    BY <2>2, <2>3, <2>4, <2>5, <2>6 DEF TableMirrors
  <2> QED
    BY <1>2, <2>1, <2>2, <2>7
       DEF Query, cacheVars, EnumInv, LoadInv, LoadTypes, Unused, EnumMirrors, Closed, Outcome
<1>3. CASE NextRow
  <2>1. CacheInv'
    BY <1>3, CacheInvStutters DEF NextRow, EnumInv
  <2>2. PICK p \in pending : pending' = pending \ {p} /\ cache' = Put(cache, p)
    BY <1>3 DEF NextRow
  <2>3. /\ phase = "loading" /\ table # {} /\ rows = "open"
        /\ phase' = phase /\ enum' = enum /\ table' = table /\ stmt' = stmt /\ rows' = rows
    BY <1>3 DEF NextRow
  <2>4. PICK t \in Tables : table = {t}
    BY <2>3 DEF EnumInv, LoadInv, LoadTypes
  <2>5. pending \subseteq Rows[t] /\ Mirror(cache, Rows[t] \ pending)
    BY <2>3, <2>4 DEF EnumInv, LoadInv, TableMirrors
  <2>6. Rows[t] \subseteq Pairs
    BY <2>4, TablesAssumption
  <2>7. Rows[t] \ pending' = (Rows[t] \ pending) \cup {p}
    BY <2>2, <2>5
  <2>8. /\ MirrorName(WithName(cache.name, p), (Rows[t] \ pending) \cup {p})
        /\ MirrorID(WithID(cache.id, p), (Rows[t] \ pending) \cup {p})
    <3>1. p \in Pairs /\ Rows[t] \ pending \in SUBSET Pairs
      BY <2>2, <2>5, <2>6
    <3> QED
      BY <3>1, <2>5, WithNameMirrors, WithIDMirrors DEF Mirror
  <2>9. Mirror(cache', Rows[t] \ pending')
    BY <2>2, <2>7, <2>8 DEF Mirror, Put
  <2>10. TableMirrors'
    BY <2>2, <2>3, <2>4, <2>5, <2>9 DEF TableMirrors
  <2> QED
    BY <1>3, <2>1, <2>3, <2>10
       DEF NextRow, cacheVars, EnumInv, LoadInv, LoadTypes, Unused, EnumMirrors, Closed, Outcome
<1>4. CASE RowsEnd
  <2>1. CacheInv'
    BY <1>4, CacheInvStutters DEF RowsEnd, EnumInv
  <2>2. /\ phase = "loading" /\ table # {} /\ rows = "open" /\ pending = {}
        /\ table' = {} /\ stmt' = "none" /\ rows' = "none" /\ phase' = phase
    BY <1>4 DEF RowsEnd
  <2>3. PICK t \in Tables : table = {t}
    BY <2>2 DEF EnumInv, LoadInv, LoadTypes
  <2>4. Mirror(cache, Rows[t])
    <3>1. Rows[t] \ pending = Rows[t]
      BY <2>2
    <3> QED
      BY <3>1, <2>2, <2>3 DEF EnumInv, LoadInv, TableMirrors
  <2>5. /\ DOMAIN enum' = DOMAIN enum \cup {t}
        /\ \A u \in DOMAIN enum' : enum'[u] = IF u = t THEN cache ELSE enum[u]
    BY <1>4, <2>3 DEF RowsEnd
  <2>6. EnumMirrors'
    BY <2>4, <2>5 DEF EnumInv, LoadInv, EnumMirrors
  <2>7. LoadTypes'
    BY <2>2, <2>3, <2>5 DEF EnumInv, LoadInv, LoadTypes
  <2> QED
    BY <1>4, <2>1, <2>2, <2>6, <2>7
       DEF RowsEnd, cacheVars, EnumInv, LoadInv, Unused, TableMirrors, Closed, Outcome
<1>5. CASE Loaded
  <2>1. /\ phase = "loading" /\ table = {} /\ DOMAIN enum = Tables /\ phase' = "loaded"
        /\ name' = enum[Shared].name /\ id' = enum[Shared].id /\ written' = Rows[Shared]
        /\ UNCHANGED <<enum, table, stmt, rows, pending, cache, writer, readers, todo, half>>
    BY <1>5 DEF Loaded
  <2>2. Mirror(enum[Shared], Rows[Shared])
    BY <2>1, TablesAssumption DEF EnumInv, LoadInv, EnumMirrors
  <2>3. half = {}
    BY <2>1 DEF EnumInv, LoadInv, Unused
  <2>4. written' \cup half' = Rows[Shared]
    BY <2>1, <2>3
  <2>5. CacheMirrors'
    BY <2>1, <2>2, <2>4 DEF CacheMirrors, Mirror
  <2>6. Rows[Shared] \subseteq Pairs
    BY TablesAssumption
  <2>7. CacheTypes' /\ LockOK'
    BY <2>1, <2>6 DEF EnumInv, CacheInv, CacheTypes, LockOK
  <2>8. LoadInv'
    BY <2>1 DEF EnumInv, LoadInv, LoadTypes, Unused, EnumMirrors, TableMirrors, Closed, Outcome
  <2> QED
    BY <2>5, <2>7, <2>8 DEF EnumInv, CacheInv
<1>6. CASE PrepareFails \/ QueryFails \/ ScanFails \/ RowsBreak
  BY <1>6, FailKeeps DEF PrepareFails, QueryFails, ScanFails, RowsBreak
<1>7. CASE phase = "loaded" /\ CacheNext /\ UNCHANGED loadVars
  <2>1. CacheInv'
    BY <1>7, CacheInvNext DEF EnumInv
  <2>2. LoadInv'
    BY <1>7 DEF loadVars, EnumInv, LoadInv, LoadTypes, Unused, EnumMirrors, TableMirrors,
                Closed, Outcome
  <2> QED
    BY <2>1, <2>2 DEF EnumInv
<1>8. CASE UNCHANGED enumVars
  <2>1. CacheInv'
    BY <1>8, CacheInvStutters DEF enumVars, EnumInv
  <2> QED
    BY <1>8, <2>1 DEF enumVars, cacheVars, loadVars, EnumInv, LoadInv, LoadTypes, Unused,
                      EnumMirrors, TableMirrors, Closed, Outcome
<1> QED
  BY <1>1, <1>2, <1>3, <1>4, <1>5, <1>6, <1>7, <1>8 DEF EnumNext

LEMMA EnumInvariant == EnumSpec => []EnumInv
BY EnumInvInit, EnumInvNext, PTL DEF EnumSpec

-----------------------------------------------------------------------------

LEMMA EnumTypeCorrect == EnumInv => EnumTypeOK
<1> SUFFICES ASSUME EnumInv PROVE EnumTypeOK
  OBVIOUS
<1>1. written \cup half \subseteq Pairs
  BY DEF EnumInv, CacheInv, CacheTypes
<1>2. DOMAIN name \subseteq IDs /\ \A i \in DOMAIN name : name[i] \in Names
  BY <1>1 DEF EnumInv, CacheInv, CacheMirrors, MirrorName, Pairs
<1>3. DOMAIN id \subseteq Names /\ \A n \in DOMAIN id : id[n] \in IDs
  BY <1>1 DEF EnumInv, CacheInv, CacheMirrors, MirrorID, Pairs
<1> QED
  BY <1>2, <1>3 DEF EnumInv, CacheInv, CacheTypes, LoadInv, LoadTypes, EnumTypeOK

\* What the maps are to a goroutine that holds the lock for reading.
LEMMA ReaderSees ==
    ASSUME EnumInv, readers # {}
    PROVE  /\ \A n \in DOMAIN id : <<id[n], n>> \in written /\ id[n] \in DOMAIN name
           /\ \A i \in DOMAIN name : <<i, name[i]>> \in written /\ name[i] \in DOMAIN id
           /\ \A p \in written : p[1] \in DOMAIN name /\ p[2] \in DOMAIN id
           /\ OneToOne => /\ \A n \in DOMAIN id : name[id[n]] = n
                          /\ \A i \in DOMAIN name : id[name[i]] = i
<1>1. half = {}
  BY DEF EnumInv, CacheInv, LockOK
<1>2. MirrorName(name, written) /\ MirrorID(id, written)
  BY <1>1 DEF EnumInv, CacheInv, CacheMirrors
<1>3. \A n \in DOMAIN id : <<id[n], n>> \in written /\ id[n] \in DOMAIN name
  BY <1>2 DEF MirrorName, MirrorID
<1>4. \A i \in DOMAIN name : <<i, name[i]>> \in written /\ name[i] \in DOMAIN id
  BY <1>2 DEF MirrorName, MirrorID
<1>5. ASSUME OneToOne, NEW n \in DOMAIN id
      PROVE  name[id[n]] = n
  <2>1. <<id[n], n>> \in written /\ <<id[n], name[id[n]]>> \in written
    BY <1>3, <1>4
  <2> QED
    BY <2>1, <1>5 DEF OneToOne, ByID
<1>6. ASSUME OneToOne, NEW i \in DOMAIN name
      PROVE  id[name[i]] = i
  <2>1. <<i, name[i]>> \in written /\ <<id[name[i]], name[i]>> \in written
    BY <1>3, <1>4
  <2> QED
    BY <2>1, <1>6 DEF OneToOne, ByName
<1> QED
  BY <1>2, <1>3, <1>4, <1>5, <1>6 DEF MirrorName, MirrorID

\* A reader of the cache, which has the lock of EnumCache for reading, sees whole
\* pairs that were set, finds all of them, and the two maps are inverse as long as
\* the pairs that were set are one-to-one.
THEOREM ReadersSeePairs == EnumSpec => []ReadsWhatWasSet
<1>1. EnumInv => ReadsWhatWasSet
  BY ReaderSees DEF ReadsWhatWasSet
<1> QED
  BY <1>1, EnumInvariant, PTL

\* The two maps are the inverse of each other.
Inverses == /\ \A n \in DOMAIN id : id[n] \in DOMAIN name /\ name[id[n]] = n
            /\ \A i \in DOMAIN name : name[i] \in DOMAIN id /\ id[name[i]] = i

\* The names that are known are encoded in bits that have one name each: decoding
\* finds it.
LEMMA DecodesEncoded ==
    ASSUME Inverses, \A n \in DOMAIN id : \E k \in 1 .. MaxBit : id[n] = {k}, NEW s
    PROVE  LET e == EncodeBinaryMap(s)
               d == DecodeBinaryMap(e.v)
           IN  d.names = s \ e.unknown /\ d.unknown = {}
<1> DEFINE v == UNION {id[n] : n \in s \cap DOMAIN id}
           d == DecodeBinaryMap(v)
<1>1. EncodeBinaryMap(s).v = v /\ EncodeBinaryMap(s).unknown = s \ DOMAIN id
  BY DEF EncodeBinaryMap, StringsToBitMap
<1>2. ASSUME NEW k \in v
      PROVE  /\ k <= MaxBit /\ {k} \in DOMAIN name
             /\ name[{k}] \in s \cap DOMAIN id
  <2>1. PICK n \in s \cap DOMAIN id : k \in id[n]
    OBVIOUS
  <2>2. id[n] = {k} /\ k \in 1 .. MaxBit
    BY <2>1
  <2> QED
    BY <2>1, <2>2, EnumAssumption DEF Inverses
<1>3. ASSUME NEW n \in s \cap DOMAIN id
      PROVE  \E k \in v : {k} \in DOMAIN name /\ name[{k}] = n
  <2>1. PICK k \in 1 .. MaxBit : id[n] = {k}
    OBVIOUS
  <2>2. k \in v
    BY <2>1
  <2> QED
    BY <2>1, <2>2 DEF Inverses
<1> HIDE DEF v
<1>4. {k \in v : k <= MaxBit} = v
  BY <1>2
<1>5. /\ d.names = {name[{k}] : k \in {b \in v : {b} \in DOMAIN name}}
      /\ d.unknown = {k \in v : {k} \notin DOMAIN name}
  BY <1>4 DEF DecodeBinaryMap, BitMapToStrings
<1> HIDE DEF d
<1>6. d.unknown = {}
  BY <1>2, <1>5
<1>7. ASSUME NEW n PROVE n \in d.names <=> n \in s \cap DOMAIN id
  <2>1. n \in d.names <=> \E k \in v : {k} \in DOMAIN name /\ name[{k}] = n
    BY <1>5
  <2> QED
    BY <1>2, <1>3, <2>1
<1>8. d.names = s \cap DOMAIN id
  BY <1>7
<1>9. s \ (s \ DOMAIN id) = s \cap DOMAIN id
  OBVIOUS
<1> QED
  BY <1>1, <1>6, <1>8, <1>9 DEF d

\* The bits that have a name are decoded to it, and encoding finds them again.
LEMMA EncodesDecoded ==
    ASSUME Inverses, \A n \in DOMAIN id : \E k \in 1 .. MaxBit : id[n] = {k},
           NEW v \in SUBSET (1 .. MaxBit)
    PROVE  LET d == DecodeBinaryMap(v)
           IN  EncodeBinaryMap(d.names).v = v \ d.unknown
<1> DEFINE d == DecodeBinaryMap(v)
           named == {b \in v : {b} \in DOMAIN name}
<1>1. {k \in v : k <= MaxBit} = v
  <2>1. \A k \in v : k <= MaxBit
    BY EnumAssumption
  <2> QED
    BY <2>1
<1>2. /\ d.names = {name[{k}] : k \in named}
      /\ d.unknown = {k \in v : {k} \notin DOMAIN name}
  BY <1>1 DEF DecodeBinaryMap, BitMapToStrings
<1>3. EncodeBinaryMap(d.names).v = UNION {id[n] : n \in d.names \cap DOMAIN id}
  BY DEF EncodeBinaryMap, StringsToBitMap
<1>4. named = v \ d.unknown
  BY <1>2
<1>5. \A k \in named : {k} \in DOMAIN name
  OBVIOUS
<1> HIDE DEF d, named
<1>6. \A n : n \in d.names <=> \E k \in named : n = name[{k}]
  BY <1>2
<1>7. \A k \in named : name[{k}] \in d.names \cap DOMAIN id /\ id[name[{k}]] = {k}
  BY <1>5, <1>6 DEF Inverses
<1>8. ASSUME NEW n \in d.names \cap DOMAIN id PROVE id[n] \subseteq named
  <2>1. PICK k \in named : n = name[{k}]
    BY <1>6
  <2>2. id[n] = {k}
    BY <1>7, <2>1
  <2> QED
    BY <2>2
<1>9. ASSUME NEW k \in named PROVE k \in UNION {id[n] : n \in d.names \cap DOMAIN id}
  <2>1. name[{k}] \in d.names \cap DOMAIN id /\ k \in id[name[{k}]]
    BY <1>7
  <2> QED
    BY <2>1
<1>10. UNION {id[n] : n \in d.names \cap DOMAIN id} = named
  BY <1>8, <1>9
<1> QED
  BY <1>3, <1>4, <1>10 DEF d

\* Of an enumeration of bits that are looked at, the names that a reader encodes
\* are decoded to themselves, and the bits that it decodes are encoded to
\* themselves, but for those that are told to be unknown.
THEOREM BitsComeBack == EnumSpec => []BitsRoundTrip
<1>1. ASSUME EnumInv, readers # {}, OneToOne PROVE Inverses
  BY <1>1, ReaderSees DEF Inverses
<1>2. EnumInv => BitsRoundTrip
  BY <1>1, DecodesEncoded, EncodesDecoded DEF BitsRoundTrip
<1> QED
  BY <1>2, EnumInvariant, PTL

\* New gives the rows of every table or no cache at all, and leaves no statement
\* and no result open, whichever of its calls fails.
THEOREM NewGivesAllOrNothing == EnumSpec => []LoadsAllOrNothing
<1>1. ASSUME EnumInv, phase = "loaded"
      PROVE  /\ DOMAIN enum = Tables
             /\ \A t \in Tables :
                    /\ DOMAIN enum[t].name = {p[1] : p \in Rows[t]}
                    /\ DOMAIN enum[t].id = {p[2] : p \in Rows[t]}
  <2>1. DOMAIN enum = Tables
    BY <1>1 DEF EnumInv, LoadInv, Outcome
  <2>2. ASSUME NEW t \in Tables
        PROVE  /\ DOMAIN enum[t].name = {p[1] : p \in Rows[t]}
               /\ DOMAIN enum[t].id = {p[2] : p \in Rows[t]}
    <3>1. MirrorName(enum[t].name, Rows[t]) /\ MirrorID(enum[t].id, Rows[t])
      BY <1>1, <2>1 DEF EnumInv, LoadInv, EnumMirrors, Mirror
    <3>2. Rows[t] \in SUBSET Pairs
      BY TablesAssumption
    <3> QED
      BY <3>1, <3>2, MirrorDomains
  <2> QED
    BY <2>1, <2>2
<1>2. EnumInv => LoadsAllOrNothing
  BY <1>1, EnumTypeCorrect DEF EnumInv, LoadInv, Outcome, Closed, LoadsAllOrNothing
<1> QED
  BY <1>2, EnumInvariant, PTL
=============================================================================
