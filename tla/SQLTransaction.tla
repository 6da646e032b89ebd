--------------------------- MODULE SQLTransaction ---------------------------
(***************************************************************************)
(* pkg/sqltransaction: calls of Exec, each of which runs a function in a   *)
(* transaction of its own.  (pkg/sqlxtransaction is the same code over the *)
(* types of sqlx.)                                                         *)
(*                                                                         *)
(* Outside src/: database/sql and the server.  A commit that fails may     *)
(* have been done, when only its answer was lost; a transaction whose      *)
(* context is done is rolled back by database/sql, behind Exec.            *)
(*                                                                         *)
(* A component of Service, which says what database Exec is given.         *)
(***************************************************************************)
CONSTANT Execs              \* the calls of Exec

VARIABLES exec,             \* [Execs -> where the call is]
          tx,               \* [Execs -> the transaction on the server]
          answerLost        \* history: [Execs -> Commit lost its answer]

txVars == <<exec, tx, answerLost>>

TxInit ==
    /\ exec = [e \in Execs |-> "none"]
    /\ tx = [e \in Execs |-> "none"]
    /\ answerLost = [e \in Execs |-> FALSE]

Return(e, outcome) == exec' = [exec EXCEPT ![e] = outcome]

\* Exec is called on a nil *sql.DB: BeginTx panics.
BeginPanic(e) ==
    /\ exec[e] = "none"
    /\ Return(e, "panic")
    /\ UNCHANGED <<tx, answerLost>>

\* BeginTx fails: the database is closed, or out of reach.
BeginError(e) ==
    /\ exec[e] = "none"
    /\ Return(e, "error")
    /\ UNCHANGED <<tx, answerLost>>

\* BeginTx succeeds.
Begin(e) ==
    /\ exec[e] = "none"
    /\ exec' = [exec EXCEPT ![e] = "run"]
    /\ tx' = [tx EXCEPT ![e] = "open"]
    /\ UNCHANGED answerLost

\* The deferred rollback is left out when the function panics.
Run_PanicUndeferred(e) ==
    /\ exec[e] = "run"
    /\ \E next \in {"commit", "rollback error", "panic"} :
          exec' = [exec EXCEPT ![e] = next]
    /\ UNCHANGED <<tx, answerLost>>

\* The function returns nil, returns an error, or panics.
Run(e) ==
    /\ exec[e] = "run"
    /\ \E next \in {"commit", "rollback error", "rollback panic"} :
          exec' = [exec EXCEPT ![e] = next]
    /\ UNCHANGED <<tx, answerLost>>

\* Commit succeeds; fails and the server has rolled back; fails to get the
\* answer of the server, which has committed; or finds the transaction ended.
Commit(e) ==
    /\ exec[e] = "commit"
    /\ \/ /\ tx[e] = "open"
          /\ tx' = [tx EXCEPT ![e] = "committed"]
          /\ Return(e, "nil")
          /\ UNCHANGED answerLost
       \/ /\ tx[e] = "open"
          /\ tx' = [tx EXCEPT ![e] = "rolled back"]
          /\ exec' = [exec EXCEPT ![e] = "rollback error"]
          /\ UNCHANGED answerLost
       \/ /\ tx[e] = "open"
          /\ tx' = [tx EXCEPT ![e] = "committed"]
          /\ exec' = [exec EXCEPT ![e] = "rollback error"]
          /\ answerLost' = [answerLost EXCEPT ![e] = TRUE]
       \/ /\ tx[e] # "open"
          /\ exec' = [exec EXCEPT ![e] = "rollback error"]
          /\ UNCHANGED <<tx, answerLost>>

\* The deferred Rollback ends the transaction, unless it has ended (ErrTxDone).
\* When it fails, the connection is dropped and the server rolls back.
Rollback(e) ==
    /\ exec[e] \in {"rollback error", "rollback panic"}
    /\ tx' = [tx EXCEPT ![e] = IF @ = "open" THEN "rolled back" ELSE @]
    /\ Return(e, IF exec[e] = "rollback error" THEN "error" ELSE "panic")
    /\ UNCHANGED answerLost

\* The caller's context is done.
ContextDone(e) ==
    /\ tx[e] = "open"
    /\ tx' = [tx EXCEPT ![e] = "rolled back"]
    /\ UNCHANGED <<exec, answerLost>>

ExecStep(e) == Run(e) \/ Commit(e) \/ Rollback(e)

Returned(e) == exec[e] \in {"nil", "error", "panic"}

TxTypeOK ==
    /\ exec \in [Execs -> {"none", "run", "commit", "rollback error",
                           "rollback panic", "nil", "error", "panic"}]
    /\ tx \in [Execs -> {"none", "open", "committed", "rolled back"}]
    /\ answerLost \in [Execs -> BOOLEAN]

\* What Exec returns is what happened: nil when, and only when, the server has
\* committed, but for a commit whose answer was lost; and no transaction is
\* left open, be it by a panic or by a context that ended in the middle.
ExecTellsOutcome ==
    \A e \in Execs : Returned(e) =>
       /\ tx[e] # "open"
       /\ exec[e] = "nil" => tx[e] = "committed"
       /\ tx[e] = "committed" => exec[e] = "nil" \/ answerLost[e]
=============================================================================
