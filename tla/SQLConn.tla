------------------------------ MODULE SQLConn ------------------------------
(***************************************************************************)
(* pkg/sqlconn: one SQLConn, from Connect to the end of its context.       *)
(*                                                                         *)
(* A read-write lock protects the *sql.DB that the SQLConn holds: DB and   *)
(* HealthCheck read it, and a goroutine closes and drops it when the       *)
(* context is done.  sync.RWMutex lets no reader in while a writer waits.  *)
(*                                                                         *)
(* A component of Service: the context is cancelled by its environment.    *)
(***************************************************************************)
CONSTANT Users              \* the goroutines that call HealthCheck

VARIABLES ctxDone,          \* the context of Connect is done
          handle,           \* the *sql.DB: "none", "open" or "closed"
          db,               \* the field c.db: "nil", or the "handle"
          readers,          \* the users that hold the lock for reading
          disconnecting     \* where the goroutine of Connect is

sqlVars == <<handle, db, readers, disconnecting>>

SQLInit ==
    /\ handle = "none"
    /\ db = "nil"
    /\ readers = {}
    /\ disconnecting = "none"

\* The database is open, answers the check, and the goroutine is started.
Connect ==
    /\ handle = "none"
    /\ handle' = "open"
    /\ db' = "handle"
    /\ disconnecting' = "waiting"
    /\ UNCHANGED readers

\* The address or the options are wrong, or the database does not open.
ConnectError ==
    /\ handle = "none"
    /\ UNCHANGED sqlVars

\* The database opens and fails the check: an error is all that Connect returns.
CheckError ==
    /\ handle = "none"
    /\ handle' = "open"
    /\ UNCHANGED <<db, readers, disconnecting>>

\* The handle of a failed check stays open: nobody has it, no goroutine closes it.
Leaked ==
    /\ handle = "open"
    /\ db = "nil"
    /\ disconnecting = "none"

\* The lock can be taken for reading.
Readable == disconnecting # "locking"

\* HealthCheck finds no database.
CheckUnavailable ==
    /\ Readable
    /\ db = "nil"
    /\ UNCHANGED sqlVars

\* HealthCheck begins the check, and keeps the lock as long as it lasts.
CheckBegin(u) ==
    /\ Readable
    /\ db = "handle"
    /\ readers' = readers \cup {u}
    /\ UNCHANGED <<handle, db, disconnecting>>

\* The check ends, at pingTimeout at the latest.
CheckEnd(u) ==
    /\ u \in readers
    /\ readers' = readers \ {u}
    /\ UNCHANGED <<handle, db, disconnecting>>

\* The context is done: disconnect asks for the lock.
DisconnectBegin ==
    /\ disconnecting = "waiting"
    /\ ctxDone
    /\ disconnecting' = "locking"
    /\ UNCHANGED <<handle, db, readers>>

\* disconnect closes the handle whoever is reading.
Disconnect_NoLock ==
    /\ disconnecting = "locking"
    /\ handle' = "closed"
    /\ db' = "nil"
    /\ disconnecting' = "done"
    /\ UNCHANGED readers

\* disconnect drops the handle, and does not close it.
Disconnect_NoClose ==
    /\ disconnecting = "locking"
    /\ readers = {}
    /\ db' = "nil"
    /\ disconnecting' = "done"
    /\ UNCHANGED <<handle, readers>>

\* disconnect has the lock: it closes the handle and drops it.
Disconnect ==
    /\ disconnecting = "locking"
    /\ readers = {}
    /\ handle' = "closed"
    /\ db' = "nil"
    /\ disconnecting' = "done"
    /\ UNCHANGED readers

\* Every variable keeps its type; the field holds an open handle, from Connect
\* to the end of disconnect.
SQLTypeOK ==
    /\ handle \in {"none", "open", "closed"}
    /\ db \in {"nil", "handle"}
    /\ readers \subseteq Users
    /\ disconnecting \in {"none", "waiting", "locking", "done"}
    /\ db = "handle" => handle = "open"
    /\ (db = "handle") <=> (disconnecting \in {"waiting", "locking"})

\* A check in progress uses an open database, which the end of the context
\* does not close under it.
CheckUsesOpenDB == readers # {} => db = "handle" /\ handle = "open"
=============================================================================
