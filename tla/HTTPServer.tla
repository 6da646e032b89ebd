----------------------------- MODULE HTTPServer -----------------------------
(***************************************************************************)
(* pkg/httpserver: the servers that Start makes, each with the two         *)
(* goroutines of startServer.  One serves the listener until the server    *)
(* fails or is shut down; the other waits for the context and shuts the    *)
(* server down.                                                            *)
(*                                                                         *)
(* Outside src/: net/http.  Serve closes its listener when it returns, and *)
(* returns at once when Shutdown has begun; Shutdown closes the listener   *)
(* that Serve has, then waits for the requests in progress for as long as  *)
(* its context lasts.                                                      *)
(*                                                                         *)
(* A component of Service: the context is cancelled by its environment.    *)
(***************************************************************************)
CONSTANTS Servers,          \* the servers
          Requests,         \* the requests of the clients
          ServerOf          \* [Requests -> the server that a request goes to]

VARIABLES ctxDone,          \* the context of Start is done
          listener,         \* [Servers -> "none", "open" or "closed"]
          serving,          \* [Servers -> the goroutine that serves]
          stopping,         \* [Servers -> the goroutine that shuts down]
          request           \* [Requests -> "none", "active" or "answered"]

serverVars == <<listener, serving, stopping, request>>

ServerInit ==
    /\ listener = [s \in Servers |-> "none"]
    /\ serving = [s \in Servers |-> "none"]
    /\ stopping = [s \in Servers |-> "none"]
    /\ request = [r \in Requests |-> "none"]

Active(s) == {r \in Requests : ServerOf[r] = s /\ request[r] = "active"}
InShutdown(s) == stopping[s] \in {"draining", "done"}

\* Start listens to the address and starts the two goroutines.
Start(s) ==
    /\ listener[s] = "none"
    /\ listener' = [listener EXCEPT ![s] = "open"]
    /\ serving' = [serving EXCEPT ![s] = "ready"]
    /\ stopping' = [stopping EXCEPT ![s] = "waiting"]
    /\ UNCHANGED request

\* An option or the configuration is wrong, or the address is taken.
StartError(s) ==
    /\ listener[s] = "none"
    /\ UNCHANGED serverVars

\* Serve returns, and closes the listener.
ServeReturns(s) ==
    /\ listener' = [listener EXCEPT ![s] = "closed"]
    /\ serving' = [serving EXCEPT ![s] = "returned"]
    /\ UNCHANGED <<stopping, request>>

\* The goroutine calls Serve, which looks for the end of the server first.
Serve(s) ==
    /\ serving[s] = "ready"
    /\ IF InShutdown(s) THEN ServeReturns(s)
       ELSE /\ serving' = [serving EXCEPT ![s] = "accepting"]
            /\ UNCHANGED <<listener, stopping, request>>

\* Serve returns after Shutdown (the goroutine logs a failure all the same).
ServeEnds(s) ==
    /\ serving[s] = "accepting"
    /\ InShutdown(s)
    /\ ServeReturns(s)

\* Serve fails to accept connections: the error is logged, and that is all.
ServeFails(s) ==
    /\ serving[s] = "accepting"
    /\ ~InShutdown(s)
    /\ ServeReturns(s)

\* Serve takes a connection, and the handler of its request begins.
Accept(r) ==
    /\ request[r] = "none"
    /\ serving[ServerOf[r]] = "accepting"
    /\ listener[ServerOf[r]] = "open"
    /\ request' = [request EXCEPT ![r] = "active"]
    /\ UNCHANGED <<listener, serving, stopping>>

\* The handler ends (a panic is recovered by the router, and answered).
Answer(r) ==
    /\ request[r] = "active"
    /\ request' = [request EXCEPT ![r] = "answered"]
    /\ UNCHANGED <<listener, serving, stopping>>

\* The context is done: the goroutine calls Shutdown.
ShutdownBegin(s) ==
    /\ stopping[s] = "waiting"
    /\ ctxDone
    /\ stopping' = [stopping EXCEPT ![s] = "draining"]
    /\ listener' = [listener EXCEPT ![s] =
                      IF serving[s] = "accepting" THEN "closed" ELSE @]
    /\ UNCHANGED <<serving, request>>

\* Shutdown returns: no request is in progress.
ShutdownDrained(s) ==
    /\ stopping[s] = "draining"
    /\ Active(s) = {}
    /\ stopping' = [stopping EXCEPT ![s] = "done"]
    /\ UNCHANGED <<listener, serving, request>>

\* Shutdown returns: shutdownTimeout has passed.
ShutdownTimeout(s) ==
    /\ stopping[s] = "draining"
    /\ Active(s) # {}
    /\ stopping' = [stopping EXCEPT ![s] = "done"]
    /\ UNCHANGED <<listener, serving, request>>

ServerStep(s) ==
    \/ Serve(s)
    \/ ServeEnds(s)
    \/ ShutdownBegin(s)
    \/ ShutdownDrained(s)
    \/ ShutdownTimeout(s)

\* The server is over: its address is free, and its goroutines have ended.
Over(s) ==
    /\ listener[s] # "open"
    /\ serving[s] \in {"none", "returned"}
    /\ stopping[s] \in {"none", "done"}

\* Every variable keeps its type; a server has its goroutines and its listener
\* together, and the listener does not outlive the one that serves it.
ServerTypeOK ==
    /\ listener \in [Servers -> {"none", "open", "closed"}]
    /\ serving \in [Servers -> {"none", "ready", "accepting", "returned"}]
    /\ stopping \in [Servers -> {"none", "waiting", "draining", "done"}]
    /\ request \in [Requests -> {"none", "active", "answered"}]
    /\ \A s \in Servers :
          /\ (listener[s] = "none") = (serving[s] = "none")
          /\ (listener[s] = "none") = (stopping[s] = "none")
          /\ serving[s] = "returned" => listener[s] = "closed"
=============================================================================
