-------------------------------- MODULE Web ---------------------------------
(***************************************************************************)
(* The requests of one HTTP server of the library: RequestInjectHandler    *)
(* gives a request its trace ID and its logger, the router picks the       *)
(* handler, InstrumentHandler (of statsd or of prometheus) counts around   *)
(* it, and the handler sends its response through the proxy of httputil.   *)
(* The handlers are those of the default routes, those of pkg/jwt and one  *)
(* of the application, which writes, returns or panics as it likes.        *)
(*                                                                         *)
(* Two handlers share the counters, the tokens that clients hold, the      *)
(* clock and nothing else.  What a goroutine does between two of these is  *)
(* one step.                                                               *)
(***************************************************************************)
EXTENDS Integers, Sequences, FiniteSets

CONSTANTS Configs,              \* the configurations that the options can leave
          Requests,             \* the goroutines that serve requests
          HeaderIDs,            \* the trace IDs that clients send
          NoID,                 \* none
          Users, TicksPerSecond, ExpirationTime, RenewTime, MaxClock,
          Debug,                \* the logger is at debug level
          Signs,                \* the signing method can use the key
          MaxServed,            \* bound of the model: requests served
          MaxBytes              \* bound of the model: bytes of one response

ASSUME TokenAssumption ==
    /\ TicksPerSecond \in Nat \ {0}
    /\ ExpirationTime \in Nat
    /\ RenewTime \in Nat
    /\ MaxClock \in Nat

VARIABLES cfg, server, bound,                               \* HTTPRoutes
          call, answer, outHeader, tripsIn, tripsOut,       \* PublicIP
          clock, issued, login,                             \* Token
          pc,           \* [Requests -> where the request is]
          req,          \* [Requests -> what the client sent]
          traceID,      \* [Requests -> the trace ID of the context]
          logged,       \* [Requests -> the trace IDs of its lines in the log]
          rw,           \* [Requests -> the response]
          inbound       \* the counters of InstrumentHandler

INSTANCE ResponseWriter
INSTANCE HTTPRoutes
INSTANCE PublicIP
INSTANCE Token

routesVars == <<cfg, server, bound>>
ipVars == <<call, answer, outHeader, tripsIn, tripsOut>>
tokenVars == <<clock, issued, login>>
reqVars == <<pc, req, traceID, logged, rw, inbound>>
vars == <<routesVars, ipVars, tokenVars, reqVars>>

JWTRoutes == {"login", "renew", "private"}
Fresh == Requests \X {"outer", "inner"}     \* uidc.NewID128
TraceIDs == HeaderIDs \cup Fresh

NoRequest == [path |-> "none", header |-> NoID, token |-> NoToken]

Init ==
    /\ RoutesInit(Configs) /\ IPInit /\ TokenInit
    /\ pc = [r \in Requests |-> "idle"]
    /\ req = [r \in Requests |-> NoRequest]
    /\ traceID = [r \in Requests |-> NoID]
    /\ logged = [r \in Requests |-> {}]
    /\ rw = [r \in Requests |-> NewResponse]
    /\ inbound = [in |-> 0, out |-> 0, inFlight |-> 0, requests |-> 0]

Active == {r \in Requests : pc[r] \in {"handling", "returned", "panicking"}}

\* FromHTTPRequestHeader, with a fresh ID when the header is not there.
HeaderID_Fresh(r, header, layer) == <<r, layer>>
HeaderID(r, header, layer) == IF header = NoID THEN <<r, layer>> ELSE header

\* The handlers of defaultRouter inject a second time: NewContext keeps the
\* trace ID that the context has, WithLogger replaces its logger.
InjectsAgain(path) == cfg.router = "default" /\ path \in {"404", "405"}
LoggerID(r) ==
    HeaderID(r, req[r].header, IF InjectsAgain(req[r].path) THEN "inner" ELSE "outer")

\* InstrumentHandler, before and after the handler.  What is deferred is done when
\* the handler panics too: out (with the response, under rw.status and with
\* rw.size) and in-flight, but not requests.
Statsd == cfg.instrumentHandler = "statsd"
Enter == inbound' = IF Statsd THEN [inbound EXCEPT !.in = @ + 1]
                    ELSE [inbound EXCEPT !.inFlight = @ + 1]
Left_OnReturn(returns) ==
    IF returns
    THEN IF Statsd THEN [inbound EXCEPT !.out = @ + 1]
         ELSE [inbound EXCEPT !.inFlight = @ - 1, !.requests = @ + 1]
    ELSE inbound
Left(returns) ==
    IF Statsd THEN [inbound EXCEPT !.out = @ + 1]
    ELSE [inbound EXCEPT !.inFlight = @ - 1,
                         !.requests = IF returns THEN @ + 1 ELSE @]

----------------------------------------------------------------------------

\* The tokens that a client can put in a request to path.
Tokens(path) ==
    IF path \in {"renew", "private"}
    THEN issued \cup {NoToken, Malformed, Forged} ELSE {NoToken}

\* A request comes in, as far as its handler.
Receive(r) ==
    /\ server = "listening"
    /\ pc[r] \in {"idle", "done"}
    /\ inbound.in + inbound.inFlight + inbound.requests < MaxServed
    /\ \E path \in bound \cup {"404", "405"}, header \in HeaderIDs \cup {NoID} :
         /\ \E token \in Tokens(path) :
                req' = [req EXCEPT ![r] = [path |-> path, header |-> header,
                                           token |-> token]]
         /\ traceID' = [traceID EXCEPT ![r] = HeaderID(r, header, "outer")]
    /\ pc' = [pc EXCEPT ![r] = "handling"]
    /\ logged' = [logged EXCEPT ![r] = {}]
    /\ rw' = [rw EXCEPT ![r] = NewResponse]
    /\ Enter
    /\ UNCHANGED <<routesVars, ipVars, tokenVars>>

\* A response, whole or not, and the trace IDs of the lines it has in the log.
Respond(r, status, lines) ==
    /\ \E n \in 0 .. 1 : rw' = [rw EXCEPT ![r] = Reply(rw[r], status, n)]
    /\ logged' = [logged EXCEPT ![r] = @ \cup lines]
    /\ pc' = [pc EXCEPT ![r] = "returned"]
    /\ UNCHANGED <<req, traceID, inbound>>
Send(r, status) == Respond(r, status, {LoggerID(r)})

Handling(r, paths) == pc[r] = "handling" /\ req[r].path \in paths

\* The handlers that send a status and nothing else can happen: those of the
\* default routes, NotFound and MethodNotAllowed.
StatusOf(path) ==
    CASE path = "404" -> 404
      [] path = "405" -> 405
      [] path = "metrics" /\ Statsd -> 501
      [] OTHER -> 200

HandleDefault(r) ==
    /\ Handling(r, {"404", "405"} \cup (DefaultRoutes \ {"ip"}))
    /\ Respond(r, StatusOf(req[r].path),
               IF req[r].path \in {"metrics", "pprof"} THEN {} ELSE {LoggerID(r)})
    /\ UNCHANGED <<routesVars, ipVars, tokenVars>>

\* The IP handler: GetPublicIP, and a status that tells how it ended.
HandleIP(r) ==
    /\ Handling(r, {"ip"})
    /\ \/ GetPublicIP(r, traceID[r]) /\ UNCHANGED <<logged>>
       \/ TransportAnswers(r) /\ UNCHANGED logged
       \/ /\ TransportFails(r) \/ DoReturns(r, Debug)
          /\ logged' = [logged EXCEPT ![r] = @ \cup {outHeader[r]}]
       \/ ReadBody(r) /\ UNCHANGED logged
    /\ UNCHANGED <<routesVars, tokenVars, pc, req, traceID, rw, inbound>>

IPStatus(r) == IF GotIP(r) THEN 200 ELSE 424

IPReplies(r) ==
    /\ Handling(r, {"ip"})
    /\ call[r] = "ended"
    /\ Send(r, IPStatus(r))
    /\ UNCHANGED <<routesVars, ipVars, tokenVars>>

HandleLogin(r) ==
    /\ Handling(r, {"login"})
    /\ \E status \in {200, 400, 401, 500} :
         /\ \/ \E creds \in {"malformed", "unknown", "wrong"} :
                   LoginRefused(creds, status)
            \/ \E user \in Users : Login(user, Signs, status)
         /\ Send(r, status)
    /\ UNCHANGED <<routesVars, ipVars>>

HandleRenew(r) ==
    /\ Handling(r, {"renew"})
    /\ \E status \in {200, 400, 401, 500} :
         /\ RenewRefused(req[r].token, status) \/ Renew(req[r].token, Signs, status)
         /\ Send(r, status)
    /\ UNCHANGED <<routesVars, ipVars>>

\* A handler that goes on if IsAuthorized.
HandlePrivate(r) ==
    /\ Handling(r, {"private"})
    /\ Send(r, IF CheckToken(req[r].token) THEN 200 ELSE 401)
    /\ UNCHANGED <<routesVars, ipVars, tokenVars>>

\* One call that the handler of the application makes on its ResponseWriter.
AppCalls(r) ==
    /\ Handling(r, {"app"})
    /\ rw[r].bytes < MaxBytes
    /\ \/ \E code \in {200, 500} : rw' = [rw EXCEPT ![r] = WriteHeader(rw[r], code)]
       \/ rw' = [rw EXCEPT ![r] = Write(rw[r], 1)]
       \/ rw' = [rw EXCEPT ![r] = Flush(rw[r])]
       \/ rw' = [rw EXCEPT ![r] = Tee(rw[r])]
       \/ \E readerFrom \in BOOLEAN :
             rw' = [rw EXCEPT ![r] = ReadFrom(rw[r], readerFrom, 1)]
    /\ Statsd                                   \* the proxy is that of statsd
    /\ UNCHANGED <<routesVars, ipVars, tokenVars, pc, req, traceID, logged, inbound>>

\* ReadFrom with a tee, and a reader that is not a WriterTo: the stack overflows,
\* which ends the process.
AppOverflows(r) ==
    /\ Handling(r, {"app"})
    /\ Statsd
    /\ ReadFromRecurses(rw[r], FALSE)
    /\ server' = "crashed"
    /\ UNCHANGED <<cfg, bound, ipVars, tokenVars, reqVars>>

AppEnds(r) ==
    /\ Handling(r, {"app"})
    /\ pc' = [pc EXCEPT ![r] = "returned"] \/ pc' = [pc EXCEPT ![r] = "panicking"]
    /\ UNCHANGED <<routesVars, ipVars, tokenVars, req, traceID, logged, rw,
                   inbound>>

\* The handler returns through InstrumentHandler (net/http sends a status if
\* nobody has), and what the goroutine knew is gone.
Return(r) ==
    /\ pc[r] = "returned"
    /\ inbound' = Left(TRUE)
    /\ pc' = [pc EXCEPT ![r] = "idle"]
    /\ req' = [req EXCEPT ![r] = NoRequest]
    /\ traceID' = [traceID EXCEPT ![r] = NoID]
    /\ logged' = [logged EXCEPT ![r] = {}]
    /\ rw' = [rw EXCEPT ![r] = NewResponse]
    /\ call' = [call EXCEPT ![r] = "none"]
    /\ answer' = [answer EXCEPT ![r] = NoAnswer]
    /\ outHeader' = [outHeader EXCEPT ![r] = NoID]
    /\ UNCHANGED <<routesVars, tripsIn, tripsOut, tokenVars>>

\* It panics through it, into the PanicHandler of the router, which has the
\* ResponseWriter of net/http, and the request as the router was given it.
PanicLoggerID(r) ==
    HeaderID(r, req[r].header, IF cfg.router = "default" THEN "inner" ELSE "outer")

Panic(r) ==
    /\ pc[r] = "panicking"
    /\ inbound' = Left(FALSE)
    /\ \E n \in 0 .. 1 : rw' = [rw EXCEPT ![r] = NetReply(rw[r], 500, n)]
    /\ logged' = [logged EXCEPT ![r] = @ \cup {PanicLoggerID(r)}]
    /\ pc' = [pc EXCEPT ![r] = "done"]
    /\ UNCHANGED <<routesVars, ipVars, tokenVars, req, traceID>>

Serve(r) == /\ server # "crashed"
            /\ \/ HandleDefault(r) \/ HandleIP(r) \/ IPReplies(r)
               \/ HandleLogin(r) \/ HandleRenew(r) \/ HandlePrivate(r)
               \/ AppCalls(r) \/ AppOverflows(r) \/ AppEnds(r)
               \/ Return(r) \/ Panic(r)

Next ==
    \/ (StartRefused \/ StartPanics \/ Start) /\ UNCHANGED <<ipVars, tokenVars, reqVars>>
    \/ bound \cap JWTRoutes # {} /\ Tick /\ UNCHANGED <<routesVars, ipVars, reqVars>>
    \/ \E r \in Requests : Receive(r) \/ Serve(r)

Spec == Init /\ [][Next]_vars

----------------------------------------------------------------------------

TypeOK ==
    /\ server \in {"new", "refused", "panicked", "listening", "crashed"}
    /\ call \in [Requests -> Calls]
    /\ answer \in [Requests -> Answers]
    /\ outHeader \in [Requests -> TraceIDs \cup {NoID}]
    /\ clock \in 0 .. MaxClock
    /\ \A t \in issued : t.form = "signed" /\ t.user \in Users
    /\ login \in [Users -> {Never} \cup 0 .. MaxClock]
    /\ pc \in [Requests -> {"idle", "handling", "returned", "panicking", "done"}]
    /\ traceID \in [Requests -> TraceIDs \cup {NoID}]
    /\ logged \in [Requests -> SUBSET TraceIDs]
    /\ inbound \in [{"in", "out", "inFlight", "requests"} -> Nat]

\* InstrumentHandler counts what has been sent by the time the handler is over,
\* whatever it called in whatever order: the status that a response is counted
\* under is the one that was sent, and the size is that of the bytes.  There are
\* two exceptions, and no third: a handler that flushed before any status has
\* sent 200 and is counted under 0, and what ReadFrom sent along with a tee is
\* counted twice.  (Under 0 is also counted a handler that has sent nothing:
\* net/http sends 200 for it after that, or the PanicHandler 500.)
RecordsWhatWasSent ==
    \A r \in Active :
        /\ IF rw[r].flushed THEN rw[r].status = 0 /\ rw[r].sent = OK
           ELSE rw[r].status = rw[r].sent
        /\ rw[r].size = rw[r].bytes + rw[r].again

\* Each request that InstrumentHandler lets in goes out, panics included: the
\* handlers that run are the difference of the counters of statsd, or the
\* in-flight gauge of prometheus; so are the round trips of httpclient.
RequestsCounted ==
    /\ TypeOK
    /\ Cardinality(Active) = IF Statsd THEN inbound.in - inbound.out
                                      ELSE inbound.inFlight
    /\ Cardinality({r \in Requests : call[r] = "calling"}) = tripsIn - tripsOut

\* A request has one trace ID, that of its header if there is one: what a handler
\* sends on has it, and so have the lines of its log.  (Without a header, the
\* handlers of defaultRouter for 404, 405 and panics log under an ID of their
\* own; those of jsendx do not.)
TraceFollowsRequest ==
    \A r \in Requests :
        /\ outHeader[r] \in {NoID, traceID[r]}
        /\ req[r].header # NoID => traceID[r] = req[r].header
        /\ req[r].header # NoID \/ cfg.router = "jsendx"
               => logged[r] \subseteq {traceID[r]}

\* The IP handler answers 200 with an address that was read to its end, 424 when
\* GetPublicIP failed at any point, and the body is closed when it does.
IPTellsOutcome ==
    \A r \in Requests :
        req[r].path = "ip" /\ pc[r] = "returned" =>
            /\ rw[r].sent = 200 <=> answer[r].whole /\ answer[r].body = "read"
            /\ answer[r].body \notin {"open", "buffered"}

\* IsAuthorized lets a user in no later than expirationTime after a login of that
\* user, in whole seconds, however often the token was renewed.
AccessAfterLogin ==
    [][\A r \in Requests :
           /\ pc[r] = "handling" /\ pc'[r] = "returned"
           /\ req[r].path = "private" /\ rw'[r].status = 200
           => \E u \in Users :
                  /\ req[r].token.user = u
                  /\ login[u] # Never
                  /\ clock < login[u] + ExpirationTime + TicksPerSecond]_vars
=============================================================================
