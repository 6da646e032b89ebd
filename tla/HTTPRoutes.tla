----------------------------- MODULE HTTPRoutes -----------------------------
(***************************************************************************)
(* pkg/httpserver: the options, the configuration and the routes of Start, *)
(* up to the listener (module HTTPServer has what comes after it).  The    *)
(* router is the one of defaultRouter, the one of jsendx.NewRouter, or     *)
(* another given to WithRouter.                                            *)
(*                                                                         *)
(* Outside src/: httprouter panics when a path is bound twice.             *)
(*                                                                         *)
(* A component of Web.                                                     *)
(***************************************************************************)
EXTENDS Naturals, Sequences

VARIABLES cfg,      \* the configuration
          server,   \* "new", "refused", "panicked", "listening" or "crashed"
          bound     \* the paths that the router has a handler for

\* The identifiers of the default routes stand for their paths.
DefaultRoutes == {"index", "ip", "metrics", "ping", "pprof", "status"}

\* What the options leave of the defaults, as far as Start tells it apart.
Config ==
    [addr : {"valid", "invalid"}, shutdownTimeout : Nat,
     tls : {"none", "valid", "invalid"},
     instrumentHandler : {"nil", "statsd", "prometheus"},
     defaultEnabledRoutes : Seq(DefaultRoutes),
     nilHandlers : SUBSET DefaultRoutes,
     traceIDHeaderName : {"", "X-Request-ID"},
     router : {"default", "jsendx", "other"},
     custom : Seq(STRING)]              \* the routes of the binder

Default ==
    [addr |-> "valid", shutdownTimeout |-> 30, tls |-> "none",
     instrumentHandler |-> "statsd", defaultEnabledRoutes |-> <<>>,
     nilHandlers |-> {}, traceIDHeaderName |-> "X-Request-ID",
     router |-> "default", custom |-> <<>>]

HasIndex(c) == \E i \in DOMAIN c.defaultEnabledRoutes :
                   c.defaultEnabledRoutes[i] = "index"

Validate(c) ==
    /\ c.addr = "valid"
    /\ c.shutdownTimeout # 0
    /\ c.instrumentHandler # "nil"
    /\ c.nilHandlers \subseteq {"index"}    \* indexHandlerFunc is not looked at
    /\ c.traceIDHeaderName # ""

\* The paths in the order they are bound: the default routes but for the index,
\* those of the binder, the index.
NotIndex(id) == id # "index"
Paths(c) == SelectSeq(c.defaultEnabledRoutes, NotIndex) \o c.custom
            \o (IF HasIndex(c) THEN <<"index">> ELSE <<>>)

BoundTwice(c) == \E i, j \in DOMAIN Paths(c) : i # j /\ Paths(c)[i] = Paths(c)[j]

\* jsendx.NewRouter, before Start, and defaultRouter call the instrument handler;
\* the index handler is called once the other routes are bound.
NewRouterPanics(c) == c.router = "jsendx" /\ c.instrumentHandler = "nil"
CallsNil(c) ==
    \/ c.router = "default" /\ c.instrumentHandler = "nil"
    \/ Validate(c) /\ HasIndex(c) /\ "index" \in c.nilHandlers
Panics(c) ==
    \/ NewRouterPanics(c)
    \/ c.tls # "invalid" /\ (CallsNil(c) \/ (Validate(c) /\ BoundTwice(c)))

\* configs are those that the options can leave.
RoutesInit(configs) ==
    /\ cfg \in configs
    /\ server = "new"
    /\ bound = {}

\* An option fails, or the configuration is not valid.
StartRefused ==
    /\ server = "new"
    /\ ~Panics(cfg)
    /\ cfg.tls = "invalid" \/ ~Validate(cfg)
    /\ server' = "refused"
    /\ UNCHANGED <<cfg, bound>>

StartPanics ==
    /\ server = "new"
    /\ Panics(cfg)
    /\ server' = "panicked"
    /\ UNCHANGED <<cfg, bound>>

\* The routes are bound, and the address is listened to, or cannot be.
Start ==
    /\ server = "new"
    /\ ~Panics(cfg) /\ cfg.tls # "invalid" /\ Validate(cfg)
    /\ server' \in {"listening", "refused"}
    /\ bound' = {Paths(cfg)[i] : i \in DOMAIN Paths(cfg)}
    /\ UNCHANGED cfg
=============================================================================
