------------------------------- MODULE MCWeb --------------------------------
\* The model of Web that TLC checks: a public and a monitoring server, one with
\* the other metrics, and the configurations that Start does not accept.
EXTENDS Web

Public == [Default EXCEPT !.defaultEnabledRoutes = <<"ping">>,
                          !.custom = <<"login", "renew", "private">>]
Monitoring == [Default EXCEPT !.router = "jsendx",
                              !.defaultEnabledRoutes = <<"index", "ip", "metrics">>,
                              !.custom = <<"app">>]
Prometheus == [Default EXCEPT !.instrumentHandler = "prometheus",
                              !.defaultEnabledRoutes = <<"ip">>,
                              !.custom = <<"app">>]
Refused == {[Default EXCEPT !.addr = "invalid"],
            [Default EXCEPT !.shutdownTimeout = 0],
            [Default EXCEPT !.tls = "invalid"],
            [Default EXCEPT !.nilHandlers = {"status"}],
            [Default EXCEPT !.traceIDHeaderName = ""],
            [Default EXCEPT !.router = "other", !.instrumentHandler = "nil"]}
Panicked == {[Default EXCEPT !.instrumentHandler = "nil"],
             [Default EXCEPT !.router = "jsendx", !.instrumentHandler = "nil"],
             [Default EXCEPT !.defaultEnabledRoutes = <<"ping", "ping">>],
             [Public EXCEPT !.custom = <<"ping">>],
             [Monitoring EXCEPT !.nilHandlers = {"index"}]}
MCConfigs == {Public, Monitoring, Prometheus} \cup Refused \cup Panicked
=============================================================================
