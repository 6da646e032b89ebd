------------------------------ MODULE MCConfig ------------------------------
\* The model of Config that TLC checks: the level of the log, which has a flag,
\* and the public address, which has none.
EXTENDS Config

MCParams == {"log.level", "public_address"}
L(level, address) == [p \in MCParams |-> IF p = "log.level" THEN level ELSE address]

MCEnv == {L(l, a) : l \in {"unset", "valid"}, a \in {"unset", "valid", "mistyped"}}
MCFiles == {L(l, a) : l \in {"unset", "valid", "loose"}, a \in {"unset", "valid", "invalid"}}
MCRemote == {L(l, a) : l \in {"unset", "valid", "loose"}, a \in {"unset", "valid", "mistyped"}}
MCFlags == {L(l, "unset") : l \in {"unset", "valid", "loose", "invalid"}}

MCPath == <<"configDir", "./">>

None == [provider |-> "", endpoint |-> "", path |-> "", data |-> ""]
Consul == [None EXCEPT !.provider = "consul", !.endpoint = "http", !.path = "/config"]
EnvVar == [None EXCEPT !.provider = "envvar", !.data = "readable"]
MCSources == {None, Consul, EnvVar,
              [Consul EXCEPT !.endpoint = "mistyped"],
              [Consul EXCEPT !.endpoint = ""], [Consul EXCEPT !.path = ""],
              [EnvVar EXCEPT !.data = ""], [EnvVar EXCEPT !.data = "garbled"],
              [EnvVar EXCEPT !.provider = "envar"]}
=============================================================================
