------------------------------- MODULE Config -------------------------------
(***************************************************************************)
(* pkg/config, and the command of examples/service that loads its          *)
(* configuration with it: Load reads the defaults, a local file, the       *)
(* environment and a remote source, and has the result validated; then the *)
(* command applies its flags, makes the logger and goes on to Bootstrap.   *)
(*                                                                         *)
(* A layer gives each parameter a class of values, or Unset:               *)
(*   "valid"     Validate accepts it                                       *)
(*   "loose"     Validate refuses it, the logger takes it ("warn", "Info") *)
(*   "invalid"   neither takes it                                          *)
(*   "mistyped"  it cannot be decoded into the field                       *)
(* A value is where it comes from and its class.                           *)
(*                                                                         *)
(* Outside src/: viper looks a key up in the environment, in the file and  *)
(* in the defaults, reads the first file of its search path, and fails on  *)
(* one it cannot parse or if there is none.                                *)
(***************************************************************************)
EXTENDS Naturals, Sequences

CONSTANTS Params,           \* the parameters of the application
          FlagParams,       \* those that have a flag: log.level and log.format
          SearchPath,       \* the directories, in the order they are searched
          EnvLayers, FileLayers, RemoteLayers, FlagLayers,  \* layers that occur
          RemoteSources     \* what the remote parameters can be

ASSUME ConfigAssumption == FlagParams \subseteq Params

VARIABLES env, flags,       \* layers
          files,            \* [directories -> a layer, Absent or Malformed]
          rs,               \* remoteSourceConfig: of the environment or the file
          stage,            \* of Load, then of the command: what comes next
          file,             \* the directory that the file was read from, as a set
          remote,           \* the layer of the remote source, as a set
          cfg               \* [Params -> values]

Unset == "unset"
Classes == {"valid", "loose", "invalid", "mistyped"}
Layers == [Params -> Classes \cup {Unset}]

\* A flag is a string, which is never mistyped.
ASSUME LayersAssumption ==
    /\ EnvLayers \cup FileLayers \cup RemoteLayers \cup FlagLayers \subseteq Layers
    /\ \A layer \in FlagLayers : \A p \in Params :
           layer[p] # "mistyped" /\ (p \in FlagParams \/ layer[p] = Unset)

ASSUME PathAssumption ==
    /\ SearchPath \in Seq(STRING)
    /\ \A i \in DOMAIN SearchPath : SearchPath[i] \notin {"default", "env", "remote", "flag"}

NoLayer == [p \in Params |-> Unset]
Absent == [p \in Params |-> "absent"]
Malformed == [p \in Params |-> "malformed"]

configVars == <<env, flags, files, rs, stage, file, remote, cfg>>

Layer(from, layer) == [p \in Params |-> [from |-> from, class |-> layer[p]]]
Over(high, low) == [p \in Params |-> IF high[p].class # Unset THEN high[p] ELSE low[p]]

Default == Layer("default", [p \in Params |-> "valid"])

ConfigInit ==
    /\ env \in EnvLayers
    /\ flags \in FlagLayers
    /\ files \in [{SearchPath[i] : i \in DOMAIN SearchPath}
                      -> FileLayers \cup {Absent, Malformed}]
    /\ rs \in RemoteSources
    /\ stage = "file"
    /\ file = {}
    /\ remote = {}
    /\ cfg = Default

Goes(next) == stage' = next /\ UNCHANGED <<env, flags, files, rs>>

\* loadLocalConfig: ReadInConfig finds no file, or one it cannot parse.  Load returns
\* the error of either, though a comment there reads "the local configuration file
\* (if any)" and the package comment says that the program "attempts to load" it.
Found(i) == files[SearchPath[i]] # Absent /\ \A j \in 1 .. i - 1 : files[SearchPath[j]] = Absent

NoConfigFile ==
    /\ stage = "file"
    /\ \/ \A d \in DOMAIN files : files[d] = Absent
       \/ \E i \in DOMAIN SearchPath : Found(i) /\ files[SearchPath[i]] = Malformed
    /\ Goes("failed") /\ UNCHANGED <<file, remote, cfg>>

\* What lv.Get returns for the keys of lv.AllKeys: the defaults of the second viper.
Local(dir) == Over(Layer("env", env), Over(Layer(dir, files[dir]), Default))

\* The parameters of the remote source are strings; a file can give something else.
SourceDecodes == \A key \in DOMAIN rs : rs[key] # "mistyped"

SourceMistyped ==
    /\ stage = "file"
    /\ \E i \in DOMAIN SearchPath : Found(i) /\ files[SearchPath[i]] # Malformed
    /\ ~SourceDecodes
    /\ Goes("failed") /\ UNCHANGED <<file, remote, cfg>>

LoadLocalConfig ==
    /\ stage = "file"
    /\ SourceDecodes
    /\ \E i \in DOMAIN SearchPath :
           /\ Found(i) /\ files[SearchPath[i]] # Malformed
           /\ file' = {SearchPath[i]}
           /\ cfg' = Local(SearchPath[i])
    /\ Goes("remote") /\ UNCHANGED remote

\* loadRemoteConfig.  loadFromEnvVarSource asks for data, loadFromRemoteSource for an
\* endpoint and a path, with a keyring or not; viper for a provider it supports.
SourceUsable ==
    CASE rs.provider = "envvar" -> rs.data = "readable"
      [] OTHER -> /\ rs.provider \in {"consul", "etcd", "firestore"}
                  /\ rs.endpoint # "" /\ rs.path # ""

NoRemote ==
    /\ stage = "remote"
    /\ rs.provider = ""
    /\ Goes("unmarshal") /\ UNCHANGED <<file, remote, cfg>>

ReadRemote ==
    /\ stage = "remote"
    /\ rs.provider # "" /\ SourceUsable
    /\ \E layer \in RemoteLayers : /\ remote' = {layer}
                                   /\ cfg' = Over(Layer("remote", layer), cfg)
    /\ Goes("unmarshal") /\ UNCHANGED file

\* The source is not usable, or does not answer.
RemoteFails_Ignored ==
    /\ stage = "remote"
    /\ rs.provider # ""
    /\ Goes("unmarshal") /\ UNCHANGED <<file, remote, cfg>>
RemoteFails ==
    /\ stage = "remote"
    /\ rs.provider # ""
    /\ Goes("failed") /\ UNCHANGED <<file, remote, cfg>>

UnmarshalFails ==
    /\ stage = "unmarshal"
    /\ \E p \in Params : cfg[p].class = "mistyped"
    /\ Goes("failed") /\ UNCHANGED <<file, remote, cfg>>

Unmarshal ==
    /\ stage = "unmarshal"
    /\ \A p \in Params : cfg[p].class # "mistyped"
    /\ Goes("validate") /\ UNCHANGED <<file, remote, cfg>>

Validates_Parsed(c) == \A p \in Params : c[p].class \in {"valid", "loose"}
Validates(c) == \A p \in Params : c[p].class = "valid"

\* Load returns, and the flags that were given replace what it loaded.
Validate ==
    /\ stage = "validate"
    /\ IF Validates(cfg)
       THEN cfg' = Over(Layer("flag", flags), cfg) /\ Goes("logger")
       ELSE UNCHANGED cfg /\ Goes("failed")
    /\ UNCHANGED <<file, remote>>

\* NewDefaultLogger: ParseFormat and ParseLevel.
Parses(class) == class \in {"valid", "loose"}
LoggerTakes == \A p \in FlagParams : Parses(cfg[p].class)

NewDefaultLogger ==
    /\ stage = "logger"
    /\ Goes(IF LoggerTakes THEN "started" ELSE "refused")
    /\ UNCHANGED <<file, remote, cfg>>

ConfigNext ==
    \/ NoConfigFile \/ SourceMistyped \/ LoadLocalConfig
    \/ NoRemote \/ ReadRemote \/ RemoteFails
    \/ UnmarshalFails \/ Unmarshal \/ Validate \/ NewDefaultLogger

ConfigSpec == ConfigInit /\ [][ConfigNext]_configVars

----------------------------------------------------------------------------

ConfigTypeOK ==
    /\ stage \in {"file", "remote", "unmarshal", "validate", "logger",
               "started", "refused", "failed"}
    /\ cfg \in [Params -> [from : {"default", "env", "remote", "flag"} \cup DOMAIN files,
                           class : Classes]]

Sets(p) ==
    {s \in {"flag", "remote", "env", "file"} :
        CASE s = "flag" -> flags[p] # Unset
          [] s = "remote" -> \E layer \in remote : layer[p] # Unset
          [] s = "env" -> env[p] # Unset
          [] s = "file" -> \E d \in file : files[d][p] # Unset}

\* A program that starts has each parameter from the source of the highest rank
\* that sets it: flag, remote source, environment, the first file of the search
\* path, default.  No step of Load that fails is passed over: it has read the remote
\* source if it names one, and a file in any case, for the error of ReadInConfig
\* that says there is none is returned like the others (config.go:204; against "(if
\* any)" in the comment above that line, the file is not optional).
StartsFromItsSources ==
    /\ ConfigTypeOK
    /\ stage = "started" =>
        /\ file # {}
        /\ \A d \in file : \E i \in DOMAIN SearchPath :
               /\ SearchPath[i] = d
               /\ \A j \in 1 .. i - 1 : files[SearchPath[j]] = Absent
        /\ rs.provider # "" => remote # {}
        /\ \A p \in Params :
               LET s == Sets(p) IN
               /\ "flag" \in s => cfg[p].from = "flag"
               /\ s \cap {"flag", "remote"} = {"remote"} => cfg[p].from = "remote"
               /\ s \cap {"flag", "remote", "env"} = {"env"} => cfg[p].from = "env"
               /\ s = {"file"} => cfg[p].from \in file
               /\ s = {} => cfg[p].from = "default"

\* What has not passed Validate comes from a flag, and the logger takes it: a
\* configuration that Load accepts is never one that the logger refuses.
OnlyFlagsPassUnvalidated ==
    /\ stage = "started" =>
           \A p \in Params :
               cfg[p].class # "valid" => /\ p \in FlagParams
                                         /\ cfg[p].from = "flag"
                                         /\ cfg[p].class = "loose"
    /\ stage = "refused" => \E p \in FlagParams : flags[p] = "invalid"
=============================================================================
