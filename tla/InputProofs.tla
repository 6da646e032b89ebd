----------------------------- MODULE InputProofs -----------------------------
(***************************************************************************)
(* Proofs about the two components that make something of what they are    *)
(* given: Config, which puts layers of configuration together, and Filter, *)
(* which applies the rules of a caller to a slice.                         *)
(*                                                                         *)
(* Config, for any parameters, layers and search path: what a program that *)
(* starts runs with (StartsFromItsSources), and what of it has not been    *)
(* validated (OnlyFlagsPassUnvalidated).  The invariant says, for each     *)
(* point of Load, which layers cfg is made of, one over the other.  A      *)
(* layer over another is looked at through one lemma, LayerOver.           *)
(*                                                                         *)
(* Filter, for every set of slices and rules, every limit and any number   *)
(* of calls.  FilterInv says that reading and writing one slice do not     *)
(* meet.  ResultInv relates each point of the loop to the reference: what  *)
(* the rules behind the position have answered is what they mean for the   *)
(* object (Decided), what is counted and kept is what matches among the    *)
(* objects before (Before), and a path in the cache is the one of its own  *)
(* type (CacheOK), which needs UniqueTypes.                                *)
(***************************************************************************)
EXTENDS Config, Filter, SequenceTheorems, FiniteSetTheorems, TLAPS

-----------------------------------------------------------------------------
(* Config.                                                                 *)

Dirs == {SearchPath[k] : k \in DOMAIN SearchPath}
Sources == {"default", "env", "remote", "flag"} \cup Dirs
Values == [from : Sources, class : Classes]

InputsOK ==
    /\ env \in Layers
    /\ flags \in FlagLayers
    /\ files \in [Dirs -> FileLayers \cup {Absent, Malformed}]

\* The file that was read, the first of the search path.
ReadFrom(dir) ==
    /\ file = {dir}
    /\ dir \in Dirs
    /\ files[dir] \in Layers
    /\ \E k \in DOMAIN SearchPath :
           /\ SearchPath[k] = dir
           /\ \A j \in 1 .. k - 1 : files[SearchPath[j]] = Absent

\* What Load returns: the file and the environment, with or without a remote source.
Merged(c) ==
    \E dir \in Dirs :
        /\ ReadFrom(dir)
        /\ \/ rs.provider = "" /\ remote = {} /\ c = Local(dir)
           \/ \E layer \in Layers : /\ remote = {layer}
                                    /\ c = Over(Layer("remote", layer), Local(dir))

AtFile == stage = "file" => file = {} /\ remote = {}
AtRemote == stage = "remote" => /\ remote = {}
                             /\ \E dir \in Dirs : ReadFrom(dir) /\ cfg = Local(dir)
AtValidate == stage \in {"unmarshal", "validate"} => Merged(cfg)
AtLogger == stage \in {"logger", "started", "refused"} =>
                \E c \in [Params -> Values] : /\ Merged(c)
                                              /\ Validates(c)
                                              /\ cfg = Over(Layer("flag", flags), c)
AtEnd == /\ stage = "started" => LoggerTakes
         /\ stage = "refused" => ~LoggerTakes

CfgOK == /\ stage \in {"file", "remote", "unmarshal", "validate", "logger",
                    "started", "refused", "failed"}
         /\ cfg \in [Params -> Values]

ConfigInv == InputsOK /\ CfgOK /\ AtFile /\ AtRemote /\ AtValidate /\ AtLogger /\ AtEnd

-----------------------------------------------------------------------------

\* A layer over a configuration gives the parameters it sets, and no other.
LEMMA LayerOver ==
    ASSUME NEW from \in Sources, NEW layer \in Layers, NEW c \in [Params -> Values]
    PROVE  /\ Over(Layer(from, layer), c) \in [Params -> Values]
           /\ \A p \in Params :
                 /\ layer[p] # Unset => Over(Layer(from, layer), c)[p]
                                            = [from |-> from, class |-> layer[p]]
                 /\ layer[p] = Unset => Over(Layer(from, layer), c)[p] = c[p]
<1> DEFINE o == Over(Layer(from, layer), c)
<1>1. \A p \in Params : o[p] = IF layer[p] # Unset
                               THEN [from |-> from, class |-> layer[p]] ELSE c[p]
  BY DEF Over, Layer
<1>2. \A p \in Params : o[p] \in Values
  <2> TAKE p \in Params
  <2>1. layer[p] \in Classes \cup {Unset}
    BY DEF Layers
  <2>2. c[p] \in Values
    OBVIOUS
  <2>3. CASE layer[p] = Unset
    BY <1>1, <2>2, <2>3
  <2>4. CASE layer[p] # Unset
    <3>1. [from |-> from, class |-> layer[p]] \in Values
      BY <2>1, <2>4 DEF Values
    <3>2. o[p] = [from |-> from, class |-> layer[p]]
      BY <1>1, <2>4
    <3> QED
      BY <3>1, <3>2
  <2> QED
    BY <2>3, <2>4
<1>3. o = [p \in Params |-> o[p]]
  BY DEF Over
<1> QED
  BY <1>1, <1>2, <1>3

LEMMA LayerOverAt ==
    ASSUME NEW from \in Sources, NEW layer \in Layers, NEW c \in [Params -> Values],
           NEW p \in Params
    PROVE  /\ Over(Layer(from, layer), c)[p].from = IF layer[p] # Unset THEN from ELSE c[p].from
           /\ Over(Layer(from, layer), c)[p].class =
                  IF layer[p] # Unset THEN layer[p] ELSE c[p].class
<1>1. CASE layer[p] = Unset
  <2>1. Over(Layer(from, layer), c)[p] = c[p]
    BY <1>1, LayerOver
  <2> QED
    BY <1>1, <2>1
<1>2. CASE layer[p] # Unset
  <2>1. Over(Layer(from, layer), c)[p] = [from |-> from, class |-> layer[p]]
    BY <1>2, LayerOver
  <2> QED
    BY <1>2, <2>1
<1> QED
  BY <1>1, <1>2

LEMMA SourcesContain ==
    /\ "default" \in Sources /\ "env" \in Sources /\ "remote" \in Sources
    /\ "flag" \in Sources /\ Dirs \subseteq Sources
BY DEF Sources

LEMMA DefaultType == Default \in [Params -> Values]
BY DEF Default, Layer, Values, Sources, Classes

LEMMA LocalType ==
    ASSUME env \in Layers, NEW dir \in Dirs, files[dir] \in Layers
    PROVE  Over(Layer(dir, files[dir]), Default) \in [Params -> Values]
           /\ Local(dir) \in [Params -> Values]
BY DefaultType, LayerOver DEF Local, Sources

\* What the file leads to when it can be read.
LEMMA FilesType ==
    ASSUME InputsOK, NEW k \in DOMAIN SearchPath, Found(k),
           files[SearchPath[k]] # Malformed
    PROVE  SearchPath[k] \in Dirs /\ files[SearchPath[k]] \in Layers
BY LayersAssumption DEF InputsOK, Dirs, Found

LEMMA ConfigInvInit == ConfigInit => ConfigInv
<1> SUFFICES ASSUME ConfigInit PROVE ConfigInv
  OBVIOUS
<1>1. InputsOK
  BY LayersAssumption DEF ConfigInit, InputsOK, Dirs
<1>2. CfgOK
  BY DefaultType DEF ConfigInit, CfgOK
<1> QED
  BY <1>1, <1>2 DEF ConfigInit, ConfigInv, AtFile, AtRemote, AtValidate, AtLogger, AtEnd

\* Each step of Load, and of the command after it, keeps the layers in their order.
LEMMA ConfigInvNext == ConfigInv /\ [ConfigNext]_configVars => ConfigInv'
<1> SUFFICES ASSUME ConfigInv, [ConfigNext]_configVars PROVE ConfigInv'
  OBVIOUS
<1> USE DEF Goes
<1>inp. InputsOK
  BY DEF ConfigInv
<1>0. InputsOK'
  <2>1. env' = env /\ flags' = flags /\ files' = files
    BY DEF ConfigNext, configVars, NoConfigFile, SourceMistyped, LoadLocalConfig, NoRemote, ReadRemote, RemoteFails,
           UnmarshalFails, Unmarshal, Validate, NewDefaultLogger
  <2> QED
    BY <2>1, <1>inp DEF InputsOK
<1>1. CASE NoConfigFile \/ SourceMistyped
  BY <1>0, <1>1 DEF NoConfigFile, SourceMistyped, ConfigInv, CfgOK, AtFile, AtRemote, AtValidate, AtLogger, AtEnd
<1>2. CASE LoadLocalConfig
  <2>1. PICK k \in DOMAIN SearchPath :
            /\ Found(k) /\ files[SearchPath[k]] # Malformed
            /\ file' = {SearchPath[k]}
            /\ cfg' = Local(SearchPath[k])
    BY <1>2 DEF LoadLocalConfig
  <2> DEFINE dir == SearchPath[k]
  <2>2. dir \in Dirs /\ files[dir] \in Layers
    BY <2>1, <1>inp, FilesType
  <2>3. stage' = "remote" /\ remote' = {} /\ files' = files /\ env' = env
    BY <1>2 DEF LoadLocalConfig, ConfigInv, AtFile
  <2>4. ReadFrom(dir)'
    BY <2>1, <2>2, <2>3 DEF ReadFrom, Found
  <2>5. cfg' = Local(dir)'
    BY <2>1, <2>3 DEF Local
  <2>6. CfgOK'
    BY <2>1, <2>2, <2>3, <1>inp, LocalType DEF CfgOK, InputsOK
  <2>7. AtRemote'
    BY <2>2, <2>3, <2>4, <2>5 DEF AtRemote
  <2> QED
    BY <1>0, <2>3, <2>6, <2>7 DEF ConfigInv, AtFile, AtValidate, AtLogger, AtEnd
<1>3. CASE NoRemote
  <2>1. PICK dir \in Dirs : ReadFrom(dir) /\ cfg = Local(dir) /\ remote = {}
    BY <1>3 DEF NoRemote, ConfigInv, AtRemote
  <2>2. /\ stage' = "unmarshal" /\ rs.provider = "" /\ rs' = rs /\ remote' = remote
        /\ files' = files /\ env' = env /\ file' = file /\ cfg' = cfg
    BY <1>3 DEF NoRemote
  <2>3. Merged(cfg)'
    BY <2>1, <2>2 DEF Merged, ReadFrom, Local
  <2> QED
    BY <1>0, <2>2, <2>3 DEF ConfigInv, CfgOK, AtFile, AtRemote, AtValidate, AtLogger, AtEnd
<1>4. CASE ReadRemote
  <2>1. PICK dir \in Dirs : ReadFrom(dir) /\ cfg = Local(dir) /\ remote = {}
    BY <1>4 DEF ReadRemote, ConfigInv, AtRemote
  <2>2. PICK layer \in RemoteLayers : /\ remote' = {layer}
                                      /\ cfg' = Over(Layer("remote", layer), cfg)
    BY <1>4 DEF ReadRemote
  <2>3. layer \in Layers
    BY <2>2, LayersAssumption
  <2>4. /\ stage' = "unmarshal" /\ rs' = rs
        /\ files' = files /\ env' = env /\ file' = file
    BY <1>4 DEF ReadRemote
  <2>5. Merged(cfg)'
    BY <2>1, <2>2, <2>3, <2>4 DEF Merged, ReadFrom, Local
  <2>6. CfgOK'
    BY <2>2, <2>3, <2>4, LayerOver DEF ConfigInv, CfgOK, Sources
  <2> QED
    BY <1>0, <2>4, <2>5, <2>6 DEF ConfigInv, AtFile, AtRemote, AtValidate, AtLogger, AtEnd
<1>5. CASE RemoteFails
  BY <1>0, <1>5 DEF RemoteFails, ConfigInv, CfgOK, AtFile, AtRemote, AtValidate, AtLogger, AtEnd
<1>6. CASE UnmarshalFails
  BY <1>0, <1>6 DEF UnmarshalFails, ConfigInv, CfgOK, AtFile, AtRemote, AtValidate, AtLogger, AtEnd
<1>7. CASE Unmarshal
  <2>1. /\ stage = "unmarshal" /\ stage' = "validate" /\ rs' = rs /\ remote' = remote
        /\ files' = files /\ env' = env /\ file' = file /\ cfg' = cfg
    BY <1>7 DEF Unmarshal
  <2>2. Merged(cfg)'
    BY <2>1 DEF ConfigInv, AtValidate, Merged, ReadFrom, Local
  <2> QED
    BY <1>0, <2>1, <2>2 DEF ConfigInv, CfgOK, AtFile, AtRemote, AtValidate, AtLogger, AtEnd
<1>8. CASE Validate
  <2>1. /\ stage = "validate" /\ rs' = rs /\ remote' = remote /\ flags' = flags
        /\ files' = files /\ env' = env /\ file' = file
    BY <1>8 DEF Validate
  <2>2. CASE ~Validates(cfg)
    BY <1>0, <1>8, <2>2 DEF Validate, ConfigInv, CfgOK, AtFile, AtRemote, AtValidate, AtLogger, AtEnd
  <2>3. CASE Validates(cfg)
    <3>1. stage' = "logger" /\ cfg' = Over(Layer("flag", flags), cfg)
      BY <1>8, <2>3 DEF Validate
    <3>2. Merged(cfg) /\ cfg \in [Params -> Values] /\ flags \in Layers
      BY <2>1, LayersAssumption DEF ConfigInv, AtValidate, CfgOK, InputsOK
    <3>3. \A c : Merged(c) => Merged(c)'
      BY <2>1 DEF Merged, ReadFrom, Local
    <3>4. AtLogger'
      BY <2>1, <2>3, <3>1, <3>2, <3>3 DEF AtLogger, Validates
    <3>5. CfgOK'
      BY <3>1, <3>2, LayerOver DEF CfgOK, Sources
    <3> QED
      BY <1>0, <3>1, <3>4, <3>5 DEF ConfigInv, AtFile, AtRemote, AtValidate, AtEnd
  <2> QED
    BY <2>2, <2>3
<1>9. CASE NewDefaultLogger
  <2>1. /\ stage = "logger" /\ rs' = rs /\ remote' = remote /\ flags' = flags
        /\ files' = files /\ env' = env /\ file' = file /\ cfg' = cfg
        /\ stage' = IF LoggerTakes THEN "started" ELSE "refused"
    BY <1>9 DEF NewDefaultLogger
  <2>2. \A c : Merged(c) => Merged(c)'
    BY <2>1 DEF Merged, ReadFrom, Local
  <2>3. AtLogger'
    BY <2>1, <2>2 DEF ConfigInv, AtLogger, Validates
  <2>4. AtEnd'
    BY <2>1 DEF AtEnd, LoggerTakes
  <2> QED
    BY <1>0, <2>1, <2>3, <2>4 DEF ConfigInv, CfgOK, AtFile, AtRemote, AtValidate
<1>10. CASE UNCHANGED configVars
  <2>1. \A c : Merged(c) => Merged(c)'
    BY <1>10 DEF configVars, Merged, ReadFrom, Local
  <2>2. AtLogger'
    BY <1>10, <2>1 DEF configVars, ConfigInv, AtLogger, Validates
  <2>3. AtValidate'
    BY <1>10, <2>1 DEF configVars, ConfigInv, AtValidate
  <2> QED
    BY <1>0, <1>10, <2>2, <2>3
       DEF configVars, ConfigInv, CfgOK, AtFile, AtRemote, ReadFrom, Local, AtEnd, LoggerTakes
<1> QED
  BY <1>1, <1>2, <1>3, <1>4, <1>5, <1>6, <1>7, <1>8, <1>9, <1>10 DEF ConfigNext

LEMMA ConfigInvariant == ConfigSpec => []ConfigInv
BY ConfigInvInit, ConfigInvNext, PTL DEF ConfigSpec

-----------------------------------------------------------------------------

\* Where the parameters of a local configuration come from.
LEMMA LocalFrom ==
    ASSUME env \in Layers, NEW dir \in Dirs, files[dir] \in Layers, NEW p \in Params
    PROVE  Local(dir)[p].from = IF env[p] # Unset THEN "env"
                                ELSE IF files[dir][p] # Unset THEN dir ELSE "default"
<1> DEFINE low == Over(Layer(dir, files[dir]), Default)
<1>1. low \in [Params -> Values]
  BY LocalType
<1>2. low[p].from = IF files[dir][p] # Unset THEN dir ELSE "default"
  <2>1. Default[p].from = "default"
    BY DEF Default, Layer
  <2> QED
    BY <2>1, DefaultType, LayerOverAt, SourcesContain
<1>3. Local(dir) = Over(Layer("env", env), low)
  BY DEF Local
<1>4. Local(dir)[p].from = IF env[p] # Unset THEN "env" ELSE low[p].from
  BY <1>1, <1>3, LayerOverAt, SourcesContain
<1> QED
  BY <1>2, <1>4

LEMMA SetsOf ==
    ASSUME NEW p \in Params
    PROVE  /\ "flag" \in Sets(p) <=> flags[p] # Unset
           /\ "remote" \in Sets(p) <=> \E layer \in remote : layer[p] # Unset
           /\ "env" \in Sets(p) <=> env[p] # Unset
           /\ "file" \in Sets(p) <=> \E d \in file : files[d][p] # Unset
           /\ Sets(p) \subseteq {"flag", "remote", "env", "file"}
BY DEF Sets

\* The parameters of a program that has started: from the flags, else the remote
\* source, else what LocalFrom says.
LEMMA StartedFrom ==
    ASSUME ConfigInv, stage \in {"logger", "started", "refused"}
    PROVE  \E dir \in Dirs :
               /\ ReadFrom(dir)
               /\ rs.provider # "" => remote # {}
               /\ \A p \in Params : cfg[p].from =
                      IF flags[p] # Unset THEN "flag"
                      ELSE IF \E layer \in remote : layer[p] # Unset THEN "remote"
                      ELSE IF env[p] # Unset THEN "env"
                      ELSE IF files[dir][p] # Unset THEN dir ELSE "default"
<1>1. PICK c \in [Params -> Values] : /\ Merged(c)
                                      /\ cfg = Over(Layer("flag", flags), c)
  BY DEF ConfigInv, AtLogger
<1>2. env \in Layers /\ flags \in Layers
  BY LayersAssumption DEF ConfigInv, InputsOK
<1>3. PICK dir \in Dirs :
        /\ ReadFrom(dir)
        /\ \/ rs.provider = "" /\ remote = {} /\ c = Local(dir)
           \/ \E layer \in Layers : /\ remote = {layer}
                                    /\ c = Over(Layer("remote", layer), Local(dir))
  BY <1>1 DEF Merged
<1>4. files[dir] \in Layers
  BY <1>3 DEF ReadFrom
<1>5. Local(dir) \in [Params -> Values]
  BY <1>2, <1>4, LocalType
<1>6. ASSUME NEW p \in Params
      PROVE  c[p].from = IF \E layer \in remote : layer[p] # Unset THEN "remote"
                         ELSE Local(dir)[p].from
  <2>1. CASE remote = {} /\ c = Local(dir)
    BY <2>1
  <2>2. ASSUME NEW layer \in Layers, remote = {layer},
               c = Over(Layer("remote", layer), Local(dir))
        PROVE  c[p].from = IF layer[p] # Unset THEN "remote" ELSE Local(dir)[p].from
    <3>1. Over(Layer("remote", layer), Local(dir))[p].from =
              IF layer[p] # Unset THEN "remote" ELSE Local(dir)[p].from
      BY <1>5, LayerOverAt, SourcesContain
    <3> QED
      BY <2>2, <3>1
  <2> QED
    BY <1>3, <2>1, <2>2
<1>7. ASSUME NEW p \in Params
      PROVE  cfg[p].from = IF flags[p] # Unset THEN "flag" ELSE c[p].from
  <2>1. Over(Layer("flag", flags), c)[p].from =
            IF flags[p] # Unset THEN "flag" ELSE c[p].from
    BY <1>2, LayerOverAt, SourcesContain
  <2> QED
    BY <1>1, <2>1
<1>8. rs.provider # "" => remote # {}
  BY <1>3
<1>9. ASSUME NEW p \in Params
      PROVE  cfg[p].from =
                 IF flags[p] # Unset THEN "flag"
                 ELSE IF \E layer \in remote : layer[p] # Unset THEN "remote"
                 ELSE IF env[p] # Unset THEN "env"
                 ELSE IF files[dir][p] # Unset THEN dir ELSE "default"
  <2>1. cfg[p].from = IF flags[p] # Unset THEN "flag" ELSE c[p].from
    BY <1>7
  <2>2. c[p].from = IF \E layer \in remote : layer[p] # Unset THEN "remote"
                    ELSE Local(dir)[p].from
    BY <1>6
  <2>3. Local(dir)[p].from = IF env[p] # Unset THEN "env"
                             ELSE IF files[dir][p] # Unset THEN dir ELSE "default"
    BY <1>2, <1>4, LocalFrom
  <2> QED
    BY <2>1, <2>2, <2>3
<1> QED
  BY <1>3, <1>8, <1>9

\* A program that starts has each parameter from the source of the highest rank
\* that sets it, the first file of the search path, and the remote source if it
\* names one: Load passes over no failure (config.go, loadConfig).
THEOREM EachFromItsSource == ConfigSpec => []StartsFromItsSources
<1>1. ConfigInv => ConfigTypeOK
  BY DEF ConfigInv, CfgOK, InputsOK, ConfigTypeOK, Values, Sources
<1>2. ASSUME ConfigInv, stage = "started"
      PROVE  /\ file # {}
             /\ \A d \in file : \E k \in DOMAIN SearchPath :
                    /\ SearchPath[k] = d
                    /\ \A j \in 1 .. k - 1 : files[SearchPath[j]] = Absent
             /\ rs.provider # "" => remote # {}
             /\ \A p \in Params :
                    LET s == Sets(p) IN
                    /\ "flag" \in s => cfg[p].from = "flag"
                    /\ s \cap {"flag", "remote"} = {"remote"} => cfg[p].from = "remote"
                    /\ s \cap {"flag", "remote", "env"} = {"env"} => cfg[p].from = "env"
                    /\ s = {"file"} => cfg[p].from \in file
                    /\ s = {} => cfg[p].from = "default"
  <2>1. PICK dir \in Dirs :
           /\ ReadFrom(dir)
           /\ rs.provider # "" => remote # {}
           /\ \A p \in Params : cfg[p].from =
                  IF flags[p] # Unset THEN "flag"
                  ELSE IF \E layer \in remote : layer[p] # Unset THEN "remote"
                  ELSE IF env[p] # Unset THEN "env"
                  ELSE IF files[dir][p] # Unset THEN dir ELSE "default"
    BY <1>2, StartedFrom
  <2>2. file = {dir}
    BY <2>1 DEF ReadFrom
  <2>3. ASSUME NEW p \in Params
        PROVE  LET s == Sets(p) IN
               /\ "flag" \in s => cfg[p].from = "flag"
               /\ s \cap {"flag", "remote"} = {"remote"} => cfg[p].from = "remote"
               /\ s \cap {"flag", "remote", "env"} = {"env"} => cfg[p].from = "env"
               /\ s = {"file"} => cfg[p].from \in file
               /\ s = {} => cfg[p].from = "default"
    BY <2>1, <2>2, SetsOf
  <2> QED
    BY <2>1, <2>2, <2>3 DEF ReadFrom
<1>3. ConfigInv => StartsFromItsSources
  BY <1>1, <1>2 DEF StartsFromItsSources
<1> QED
  BY <1>3, ConfigInvariant, PTL

\* What has not passed Validate comes from a flag, and a program that the logger
\* refuses was given an invalid flag (cli.go applies the flags after Load).
THEOREM OnlyFlagsAreUnvalidated == ConfigSpec => []OnlyFlagsPassUnvalidated
<1>1. ASSUME ConfigInv, stage \in {"logger", "started", "refused"}, NEW p \in Params,
             cfg[p].class # "valid"
      PROVE  /\ p \in FlagParams
             /\ cfg[p].from = "flag"
             /\ cfg[p].class = flags[p]
             /\ cfg[p].class \in {"loose", "invalid"}
  <2>1. PICK c \in [Params -> Values] : /\ Validates(c)
                                        /\ cfg = Over(Layer("flag", flags), c)
    BY <1>1 DEF ConfigInv, AtLogger
  <2>2. flags \in Layers /\ flags \in FlagLayers
    BY <1>1, LayersAssumption DEF ConfigInv, InputsOK
  <2>3. c[p].class = "valid"
    BY <2>1 DEF Validates
  <2>a. /\ cfg[p].from = IF flags[p] # Unset THEN "flag" ELSE c[p].from
        /\ cfg[p].class = IF flags[p] # Unset THEN flags[p] ELSE c[p].class
    BY <2>1, <2>2, LayerOverAt, SourcesContain
  <2>4. flags[p] # Unset
    BY <1>1, <2>3, <2>a
  <2>5. cfg[p].from = "flag" /\ cfg[p].class = flags[p]
    BY <2>4, <2>a
  <2>6. flags[p] \in Classes \cup {Unset}
    BY <2>2 DEF Layers
  <2>7. flags[p] # "mistyped" /\ p \in FlagParams
    BY <2>2, <2>4, LayersAssumption
  <2> QED
    BY <1>1, <2>4, <2>5, <2>6, <2>7 DEF Classes
<1>2. ASSUME ConfigInv, stage = "started", NEW p \in Params, cfg[p].class # "valid"
      PROVE  p \in FlagParams /\ cfg[p].from = "flag" /\ cfg[p].class = "loose"
  BY <1>1, <1>2 DEF ConfigInv, AtEnd, LoggerTakes, Parses
<1>3. ASSUME ConfigInv, stage = "refused"
      PROVE  \E p \in FlagParams : flags[p] = "invalid"
  <2>1. PICK p \in FlagParams : ~Parses(cfg[p].class)
    BY <1>3 DEF ConfigInv, AtEnd, LoggerTakes
  <2>2. p \in Params
    BY <2>1, ConfigAssumption
  <2> QED
    BY <1>1, <1>3, <2>1, <2>2 DEF Parses
<1>4. ConfigInv => OnlyFlagsPassUnvalidated
  BY <1>2, <1>3 DEF OnlyFlagsPassUnvalidated
<1> QED
  BY <1>4, ConfigInvariant, PTL

-----------------------------------------------------------------------------
(* Filter.                                                                 *)

\* The slices and the rules of a call, and the evaluators kept in the rules.
ArgumentsOK ==
    /\ slice \in Seq(Range(slice)) /\ Len(slice) \in Nat
    /\ Len(input) \in Nat
    /\ Len(rules) \in Nat /\ DOMAIN rules = 1 .. Len(rules)
    /\ \A a \in DOMAIN rules : /\ Len(rules[a]) \in Nat
                               /\ DOMAIN rules[a] = 1 .. Len(rules[a])
    /\ offset \in Nat

EvaluatorsOK ==
    /\ eval = [a \in DOMAIN rules |-> eval[a]]
    /\ \A a \in DOMAIN rules : eval[a] = [b \in DOMAIN rules[a] |-> eval[a][b]]

\* While the loop runs, the slice has the length of the input, no more objects
\* have matched than have been read, and no more are kept than have matched.
Counted ==
    pc = "loop" => /\ Len(slice) = Len(input)
                   /\ n <= m
                   /\ m < i

FilterInv == TypeOK /\ ReadsWhatWasGiven /\ ArgumentsOK /\ EvaluatorsOK /\ Counted

LEMMA EmptySequence ==
    ASSUME NEW S
    PROVE  <<>> \in Seq(S) /\ Len(<<>>) = 0 /\ DOMAIN <<>> = {}
  OBVIOUS

LEMMA SequenceShape ==
    ASSUME NEW S, NEW s \in Seq(S)
    PROVE  Len(s) \in Nat /\ DOMAIN s = 1 .. Len(s)
  OBVIOUS

LEMMA FilterInvInit == Init => FilterInv
  <1> SUFFICES ASSUME Init PROVE FilterInv
    OBVIOUS
  <1> USE DEF Init
  <1>1. Len(<<>>) = 0 /\ DOMAIN <<>> = {} /\ Range(<<>>) = {}
    BY EmptySequence DEF Range
  <1>2. ArgumentsOK
    BY <1>1, EmptySequence DEF ArgumentsOK
  <1>3. EvaluatorsOK
    BY <1>1 DEF EvaluatorsOK
  <1>4. TypeOK
    BY <1>1, FilterAssumption DEF TypeOK, NoReturn
  <1>5. ReadsWhatWasGiven /\ Counted
    BY DEF ReadsWhatWasGiven, Counted, NoReturn
  <1> QED
    BY <1>2, <1>3, <1>4, <1>5 DEF FilterInv

\* A call begins.
LEMMA ApplySubsetStep ==
    ASSUME FilterInv,
           NEW given \in RuleSets, NEW s \in Slices, NEW o \in Offsets, NEW l \in Lengths,
           ApplySubset(given, s, o, l)
    PROVE  FilterInv'
  <1> USE FilterAssumption DEF ApplySubset
  <1>1. /\ s \in Seq(Range(s)) /\ Len(s) \in Nat
        /\ Len(given) \in Nat /\ DOMAIN given = 1 .. Len(given)
    BY SequenceShape
  <1>2. \A a \in DOMAIN given : Len(given[a]) \in Nat /\ DOMAIN given[a] = 1 .. Len(given[a])
    BY SequenceShape
  <1>3. ArgumentsOK'
    BY <1>1, <1>2 DEF ArgumentsOK
  <1>4. EvaluatorsOK'
    BY DEF EvaluatorsOK
  <1>5. ReadsWhatWasGiven'
    BY <1>1 DEF ReadsWhatWasGiven
  <1>6. Counted'
    BY <1>1 DEF Counted
  <1>7. (ret.err \in {"none", "nil", "error", "panic"})'
    BY DEF NoReturn
  <1>8. (\A a \in DOMAIN eval : \A b \in DOMAIN eval[a] :
            eval[a][b] \in {NoEvaluator, getEvaluator(rules[a][b])})'
    OBVIOUS
  <1>9. (calls \in 0 .. MaxCalls)'
    <2>1. calls \in 0 .. MaxCalls
      BY DEF FilterInv, TypeOK
    <2>2. calls < MaxCalls /\ calls' = calls + 1
      OBVIOUS
    <2>3. MaxCalls \in Nat
      OBVIOUS
    <2> HIDE DEF ApplySubset
    <2> QED
      BY <2>1, <2>2, <2>3
  <1>10. (and <= Len(rules) => or \in 1 .. Len(rules[and]) + 1)'
    BY <1>1, <1>2
  <1>11. TypeOK'
    BY <1>1, <1>7, <1>8, <1>9, <1>10 DEF TypeOK
  <1> QED
    BY <1>3, <1>4, <1>5, <1>6, <1>11 DEF FilterInv

\* The position after a rule has been decided, or the end of the call.
LEMMA DecideStep ==
    ASSUME FilterInv, pc = "loop", i <= Len(slice), and <= Len(rules), or <= Len(rules[and]),
           NEW answer, Decide(answer),
           UNCHANGED <<arguments, slice, counters>>
    PROVE  /\ (pc \in {"idle", "loop"})'
           /\ (and \in 1 .. Len(rules) + 1)'
           /\ (and <= Len(rules) => or \in 1 .. Len(rules[and]) + 1)'
           /\ (ret.err \in {"none", "nil", "error", "panic"})'
           /\ ReadsWhatWasGiven'
           /\ Counted'
           /\ UNCHANGED i
  <1> USE DEF FilterInv, arguments, counters
  <1>0. /\ and \in Nat /\ and >= 1 /\ or \in Nat /\ or >= 1
        /\ Len(rules) \in Nat /\ DOMAIN rules = 1 .. Len(rules)
        /\ \A a \in DOMAIN rules : Len(rules[a]) \in Nat
        /\ and \in 1 .. Len(rules)
    BY DEF TypeOK, ArgumentsOK
  <1>1. CASE answer = "true"
    <2>1. and' = and + 1 /\ or' = 1 /\ UNCHANGED <<i, pc, ret, rules>>
      BY <1>1 DEF Decide
    <2> HIDE DEF FilterInv
    <2>2. ASSUME and' <= Len(rules) PROVE or' \in 1 .. Len(rules[and']) + 1
      <3>1. Len(rules[and']) \in Nat
        BY <1>0, <2>1, <2>2
      <3> QED
        BY <2>1, <3>1
    <2>3. (and \in 1 .. Len(rules) + 1)'
      BY <1>0, <2>1
    <2> QED
      BY <2>1, <2>2, <2>3 DEF FilterInv, TypeOK, ReadsWhatWasGiven, Counted
  <1>2. CASE answer = "false"
    <2>1. or' = or + 1 /\ UNCHANGED <<i, and, pc, ret, rules>>
      BY <1>2 DEF Decide
    <2>2. or' \in 1 .. Len(rules[and]) + 1
      BY <1>0, <2>1
    <2> QED
      BY <2>1, <2>2 DEF TypeOK, ReadsWhatWasGiven, Counted
  <1>3. CASE answer \in {"error", "panic"}
    <2>1. pc' = "idle" /\ ret' = [NoReturn EXCEPT !.err = answer] /\ UNCHANGED position
      BY <1>3 DEF Decide, Return
    <2>2. ret'.err = answer
      BY <2>1 DEF NoReturn
    <2> QED
      BY <1>3, <2>1, <2>2 DEF TypeOK, ReadsWhatWasGiven, Counted, position
  <1> QED
    BY <1>1, <1>2, <1>3 DEF Decide

\* The evaluator of the rule is kept.
LEMMA EvaluateValueStep ==
    ASSUME FilterInv, and <= Len(rules), or <= Len(rules[and]), UNCHANGED rules,
           NEW value, EvaluateValue(value)
    PROVE  /\ EvaluatorsOK'
           /\ (\A a \in DOMAIN eval : \A b \in DOMAIN eval[a] :
                  eval[a][b] \in {NoEvaluator, getEvaluator(rules[a][b])})'
           /\ \E answer : Decide(answer)
  <1> DEFINE made == getEvaluator(rules[and][or])
             e == IF eval[and][or] = NoEvaluator THEN made ELSE eval[and][or]
  <1>1. and \in DOMAIN rules /\ or \in DOMAIN rules[and]
    BY DEF FilterInv, TypeOK, ArgumentsOK
  <1>2. eval' = [eval EXCEPT ![and][or] = e]
    BY DEF EvaluateValue
  <1>3. e \in {NoEvaluator, made}
    BY <1>1 DEF FilterInv, TypeOK, EvaluatorsOK
  <1>4. \E answer : Decide(answer)
    BY DEF EvaluateValue
  <1> HIDE DEF made, e
  <1>5. EvaluatorsOK'
    BY <1>1, <1>2 DEF FilterInv, EvaluatorsOK
  <1>6. ASSUME NEW a \in DOMAIN rules, NEW b \in DOMAIN rules[a]
        PROVE  eval'[a][b] \in {NoEvaluator, getEvaluator(rules[a][b])}
    <2>1. CASE a = and /\ b = or
      BY <1>1, <1>2, <1>3, <2>1 DEF FilterInv, EvaluatorsOK, made
    <2>2. CASE ~(a = and /\ b = or)
      BY <1>1, <1>2, <2>2 DEF FilterInv, EvaluatorsOK, TypeOK
    <2> QED
      BY <2>1, <2>2
  <1> QED
    BY <1>4, <1>5, <1>6 DEF EvaluatorsOK

LEMMA EvaluateRuleStep ==
    ASSUME FilterInv, EvaluateRule
    PROVE  FilterInv'
  <1> USE DEF EvaluateRule
  <1>1. UNCHANGED rules
    BY DEF arguments
  <1>2. \/ \E value : EvaluateValue(value)
        \/ (\E answer : Decide(answer)) /\ UNCHANGED eval
    BY DEF EvaluateField
  <1>3. \E answer : Decide(answer)
    BY <1>1, <1>2, EvaluateValueStep
  <1>4. /\ (pc \in {"idle", "loop"})'
        /\ (and \in 1 .. Len(rules) + 1)'
        /\ (and <= Len(rules) => or \in 1 .. Len(rules[and]) + 1)'
        /\ (ret.err \in {"none", "nil", "error", "panic"})'
        /\ ReadsWhatWasGiven'
        /\ Counted'
        /\ UNCHANGED i
    BY <1>3, DecideStep
  <1>5. /\ EvaluatorsOK'
        /\ (\A a \in DOMAIN eval : \A b \in DOMAIN eval[a] :
               eval[a][b] \in {NoEvaluator, getEvaluator(rules[a][b])})'
    <2>1. CASE \E value : EvaluateValue(value)
      BY <1>1, <2>1, EvaluateValueStep
    <2>2. CASE UNCHANGED eval
      BY <1>1, <2>2 DEF FilterInv, TypeOK, EvaluatorsOK
    <2> QED
      BY <1>2, <2>1, <2>2
  <1>6. ArgumentsOK'
    BY DEF FilterInv, ArgumentsOK, arguments
  <1>7. TypeOK'
    BY <1>4, <1>5 DEF FilterInv, TypeOK, arguments, counters
  <1> QED
    BY <1>4, <1>5, <1>6, <1>7 DEF FilterInv

LEMMA NoMatchStep ==
    ASSUME FilterInv, NoMatch
    PROVE  FilterInv'
  <1> USE DEF FilterInv, NoMatch, NextObject, arguments, counters
  <1>1. ArgumentsOK' /\ EvaluatorsOK'
    BY DEF ArgumentsOK, EvaluatorsOK
  <1>2. ReadsWhatWasGiven' /\ Counted'
    BY DEF ReadsWhatWasGiven, Counted, TypeOK, ArgumentsOK
  <1>3. TypeOK'
    BY DEF TypeOK, Counted, ArgumentsOK
  <1> QED
    BY <1>1, <1>2, <1>3

\* A write goes to a place that has been read already.
LEMMA MatchStep ==
    ASSUME FilterInv, Match
    PROVE  FilterInv'
  <1> USE DEF FilterInv, Match, NextObject, arguments
  <1>1. /\ i \in Nat /\ n \in Nat /\ m \in Nat /\ skip \in Nat
        /\ Len(slice) \in Nat /\ Len(input) = Len(slice)
        /\ n <= m /\ m < i /\ i <= Len(slice) /\ skip <= offset
        /\ offset \in Nat /\ Len(rules) \in Nat
    BY DEF TypeOK, Counted, ArgumentsOK
  <1>2. /\ slice' \in Seq(Range(slice))
        /\ Len(slice') = Len(slice)
        /\ n' \in {n, n + 1}
        /\ \A k \in n' + 1 .. Len(slice) : slice'[k] = slice[k]
    <2>1. CASE UNCHANGED <<slice, n>>
      BY <2>1 DEF ArgumentsOK
    <2>2. CASE slice' = [slice EXCEPT ![n + 1] = slice[i]] /\ n' = n + 1
      <3>1. slice \in Seq(Range(slice)) /\ slice[i] \in Range(slice)
        BY <1>1 DEF ArgumentsOK, Range
      <3> QED
        BY <1>1, <2>2, <3>1
    <2> QED
      BY <2>1, <2>2
  <1>3. slice' \in Seq(Range(slice'))
    BY <1>1, <1>2 DEF Range
  <1>4. ArgumentsOK' /\ EvaluatorsOK'
    BY <1>1, <1>2, <1>3 DEF ArgumentsOK, EvaluatorsOK
  <1>5. Counted'
    BY <1>1, <1>2 DEF Counted
  <1>6. ReadsWhatWasGiven'
    BY <1>1, <1>2 DEF ReadsWhatWasGiven
  <1>7. (skip \in 0 .. offset)'
    BY <1>1
  <1>8. (and <= Len(rules) => or \in 1 .. Len(rules[and]) + 1)'
    BY <1>1 DEF ArgumentsOK
  <1>9. (/\ i \in 1 .. Len(input) + 1
         /\ n \in 0 .. Len(input)
         /\ m \in 0 .. Len(input)
         /\ and \in 1 .. Len(rules) + 1)'
    BY <1>1, <1>2
  <1>10. UNCHANGED <<pc, ret, eval, rules, calls>>
    OBVIOUS
  <1>11. TypeOK
    OBVIOUS
  <1>12. TypeOK'
    <2> HIDE DEF FilterInv, Match
    <2> QED
      BY <1>7, <1>8, <1>9, <1>10, <1>11 DEF TypeOK
  <1> QED
    BY <1>4, <1>5, <1>6, <1>12

LEMMA PrefixIsSequence ==
    ASSUME NEW S, NEW s \in Seq(S), NEW k \in Nat, k <= Len(s)
    PROVE  SubSeq(s, 1, k) \in Seq(S)
  OBVIOUS

LEMMA SequenceOfItsRange ==
    ASSUME NEW S, NEW s \in Seq(S)
    PROVE  s \in Seq(Range(s)) /\ Len(s) \in Nat
  <1>1. DOMAIN s = 1 .. Len(s) /\ Len(s) \in Nat
    OBVIOUS
  <1> QED
    BY <1>1 DEF Range

\* The slice is shortened, and what it holds is the caller's.
LEMMA FinishStep ==
    ASSUME FilterInv, Finish
    PROVE  FilterInv'
  <1> USE DEF FilterInv, Finish, arguments, position, counters
  <1>1. /\ slice \in Seq(Range(slice)) /\ Len(slice) = Len(input)
        /\ n \in Nat /\ n <= Len(slice)
    BY DEF TypeOK, Counted, ArgumentsOK
  <1>2. slice' \in Seq(Range(slice')) /\ Len(slice') \in Nat
    <2>1. slice' = SubSeq(slice, 1, n)
      OBVIOUS
    <2> HIDE DEF FilterInv, Finish
    <2> QED
      BY <1>1, <2>1, PrefixIsSequence, SequenceOfItsRange
  <1>3. ArgumentsOK' /\ EvaluatorsOK'
    BY <1>2 DEF ArgumentsOK, EvaluatorsOK
  <1>4. ReadsWhatWasGiven' /\ Counted'
    BY DEF ReadsWhatWasGiven, Counted
  <1>5. TypeOK'
    BY DEF TypeOK
  <1> QED
    BY <1>3, <1>4, <1>5

LEMMA TakeStep ==
    ASSUME FilterInv, Take
    PROVE  FilterInv'
  <1> USE DEF FilterInv, Take
  <1>1. Len(<<>>) = 0 /\ DOMAIN <<>> = {} /\ Range(<<>>) = {}
    BY EmptySequence DEF Range
  <1>2. ArgumentsOK'
    BY <1>1, EmptySequence DEF ArgumentsOK
  <1>3. EvaluatorsOK'
    BY <1>1 DEF EvaluatorsOK
  <1>4. TypeOK'
    BY <1>1 DEF TypeOK, NoReturn
  <1>5. ReadsWhatWasGiven' /\ Counted'
    BY DEF ReadsWhatWasGiven, Counted, NoReturn
  <1> QED
    BY <1>2, <1>3, <1>4, <1>5

LEMMA FilterInvNext == FilterInv /\ [Next]_vars => FilterInv'
  <1> SUFFICES ASSUME FilterInv, [Next]_vars PROVE FilterInv'
    OBVIOUS
  <1>1. ASSUME NEW given \in RuleSets, NEW s \in Slices, NEW o \in Offsets,
               NEW l \in Lengths, ApplySubset(given, s, o, l)
        PROVE  FilterInv'
    BY <1>1, ApplySubsetStep
  <1>2. CASE UNCHANGED vars
    BY <1>2 DEF vars, arguments, position, counters, FilterInv, TypeOK, ReadsWhatWasGiven,
                ArgumentsOK, EvaluatorsOK, Counted
  <1> QED
    BY <1>1, <1>2, EvaluateRuleStep, NoMatchStep, MatchStep, FinishStep, TakeStep
    DEF Next

\* Every variable of the processor keeps its type: in particular the unsigned
\* offset is never counted below zero, and no more objects are counted than the
\* slice has.
THEOREM FilterTypeCorrect == Spec => []TypeOK
  <1>1. FilterInv => TypeOK
    BY DEF FilterInv
  <1> QED
    BY <1>1, FilterInvInit, FilterInvNext, PTL DEF Spec

\* filterSliceValue, which moves the objects that match to the front of the slice
\* that it reads, never writes on one that it has yet to read, nor, when a rule
\* fails, behind those it has kept.
THEOREM InPlaceIsSafe == Spec => []ReadsWhatWasGiven
  <1>1. FilterInv => ReadsWhatWasGiven
    BY DEF FilterInv
  <1> QED
    BY <1>1, FilterInvInit, FilterInvNext, PTL DEF Spec

-----------------------------------------------------------------------------
(* Filter: what a call returns.                                            *)

\* The first answer that is not neutral is the one that counts.
LEMMA FirstIs ==
    ASSUME NEW N \in Nat, NEW answers, DOMAIN answers = 1 .. N, NEW neutral,
           NEW k \in 1 .. N, answers[k] # neutral, \A j \in 1 .. k - 1 : answers[j] = neutral
    PROVE  First(answers, neutral) = answers[k]
<1> DEFINE P(h) == h \in 1 .. N /\ answers[h] # neutral /\ \A j \in 1 .. h - 1 : answers[j] = neutral
           c == CHOOSE h : P(h)
<1>1. P(k)
  OBVIOUS
<1>2. P(c)
  BY <1>1
<1>3. c = k
  <2>1. ~(c < k) /\ ~(k < c)
    BY <1>1, <1>2
  <2>2. c \in Int /\ k \in Int
    BY <1>2
  <2> QED
    BY <2>1, <2>2
<1>4. c = CHOOSE h \in DOMAIN answers : /\ answers[h] # neutral
                                        /\ \A j \in 1 .. h - 1 : answers[j] = neutral
  OBVIOUS
<1> QED
  BY <1>3, <1>4 DEF First

CacheOK ==
    \A t \in DOMAIN TypeString : \A names : Key(t, names) \in DOMAIN cache =>
        /\ getFieldPath(t, names).err = "nil"
        /\ cache[Key(t, names)] = getFieldPath(t, names).path

\* A path that is added to the cache is the one of its own type.
LEMMA CacheStep ==
    ASSUME UniqueTypes, CacheOK, NEW t \in DOMAIN TypeString, NEW names, NEW path,
           getFieldPath(t, names).err = "nil", path = getFieldPath(t, names).path,
           cache' = Cached(Key(t, names), path)
    PROVE  CacheOK'
<1> SUFFICES ASSUME NEW u \in DOMAIN TypeString, NEW others, Key(u, others) \in DOMAIN cache'
             PROVE  /\ getFieldPath(u, others).err = "nil"
                    /\ cache'[Key(u, others)] = getFieldPath(u, others).path
  BY DEF CacheOK, Key
<1>1. DOMAIN cache' = {Key(t, names)} \cup DOMAIN cache
  BY DEF Cached
<1>2. cache'[Key(t, names)] = path
  BY DEF Cached
<1>3. \A k \in DOMAIN cache : k # Key(t, names) => cache'[k] = cache[k]
  BY DEF Cached
<1>4. CASE Key(u, others) = Key(t, names)
  <2>1. u = t /\ others = names
    BY <1>4 DEF Key, UniqueTypes
  <2> QED
    BY <1>2, <2>1
<1>5. CASE Key(u, others) # Key(t, names)
  BY <1>1, <1>3, <1>5 DEF CacheOK
<1> QED
  BY <1>4, <1>5

\* The arguments of the call that is under way, or none.
GivenOK ==
    /\ input \in Slices \cup {<<>>}
    /\ rules \in RuleSets \cup {<<>>}
    /\ offset \in Nat
    /\ length \in Nat

\* A valid rule has an evaluator, an invalid one has none.
LEMMA ValidHasEvaluator ==
    ASSUME NEW rule
    PROVE  getEvaluator(rule) = NoEvaluator <=> ~Valid(rule)
<1>1. CASE Valid(rule)
  <2>1. rule.type # "none"
    BY <1>1 DEF Valid, StringTypes, OrderTypes
  <2>2. getEvaluator(rule).type = rule.type /\ NoEvaluator.type = "none"
    BY <1>1 DEF getEvaluator, NoEvaluator
  <2> QED
    BY <1>1, <2>1, <2>2
<1>2. CASE ~Valid(rule)
  BY <1>2 DEF getEvaluator
<1> QED
  BY <1>1, <1>2

\* What Rule.Evaluate decides is what the rule means for the value, even if the
\* evaluator was made for another object.
LEMMA EvaluatesByRule ==
    ASSUME FilterInv, and <= Len(rules), or <= Len(rules[and]), NEW value, EvaluateValue(value)
    PROVE  Decide(IF Valid(rules[and][or]) THEN Evaluate(getEvaluator(rules[and][or]), value)
                  ELSE "error")
<1> DEFINE made == getEvaluator(rules[and][or])
           e == IF eval[and][or] = NoEvaluator THEN made ELSE eval[and][or]
<1>1. and \in DOMAIN rules /\ or \in DOMAIN rules[and]
  BY DEF FilterInv, TypeOK, ArgumentsOK
<1>2. e = made
  BY <1>1 DEF FilterInv, TypeOK, EvaluatorsOK
<1>3. Decide(IF e = NoEvaluator THEN "error" ELSE Evaluate(e, value))
  BY DEF EvaluateValue
<1>4. made = NoEvaluator <=> ~Valid(rules[and][or])
  BY ValidHasEvaluator
<1> QED
  BY <1>2, <1>3, <1>4

\* The path that is found, in the cache or not, is the one of the object's type.
LEMMA FoundPath ==
    ASSUME CacheOK, NEW t \in DOMAIN TypeString, NEW names,
           Key(t, names) \in DOMAIN cache
    PROVE  /\ getFieldPath(t, names).err = "nil"
           /\ cache[Key(t, names)] = getFieldPath(t, names).path
BY DEF CacheOK

\* A rule is decided by what it means for the object, from nothing.
LEMMA EvaluatesReference ==
    ASSUME UniqueTypes, FilterInv, GivenOK, CacheOK, EvaluateRule
    PROVE  /\ Decide(RuleAnswer(rules[and][or], slice[i]))
           /\ CacheOK'
<1> DEFINE obj == slice[i]
           rule == rules[and][or]
           names == rule.field
<1>1. /\ pc = "loop" /\ i <= Len(slice) /\ and <= Len(rules) /\ or <= Len(rules[and])
      /\ \/ names = <<>> /\ EvaluateValue(obj) /\ UNCHANGED cache
         \/ names # <<>> /\ obj = Nil /\ Decide("error") /\ UNCHANGED <<eval, cache>>
         \/ names # <<>> /\ obj # Nil /\ EvaluateField(obj, names)
  BY DEF EvaluateRule
<1>2. UNCHANGED cache => CacheOK'
  BY DEF CacheOK, Key
<1>3. ASSUME NEW value, EvaluateValue(value)
      PROVE  Decide(IF Valid(rule) THEN Evaluate(getEvaluator(rule), value) ELSE "error")
  BY <1>1, <1>3, EvaluatesByRule
<1> HIDE DEF rule
<1>4. CASE names = <<>> /\ EvaluateValue(obj) /\ UNCHANGED cache
  <2>1. RuleAnswer(rule, obj) = IF Valid(rule) THEN Evaluate(getEvaluator(rule), obj)
                                ELSE "error"
    BY <1>4 DEF RuleAnswer
  <2> QED
    BY <1>2, <1>3, <1>4, <2>1 DEF rule
<1>5. CASE names # <<>> /\ obj = Nil /\ Decide("error") /\ UNCHANGED <<eval, cache>>
  <2>1. RuleAnswer(rule, obj) = "error"
    BY <1>5 DEF RuleAnswer
  <2> QED
    BY <1>2, <1>5, <2>1 DEF rule
<1>6. CASE names # <<>> /\ obj # Nil /\ EvaluateField(obj, names)
  <2> DEFINE key == Key(obj.type, names)
             reference == getFieldPath(obj.type, names)
             found == IF key \in DOMAIN cache THEN [path |-> cache[key], err |-> "nil"]
                      ELSE reference
             field == Walk(obj, found.path)
  <2>1. obj.type \in DOMAIN TypeString
    <3>1. slice[i] = input[i] /\ i \in DOMAIN input
      <4>1. n < i /\ Len(slice) = Len(input) /\ \A k \in n + 1 .. Len(slice) : slice[k] = input[k]
        BY <1>1 DEF FilterInv, ReadsWhatWasGiven
      <4>2. n \in Nat /\ i \in Nat /\ i >= 1 /\ Len(slice) \in Nat
        BY DEF FilterInv, TypeOK, ArgumentsOK
      <4>3. i \in n + 1 .. Len(slice) /\ i \in 1 .. Len(input)
        BY <1>1, <4>1, <4>2
      <4>4. DOMAIN input = 1 .. Len(input)
        BY FilterAssumption, SequenceShape, EmptySequence DEF GivenOK
      <4> QED
        BY <4>1, <4>3, <4>4
    <3>2. input \in Slices
      BY <3>1, EmptySequence DEF GivenOK
    <3> QED
      BY <1>6, <3>1, <3>2, ValuesAssumption
  <2>2. found.err = reference.err /\ (found.err = "nil" => found.path = reference.path)
    BY <2>1, FoundPath
  <2>3. \/ found.err = "field not found" /\ Decide("false") /\ UNCHANGED cache
        \/ found.err = "not supported" /\ Decide("error") /\ UNCHANGED cache
        \/ /\ found.err = "nil"
           /\ cache' = Cached(key, found.path)
           /\ IF field.st = "ok" THEN EvaluateValue(field.value) ELSE Decide(field.st)
    BY <1>6 DEF EvaluateField
  <2> HIDE DEF found, key
  <2>4. CASE found.err = "field not found" /\ Decide("false") /\ UNCHANGED cache
    <3>1. RuleAnswer(rule, obj) = "false"
      BY <1>6, <2>2, <2>4 DEF RuleAnswer
    <3> QED
      BY <1>2, <2>4, <3>1 DEF rule
  <2>5. CASE found.err = "not supported" /\ Decide("error") /\ UNCHANGED cache
    <3>1. RuleAnswer(rule, obj) = "error"
      BY <1>6, <2>2, <2>5 DEF RuleAnswer
    <3> QED
      BY <1>2, <2>5, <3>1 DEF rule
  <2>6. CASE /\ found.err = "nil"
             /\ cache' = Cached(key, found.path)
             /\ IF field.st = "ok" THEN EvaluateValue(field.value) ELSE Decide(field.st)
    <3>1. RuleAnswer(rule, obj) = IF field.st # "ok" THEN field.st
                                  ELSE IF Valid(rule)
                                    THEN Evaluate(getEvaluator(rule), field.value)
                                    ELSE "error"
      BY <1>6, <2>2, <2>6 DEF RuleAnswer
    <3>2. Decide(RuleAnswer(rule, obj))
      BY <1>3, <2>6, <3>1
    <3>3. CacheOK'
      BY <2>1, <2>2, <2>6, CacheStep DEF key
    <3> QED
      BY <3>2, <3>3 DEF rule
  <2> QED
    BY <2>3, <2>4, <2>5, <2>6
<1> QED
  BY <1>1, <1>4, <1>5, <1>6

\* The answer of an OR of rules for an object.
OrAnswer(a, obj) == First([b \in DOMAIN rules[a] |-> RuleAnswer(rules[a][b], obj)], "false")

\* The rules that come before have been decided for the object: every OR before
\* is true, and the rules before in this OR are false.
Decided ==
    pc = "loop" /\ i <= Len(input) =>
        /\ \A a \in 1 .. and - 1 : OrAnswer(a, input[i]) = "true"
        /\ and <= Len(rules) =>
               \A b \in 1 .. or - 1 : RuleAnswer(rules[and][b], input[i]) = "false"

\* The objects before have a verdict, are counted, and are kept if they must be.
Running == pc = "loop" \/ (ret.err \in {"error", "panic"} /\ ~Refused)
Before ==
    Running =>
        /\ \A j \in 1 .. i - 1 : Verdict(input[j]) \in {"true", "false"}
        /\ m = Cardinality(Matching(i - 1))
        /\ skip = IF m < offset THEN offset - m ELSE 0
        /\ Keeps(i - 1)

\* How a call can end.
Outcome ==
    /\ pc = "loop" => ret = NoReturn /\ ~Refused
    /\ ret.err = "none" => ret = NoReturn
    /\ ret # NoReturn /\ Refused => ret.err = "error" /\ slice = input
    /\ ret.err \in {"error", "panic"} /\ ~Refused =>
           i <= Len(input) /\ Verdict(input[i]) = ret.err
    /\ ret.err = "nil" =>
           /\ \A j \in 1 .. Len(input) : Verdict(input[j]) \in {"true", "false"}
           /\ n = Len(slice) /\ Keeps(Len(input))
           /\ ret = [n |-> n, m |-> Cardinality(Matching(Len(input))), err |-> "nil"]

ResultInv == GivenOK /\ CacheOK /\ Decided /\ Before /\ Outcome

\* An OR is false when all its rules are; else its first other answer counts.
LEMMA OrIsFalse ==
    ASSUME NEW a, NEW obj, \A b \in DOMAIN rules[a] : RuleAnswer(rules[a][b], obj) = "false"
    PROVE  OrAnswer(a, obj) = "false"
BY DEF OrAnswer, First

LEMMA OrIsDecided ==
    ASSUME ArgumentsOK, NEW a \in DOMAIN rules, NEW obj, NEW b \in DOMAIN rules[a],
           \A c \in 1 .. b - 1 : RuleAnswer(rules[a][c], obj) = "false",
           RuleAnswer(rules[a][b], obj) # "false"
    PROVE  OrAnswer(a, obj) = RuleAnswer(rules[a][b], obj)
<1> DEFINE answers == [c \in DOMAIN rules[a] |-> RuleAnswer(rules[a][c], obj)]
<1>1. /\ Len(rules[a]) \in Nat /\ DOMAIN rules[a] = 1 .. Len(rules[a])
      /\ b \in 1 .. Len(rules[a])
  BY DEF ArgumentsOK
<1>2. DOMAIN answers = 1 .. Len(rules[a]) /\ answers[b] = RuleAnswer(rules[a][b], obj)
  BY <1>1
<1>3. \A c \in 1 .. b - 1 : answers[c] = "false"
  BY <1>1
<1> HIDE DEF answers
<1>4. First(answers, "false") = answers[b]
  BY <1>1, <1>2, <1>3, FirstIs
<1> QED
  BY <1>2, <1>4 DEF OrAnswer, answers

\* An object matches when every OR is true; else the first other answer counts.
LEMMA AllAreTrue ==
    ASSUME NEW obj, \A a \in DOMAIN rules : OrAnswer(a, obj) = "true"
    PROVE  Verdict(obj) = "true"
BY DEF Verdict, First, OrAnswer

LEMMA OneIsNotTrue ==
    ASSUME ArgumentsOK, NEW obj, NEW a \in DOMAIN rules,
           \A c \in 1 .. a - 1 : OrAnswer(c, obj) = "true", OrAnswer(a, obj) # "true"
    PROVE  Verdict(obj) = OrAnswer(a, obj)
<1> DEFINE answers == [c \in DOMAIN rules |-> OrAnswer(c, obj)]
<1>1. Len(rules) \in Nat /\ DOMAIN rules = 1 .. Len(rules) /\ a \in 1 .. Len(rules)
  BY DEF ArgumentsOK
<1>2. DOMAIN answers = 1 .. Len(rules) /\ answers[a] = OrAnswer(a, obj)
  BY <1>1
<1>3. \A c \in 1 .. a - 1 : answers[c] = "true"
  BY <1>1
<1>4. Verdict(obj) = First(answers, "true")
  BY DEF Verdict, OrAnswer
<1> HIDE DEF answers
<1>5. First(answers, "true") = answers[a]
  BY <1>1, <1>2, <1>3, FirstIs
<1> QED
  BY <1>2, <1>4, <1>5

\* The objects of a prefix that match are counted one by one.
LEMMA MatchingCounts ==
    ASSUME NEW k \in Nat
    PROVE  IsFiniteSet(Matching(k)) /\ Cardinality(Matching(k)) \in Nat
<1>1. IsFiniteSet(1 .. k)
  BY FS_Interval
<1>2. Matching(k) \subseteq 1 .. k
  BY DEF Matching
<1> QED
  BY <1>1, <1>2, FS_Subset, FS_CardinalityType

\* ... the next one is one more, if it matches.
LEMMA MatchingNext ==
    ASSUME NEW k \in Nat
    PROVE  /\ Verdict(input[k + 1]) = "true" =>
                  /\ Matching(k + 1) = Matching(k) \cup {k + 1}
                  /\ Cardinality(Matching(k + 1)) = Cardinality(Matching(k)) + 1
           /\ Verdict(input[k + 1]) # "true" => Matching(k + 1) = Matching(k)
<1>1. 1 .. k + 1 = (1 .. k) \cup {k + 1} /\ k + 1 \notin 1 .. k
  OBVIOUS
<1>2. CASE Verdict(input[k + 1]) = "true"
  <2>1. ASSUME NEW j PROVE j \in Matching(k + 1) <=> j \in Matching(k) \cup {k + 1}
    BY <1>1, <1>2 DEF Matching
  <2>2. Matching(k + 1) = Matching(k) \cup {k + 1}
    BY <2>1
  <2>3. k + 1 \notin Matching(k)
    BY <1>1 DEF Matching
  <2> QED
    BY <1>2, <2>2, <2>3, MatchingCounts, FS_AddElement
<1>3. CASE Verdict(input[k + 1]) # "true"
  <2>1. ASSUME NEW j PROVE j \in Matching(k + 1) <=> j \in Matching(k)
    BY <1>1, <1>3 DEF Matching
  <2> QED
    BY <1>3, <2>1
<1> QED
  BY <1>2, <1>3

LEMMA NothingMatches == Matching(0) = {} /\ Cardinality(Matching(0)) = 0
<1>1. Matching(0) = {}
  BY DEF Matching
<1> QED
  BY <1>1, FS_EmptySet

\* The verdicts depend on the rules and on the objects that were given only.
LEMMA VerdictsStay ==
    ASSUME UNCHANGED <<rules, input>>
    PROVE  /\ \A obj : Verdict(obj)' = Verdict(obj)
           /\ \A k : Matching(k)' = Matching(k)
           /\ \A a, obj : OrAnswer(a, obj)' = OrAnswer(a, obj)
<1>1. \A obj : Verdict(obj)' = Verdict(obj)
  BY DEF Verdict
<1>2. \A k : Matching(k)' = Matching(k)
  BY <1>1 DEF Matching
<1> QED
  BY <1>1, <1>2 DEF OrAnswer

\* What is kept is not touched by a step that leaves its places alone.
LEMMA KeptStay ==
    ASSUME UNCHANGED <<rules, input, offset, length, n>>, NEW k,
           \A p \in 1 .. n : slice'[p] = slice[p]
    PROVE  Keeps(k) <=> Keeps(k)'
BY VerdictsStay DEF Keeps, KeptOf

\* A new Processor has cached nothing and returned nothing.
LEMMA ResultInvInit == Init => ResultInv
<1> SUFFICES ASSUME Init PROVE ResultInv
  OBVIOUS
<1>1. GivenOK
  BY DEF Init, GivenOK
<1>2. CacheOK
  BY DEF Init, CacheOK
<1>3. Decided /\ Before /\ Outcome
  BY DEF Init, Decided, Before, Outcome, Running, NoReturn
<1> QED
  BY <1>1, <1>2, <1>3 DEF ResultInv

\* A call begins, whatever was cached by the calls before, or is refused.
LEMMA ResultApplySubset ==
    ASSUME FilterInv, ResultInv,
           NEW given \in RuleSets, NEW s \in Slices, NEW o \in Offsets, NEW l \in Lengths,
           ApplySubset(given, s, o, l)
    PROVE  ResultInv'
<1>1. /\ rules' = given /\ offset' = o /\ length' = l /\ slice' = s /\ input' = s
      /\ i' = 1 /\ and' = 1 /\ or' = 1 /\ n' = 0 /\ m' = 0 /\ skip' = o
      /\ cache' = cache
      /\ \/ Refused' /\ pc' = "idle" /\ ret' = [NoReturn EXCEPT !.err = "error"]
         \/ ~Refused' /\ pc' = "loop" /\ ret' = NoReturn
  BY DEF ApplySubset, Refused
<1>2. o \in Nat /\ l \in Nat
  BY FilterAssumption
<1>3. GivenOK'
  BY <1>1, <1>2 DEF GivenOK
<1>4. CacheOK'
  BY <1>1 DEF ResultInv, CacheOK, Key
<1>5. Decided'
  BY <1>1 DEF Decided
<1>6. ret'.err \in {"error", "none"}
  BY <1>1 DEF NoReturn
<1>7. Outcome'
  BY <1>1, <1>6 DEF Outcome, NoReturn
<1>8. Before'
  <2>1. (Matching(0) = {} /\ Cardinality(Matching(0)) = 0)'
    BY NothingMatches, PTL
  <2>2. (m = Cardinality(Matching(0)))'
    BY <1>1, <2>1
  <2>3. KeptOf(0)' = 0
    BY <1>1, <1>2 DEF KeptOf
  <2>4. Keeps(0)'
    BY <1>1, <2>1, <2>3 DEF Keeps
  <2>5. (skip = IF m < offset THEN offset - m ELSE 0)'
    BY <1>1, <1>2
  <2>6. i' - 1 = 0 /\ (1 .. i - 1)' = {}
    BY <1>1
  <2> QED
    BY <2>2, <2>4, <2>5, <2>6 DEF Before
<1> QED
  BY <1>3, <1>4, <1>5, <1>7, <1>8 DEF ResultInv

\* What is cached outlives the call.
LEMMA ResultTake ==
    ASSUME FilterInv, ResultInv, Take
    PROVE  ResultInv'
<1>1. GivenOK'
  BY DEF Take, GivenOK
<1>2. CacheOK'
  BY DEF Take, ResultInv, CacheOK, Key
<1>3. Decided' /\ Before' /\ Outcome'
  BY DEF Take, Decided, Before, Outcome, Running, NoReturn
<1> QED
  BY <1>1, <1>2, <1>3 DEF ResultInv

\* What is known of the position in the loop.
LEMMA LoopShape ==
    ASSUME FilterInv
    PROVE  /\ i \in Nat /\ i >= 1 /\ n \in Nat /\ m \in Nat /\ skip \in Nat
           /\ Len(slice) \in Nat /\ Len(input) \in Nat
           /\ and \in Nat /\ and >= 1 /\ and <= Len(rules) + 1 /\ Len(rules) \in Nat
           /\ DOMAIN rules = 1 .. Len(rules)
           /\ \A a \in DOMAIN rules : /\ Len(rules[a]) \in Nat
                                      /\ DOMAIN rules[a] = 1 .. Len(rules[a])
           /\ and <= Len(rules) => or \in Nat /\ or >= 1 /\ or <= Len(rules[and]) + 1
           /\ ArgumentsOK
<1>1. ArgumentsOK /\ TypeOK
  BY DEF FilterInv
<1>2. Len(slice) \in Nat /\ Len(input) \in Nat /\ Len(rules) \in Nat /\ offset \in Nat
  BY <1>1 DEF ArgumentsOK
<1>3. i \in Nat /\ i >= 1 /\ n \in Nat /\ m \in Nat /\ skip \in Nat
      /\ and \in Nat /\ and >= 1 /\ and <= Len(rules) + 1
  BY <1>1, <1>2 DEF TypeOK
<1>4. /\ DOMAIN rules = 1 .. Len(rules)
      /\ \A a \in DOMAIN rules : /\ Len(rules[a]) \in Nat
                                 /\ DOMAIN rules[a] = 1 .. Len(rules[a])
  BY <1>1 DEF ArgumentsOK
<1>5. and <= Len(rules) => or \in Nat /\ or >= 1 /\ or <= Len(rules[and]) + 1
  BY <1>1, <1>3, <1>4 DEF TypeOK
<1> QED
  BY <1>1, <1>2, <1>3, <1>4, <1>5

\* The object that is matched is the one that was given.
LEMMA LoopReads ==
    ASSUME FilterInv, pc = "loop", i <= Len(slice)
    PROVE  slice[i] = input[i] /\ i <= Len(input) /\ Len(slice) = Len(input) /\ n < i
<1>1. n < i /\ Len(slice) = Len(input) /\ \A k \in n + 1 .. Len(slice) : slice[k] = input[k]
  BY DEF FilterInv, ReadsWhatWasGiven
<1>2. i \in n + 1 .. Len(slice)
  BY <1>1, LoopShape
<1> QED
  BY <1>1, <1>2

\* A rule decides for the object what it means for it, or ends the call.
LEMMA ResultEvaluateRule ==
    ASSUME UniqueTypes, FilterInv, ResultInv, EvaluateRule
    PROVE  ResultInv'
<1> DEFINE answer == RuleAnswer(rules[and][or], input[i])
<1>1. /\ pc = "loop" /\ i <= Len(slice) /\ and <= Len(rules) /\ or <= Len(rules[and])
      /\ UNCHANGED <<rules, offset, length, input, calls, slice, n, m, skip>>
  BY DEF EvaluateRule, arguments, counters
<1>2. slice[i] = input[i] /\ i <= Len(input)
  BY <1>1, LoopReads
<1>3. Decide(answer) /\ CacheOK'
  BY <1>2, EvaluatesReference DEF ResultInv
<1>4. /\ \A a \in 1 .. and - 1 : OrAnswer(a, input[i]) = "true"
      /\ \A b \in 1 .. or - 1 : RuleAnswer(rules[and][b], input[i]) = "false"
  BY <1>1, <1>2 DEF ResultInv, Decided
<1>5. and \in DOMAIN rules /\ or \in DOMAIN rules[and]
  BY <1>1, LoopShape
<1>6. answer # "false" => OrAnswer(and, input[i]) = answer
  BY <1>4, <1>5, LoopShape, OrIsDecided
<1>7. GivenOK'
  BY <1>1 DEF ResultInv, GivenOK
<1>8. i' = i
  BY <1>3 DEF Decide, position
<1>9. Before'
  <2>1. Running /\ (Refused' <=> Refused)
    BY <1>1 DEF Running, Refused
  <2>2. PICK k : k = i - 1
    OBVIOUS
  <2>3. Keeps(k)
    BY <2>1, <2>2 DEF ResultInv, Before
  <2>4. Keeps(k)'
    BY <1>1, <2>3, KeptStay
  <2>5. /\ \A j \in 1 .. k : Verdict(input[j]) \in {"true", "false"}
        /\ m = Cardinality(Matching(k))
        /\ skip = IF m < offset THEN offset - m ELSE 0
    BY <2>1, <2>2 DEF ResultInv, Before
  <2>6. (/\ \A j \in 1 .. k : Verdict(input[j]) \in {"true", "false"}
         /\ m = Cardinality(Matching(k))
         /\ skip = IF m < offset THEN offset - m ELSE 0)'
    BY <1>1, <2>5, VerdictsStay
  <2>7. i' - 1 = k
    BY <1>8, <2>2
  <2> QED
    BY <2>4, <2>6, <2>7 DEF Before
<1> HIDE DEF answer
<1>a. ret = NoReturn /\ ~Refused /\ ~Refused'
  BY <1>1 DEF ResultInv, Outcome, Refused
<1>10. CASE answer = "true"
  <2>1. and' = and + 1 /\ or' = 1 /\ UNCHANGED <<i, pc, ret>>
    BY <1>3, <1>10 DEF Decide
  <2>2. Outcome'
    BY <1>1, <1>a, <2>1 DEF Outcome, NoReturn
  <2>3. \A a \in 1 .. and : OrAnswer(a, input[i]) = "true"
    BY <1>4, <1>6, <1>10, LoopShape
  <2>4. Decided'
    BY <1>1, <2>1, <2>3, LoopShape, VerdictsStay DEF Decided
  <2> QED
    BY <1>3, <1>7, <1>9, <2>2, <2>4 DEF ResultInv
<1>11. CASE answer = "false"
  <2>1. or' = or + 1 /\ UNCHANGED <<i, and, pc, ret>>
    BY <1>3, <1>11 DEF Decide
  <2>2. Outcome'
    BY <1>1, <1>a, <2>1 DEF Outcome, NoReturn
  <2>3. or \in Nat
    BY <1>1, LoopShape
  <2>4. ASSUME NEW b \in 1 .. or
        PROVE  RuleAnswer(rules[and][b], input[i]) = "false"
    <3>1. CASE b = or
      BY <1>11, <3>1 DEF answer
    <3>2. CASE b # or
      <4>1. b \in 1 .. or - 1
        BY <2>3, <3>2
      <4> QED
        BY <1>4, <4>1
    <3> QED
      BY <3>1, <3>2
  <2>5. (\A a \in 1 .. and - 1 : OrAnswer(a, input[i]) = "true")'
    BY <1>1, <1>4, <2>1, VerdictsStay
  <2>6. (\A b \in 1 .. or - 1 : RuleAnswer(rules[and][b], input[i]) = "false")'
    BY <1>1, <2>1, <2>3, <2>4
  <2>7. Decided'
    BY <2>5, <2>6 DEF Decided
  <2> QED
    BY <1>3, <1>7, <1>9, <2>2, <2>7 DEF ResultInv
<1>12. CASE answer \in {"error", "panic"}
  <2>1. pc' = "idle" /\ ret' = [NoReturn EXCEPT !.err = answer] /\ UNCHANGED position
    BY <1>3, <1>12 DEF Decide, Return
  <2>2. ret'.err = answer
    BY <2>1 DEF NoReturn
  <2>3. Verdict(input[i]) = answer
    BY <1>4, <1>5, <1>6, <1>12, LoopShape, OneIsNotTrue
  <2>4. Outcome'
    BY <1>1, <1>2, <1>8, <1>12, <1>a, <2>1, <2>2, <2>3, VerdictsStay DEF Outcome
  <2>5. Decided'
    BY <2>1 DEF Decided
  <2> QED
    BY <1>3, <1>7, <1>9, <2>4, <2>5 DEF ResultInv
<1> QED
  BY <1>3, <1>10, <1>11, <1>12 DEF Decide

\* An object for which an OR is false is not counted.
LEMMA ResultNoMatch ==
    ASSUME FilterInv, ResultInv, NoMatch
    PROVE  ResultInv'
<1>1. /\ pc = "loop" /\ i <= Len(slice) /\ and <= Len(rules) /\ or > Len(rules[and])
      /\ i' = i + 1 /\ and' = 1 /\ or' = 1
      /\ UNCHANGED <<pc, rules, offset, length, input, calls, slice, n, m, skip, cache, ret>>
  BY DEF NoMatch, NextObject, arguments, counters
<1>2. i <= Len(input) /\ i \in Nat /\ i >= 1
  BY <1>1, LoopReads, LoopShape
<1>3. and \in DOMAIN rules /\ Len(rules[and]) \in Nat /\ DOMAIN rules[and] = 1 .. Len(rules[and])
  BY <1>1, LoopShape
<1>4. /\ \A a \in 1 .. and - 1 : OrAnswer(a, input[i]) = "true"
      /\ \A b \in 1 .. or - 1 : RuleAnswer(rules[and][b], input[i]) = "false"
  BY <1>1, <1>2 DEF ResultInv, Decided
<1>5. \A b \in DOMAIN rules[and] : RuleAnswer(rules[and][b], input[i]) = "false"
  <2>1. or \in Nat
    BY <1>1, LoopShape
  <2> QED
    BY <1>1, <1>3, <1>4, <2>1
<1>6. Verdict(input[i]) = "false"
  <2>1. OrAnswer(and, input[i]) = "false"
    BY <1>5, OrIsFalse
  <2> QED
    BY <1>3, <1>4, <2>1, LoopShape, OneIsNotTrue
<1>7. PICK k \in Nat : k = i - 1
  BY <1>2
<1>8. k + 1 = i /\ i' - 1 = k + 1
  BY <1>1, <1>2, <1>7
<1>9. Matching(k + 1) = Matching(k)
  BY <1>6, <1>8, MatchingNext
<1>10. /\ \A j \in 1 .. k : Verdict(input[j]) \in {"true", "false"}
       /\ m = Cardinality(Matching(k))
       /\ skip = IF m < offset THEN offset - m ELSE 0
       /\ Keeps(k)
  BY <1>1, <1>7 DEF ResultInv, Before, Running
<1>11. Before'
  <2>1. Keeps(k + 1)
    BY <1>9, <1>10 DEF Keeps
  <2>2. Keeps(k + 1)'
    BY <1>1, <2>1, KeptStay
  <2>3. \A j \in 1 .. k + 1 : Verdict(input[j]) \in {"true", "false"}
    BY <1>6, <1>8, <1>10
  <2>4. (/\ \A j \in 1 .. k + 1 : Verdict(input[j]) \in {"true", "false"}
         /\ m = Cardinality(Matching(k + 1))
         /\ skip = IF m < offset THEN offset - m ELSE 0)'
    BY <1>1, <1>9, <1>10, <2>3, VerdictsStay
  <2> QED
    BY <1>8, <2>2, <2>4 DEF Before
<1>12. GivenOK' /\ CacheOK'
  BY <1>1 DEF ResultInv, GivenOK, CacheOK, Key
<1>13. Decided'
  BY <1>1 DEF Decided
<1>14. Outcome'
  BY <1>1 DEF ResultInv, Outcome, Refused, NoReturn
<1> QED
  BY <1>11, <1>12, <1>13, <1>14 DEF ResultInv

\* The object that matches as number c + 1 is kept if it is behind the offset and
\* within the length.
LEMMA OneMoreIsKept ==
    ASSUME NEW c \in Nat, offset \in Nat, length \in Nat
    PROVE  /\ KeptOf(c) \in Nat
           /\ c < offset => KeptOf(c) = 0 /\ KeptOf(c + 1) = 0
           /\ c >= offset /\ KeptOf(c) < length =>
                  KeptOf(c) = c - offset /\ KeptOf(c + 1) = KeptOf(c) + 1
           /\ c >= offset /\ KeptOf(c) >= length => KeptOf(c + 1) = KeptOf(c)
BY DEF KeptOf

\* An object for which every OR is true is counted, and kept if it is in the range.
LEMMA ResultMatch ==
    ASSUME FilterInv, ResultInv, Match
    PROVE  ResultInv'
<1>1. /\ pc = "loop" /\ i <= Len(slice) /\ and > Len(rules)
      /\ i' = i + 1 /\ and' = 1 /\ or' = 1 /\ m' = m + 1
      /\ UNCHANGED <<pc, rules, offset, length, input, calls, cache, ret>>
      /\ \/ skip > 0 /\ skip' = skip - 1 /\ UNCHANGED <<slice, n>>
         \/ /\ ~(skip > 0) /\ skip' = skip /\ n < length
            /\ slice' = [slice EXCEPT ![n + 1] = slice[i]] /\ n' = n + 1
         \/ ~(skip > 0) /\ skip' = skip /\ ~(n < length) /\ UNCHANGED <<slice, n>>
  BY DEF Match, NextObject, arguments
<1>2. /\ i <= Len(input) /\ i \in Nat /\ i >= 1 /\ m \in Nat /\ n \in Nat /\ n < i
      /\ slice[i] = input[i] /\ Len(slice) \in Nat
  BY <1>1, LoopReads, LoopShape
<1>3. Verdict(input[i]) = "true"
  <2>1. \A a \in 1 .. and - 1 : OrAnswer(a, input[i]) = "true"
    BY <1>1, <1>2 DEF ResultInv, Decided
  <2>2. \A a \in DOMAIN rules : a \in 1 .. and - 1
    BY <1>1, LoopShape
  <2> QED
    BY <2>1, <2>2, AllAreTrue
<1>4. PICK k \in Nat : k = i - 1
  BY <1>2
<1>5. k + 1 = i /\ i' - 1 = k + 1
  BY <1>1, <1>2, <1>4
<1>6. /\ Matching(k + 1) = Matching(k) \cup {i}
      /\ Cardinality(Matching(k + 1)) = m + 1
  <2>1. m = Cardinality(Matching(k))
    BY <1>1, <1>4 DEF ResultInv, Before, Running
  <2> QED
    BY <1>3, <1>5, <2>1, MatchingNext
<1>7. /\ \A j \in 1 .. k : Verdict(input[j]) \in {"true", "false"}
      /\ m = Cardinality(Matching(k))
      /\ skip = IF m < offset THEN offset - m ELSE 0
      /\ n = KeptOf(m)
      /\ \A p \in 1 .. n : \E j \in Matching(k) :
             slice[p] = input[j] /\ Cardinality(Matching(j)) = offset + p
  <2>1. m = Cardinality(Matching(k)) /\ Keeps(k)
    BY <1>1, <1>4 DEF ResultInv, Before, Running
  <2> QED
    BY <1>1, <1>4, <2>1 DEF ResultInv, Before, Running, Keeps
<1>8. offset \in Nat /\ length \in Nat
  BY DEF ResultInv, GivenOK
<1>9. /\ n' = KeptOf(m + 1)
      /\ skip' = IF m + 1 < offset THEN offset - (m + 1) ELSE 0
      /\ \A p \in 1 .. n' : \E j \in Matching(k + 1) :
             slice'[p] = input[j] /\ Cardinality(Matching(j)) = offset + p
  <2>1. CASE skip > 0
    <3>1. m < offset /\ skip' = offset - m - 1 /\ n' = n /\ slice' = slice
      BY <1>1, <1>2, <1>7, <1>8, <2>1
    <3>2. n' = 0 /\ KeptOf(m + 1) = 0
      BY <1>2, <1>7, <1>8, <3>1, OneMoreIsKept
    <3> QED
      BY <1>2, <1>8, <3>1, <3>2
  <2>2. CASE ~(skip > 0)
    <3>1. m >= offset /\ skip' = 0
      BY <1>1, <1>2, <1>7, <1>8, <2>2
    <3>2. skip' = IF m + 1 < offset THEN offset - (m + 1) ELSE 0
      BY <1>2, <1>8, <3>1
    <3>3. CASE n < length
      <4>1. slice' = [slice EXCEPT ![n + 1] = slice[i]] /\ n' = n + 1
        BY <1>1, <2>2, <3>3
      <4>2. n = m - offset /\ KeptOf(m + 1) = n + 1
        BY <1>2, <1>7, <1>8, <3>1, <3>3, OneMoreIsKept
      <4>3. n + 1 \in DOMAIN slice
        BY <1>1, <1>2, SequenceShape DEF FilterInv, ArgumentsOK
      <4>4. ASSUME NEW p \in 1 .. n'
            PROVE  \E j \in Matching(k + 1) :
                       slice'[p] = input[j] /\ Cardinality(Matching(j)) = offset + p
        <5>1. CASE p = n + 1
          <6>1. slice'[p] = input[i]
            BY <1>2, <4>1, <4>3, <5>1
          <6>2. Cardinality(Matching(i)) = offset + p
            BY <1>2, <1>5, <1>6, <1>8, <4>2, <5>1
          <6> QED
            BY <1>6, <6>1, <6>2
        <5>2. CASE p # n + 1
          <6>1. p \in 1 .. n /\ slice'[p] = slice[p]
            BY <1>2, <4>1, <5>2
          <6> QED
            BY <1>6, <1>7, <6>1
        <5> QED
          BY <5>1, <5>2
      <4> QED
        BY <3>2, <4>1, <4>2, <4>4
    <3>4. CASE ~(n < length)
      <4>1. n' = n /\ slice' = slice
        BY <1>1, <2>2, <3>4
      <4>2. KeptOf(m + 1) = n
        BY <1>2, <1>7, <1>8, <3>1, <3>4, OneMoreIsKept
      <4> QED
        BY <1>6, <1>7, <3>2, <4>1, <4>2
    <3> QED
      BY <3>3, <3>4
  <2> QED
    BY <2>1, <2>2
<1>10. Before'
  <2>1. KeptOf(Cardinality(Matching(k + 1)))' = KeptOf(m + 1)
    BY <1>1, <1>6, VerdictsStay DEF KeptOf
  <2>2. Keeps(k + 1)'
    BY <1>1, <1>9, <2>1, VerdictsStay DEF Keeps
  <2>3. \A j \in 1 .. k + 1 : Verdict(input[j]) \in {"true", "false"}
    BY <1>3, <1>5, <1>7
  <2>4. (/\ \A j \in 1 .. k + 1 : Verdict(input[j]) \in {"true", "false"}
         /\ m = Cardinality(Matching(k + 1))
         /\ skip = IF m < offset THEN offset - m ELSE 0)'
    BY <1>1, <1>6, <1>9, <2>3, VerdictsStay
  <2> QED
    BY <1>5, <2>2, <2>4 DEF Before
<1>11. GivenOK' /\ CacheOK'
  BY <1>1 DEF ResultInv, GivenOK, CacheOK, Key
<1>12. Decided'
  BY <1>1 DEF Decided
<1>13. Outcome'
  BY <1>1 DEF ResultInv, Outcome, Refused, NoReturn
<1> QED
  BY <1>10, <1>11, <1>12, <1>13 DEF ResultInv

\* The end of the slice: what is kept is what is returned.
LEMMA ResultFinish ==
    ASSUME FilterInv, ResultInv, Finish
    PROVE  ResultInv'
<1>1. /\ pc = "loop" /\ i > Len(slice) /\ slice' = SubSeq(slice, 1, n)
      /\ pc' = "idle" /\ ret' = [n |-> n, m |-> m, err |-> "nil"]
      /\ UNCHANGED <<rules, offset, length, input, calls, i, and, or, n, m, skip, eval, cache>>
  BY DEF Finish, arguments, position, counters
<1>2. /\ Len(slice) = Len(input) /\ i - 1 = Len(input)
      /\ n <= Len(slice) /\ n \in Nat /\ Len(slice) \in Nat
      /\ slice \in Seq(Range(slice)) /\ DOMAIN slice = 1 .. Len(slice)
  <2>1. Len(slice) = Len(input) /\ ArgumentsOK /\ TypeOK
    BY <1>1 DEF FilterInv, Counted
  <2>2. i \in 1 .. Len(input) + 1 /\ n \in 0 .. Len(input) /\ Len(slice) \in Nat
        /\ slice \in Seq(Range(slice))
    BY <2>1 DEF TypeOK, ArgumentsOK
  <2> QED
    BY <1>1, <2>1, <2>2, SequenceShape
<1>3. PICK k : k = Len(input)
  OBVIOUS
<1>4. /\ \A j \in 1 .. k : Verdict(input[j]) \in {"true", "false"}
      /\ m = Cardinality(Matching(k))
      /\ Keeps(k)
  BY <1>1, <1>2, <1>3 DEF ResultInv, Before, Running
<1>5. Len(slice') = n /\ \A p \in 1 .. n : slice'[p] = slice[p]
  <2>1. \A p \in 1 .. n : slice[p] \in Range(slice)
    BY <1>2 DEF Range
  <2>2. /\ Len(SubSeq(slice, 1, n)) = n
        /\ \A p \in 1 .. n : SubSeq(slice, 1, n)[p] = slice[1 + p - 1]
    BY <1>2, <2>1, SubSeqProperties
  <2> QED
    BY <1>1, <1>2, <2>2
<1>6. Keeps(k)'
  BY <1>1, <1>4, <1>5, KeptStay
<1>7. Outcome'
  <2>1. ret'.err = "nil" /\ Len(input') = k
    BY <1>1, <1>3
  <2>2. ~Refused'
    BY <1>1 DEF ResultInv, Outcome, Refused
  <2>3. (\A j \in 1 .. k : Verdict(input[j]) \in {"true", "false"})'
    BY <1>1, <1>4, VerdictsStay
  <2>4. ret' = [n |-> n', m |-> Cardinality(Matching(k))', err |-> "nil"]
    BY <1>1, <1>4, VerdictsStay
  <2> QED
    BY <1>1, <1>5, <1>6, <2>1, <2>2, <2>3, <2>4 DEF Outcome
<1>8. Before' /\ Decided'
  BY <1>1 DEF Before, Running, Decided
<1>9. GivenOK' /\ CacheOK'
  BY <1>1 DEF ResultInv, GivenOK, CacheOK, Key
<1> QED
  BY <1>7, <1>8, <1>9 DEF ResultInv

\* No step of a call departs from the reference.
LEMMA ResultInvNext == UniqueTypes /\ FilterInv /\ ResultInv /\ [Next]_vars => ResultInv'
<1> SUFFICES ASSUME UniqueTypes, FilterInv, ResultInv, [Next]_vars PROVE ResultInv'
  OBVIOUS
<1>1. ASSUME NEW given \in RuleSets, NEW s \in Slices, NEW o \in Offsets, NEW l \in Lengths,
             ApplySubset(given, s, o, l)
      PROVE  ResultInv'
  BY <1>1, ResultApplySubset
<1>2. CASE UNCHANGED vars
  <2>1. UNCHANGED <<pc, rules, offset, length, slice, input, i, and, or, n, m, skip, cache, ret>>
    BY <1>2 DEF vars, arguments, position, counters
  <2>2. GivenOK' /\ CacheOK'
    BY <2>1 DEF ResultInv, GivenOK, CacheOK, Key
  <2>3. Decided'
    BY <2>1 DEF ResultInv, Decided, OrAnswer
  <2>4. PICK k, all : k = i - 1 /\ all = Len(input)
    OBVIOUS
  <2>5. (Keeps(k)' <=> Keeps(k)) /\ (Keeps(all)' <=> Keeps(all))
    BY <2>1, KeptStay
  <2>6. i' - 1 = k /\ Len(input') = all
    BY <2>1, <2>4
  <2>7. (Refused' <=> Refused) /\ (Running' <=> Running)
    BY <2>1 DEF Running, Refused
  <2>8. Before'
    BY <2>1, <2>4, <2>5, <2>6, <2>7, VerdictsStay DEF ResultInv, Before
  <2>9. Outcome'
    BY <2>1, <2>4, <2>5, <2>6, <2>7, VerdictsStay DEF ResultInv, Outcome
  <2> QED
    BY <2>2, <2>3, <2>8, <2>9 DEF ResultInv
<1> QED
  BY <1>1, <1>2, ResultEvaluateRule, ResultNoMatch, ResultMatch, ResultFinish, ResultTake
  DEF Next

LEMMA ResultInvariant == Spec => [](FilterInv /\ (UniqueTypes => ResultInv))
<1>1. Init => (UniqueTypes => ResultInv)
  BY ResultInvInit
<1>2. FilterInv /\ (UniqueTypes => ResultInv) /\ [Next]_vars => (UniqueTypes => ResultInv)'
  BY ResultInvNext
<1> QED
  BY <1>1, <1>2, FilterInvInit, FilterInvNext, PTL DEF Spec

\* ApplySubset answers by its arguments only: from whatever is cached, with the
\* evaluators that are kept in the rules, and in place, it returns the matching
\* objects between the offset and the length, in their order, and the number of all
\* of them, or fails at the first object that fails.  The types that are filtered
\* must not share a string, since the cache's key is reflect.Type.String().
THEOREM ReturnsWhatMatches == Spec => [](UniqueTypes => ReturnsReference)
<1>1. FilterInv /\ ResultInv => ReturnsReference
  <2> SUFFICES ASSUME FilterInv, ResultInv, pc = "idle", ret # NoReturn
               PROVE  IF Refused THEN ret.err = "error" /\ slice = input
                      ELSE IF \E k \in DOMAIN input : Verdict(input[k]) \in {"error", "panic"}
                        THEN /\ ret.err = Verdict(input[i])
                             /\ \A j \in 1 .. i - 1 : Verdict(input[j]) \in {"true", "false"}
                             /\ Keeps(i - 1)
                        ELSE /\ ret = [n |-> Len(slice),
                                       m |-> Cardinality(Matching(Len(input))), err |-> "nil"]
                             /\ n = Len(slice) /\ Keeps(Len(input))
    BY DEF ReturnsReference
  <2>1. CASE Refused
    BY <2>1 DEF ResultInv, Outcome
  <2>2. ret.err \in {"nil", "error", "panic"}
    BY DEF FilterInv, TypeOK, ResultInv, Outcome
  <2>3. DOMAIN input = 1 .. Len(input)
    BY FilterAssumption, SequenceShape, EmptySequence DEF ResultInv, GivenOK
  <2>4. CASE ~Refused /\ ret.err = "nil"
    <3>1. \A j \in DOMAIN input : Verdict(input[j]) \in {"true", "false"}
      BY <2>3, <2>4 DEF ResultInv, Outcome
    <3>2. /\ n = Len(slice) /\ Keeps(Len(input))
          /\ ret = [n |-> n, m |-> Cardinality(Matching(Len(input))), err |-> "nil"]
      BY <2>4 DEF ResultInv, Outcome
    <3> QED
      BY <2>4, <3>1, <3>2
  <2>5. CASE ~Refused /\ ret.err \in {"error", "panic"}
    <3>1. i <= Len(input) /\ Verdict(input[i]) = ret.err
      BY <2>5 DEF ResultInv, Outcome
    <3>2. i \in DOMAIN input
      BY <2>3, <3>1, LoopShape
    <3>3. (\A j \in 1 .. i - 1 : Verdict(input[j]) \in {"true", "false"}) /\ Keeps(i - 1)
      BY <2>5 DEF ResultInv, Before, Running
    <3> QED
      BY <2>5, <3>1, <3>2, <3>3
  <2> QED
    BY <2>1, <2>2, <2>4, <2>5
<1> QED
  BY <1>1, ResultInvariant, PTL

-----------------------------------------------------------------------------
(* Filter: the types of rules agree.                                       *)

\* A rule of a type, with a reference, is valid and holds of a value.
Yes(type, v, ref) ==
    LET rule == [not |-> FALSE, type |-> type, value |-> ref]
    IN  Valid(rule) /\ Evaluate(getEvaluator(rule), v) = "true"

\* ... by what the evaluator of its type answers.
LEMMA YesTells ==
    ASSUME NEW type, NEW v, NEW ref
    PROVE  Yes(type, v, ref) <=>
               /\ Valid([not |-> FALSE, type |-> type, value |-> ref])
               /\ BaseAnswer(type, v, convertValue(ref)) = "true"
BY DEF Yes, Evaluate, getEvaluator

\* What is a float64 after the conversion holds one integer, or is NaN, and was NaN
\* before.
LEMMA NumberHolds ==
    ASSUME NEW v, IsValue(v), convertValue(v).kind = "float64"
    PROVE  /\ IsNaN(v) <=> IsNaN(convertValue(v))
           /\ IsNaN(v) <=> convertValue(v).val = <<>>
           /\ ~IsNaN(v) => /\ convertValue(v).val[1] \in Int
                           /\ convertValue(v).val = <<convertValue(v).val[1]>>
<1>1. CASE v.type = "int"
  <2>1. v.val \in Seq(Int) /\ Len(v.val) = 1
    BY <1>1 DEF IsValue
  <2>2. v.val[1] \in Int /\ v.val # <<>>
    <3>1. 1 \in DOMAIN v.val
      BY <2>1
    <3> QED
      BY <2>1, <3>1
  <2> DEFINE r == Rounded(v.val[1])
  <2>3. r \in Int
    BY <2>2, FilterAssumption DEF Rounded
  <2>4. /\ convertValue(v).kind = "float64"
        /\ convertValue(v).val = <<r>>
    BY <1>1 DEF convertValue
  <2> HIDE DEF r
  <2>5. <<r>> # <<>> /\ <<r>>[1] = r
    OBVIOUS
  <2> QED
    BY <2>2, <2>3, <2>4, <2>5 DEF IsNaN
<1>2. CASE v.type # "int"
  <2>1. /\ convertValue(v).val = v.val
        /\ v.kind \in {"float32", "float64"}
    BY <1>2 DEF IsValue, convertValue
  <2>2. v.val \in Seq(Int) /\ Len(v.val) <= 1
    BY <2>1 DEF IsValue
  <2>3. v.val # <<>> => v.val[1] \in Int /\ v.val = <<v.val[1]>>
    BY <2>2
  <2> QED
    BY <2>1, <2>3 DEF IsNaN
<1> QED
  BY <1>1, <1>2

\* The rules of order compare two integers, or never hold; of two float64s, they
\* compare what these hold, unless one is NaN.
LEMMA OrderTells ==
    ASSUME NEW v, NEW ref, IsValue(v), IsValue(ref)
    PROVE  \E x, y \in Int, able \in BOOLEAN :
              /\ \A type \in OrderTypes : Yes(type, v, ref) <=> able /\ Holds(type, x, y)
              /\ convertValue(v).type = "float64" /\ convertValue(ref).type = "float64" =>
                     /\ able <=> ~IsNaN(v) /\ ~IsNaN(ref)
                     /\ able => /\ convertValue(v).val = <<x>>
                                /\ convertValue(ref).val = <<y>>
<1> DEFINE c == convertValue(v)
           d == convertValue(ref)
<1>1. ASSUME NEW type \in OrderTypes
      PROVE  Yes(type, v, ref) <=> d.kind = "float64" /\ Order(type, c, d) = "true"
  BY YesTells DEF Valid, BaseAnswer, OrderTypes, StringTypes
<1>2. (c.type = "float64" => c.kind = "float64") /\ (d.type = "float64" => d.kind = "float64")
  BY DEF convertValue, IsValue
<1>3. CASE d.kind # "float64"
  <2>1. 0 \in Int /\ FALSE \in BOOLEAN /\ d.type # "float64"
    BY <1>2, <1>3
  <2>2. \A type \in OrderTypes : ~Yes(type, v, ref)
    BY <1>1, <1>3
  <2> QED
    BY <2>1, <2>2
<1>4. CASE d.kind = "float64" /\ c.kind = "float64"
  <2>1. /\ IsNaN(c) <=> IsNaN(v)
        /\ IsNaN(d) <=> IsNaN(ref)
        /\ ~IsNaN(v) => c.val[1] \in Int /\ c.val = <<c.val[1]>>
        /\ ~IsNaN(ref) => d.val[1] \in Int /\ d.val = <<d.val[1]>>
    BY <1>4, NumberHolds
  <2>2. ASSUME NEW type \in OrderTypes
        PROVE  Order(type, c, d)
                   = Answer(~IsNaN(c) /\ ~IsNaN(d) /\ Holds(type, c.val[1], d.val[1]))
    BY <1>4 DEF Order
  <2>3. CASE IsNaN(v) \/ IsNaN(ref)
    <3>1. \A type \in OrderTypes : ~Yes(type, v, ref)
      BY <1>1, <2>1, <2>2, <2>3 DEF Answer
    <3>2. 0 \in Int /\ FALSE \in BOOLEAN
      OBVIOUS
    <3> QED
      BY <2>3, <3>1, <3>2
  <2>4. CASE ~IsNaN(v) /\ ~IsNaN(ref)
    <3>1. \A type \in OrderTypes :
             Yes(type, v, ref) <=> TRUE /\ Holds(type, c.val[1], d.val[1])
      BY <1>1, <1>4, <2>1, <2>2, <2>4 DEF Answer
    <3> QED
      BY <2>1, <2>4, <3>1
  <2> QED
    BY <2>3, <2>4
<1>5. CASE d.kind = "float64" /\ c.kind \in {"array", "map", "slice", "string"}
  <2>1. c.val = v.val /\ v.val \in Seq(Range(v.val))
    BY <1>5 DEF convertValue, IsValue
  <2>2. Len(c.val) \in Int
    BY <2>1
  <2>3. d.val = <<>> \/ d.val[1] \in Int
    BY <1>5, NumberHolds
  <2>4. Truncated(d.val) \in Int
    BY <2>3, FilterAssumption DEF Truncated
  <2>5. ASSUME NEW type \in OrderTypes
        PROVE  Yes(type, v, ref) <=> TRUE /\ Holds(type, Len(c.val), Truncated(d.val))
    <3>1. Order(type, c, d) = Answer(Holds(type, Len(c.val), Truncated(d.val)))
      BY <1>5 DEF Order
    <3> QED
      BY <1>1, <1>5, <3>1 DEF Answer
  <2> QED
    BY <1>2, <1>5, <2>2, <2>4, <2>5
<1>6. CASE c.kind \notin {"float64", "array", "map", "slice", "string"}
  <2>1. ASSUME NEW type \in OrderTypes
        PROVE  ~Yes(type, v, ref)
    BY <1>1, <1>6 DEF Order
  <2>2. 0 \in Int /\ FALSE \in BOOLEAN
    OBVIOUS
  <2> QED
    BY <1>2, <1>6, <2>1, <2>2
<1> QED
  BY <1>3, <1>4, <1>5, <1>6

\* What begins or ends with a sequence contains it.
LEMMA EndsAreSubstrings ==
    ASSUME NEW S, NEW T, NEW s \in Seq(S), NEW t \in Seq(T), IsPrefix(t, s) \/ IsSuffix(t, s)
    PROVE  Substring(s, t)
<1>1. Len(s) \in Nat /\ Len(t) \in Nat
  OBVIOUS
<1>2. CASE IsPrefix(t, s)
  <2>1. Len(t) <= Len(s) /\ SubSeq(t, 1, Len(t)) = SubSeq(s, 1, Len(t))
    BY <1>2 DEF IsPrefix
  <2>2. SubSeq(t, 1, Len(t)) = t
    BY SubSeqFull
  <2>3. 0 \in 0 .. Len(s) - Len(t) /\ SubSeq(s, 0 + 1, 0 + Len(t)) = t
    BY <1>1, <2>1, <2>2
  <2> QED
    BY <2>3 DEF Substring
<1>3. CASE IsSuffix(t, s)
  <2> DEFINE u == Reverse(t)
             w == Reverse(s)
             k == Len(s) - Len(t)
  <2>1. u \in Seq(T) /\ Len(u) = Len(t) /\ w \in Seq(S) /\ Len(w) = Len(s)
    BY DEF Reverse
  <2>2. Len(t) <= Len(s) /\ SubSeq(u, 1, Len(t)) = SubSeq(w, 1, Len(t))
    BY <1>3, <2>1 DEF IsSuffix, IsPrefix
  <2>3. \A j \in 1 .. Len(t) : u[j] = w[j]
    <3> TAKE j \in 1 .. Len(t)
    <3>1. SubSeq(u, 1, Len(t))[j] = u[1 + j - 1]
      BY <1>1, <2>1, SubSeqProperties
    <3>2. SubSeq(w, 1, Len(t))[j] = w[1 + j - 1]
      BY <1>1, <2>1, <2>2, SubSeqProperties
    <3> QED
      BY <2>2, <3>1, <3>2
  <2>4. \A j \in 1 .. Len(t) : t[j] = s[k + j]
    <3> TAKE j \in 1 .. Len(t)
    <3> DEFINE h == Len(t) - j + 1
    <3>1. h \in 1 .. Len(t) /\ h \in 1 .. Len(s)
      BY <1>1, <2>2
    <3>2. u[h] = t[j]
      BY <1>1, <3>1 DEF Reverse
    <3>3. w[h] = s[k + j]
      BY <1>1, <3>1 DEF Reverse
    <3> QED
      BY <2>3, <3>1, <3>2, <3>3
  <2>5. k \in 0 .. Len(s) - Len(t) /\ k \in Int
    BY <1>1, <2>2
  <2>6. SubSeq(s, k + 1, k + Len(t)) = t
    <3> HIDE DEF k
    <3>1. \A j \in k + 1 .. k + Len(t) : s[j] \in T
      <4> TAKE j \in k + 1 .. k + Len(t)
      <4>1. j - k \in 1 .. Len(t) /\ k + (j - k) = j
        BY <1>1, <2>5
      <4>2. t[j - k] = s[j]
        BY <2>4, <4>1
      <4> QED
        BY <4>1, <4>2
    <3>2. /\ SubSeq(s, k + 1, k + Len(t)) \in Seq(T)
          /\ Len(SubSeq(s, k + 1, k + Len(t))) = Len(t)
          /\ \A j \in 1 .. Len(t) : SubSeq(s, k + 1, k + Len(t))[j] = s[k + j]
      BY <1>1, <2>5, <3>1, SubSeqProperties
    <3> QED
      BY <1>1, <2>4, <3>2, SeqEqual
  <2> QED
    BY <2>5, <2>6 DEF Substring
<1> QED
  BY <1>2, <1>3

\* What contains a sequence and is as long is that sequence.
LEMMA LongSubstringIsAll ==
    ASSUME NEW S, NEW T, NEW s \in Seq(S), NEW t \in Seq(T), Len(s) = Len(t), Substring(s, t)
    PROVE  IsPrefix(t, s) /\ IsSuffix(t, s)
<1>1. Len(s) \in Nat /\ Len(t) \in Nat
  OBVIOUS
<1>2. PICK k \in 0 .. Len(s) - Len(t) : SubSeq(s, k + 1, k + Len(t)) = t
  BY DEF Substring
<1>3. k = 0
  BY <1>1
<1>4. SubSeq(s, 1, Len(s)) = t
  BY <1>1, <1>2, <1>3
<1>5. s = t
  BY <1>4, SubSeqFull
<1> QED
  BY <1>1, <1>5 DEF IsPrefix, IsSuffix, Reverse

\* The answers of the rules agree with each other on every value.
LEMMA ValuesAgree ==
    ASSUME NEW v, NEW ref, IsValue(v), IsValue(ref)
    PROVE  TypesAgree(v, ref)
<1> DEFINE c == convertValue(v)
           d == convertValue(ref)
           numbers == c.type = "float64" /\ d.type = "float64"
           ordered == ~IsNaN(v) /\ ~IsNaN(ref)
<1>1. PICK x \in Int, y \in Int, able \in BOOLEAN :
          /\ \A type \in OrderTypes : Yes(type, v, ref) <=> able /\ Holds(type, x, y)
          /\ numbers => (able <=> ordered)
          /\ numbers /\ able => c.val = <<x>> /\ d.val = <<y>>
  BY OrderTells
<1>2. /\ Yes("<", v, ref) <=> able /\ x < y
      /\ Yes("<=", v, ref) <=> able /\ x <= y
      /\ Yes(">", v, ref) <=> able /\ x > y
      /\ Yes(">=", v, ref) <=> able /\ x >= y
  BY <1>1 DEF OrderTypes, Holds
<1>3. Yes("==", v, ref) <=> Equal(c, d) = "true"
  <2>1. Valid([not |-> FALSE, type |-> "==", value |-> ref])
    BY DEF Valid
  <2>2. BaseAnswer("==", v, d) = Equal(c, d)
    BY DEF BaseAnswer, StringTypes, OrderTypes
  <2> QED
    BY <2>1, <2>2, YesTells
<1>4. Yes("=", v, ref) <=> EqualFold(c, d) = "true"
  <2>1. Valid([not |-> FALSE, type |-> "=", value |-> ref])
    BY DEF Valid
  <2>2. BaseAnswer("=", v, d) = EqualFold(c, d)
    BY DEF BaseAnswer, StringTypes, OrderTypes
  <2> QED
    BY <2>1, <2>2, YesTells
<1>5. ASSUME numbers
      PROVE  Yes("==", v, ref) <=> ordered /\ x = y
  <2>1. c.kind = "float64" /\ d.kind = "float64"
    BY <1>5 DEF convertValue, IsValue
  <2>2. ~IsNil(c)
    BY <1>5, <2>1 DEF IsNil, Nil
  <2>3. Equal(c, d) = Answer(c.val = d.val /\ ~IsNaN(c))
    BY <1>5, <2>1, <2>2 DEF Equal
  <2>4. c.val = d.val /\ ~IsNaN(c) <=> ordered /\ x = y
    <3>1. /\ IsNaN(c) <=> IsNaN(v)
          /\ IsNaN(v) <=> c.val = <<>>
          /\ IsNaN(ref) <=> d.val = <<>>
      BY <2>1, NumberHolds
    <3> QED
      BY <1>1, <1>5, <3>1
  <2> QED
    BY <1>3, <2>3, <2>4 DEF Answer
<1>6. Yes("==", v, ref) => Yes("=", v, ref)
  <2>1. CASE c.kind = "string" /\ d.kind = "string"
    <3>1. ~IsNil(c)
      BY <2>1 DEF IsNil, Nil
    <3>2. Yes("==", v, ref) => c.val = d.val
      BY <1>3, <3>1 DEF Equal, Answer
    <3> QED
      BY <1>4, <2>1, <3>2 DEF EqualFold, Answer
  <2>2. CASE ~(c.kind = "string" /\ d.kind = "string")
    BY <1>3, <1>4, <2>2 DEF EqualFold
  <2> QED
    BY <2>1, <2>2
<1>7. ASSUME NEW type \in StringTypes
      PROVE  Yes(type, v, ref) <=>
                 /\ Valid([not |-> FALSE, type |-> type, value |-> ref])
                 /\ StringMatch(type, v, d) = "true"
  <2>1. BaseAnswer(type, v, d) = StringMatch(type, v, d)
    BY <1>7 DEF BaseAnswer, StringTypes, OrderTypes
  <2> QED
    BY <2>1, YesTells
<1>8. ASSUME v.type = "string", ref.type = "string"
      PROVE  /\ c = v /\ d = ref /\ v.kind = "string" /\ ref.kind = "string"
             /\ v.val \in Seq(Range(v.val)) /\ ref.val \in Seq(Range(ref.val))
  BY <1>8 DEF convertValue, IsValue
<1>9. /\ Yes("^=", v, ref) <=> v.type = "string" /\ ref.type = "string" /\ IsPrefix(d.val, v.val)
      /\ Yes("=$", v, ref) <=> v.type = "string" /\ ref.type = "string" /\ IsSuffix(d.val, v.val)
      /\ Yes("~=", v, ref) <=> v.type = "string" /\ ref.type = "string" /\ Substring(v.val, d.val)
  <2>1. Substring(v.val, d.val) \in BOOLEAN
    BY DEF Substring
  <2>2. IsPrefix(d.val, v.val) \in BOOLEAN /\ IsSuffix(d.val, v.val) \in BOOLEAN
    BY DEF IsPrefix, IsSuffix
  <2>3. "^=" \in StringTypes /\ "=$" \in StringTypes /\ "~=" \in StringTypes
    BY DEF StringTypes
  <2>4. ASSUME NEW type \in {"^=", "=$", "~="}
        PROVE  Yes(type, v, ref) <=> ref.type = "string" /\ StringMatch(type, v, d) = "true"
    BY <1>7, <2>3, <2>4 DEF Valid, OrderTypes
  <2> QED
    BY <2>1, <2>2, <2>4 DEF StringMatch, Answer
<1>10. Yes("^=", v, ref) \/ Yes("=$", v, ref) => Yes("~=", v, ref)
  BY <1>8, <1>9, EndsAreSubstrings
<1>11. ASSUME Yes("~=", v, ref), Yes("=", v, ref)
       PROVE  Yes("^=", v, ref) /\ Yes("=$", v, ref)
  <2>1. v.type = "string" /\ ref.type = "string" /\ Substring(v.val, ref.val)
    BY <1>8, <1>9, <1>11
  <2>2. c.val = v.val /\ d.val = ref.val /\ c.kind = "string" /\ d.kind = "string"
    BY <1>8, <2>1
  <2>3. [k \in DOMAIN v.val |-> Lower[v.val[k]]] = [k \in DOMAIN ref.val |-> Lower[ref.val[k]]]
    BY <1>4, <1>11, <2>2 DEF EqualFold, Answer
  <2>4. DOMAIN v.val = DOMAIN ref.val
    BY <2>3
  <2>5. Len(v.val) = Len(ref.val)
    BY <1>8, <2>1, <2>4
  <2> QED
    BY <1>8, <1>9, <2>1, <2>2, <2>5, LongSubstringIsAll
<1> HIDE DEF c, d
<1>12. numbers => ((Yes("<=", v, ref) /\ Yes(">=", v, ref)) <=> Yes("==", v, ref))
  BY <1>1, <1>2, <1>5
<1>13. numbers /\ ordered => Yes("<", v, ref) \/ Yes("==", v, ref) \/ Yes(">", v, ref)
  BY <1>1, <1>2, <1>5
<1>14. /\ Yes("<", v, ref) => Yes("<=", v, ref) /\ ~Yes(">=", v, ref)
       /\ Yes(">", v, ref) => Yes(">=", v, ref) /\ ~Yes("<=", v, ref)
  BY <1>2
<1>15. numbers /\ ~ordered => \A type \in OrderTypes \cup {"==", "="} : ~Yes(type, v, ref)
  <2> SUFFICES ASSUME numbers, ~ordered
               PROVE  /\ \A type \in OrderTypes : ~Yes(type, v, ref)
                      /\ ~Yes("==", v, ref) /\ ~Yes("=", v, ref)
    OBVIOUS
  <2>1. ~able
    BY <1>1
  <2>2. c.kind = "float64"
    BY DEF convertValue, IsValue, c
  <2>3. Yes("=", v, ref) <=> Yes("==", v, ref)
    BY <1>3, <1>4, <2>2 DEF EqualFold
  <2> QED
    BY <1>1, <1>5, <2>1, <2>3
<1> QED
  BY <1>6, <1>10, <1>11, <1>12, <1>13, <1>14, <1>15 DEF TypesAgree, Yes, c, d

\* The slices and the rules are those that were given.
LEMMA GivenNext ==
    ASSUME GivenOK, [Next]_vars
    PROVE  GivenOK'
<1>1. ASSUME NEW given \in RuleSets, NEW s \in Slices, NEW o \in Offsets, NEW l \in Lengths,
             ApplySubset(given, s, o, l)
      PROVE  GivenOK'
  BY <1>1, FilterAssumption DEF ApplySubset, GivenOK
<1>2. CASE UNCHANGED arguments
  BY <1>2 DEF arguments, GivenOK
<1>3. CASE Take
  BY <1>3 DEF Take, GivenOK
<1> QED
  BY <1>1, <1>2, <1>3
     DEF Next, vars, EvaluateRule, NoMatch, Match, Finish

LEMMA GivenInvariant == Spec => [](FilterInv /\ GivenOK)
<1>1. Init => GivenOK
  BY DEF Init, GivenOK
<1> QED
  BY <1>1, FilterInvInit, FilterInvNext, GivenNext, PTL DEF Spec

\* The types of rules agree with each other on every value and every reference that
\* is filtered, as the evaluators of pkg/filter answer: what is less is at most and
\* not at least; two numbers are less, equal or greater, and NaN is none of these;
\* what is equal is equal when the case is ignored; what begins or ends with the
\* reference contains it.  ValuesAssumption says only how values are represented:
\* the infinities and NaN are among them.
THEOREM RulesAgree == Spec => []RuleTypesAgree
<1>1. FilterInv /\ GivenOK => RuleTypesAgree
  <2> SUFFICES ASSUME FilterInv, GivenOK, pc = "loop", i <= Len(slice), and <= Len(rules),
                      NEW b \in DOMAIN rules[and]
               PROVE  TypesAgree(slice[i], rules[and][b].value)
    BY DEF RuleTypesAgree
  <2>1. slice[i] = input[i] /\ i <= Len(input) /\ i \in Nat /\ i >= 1
    BY LoopReads, LoopShape
  <2>2. i \in DOMAIN input
    BY <2>1, FilterAssumption, SequenceShape, EmptySequence DEF GivenOK
  <2>3. IsValue(slice[i])
    BY <2>1, <2>2, ValuesAssumption, EmptySequence DEF GivenOK
  <2>4. and \in DOMAIN rules
    BY LoopShape
  <2>5. IsValue(rules[and][b].value)
    BY <2>4, ValuesAssumption, EmptySequence DEF GivenOK
  <2> QED
    BY <2>3, <2>5, ValuesAgree
<1> QED
  BY <1>1, GivenInvariant, PTL

\* "GetFieldValue returns the value of obj's field": the path that is in the cache
\* is the one of the object's own type, as long as no two types that are filtered
\* have the same string (the cache's key is reflect.Type.String()).
THEOREM FieldsOfTheirTypes == Spec => [](UniqueTypes => FieldOfItsOwnType)
<1>1. ResultInv => FieldOfItsOwnType
  BY DEF ResultInv, CacheOK, FieldOfItsOwnType
<1> QED
  BY <1>1, ResultInvariant, PTL
=============================================================================
