SPECIFICATION ConfigSpec
CONSTANTS
  Params <- MCParams
  FlagParams = {"log.level"}
  SearchPath <- MCPath
  EnvLayers <- MCEnv
  FileLayers <- MCFiles
  RemoteLayers <- MCRemote
  FlagLayers <- MCFlags
  RemoteSources <- MCSources
INVARIANTS StartsFromItsSources OnlyFlagsPassUnvalidated
CHECK_DEADLOCK FALSE
