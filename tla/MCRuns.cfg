SPECIFICATION FairSpec
CONSTANTS
  server = server
  cli = cli
  s1 = s1
  s2 = s2
  Procs <- MCProcs
  Sessions <- MCSessions
  Servers <- MCServers
INVARIANTS
  TypeOK
  OneRunner
  SuccessIsLogged
  RunningIsRun
  StreamsEnd
PROPERTIES
  
  StartedIsFinalised
CHECK_DEADLOCK FALSE
