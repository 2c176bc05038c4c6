SPECIFICATION FairSpec
CONSTANTS
  a = a
  b = b
  web = web
  edit = edit
  prodEdit = prodEdit
  restart = restart
  wipe = wipe
  bad = bad
  badEdit = badEdit
  exitPlan = exitPlan
  alice = alice
  Nobody = Nobody
  NoKey = NoKey
  Runs <- MCRuns
  Keys <- MCKeys
  Info <- MCInfo
  Turns <- MCTurns
  Hooks <- MCHooks
  StartModes <- MCStartModes
  AfterPlan <- MCAfterPlan
  Authorized <- MCAuthorized
INVARIANTS
  MutatingAlone
PROPERTIES
  HumanInTheLoop
  PlanHolds
  EveryCallAnswered
CHECK_DEADLOCK FALSE
