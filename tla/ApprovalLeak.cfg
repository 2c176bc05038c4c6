SPECIFICATION Spec
CONSTANTS
  r1 = r1
  r2 = r2
  r3 = r3
  i1 = i1
  i2 = i2
  k1 = k1
  alice = alice
  bob = bob
  mallory = mallory
  Nobody = Nobody
  NoKey = NoKey
  NoRequest = NoRequest
  Requests <- MCRequests
  Ids <- MCIds
  Keys <- MCKeys
  Approvers <- MCApprovers
  Threads <- MCThreads
  Authorized <- MCAuthorized
  IdOf <- MCIdOf
  KeyOf <- MCKeyOf
  TierOf <- MCTierOf
  Channels = 1
INVARIANT ListedIsAwaited
CHECK_DEADLOCK FALSE
