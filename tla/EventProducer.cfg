SPECIFICATION FairSpec
CONSTANTS
  api = api
  worker = worker
  o1 = o1
  o2 = o2
  o3 = o3
  Process = {api, worker}
  Configured = {api}
  Order = {o1, o2, o3}
  Owner <- MCOwner
  Faults = {"outage", "slow", "refusal"}
  MaxOutages = 1
  MaxCrashes = 1
INVARIANTS
  NoSilentLoss
PROPERTIES
  CallsFinish
  TakenIsDelivered
