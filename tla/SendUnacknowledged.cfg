SPECIFICATION Spec
CONSTANTS
  api = api
  worker = worker
  o1 = o1
  o2 = o2
  o3 = o3
  Process = {api, worker}
  Configured = {api}
  Order = {o1, o2, o3}
  Owner <- MCOwner
  Faults = {}
  MaxOutages = 0
  MaxCrashes = 0
INVARIANTS
  PublishedIsWritten
