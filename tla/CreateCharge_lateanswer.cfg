SPECIFICATION Spec
CONSTANTS
  Requests = {r1}
  Tenants = {t1}
  Keys = {k1}
  Bodies = {b1, b2}
  ValidBodies = {b1}
  TxFaults = {}
  ClientsMayLeave = FALSE
  MaxCrashes = 0
  NoKey = NoKey
  NoRow = NoRow
  NoCharge = NoCharge
  NoRequest = NoRequest
  NoResponse = NoResponse
CHECK_DEADLOCK FALSE
INVARIANT FailedIsNotPayable
