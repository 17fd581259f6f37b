SPECIFICATION FairFaultsSpec
CONSTANTS
  Requests = {r1, r2}
  Tenants = {t1, t2}
  Keys = {k1}
  Bodies = {b1, b2}
  ValidBodies = {b1}
  TxFaults = {"begin", "exec", "commit", "unacked"}
  ClientsMayLeave = TRUE
  MaxCrashes = 1
  NoKey = NoKey
  NoRow = NoRow
  NoCharge = NoCharge
  NoRequest = NoRequest
  NoResponse = NoResponse
CHECK_DEADLOCK FALSE
PROPERTIES EveryRequestEnds AllSettlesWithoutFault
