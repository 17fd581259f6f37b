SPECIFICATION FaultsSpec
CONSTANTS
  Requests = {r1, r2, r3}
  Tenants = {t1}
  Keys = {k1}
  Bodies = {b1, b2}
  ValidBodies = {b1}
  TxFaults = {"exec", "unacked"}
  ClientsMayLeave = TRUE
  MaxCrashes = 1
  NoKey = NoKey
  NoRow = NoRow
  NoCharge = NoCharge
  NoRequest = NoRequest
  NoResponse = NoResponse
CHECK_DEADLOCK FALSE
SYMMETRY Symmetry
INVARIANTS
  OneChargePerKey PersistFirst RecordsAgree CreatedIsActive
  FailureIsRecorded OneOutcomePerKey Inv
PROPERTIES
  ResultIsFinal StatusIsFinal ImplementsPromise InProgressTrueBeforeFault
