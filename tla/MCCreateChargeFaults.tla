------------------------ MODULE MCCreateChargeFaults ------------------------
(***************************************************************************)
(* Instances of CreateCharge that remember whether a fault has happened,   *)
(* so that what only holds without faults is checked beside what always    *)
(* holds, up to the first fault of each behaviour.                         *)
(***************************************************************************)
EXTENDS MCCreateCharge

VARIABLE faulted \* (history) a client left, a transaction failed or the process died

WithoutFaults == INSTANCE CreateCharge WITH
  TxFaults <- {}, ClientsMayLeave <- FALSE, MaxCrashes <- 0

FaultsInit == Init /\ faulted = FALSE
FaultsNext == Next /\ faulted' = (faulted \/ ~WithoutFaults!Next)

FaultsSpec == FaultsInit /\ [][FaultsNext]_<<vars, faulted>>

FairFaultsSpec == FaultsSpec /\ \A r \in Requests : WF_vars(Serve(r))

\* Until the first fault, "request in progress" (middleware.go) is said only
\* while some other request of the key is still being handled.
InProgressTrueBeforeFault ==
  [][~faulted' => \A r \in Requests :
       pc[r] = "arrived" /\ resp'[r] = InProgress /\ resp[r] # InProgress =>
         \E p \in Requests : Handling(p, KeyOf(r))]_vars

\* If nothing ever fails, every reserved key comes to hold the answer that its
\* retries will be given (middleware.go), and every charge leaves CREATED, however
\* EFi answers: each error path of create.go settles the charge it minted.
AllSettlesWithoutFault == [](~faulted) => EveryKeySettles /\ EveryChargeSettles
=============================================================================
