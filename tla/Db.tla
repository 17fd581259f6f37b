--------------------------------- MODULE Db ---------------------------------
(***************************************************************************)
(* Database transactions of the pool (internal/platform/db/db.go).         *)
(*                                                                         *)
(* Every repository operation runs one function inside runTx: begin, set   *)
(* the tenant, run the statements, commit, and roll back on any error.  A  *)
(* transaction is atomic, so the specifications take it in one step and    *)
(* choose its outcome:                                                     *)
(*   "ok"       every statement and the commit succeeded;                  *)
(*   "begin"    begin or set_config failed, nothing was executed;          *)
(*   "exec"     a statement failed and the transaction was rolled back;    *)
(*   "commit"   the commit was refused and the transaction rolled back;    *)
(*   "unacked"  the commit took effect but its answer was lost, so runTx   *)
(*              returns an error for a transaction that is durable.        *)
(***************************************************************************)
CONSTANT TxFaults   \* the faults that may hit a transaction whose context is live

AllTxFaults == {"begin", "exec", "commit", "unacked"}

ASSUME TxFaultsAssumption == TxFaults \subseteq AllTxFaults

\* The outcomes runTx can produce.  Under a cancelled context no transaction
\* is seen to succeed; a cancellation that lands while the commit is on the
\* wire leaves it durable ("unacked").
TxOutcomes(cancelled) ==
  IF cancelled THEN AllTxFaults ELSE {"ok"} \cup TxFaults

\* Mutant of Succeeded: the error of tx.Commit is dropped.
SucceededUnlessRefused(o) == o \in {"ok", "commit", "unacked"}

Durable(o)   == o \in {"ok", "unacked"}   \* the effects are in the database
Succeeded(o) == o = "ok"                  \* runTx returned nil
=============================================================================
