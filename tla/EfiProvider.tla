----------------------------- MODULE EfiProvider -----------------------------
(***************************************************************************)
(* EFi as charge creation sees it: the service of PUT /v2/cob/:txid that   *)
(* internal/provider/efi calls.  The service is outside the repository and *)
(* is modelled from how sdkclient.go uses it: a request on the network is  *)
(* applied at most once whatever the caller is told, and a second PUT of   *)
(* the same txid finds the same cob.                                         *)
(***************************************************************************)
EXTENDS Charge

VARIABLES
  puts,   \* the txids whose PUT is on the network or being processed
  cobs    \* the txids that are a payable cob (ATIVA) at EFi

efiVars == <<puts, cobs>>

EfiInit == puts = {} /\ cobs = {}

EfiTypeOK == puts \subseteq Requests /\ cobs \subseteq Requests

SendPut(x) == puts' = puts \cup {x} /\ UNCHANGED cobs

\* EFi applies a PUT, early or long after its caller gave up on it.
EfiApply(x) ==
  /\ x \in puts
  /\ puts' = puts \ {x}
  /\ cobs' = cobs \cup {x}

\* The PUT is refused by EFi, or lost on the way.
EfiDrop(x) ==
  /\ x \in puts
  /\ puts' = puts \ {x}
  /\ UNCHANGED cobs
=============================================================================
