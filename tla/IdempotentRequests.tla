-------------------------- MODULE IdempotentRequests --------------------------
(***************************************************************************)
(* What POST /charges promises, without saying how: among the requests of  *)
(* a tenant that carry one Idempotency-Key, at most one is executed, it    *)
(* mints at most one charge, and the answer it decides is the only answer  *)
(* of the handler that any of them is ever given.  The others are refused. *)
(* Nothing promises that an execution decides: it may be abandoned, and    *)
(* then its key refuses every retry.                                       *)
(***************************************************************************)
CONSTANTS Requests, Tenants, Keys, NoKey, Bodies, Answers, None

VARIABLES
  ask,       \* what each request asks, or None
  table,     \* [Tenants \X Keys -> the body that claimed the key, or None]
  running,   \* the requests being executed
  minted,    \* the requests that have minted a charge
  decided,   \* [Tenants \X Keys -> the answer decided for the key, or None]
  answer     \* the decided answer each request was given, or None

vars == <<ask, table, running, minted, decided, answer>>

KeyOf(r) == <<ask[r].tenant, ask[r].key>>

Init ==
  /\ ask     = [r \in Requests |-> None]
  /\ table   = [tk \in Tenants \X Keys |-> None]
  /\ running = {}
  /\ minted  = {}
  /\ decided = [tk \in Tenants \X Keys |-> None]
  /\ answer  = [r \in Requests |-> None]

Ask(r, t, k, b) ==
  /\ ask[r] = None
  /\ ask' = [ask EXCEPT ![r] = [tenant |-> t, key |-> k, body |-> b]]
  /\ UNCHANGED <<table, running, minted, decided, answer>>

\* The first request of a key claims it; it is executed, unless the claim was
\* made without the server learning of it.
Claim(r) ==
  /\ ask[r] # None /\ ask[r].key # NoKey /\ table[KeyOf(r)] = None
  /\ table' = [table EXCEPT ![KeyOf(r)] = ask[r].body]
  /\ running' \in {running, running \cup {r}}
  /\ UNCHANGED <<ask, minted, decided, answer>>

Mint(r) ==
  /\ r \in running /\ r \notin minted
  /\ minted' = minted \cup {r}
  /\ UNCHANGED <<ask, table, running, decided, answer>>

\* The execution decides an answer, the last thing it may do is to mint.  It
\* may promise a charge only if it minted one.
Decide(r, a) ==
  /\ r \in running
  /\ minted' \in {minted, minted \cup {r}}
  /\ a.charge = r => r \in minted'
  /\ running' = running \ {r}
  /\ decided' = [decided EXCEPT ![KeyOf(r)] = a]
  /\ answer'  = [answer EXCEPT ![r] = a]
  /\ UNCHANGED <<ask, table>>

\* A retry is given the decided answer if it sends the same body.
Replay(r) ==
  /\ ask[r] # None /\ ask[r].key # NoKey /\ answer[r] = None
  /\ table[KeyOf(r)] = ask[r].body /\ decided[KeyOf(r)] # None
  /\ answer' = [answer EXCEPT ![r] = decided[KeyOf(r)]]
  /\ UNCHANGED <<ask, table, running, minted, decided>>

\* The executions in S are lost; their keys stay claimed.
Abandon(S) ==
  /\ S # {}
  /\ running' = running \ S
  /\ UNCHANGED <<ask, table, minted, decided, answer>>

Next ==
  \/ \E r \in Requests :
       \/ \E t \in Tenants, k \in Keys \cup {NoKey}, b \in Bodies : Ask(r, t, k, b)
       \/ Claim(r) \/ Mint(r) \/ Replay(r)
       \/ \E a \in Answers : Decide(r, a)
  \/ \E S \in SUBSET running : Abandon(S)

Spec == Init /\ [][Next]_vars
=============================================================================
