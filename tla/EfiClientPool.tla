--------------------------- MODULE EfiClientPool ---------------------------
(***************************************************************************)
(* The pool of EFi clients (EfiProvider.clientFor, internal/provider/efi). *)
(*                                                                         *)
(* Every provider call first takes the client of its provider from a map   *)
(* that one mutex protects.  On a miss the client is built with the mutex  *)
(* held: the PEM files of the account are read, copied to two temporary    *)
(* files, and given to the SDK.  Any of these steps can fail.  Nothing     *)
(* removes temporary files, and nothing evicts a client.                   *)
(***************************************************************************)
EXTENDS Naturals, FiniteSets

CONSTANTS
  Callers,    \* calls of clientFor, each with the provider of its tenant
  Providers,  \* provider ids
  Configured, \* the ids that EFI_CREDENTIALS has an entry for
  NoOne,      \* the mutex is free
  NoClient    \* no entry in the map, or no client returned

ASSUME EfiClientPoolAssumption ==
  /\ Configured \subseteq Providers
  /\ NoOne \notin Callers
  /\ NoClient \notin [builtBy : Callers, account : Providers]

VARIABLES
  pc,      \* where each caller is in clientFor
  wants,   \* providerID
  mutex,   \* who holds EfiProvider.mu
  pool,    \* EfiProvider.pool
  got,     \* the client returned to each caller
  files    \* the temporary PEM files: who created them and for what

vars == <<pc, wants, mutex, pool, got, files>>

\* A client is named after the call that built it and has one account's
\* credentials.
Clients == [builtBy : Callers, account : Providers]

PCs == {"idle", "locking", "looking", "reading", "cert", "key", "served", "failed"}

Inside(c) == pc[c] \in {"looking", "reading", "cert", "key"}

-----------------------------------------------------------------------------
Init ==
  /\ pc = [c \in Callers |-> "idle"]
  /\ wants \in [Callers -> Providers]
  /\ mutex = NoOne
  /\ pool = [p \in Providers |-> NoClient]
  /\ got = [c \in Callers |-> NoClient]
  /\ files = {}

\* CreateImmediateCharge or GetCharge calls clientFor.
Call(c) ==
  /\ pc[c] = "idle"
  /\ pc' = [pc EXCEPT ![c] = "locking"]
  /\ UNCHANGED <<wants, mutex, pool, got, files>>

\* Mutant of Lock: the map is read without the mutex.
LockNothing(c) ==
  /\ pc[c] = "locking"
  /\ pc' = [pc EXCEPT ![c] = "looking"]
  /\ mutex' = c
  /\ UNCHANGED <<wants, pool, got, files>>

\* p.mu.Lock()
Lock(c) ==
  /\ pc[c] = "locking" /\ mutex = NoOne
  /\ mutex' = c
  /\ pc' = [pc EXCEPT ![c] = "looking"]
  /\ UNCHANGED <<wants, pool, got, files>>

\* Mutant of Leave: Unlock is not deferred, and the error paths forget it.
LeaveUnlockingOnSuccess(c, outcome) ==
  /\ pc' = [pc EXCEPT ![c] = outcome]
  /\ mutex' = IF outcome = "served" THEN NoOne ELSE mutex

\* clientFor returns, and the deferred p.mu.Unlock() runs.
Leave(c, outcome) ==
  /\ pc' = [pc EXCEPT ![c] = outcome]
  /\ mutex' = NoOne

\* Mutant of Hit: the entry is returned without looking at ok.
HitUnchecked(c) ==
  /\ pc[c] = "looking"
  /\ got' = [got EXCEPT ![c] = pool[wants[c]]]
  /\ Leave(c, "served")
  /\ UNCHANGED <<wants, pool, files>>

\* The client is in the map.
Hit(c) ==
  /\ pc[c] = "looking" /\ pool[wants[c]] # NoClient
  /\ got' = [got EXCEPT ![c] = pool[wants[c]]]
  /\ Leave(c, "served")
  /\ UNCHANGED <<wants, pool, files>>

\* It is not, and ProviderCredentials finds the account: read its PEM files.
Miss(c) ==
  /\ pc[c] = "looking" /\ pool[wants[c]] = NoClient /\ wants[c] \in Configured
  /\ pc' = [pc EXCEPT ![c] = "reading"]
  /\ UNCHANGED <<wants, mutex, pool, got, files>>

\* No credentials, or a PEM file cannot be read.
LoadFails(c) ==
  /\ \/ pc[c] = "looking" /\ pool[wants[c]] = NoClient /\ wants[c] \notin Configured
     \/ pc[c] = "reading"
  /\ Leave(c, "failed")
  /\ UNCHANGED <<wants, pool, got, files>>

File(c, content) == [by |-> c, content |-> content, account |-> wants[c]]

\* writeTempPEM of the certificate.
WriteCert(c) ==
  /\ pc[c] = "reading"
  /\ files' = files \cup {File(c, "cert")}
  /\ pc' = [pc EXCEPT ![c] = "cert"]
  /\ UNCHANGED <<wants, mutex, pool, got>>

\* writeTempPEM of the private key.
WriteKey(c) ==
  /\ pc[c] = "cert"
  /\ files' = files \cup {File(c, "key")}
  /\ pc' = [pc EXCEPT ![c] = "key"]
  /\ UNCHANGED <<wants, mutex, pool, got>>

\* A temporary file cannot be created, or is created and cannot be written: it
\* stays, and so does the one before it.
WriteFails(c) ==
  /\ pc[c] \in {"reading", "cert"}
  /\ LET content == IF pc[c] = "reading" THEN "cert" ELSE "key"
     IN  files' \in {files, files \cup {File(c, content)}}
  /\ Leave(c, "failed")
  /\ UNCHANGED <<wants, pool, got>>

\* Mutant of Build: the client is returned but the map is not written.
BuildUnpooled(c) ==
  /\ pc[c] = "key"
  /\ got' = [got EXCEPT ![c] = [builtBy |-> c, account |-> wants[c]]]
  /\ Leave(c, "served")
  /\ UNCHANGED <<wants, pool, files>>

\* NewEfiPay, p.pool[providerID] = c.
Build(c) ==
  /\ pc[c] = "key"
  /\ pool' = [pool EXCEPT ![wants[c]] = [builtBy |-> c, account |-> wants[c]]]
  /\ got' = [got EXCEPT ![c] = pool'[wants[c]]]
  /\ Leave(c, "served")
  /\ UNCHANGED <<wants, files>>

ClientFor(c) ==
  \/ Hit(c) \/ Miss(c) \/ LoadFails(c)
  \/ WriteCert(c) \/ WriteKey(c) \/ WriteFails(c) \/ Build(c)

Next == \E c \in Callers : Call(c) \/ Lock(c) \/ ClientFor(c)

Spec == Init /\ [][Next]_vars

\* A goroutine inside clientFor keeps running: it only reads and writes local
\* files.  sync.Mutex hands itself over to a waiter that has starved for 1 ms,
\* so whoever keeps asking gets it.
FairSpec == Spec /\ \A c \in Callers : WF_vars(ClientFor(c)) /\ SF_vars(Lock(c))

-----------------------------------------------------------------------------
\* Every variable has its type, and a served caller has a client.
TypeOK ==
  /\ pc \in [Callers -> PCs]
  /\ wants \in [Callers -> Providers]
  /\ mutex \in Callers \cup {NoOne}
  /\ pool \in [Providers -> Clients \cup {NoClient}]
  /\ got \in [Callers -> Clients \cup {NoClient}]
  /\ \A c \in Callers : pc[c] = "served" => got[c] \in Clients
  /\ files \subseteq [by : Callers, content : {"cert", "key"}, account : Providers]

\* One client per provider: all the callers of a provider are ever given the
\* same client, made of that provider's own credentials, however their calls
\* overlap and fail.
OneClientPerProvider ==
  \A c, d \in Callers :
    /\ got[c] # NoClient => got[c].account = wants[c]
    /\ got[c] # NoClient /\ got[d] # NoClient /\ wants[c] = wants[d] => got[c] = got[d]

\* The temporary files are those of the pooled clients, both of each, of the
\* one build that is under way, and of builds that failed.
FilesAccountedFor ==
  /\ \A p \in Providers : pool[p] # NoClient =>
       {f.content : f \in {g \in files : g.by = pool[p].builtBy}} = {"cert", "key"}
  /\ \A f \in files : \/ pool[f.account] # NoClient /\ pool[f.account].builtBy = f.by
                      \/ Inside(f.by) \/ pc[f.by] = "failed"
  /\ Cardinality({c \in Callers : Inside(c)}) <= 1

\* Once a client is pooled nothing is built for its provider any more: no
\* temporary file is added for it.
PooledForGood ==
  [][\A p \in Providers : pool[p] # NoClient =>
       /\ pool'[p] = pool[p]
       /\ \A f \in files' \ files : f.account # p]_vars

\* Every call of clientFor returns, whatever fails meanwhile for others.
EveryCallReturns ==
  \A c \in Callers : pc[c] = "locking" ~> pc[c] \in {"served", "failed"}
=============================================================================
