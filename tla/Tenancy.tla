------------------------------ MODULE Tenancy ------------------------------
(***************************************************************************)
(* Authentication and account resolution (internal/tenant).                *)
(*                                                                         *)
(* A call carries an API key and perhaps a provider id.  One transaction   *)
(* of the admin pool finds the tenant of the key; a second one finds the   *)
(* provider and the pix key the tenant acts with, and, when there is none, *)
(* asks with a second statement why.  Transactions are READ COMMITTED:     *)
(* each statement sees the tables of the moment it runs, and the operators *)
(* of the service change them meanwhile with the SQL the schema allows.    *)
(*                                                                         *)
(* Row-level security is left out: what holds here holds by the conditions *)
(* of the statements alone, as it must for a role that bypasses it.        *)
(***************************************************************************)
EXTENDS Naturals, Sequences

CONSTANTS
  Calls, Tenants, ApiKeys, Providers,
  PixKeys,           \* numbers, in the order of (created_at, id)
  TenantOfKey,       \* the tenant_id of each api_keys row
  TenantOfProvider,  \* the tenant_id of each payment_providers row
  TenantOfPix,       \* the tenant_id of each pix_keys row
  ProviderOfPix,     \* the payment_provider_id of each pix_keys row
  None,              \* a header that is absent
  NoAccount,         \* nothing resolved
  Operations,        \* what the operators of the service do: kinds of change
  MaxChanges         \* bound: changes they make

AllOperations == {"key", "tenant", "provider", "default", "pix"}

ASSUME TenancyAssumption ==
  /\ PixKeys \subseteq Nat
  /\ TenantOfKey \in [ApiKeys -> Tenants]
  /\ TenantOfProvider \in [Providers -> Tenants]
  /\ TenantOfPix \in [PixKeys -> Tenants]
  /\ ProviderOfPix \in [PixKeys -> Providers]
  /\ None \notin ApiKeys \cup Providers
  /\ NoAccount \notin [tenant : Tenants, provider : Providers, pixKey : PixKeys]
  /\ Operations \subseteq AllOperations
  /\ MaxChanges \in Nat

VARIABLES
  tables,  \* the committed tables, one value per change, the last being current
  call,    \* the headers of each call
  pc,      \* where its goroutine is
  since,   \* which tables were current when it arrived
  tenant,  \* tenantID
  account, \* the account it acts for
  error    \* what it is refused with

vars == <<tables, call, pc, since, tenant, account, error>>

Headers == [apiKey : ApiKeys \cup {None}, authorization : ApiKeys \cup {None},
            provider : Providers \cup {None}]

Accounts == [tenant : Tenants, provider : Providers, pixKey : PixKeys]

\* Rows that exist and are active; the default of each tenant; the pix keys.
Tables == [keys : SUBSET ApiKeys, tenants : SUBSET Tenants, providers : SUBSET Providers,
           defaults : SUBSET Providers, pix : SUBSET PixKeys]

Now == tables[Len(tables)]

-----------------------------------------------------------------------------
\* The statements.

\* X-Api-Key, or else the key of an Authorization header of scheme ApiKey.
RawKey(h) == IF h.apiKey # None THEN h.apiKey ELSE h.authorization

\* The key is active and so is its tenant; an unknown key is never active.
Authentic(db, key) == key \in db.keys /\ TenantOfKey[key] \in db.tenants

\* Active providers of the tenant: the default, or the one asked for.
Matching(db, t, wanted) ==
  {p \in db.providers : /\ TenantOfProvider[p] = t
                        /\ IF wanted = None THEN p \in db.defaults ELSE p = wanted}

\* Mutant of Joined: the join forgets pk.tenant_id = pp.tenant_id.
JoinedOnProvider(db, t, wanted) ==
  {k \in db.pix : ProviderOfPix[k] \in Matching(db, t, wanted)}

\* Matching providers joined to the pix keys of provider and tenant.
Joined(db, t, wanted) ==
  {k \in db.pix : ProviderOfPix[k] \in Matching(db, t, wanted) /\ TenantOfPix[k] = t}

\* ORDER BY created_at, id LIMIT 1.
Oldest(rows) == CHOOSE k \in rows : \A j \in rows : k <= j

AccountOf(db, t, wanted) ==
  LET k == Oldest(Joined(db, t, wanted))
  IN  [tenant |-> t, provider |-> ProviderOfPix[k], pixKey |-> k]

-----------------------------------------------------------------------------
Init ==
  /\ \E rows \in SUBSET PixKeys, first \in SUBSET Providers :
       /\ \A p, q \in first : TenantOfProvider[p] = TenantOfProvider[q] => p = q
       /\ tables = << [keys |-> ApiKeys, tenants |-> Tenants, providers |-> Providers,
                       defaults |-> first, pix |-> rows] >>
  /\ call = [c \in Calls |-> None]
  /\ pc = [c \in Calls |-> "idle"]
  /\ since = [c \in Calls |-> 1]
  /\ tenant = [c \in Calls |-> None]
  /\ account = [c \in Calls |-> NoAccount]
  /\ error = [c \in Calls |-> ""]

\* A request reaches the middleware.
Arrive(c) ==
  /\ pc[c] = "idle"
  /\ \E h \in Headers : call' = [call EXCEPT ![c] = h]
  /\ pc' = [pc EXCEPT ![c] = "arrived"]
  /\ since' = [since EXCEPT ![c] = Len(tables)]
  /\ UNCHANGED <<tables, tenant, account, error>>

Refuse(c, e) ==
  /\ pc' = [pc EXCEPT ![c] = "refused"]
  /\ error' = [error EXCEPT ![c] = e]
  /\ UNCHANGED <<tables, call, since, tenant, account>>

\* 401 without a key.
MissingKey(c) ==
  /\ pc[c] = "arrived" /\ RawKey(call[c]) = None
  /\ Refuse(c, "missing api key")

\* Mutant of Authenticate: the status of the tenant is not joined.
AuthenticateByKey(c) ==
  /\ pc[c] = "arrived" /\ RawKey(call[c]) # None
  /\ \/ /\ RawKey(call[c]) \in Now.keys
        /\ tenant' = [tenant EXCEPT ![c] = TenantOfKey[RawKey(call[c])]]
        /\ pc' = [pc EXCEPT ![c] = "authenticated"]
        /\ UNCHANGED <<tables, call, since, account, error>>
     \/ /\ RawKey(call[c]) \notin Now.keys
        /\ Refuse(c, "invalid api key")

\* TenantByAPIKeyHash, one statement: the tenant, or 401.
Authenticate(c) ==
  /\ pc[c] = "arrived" /\ RawKey(call[c]) # None
  /\ \/ /\ Authentic(Now, RawKey(call[c]))
        /\ tenant' = [tenant EXCEPT ![c] = TenantOfKey[RawKey(call[c])]]
        /\ pc' = [pc EXCEPT ![c] = "authenticated"]
        /\ UNCHANGED <<tables, call, since, account, error>>
     \/ /\ ~Authentic(Now, RawKey(call[c]))
        /\ Refuse(c, "invalid api key")

\* Mutant of Locate: a left join, which finds a provider without a pix key.
LocateLeftJoining(c) ==
  /\ pc[c] = "authenticated"
  /\ LET wanted == call[c].provider
     IN  IF Matching(Now, tenant[c], wanted) # {}
         THEN /\ pc' = [pc EXCEPT ![c] = "acting"]
              /\ account' = [account EXCEPT ![c] =
                   IF Joined(Now, tenant[c], wanted) # {} THEN AccountOf(Now, tenant[c], wanted)
                   ELSE [tenant |-> tenant[c], pixKey |-> None,
                         provider |-> CHOOSE p \in Matching(Now, tenant[c], wanted) : TRUE]]
         ELSE pc' = [pc EXCEPT ![c] = "diagnosing"] /\ UNCHANGED account
  /\ UNCHANGED <<tables, call, since, tenant, error>>

\* ResolveAccount, first statement: the account, or no row.
Locate(c) ==
  /\ pc[c] = "authenticated"
  /\ LET wanted == call[c].provider
     IN  IF Joined(Now, tenant[c], wanted) # {}
         THEN /\ pc' = [pc EXCEPT ![c] = "acting"]
              /\ account' = [account EXCEPT ![c] = AccountOf(Now, tenant[c], wanted)]
         ELSE pc' = [pc EXCEPT ![c] = "diagnosing"] /\ UNCHANGED account
  /\ UNCHANGED <<tables, call, since, tenant, error>>

\* Mutant of Diagnosis: a second statement without the status of the provider.
DiagnosisOfAnyStatus(db, t, wanted) ==
  IF Matching([db EXCEPT !.providers = Providers], t, wanted) # {}
  THEN "no pix key for provider"
  ELSE IF wanted = None THEN "no default provider for tenant"
  ELSE "unknown or inactive provider"

\* What the second statement makes of the tables.
Diagnosis(db, t, wanted) ==
  IF Matching(db, t, wanted) # {} THEN "no pix key for provider"
  ELSE IF wanted = None THEN "no default provider for tenant"
  ELSE "unknown or inactive provider"

\* ResolveAccount, second statement: 422 with the reason it finds.
Diagnose(c) ==
  /\ pc[c] = "diagnosing"
  /\ Refuse(c, Diagnosis(Now, tenant[c], call[c].provider))

\* Begin, a statement or the commit fails, or the client has gone: 500.
ResolutionFails(c) ==
  /\ pc[c] \in {"arrived", "authenticated", "diagnosing"}
  /\ RawKey(call[c]) # None
  /\ Refuse(c, "resolution failed")

Resolve(c) == MissingKey(c) \/ Authenticate(c) \/ Locate(c) \/ Diagnose(c) \/ ResolutionFails(c)

-----------------------------------------------------------------------------
\* The operators of the service.

Change(db) ==
  /\ Len(tables) <= MaxChanges
  /\ tables' = Append(tables, db)
  /\ UNCHANGED <<call, pc, since, tenant, account, error>>

Toggled(S, x) == IF x \in S THEN S \ {x} ELSE S \cup {x}

Operate ==
  \/ "key" \in Operations /\ \E k \in ApiKeys : Change([Now EXCEPT !.keys = Toggled(@, k)])
  \/ "tenant" \in Operations /\ \E t \in Tenants : Change([Now EXCEPT !.tenants = Toggled(@, t)])
  \/ /\ "provider" \in Operations
     /\ \E p \in Providers : Change([Now EXCEPT !.providers = Toggled(@, p)])
  \/ "pix" \in Operations /\ \E k \in PixKeys : Change([Now EXCEPT !.pix = Toggled(@, k)])
  \/ /\ "default" \in Operations
     /\ \E p \in Providers :
          /\ p \notin Now.defaults =>    \* uq_provider_default
               \A q \in Now.defaults : TenantOfProvider[q] # TenantOfProvider[p]
          /\ Change([Now EXCEPT !.defaults = Toggled(@, p)])

Next == Operate \/ \E c \in Calls : Arrive(c) \/ Resolve(c)

Spec == Init /\ [][Next]_vars

-----------------------------------------------------------------------------
\* The tables that were current at some moment of the call so far.
Window(c) == {tables[i] : i \in since[c]..Len(tables)}

Refusals == {"", "missing api key", "invalid api key", "no default provider for tenant",
             "unknown or inactive provider", "no pix key for provider", "resolution failed"}

\* Every variable has its type.
TypeOK ==
  /\ tables \in Seq(Tables) /\ Len(tables) \in 1..MaxChanges + 1
  /\ call \in [Calls -> Headers \cup {None}]
  /\ pc \in [Calls -> {"idle", "arrived", "authenticated", "diagnosing", "acting", "refused"}]
  /\ since \in [Calls -> 1..Len(tables)]
  /\ tenant \in [Calls -> Tenants \cup {None}]
  /\ account \in [Calls -> Accounts \cup {NoAccount}]
  /\ error \in [Calls -> Refusals]

\* Whoever acts, acts as the tenant its own key belongs to, through a provider
\* of that tenant and with a pix key of both: whatever is changed between the
\* two transactions, no rows of two tenants are ever mixed.
OwnAccount ==
  \A c \in Calls : pc[c] = "acting" =>
    /\ account[c].tenant = TenantOfKey[RawKey(call[c])]
    /\ TenantOfProvider[account[c].provider] = account[c].tenant
    /\ TenantOfPix[account[c].pixKey] = account[c].tenant
    /\ ProviderOfPix[account[c].pixKey] = account[c].provider

\* An account is what the tables said, though not at one instant: the key was
\* active at some moment after the call arrived, and no earlier than that the
\* account was the one to use.  A tenant suspended in between is still served.
ActsOnTruth ==
  \A c \in Calls : pc[c] = "acting" =>
    \E i \in since[c]..Len(tables) : \E j \in i..Len(tables) :
      /\ Authentic(tables[i], RawKey(call[c]))
      /\ Joined(tables[j], account[c].tenant, call[c].provider) # {}
      /\ account[c] = AccountOf(tables[j], account[c].tenant, call[c].provider)

\* A refusal has its cause: at some moment during the call the key was not
\* active, or no provider matched, or one matched and at some earlier moment
\* nothing joined.
RefusalHasCause ==
  \A c \in Calls : pc[c] = "refused" =>
    LET t == tenant[c]
        wanted == call[c].provider
        Unmatched == \E db \in Window(c) : Matching(db, t, wanted) = {}
    IN  CASE error[c] = "missing api key" -> RawKey(call[c]) = None
          [] error[c] = "invalid api key" ->
               \E db \in Window(c) : ~Authentic(db, RawKey(call[c]))
          [] error[c] = "no default provider for tenant" -> wanted = None /\ Unmatched
          [] error[c] = "unknown or inactive provider" -> wanted # None /\ Unmatched
          [] error[c] = "no pix key for provider" ->
               \E i \in since[c]..Len(tables) : \E j \in i..Len(tables) :
                 Joined(tables[i], t, wanted) = {} /\ Matching(tables[j], t, wanted) # {}
          [] OTHER -> error[c] = "resolution failed"

\* What the comment on ResolveAccount says: "no pix key for provider" is told
\* of a matching provider that has no pix key.  It may be told of one that had
\* its keys all along and was inactive when the first statement ran.
DiagnosisIsRight ==
  \A c \in Calls : pc[c] = "refused" /\ error[c] = "no pix key for provider" =>
    \E db \in Window(c) : /\ Matching(db, tenant[c], call[c].provider) # {}
                          /\ Joined(db, tenant[c], call[c].provider) = {}
=============================================================================
