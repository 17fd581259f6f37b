--------------------------- MODULE Tenancy_proofs ---------------------------
(***************************************************************************)
(* Whose account a call acts with, for any keys, tenants, providers and    *)
(* pix keys and any number of changes by the operators of the service.     *)
(***************************************************************************)
EXTENDS Tenancy, WellFoundedInduction, TLAPS

\* A key was found active since the call arrived, and gave it its tenant.
KeyWasActive(c) ==
  /\ call[c] \in Headers /\ RawKey(call[c]) \in ApiKeys
  /\ tenant[c] = TenantOfKey[RawKey(call[c])]
  /\ \E i \in since[c]..Len(tables) : Authentic(tables[i], RawKey(call[c]))

\* Since then, the account was the one to use.
AccountWasCurrent(c) ==
  /\ account[c] \in Accounts /\ account[c].tenant = tenant[c]
  /\ \E i \in since[c]..Len(tables) : \E j \in i..Len(tables) :
       /\ Authentic(tables[i], RawKey(call[c]))
       /\ Joined(tables[j], tenant[c], call[c].provider) # {}
       /\ account[c] = AccountOf(tables[j], tenant[c], call[c].provider)

PhaseOK(c) ==
  /\ pc[c] # "idle" => call[c] \in Headers
  /\ pc[c] \in {"authenticated", "diagnosing", "acting"} => KeyWasActive(c)
  /\ pc[c] = "acting" => AccountWasCurrent(c)

IInv == TypeOK /\ \A c \in Calls : PhaseOK(c)

-----------------------------------------------------------------------------
\* ORDER BY ... LIMIT 1 gives one of the rows when there is any.
LEMMA OldestIsOne ==
  ASSUME NEW rows, rows \subseteq Nat, rows # {}
  PROVE  Oldest(rows) \in rows
  <1>1. IsWellFoundedOn(OpToRel(<, Nat), Nat)
    BY NatLessThanWellFounded
  <1>2. PICK k \in rows : \A j \in rows : ~ (<<j, k>> \in OpToRel(<, Nat))
    BY <1>1, WFMin, Zenon
  <1>3. ASSUME NEW j \in rows PROVE k <= j
    <2>1. j \in Nat /\ k \in Nat
      OBVIOUS
    <2>2. ASSUME j < k PROVE <<j, k>> \in OpToRel(<, Nat)
      BY <2>1, <2>2, Zenon DEF OpToRel
    <2>3. ~ (j < k)
      BY <1>2, <2>2, Zenon
    <2> QED
      BY <2>1, <2>3
  <1> QED
    BY <1>3, Zenon DEF Oldest

\* The row found is of the tenant, in its provider and in its pix key.
LEMMA AccountOfTenant ==
  ASSUME TenancyAssumption, NEW db \in Tables, NEW t \in Tenants, NEW wanted,
         Joined(db, t, wanted) # {}
  PROVE  LET a == AccountOf(db, t, wanted)
         IN  /\ a \in Accounts
             /\ a.tenant = t
             /\ TenantOfProvider[a.provider] = t
             /\ TenantOfPix[a.pixKey] = t
             /\ ProviderOfPix[a.pixKey] = a.provider
  <1>1. Joined(db, t, wanted) \subseteq PixKeys /\ PixKeys \subseteq Nat
    BY DEF Joined, Tables, TenancyAssumption
  <1>2. Oldest(Joined(db, t, wanted)) \in Joined(db, t, wanted)
    BY <1>1, OldestIsOne
  <1> DEFINE k == Oldest(Joined(db, t, wanted))
  <1>3. k \in PixKeys /\ ProviderOfPix[k] \in Matching(db, t, wanted) /\ TenantOfPix[k] = t
    BY <1>1, <1>2 DEF Joined
  <1>4. ProviderOfPix[k] \in Providers /\ TenantOfProvider[ProviderOfPix[k]] = t
    BY <1>3 DEF Matching, TenancyAssumption
  <1> QED
    BY <1>3, <1>4 DEF AccountOf, Accounts

\* Changes are only ever appended: what a call has seen stays seen.
LEMMA OnlyAppended ==
  ASSUME TypeOK, NEW db \in Tables, Change(db)
  PROVE  /\ tables' \in Seq(Tables) /\ Len(tables') = Len(tables) + 1
         /\ Len(tables') \in 1..MaxChanges + 1
         /\ \A i \in 1..Len(tables) : tables'[i] = tables[i]
  BY TenancyAssumption DEF TypeOK, Change, TenancyAssumption

\* Every operation of the operators is such a change.
LEMMA OperateChanges ==
  ASSUME TypeOK, Operate
  PROVE  \E db \in Tables : Change(db)
  <1>1. Now \in Tables
    BY DEF TypeOK, Now
  <1>2. CASE \E k \in ApiKeys : Change([Now EXCEPT !.keys = Toggled(@, k)])
    BY <1>1, <1>2 DEF Tables, Toggled
  <1>3. CASE \E t \in Tenants : Change([Now EXCEPT !.tenants = Toggled(@, t)])
    BY <1>1, <1>3 DEF Tables, Toggled
  <1>4. CASE \E p \in Providers : Change([Now EXCEPT !.providers = Toggled(@, p)])
    BY <1>1, <1>4 DEF Tables, Toggled
  <1>5. CASE \E k \in PixKeys : Change([Now EXCEPT !.pix = Toggled(@, k)])
    BY <1>1, <1>5 DEF Tables, Toggled
  <1>6. CASE \E p \in Providers : Change([Now EXCEPT !.defaults = Toggled(@, p)])
    BY <1>1, <1>6 DEF Tables, Toggled
  <1> QED
    BY <1>2, <1>3, <1>4, <1>5, <1>6 DEF Operate

-----------------------------------------------------------------------------
\* The invariant holds at first.
LEMMA InitIInv == Init => IInv
  <1> SUFFICES ASSUME Init PROVE IInv
    OBVIOUS
  <1>1. PICK rows \in SUBSET PixKeys, first \in SUBSET Providers :
          tables = << [keys |-> ApiKeys, tenants |-> Tenants, providers |-> Providers,
                       defaults |-> first, pix |-> rows] >>
    BY DEF Init
  <1>2. tables \in Seq(Tables) /\ Len(tables) = 1
    BY <1>1 DEF Tables
  <1>3. TypeOK
    <2>1. Len(tables) \in 1..MaxChanges + 1 /\ 1 \in 1..Len(tables)
      BY <1>2, TenancyAssumption DEF TenancyAssumption
    <2>2. /\ call \in [Calls -> Headers \cup {None}]
          /\ pc \in [Calls -> {"idle", "arrived", "authenticated", "diagnosing", "acting", "refused"}]
          /\ tenant \in [Calls -> Tenants \cup {None}]
      BY DEF Init
    <2>3. since \in [Calls -> 1..Len(tables)]
      BY <2>1 DEF Init
    <2>4. account \in [Calls -> Accounts \cup {NoAccount}] /\ error \in [Calls -> Refusals]
      BY DEF Init, Refusals
    <2> QED
      BY <1>2, <2>1, <2>2, <2>3, <2>4 DEF TypeOK
  <1>4. \A c \in Calls : PhaseOK(c)
    BY DEF Init, PhaseOK
  <1> QED
    BY <1>3, <1>4 DEF IInv

\* Operators keep it, for they only append to the tables.
LEMMA OperateIInv == IInv /\ Operate => IInv'
  <1> SUFFICES ASSUME IInv, Operate PROVE IInv'
    OBVIOUS
  <1>1. PICK db \in Tables : Change(db)
    BY OperateChanges DEF IInv
  <1>2. /\ tables' \in Seq(Tables) /\ Len(tables') = Len(tables) + 1
        /\ Len(tables') \in 1..MaxChanges + 1
        /\ \A i \in 1..Len(tables) : tables'[i] = tables[i]
    BY <1>1, OnlyAppended DEF IInv
  <1>3. UNCHANGED <<call, pc, since, tenant, account, error>>
    BY <1>1 DEF Change
  <1>4. Len(tables) \in Nat /\ \A c \in Calls : since[c] \in 1..Len(tables)
    BY TenancyAssumption DEF IInv, TypeOK, TenancyAssumption
  <1>5. TypeOK'
    <2>1. 1..Len(tables) \subseteq 1..Len(tables')
      BY <1>2, TenancyAssumption DEF IInv, TypeOK, TenancyAssumption
    <2>2. since' \in [Calls -> 1..Len(tables')]
      BY <1>3, <2>1 DEF IInv, TypeOK
    <2> QED
      BY <1>2, <1>3, <2>2 DEF IInv, TypeOK
  <1>6. ASSUME NEW c \in Calls PROVE PhaseOK(c)'
    <2>1. PhaseOK(c)
      BY DEF IInv
    <2>2. ASSUME KeyWasActive(c) PROVE KeyWasActive(c)'
      <3>1. PICK i \in since[c]..Len(tables) : Authentic(tables[i], RawKey(call[c]))
        BY <2>2 DEF KeyWasActive
      <3>2. i \in since[c]..Len(tables') /\ tables'[i] = tables[i]
        BY <1>2, <1>4
      <3> QED
        BY <1>3, <2>2, <3>1, <3>2 DEF KeyWasActive
    <2>3. ASSUME AccountWasCurrent(c) PROVE AccountWasCurrent(c)'
      <3>1. PICK i \in since[c]..Len(tables) : \E j \in i..Len(tables) :
              /\ Authentic(tables[i], RawKey(call[c]))
              /\ Joined(tables[j], tenant[c], call[c].provider) # {}
              /\ account[c] = AccountOf(tables[j], tenant[c], call[c].provider)
        BY <2>3 DEF AccountWasCurrent
      <3>2. PICK j \in i..Len(tables) :
              /\ Authentic(tables[i], RawKey(call[c]))
              /\ Joined(tables[j], tenant[c], call[c].provider) # {}
              /\ account[c] = AccountOf(tables[j], tenant[c], call[c].provider)
        BY <3>1
      <3>3. i \in since[c]..Len(tables') /\ tables'[i] = tables[i]
        BY <1>2, <1>4
      <3>4. j \in i..Len(tables') /\ tables'[j] = tables[j]
        BY <1>2, <1>4
      <3> QED
        BY <1>3, <2>3, <3>2, <3>3, <3>4 DEF AccountWasCurrent
    <2> QED
      BY <1>3, <2>1, <2>2, <2>3 DEF PhaseOK
  <1> QED
    BY <1>5, <1>6 DEF IInv

-----------------------------------------------------------------------------
\* A step of one call leaves the others where they are.
LEMMA OthersKeep ==
  ASSUME NEW c \in Calls, NEW d \in Calls, d # c, IInv, Arrive(c) \/ Resolve(c)
  PROVE  PhaseOK(d)'
  <1>1. /\ call'[d] = call[d] /\ pc'[d] = pc[d] /\ since'[d] = since[d]
        /\ tenant'[d] = tenant[d] /\ account'[d] = account[d] /\ tables' = tables
    BY DEF IInv, TypeOK, Arrive, Resolve, MissingKey, Authenticate, Locate, Diagnose,
           ResolutionFails, Refuse
  <1>2. PhaseOK(d)
    BY DEF IInv
  <1> QED
    BY <1>1, <1>2 DEF PhaseOK, KeyWasActive, AccountWasCurrent

\* Refusing only ever ends a call.
LEMMA RefuseIInv ==
  ASSUME NEW c \in Calls, NEW e \in Refusals, IInv, pc[c] # "idle", Refuse(c, e)
  PROVE  TypeOK' /\ PhaseOK(c)'
  <1>1. TypeOK'
    BY DEF IInv, TypeOK, Refuse
  <1>2. pc'[c] = "refused" /\ call'[c] = call[c]
    BY DEF IInv, TypeOK, Refuse
  <1>3. PhaseOK(c)'
    BY <1>2 DEF IInv, PhaseOK
  <1> QED
    BY <1>1, <1>3

\* Each step of a call keeps it: its arrival,
LEMMA ArriveIInv ==
  ASSUME NEW c \in Calls, IInv, Arrive(c)
  PROVE  TypeOK' /\ PhaseOK(c)'
  <1>1. PICK h \in Headers : call' = [call EXCEPT ![c] = h]
    BY DEF Arrive
  <1>2. TypeOK'
    BY <1>1 DEF IInv, TypeOK, Arrive
  <1>3. pc'[c] = "arrived" /\ call'[c] \in Headers
    BY <1>1 DEF IInv, TypeOK, Arrive
  <1> QED
    BY <1>2, <1>3 DEF PhaseOK

\* the look at its key,
LEMMA AuthenticateIInv ==
  ASSUME NEW c \in Calls, IInv, Authenticate(c)
  PROVE  TypeOK' /\ PhaseOK(c)'
  <1> DEFINE key == RawKey(call[c])
  <1>1. call[c] \in Headers /\ key \in ApiKeys
    BY DEF IInv, PhaseOK, Authenticate, Headers, RawKey
  <1>2. CASE Refuse(c, "invalid api key")
    BY <1>2, RefuseIInv DEF Authenticate, Refusals
  <1>3. CASE /\ Authentic(Now, key)
             /\ tenant' = [tenant EXCEPT ![c] = TenantOfKey[key]]
             /\ pc' = [pc EXCEPT ![c] = "authenticated"]
             /\ UNCHANGED <<tables, call, since, account, error>>
    <2>1. TenantOfKey[key] \in Tenants
      BY <1>1, TenancyAssumption DEF TenancyAssumption
    <2>2. TypeOK'
      BY <1>3, <2>1 DEF IInv, TypeOK
    <2>3. Len(tables) \in since[c]..Len(tables) /\ tables[Len(tables)] = Now
      BY DEF IInv, TypeOK, Now
    <2>4. pc'[c] = "authenticated" /\ tenant'[c] = TenantOfKey[key]
      BY <1>3 DEF IInv, TypeOK
    <2>5. \E i \in since[c]..Len(tables) : Authentic(tables[i], key)
      BY <1>3, <2>3
    <2>6. KeyWasActive(c)'
      BY <1>1, <1>3, <2>4, <2>5 DEF KeyWasActive
    <2> QED
      BY <1>1, <1>3, <2>2, <2>4, <2>6 DEF PhaseOK
  <1> QED
    BY <1>2, <1>3 DEF Authenticate

\* the look for its account.
LEMMA LocateIInv ==
  ASSUME NEW c \in Calls, IInv, Locate(c)
  PROVE  TypeOK' /\ PhaseOK(c)'
  <1> DEFINE wanted == call[c].provider
             a == AccountOf(Now, tenant[c], wanted)
  <1>1. KeyWasActive(c) /\ call[c] \in Headers
    BY DEF IInv, PhaseOK, Locate
  <1>2. UNCHANGED <<tables, call, since, tenant, error>>
    BY DEF Locate
  <1>3. KeyWasActive(c)'
    BY <1>1, <1>2 DEF KeyWasActive
  <1>4. tenant[c] \in Tenants /\ Now \in Tables
    BY <1>1, TenancyAssumption DEF KeyWasActive, TenancyAssumption, IInv, TypeOK, Now
  <1>5. CASE /\ Joined(Now, tenant[c], wanted) # {}
             /\ pc' = [pc EXCEPT ![c] = "acting"] /\ account' = [account EXCEPT ![c] = a]
    <2>1. a \in Accounts /\ a.tenant = tenant[c]
      BY <1>4, <1>5, AccountOfTenant, TenancyAssumption
    <2>2. TypeOK'
      BY <1>2, <1>5, <2>1 DEF IInv, TypeOK
    <2>3. account'[c] = a /\ pc'[c] = "acting"
      BY <1>5 DEF IInv, TypeOK
    <2>4. PICK i \in since[c]..Len(tables) : Authentic(tables[i], RawKey(call[c]))
      BY <1>1 DEF KeyWasActive
    <2>5. Len(tables) \in i..Len(tables) /\ tables[Len(tables)] = Now
      BY DEF IInv, TypeOK, Now
    <2>6. AccountWasCurrent(c)'
      BY <1>2, <1>5, <2>1, <2>3, <2>4, <2>5 DEF AccountWasCurrent
    <2> QED
      BY <1>1, <1>2, <1>3, <2>2, <2>3, <2>6 DEF PhaseOK
  <1>6. CASE pc' = [pc EXCEPT ![c] = "diagnosing"] /\ UNCHANGED account
    <2>1. TypeOK'
      BY <1>2, <1>6 DEF IInv, TypeOK
    <2>2. pc'[c] = "diagnosing"
      BY <1>6 DEF IInv, TypeOK
    <2> QED
      BY <1>1, <1>2, <1>3, <2>1, <2>2 DEF PhaseOK
  <1> QED
    BY <1>5, <1>6 DEF Locate

\* So every step keeps it.
LEMMA NextIInv == IInv /\ [Next]_vars => IInv'
  <1> SUFFICES ASSUME IInv, [Next]_vars PROVE IInv'
    OBVIOUS
  <1>1. CASE Operate
    BY <1>1, OperateIInv
  <1>2. ASSUME NEW c \in Calls, Arrive(c) \/ Resolve(c) PROVE IInv'
    <2>1. CASE Arrive(c)
      BY <2>1, ArriveIInv, <1>2, OthersKeep DEF IInv
    <2>2. CASE Authenticate(c)
      BY <2>2, AuthenticateIInv, <1>2, OthersKeep DEF IInv
    <2>3. CASE Locate(c)
      BY <2>3, LocateIInv, <1>2, OthersKeep DEF IInv
    <2>4. CASE MissingKey(c) \/ Diagnose(c) \/ ResolutionFails(c)
      <3>1. PICK e \in Refusals : pc[c] # "idle" /\ Refuse(c, e)
        BY <2>4 DEF MissingKey, Diagnose, Diagnosis, ResolutionFails, Refusals
      <3>2. TypeOK' /\ PhaseOK(c)'
        BY <3>1, RefuseIInv
      <3> QED
        BY <3>2, <1>2, OthersKeep DEF IInv
    <2> QED
      BY <1>2, <2>1, <2>2, <2>3, <2>4 DEF Resolve
  <1>3. CASE UNCHANGED vars
    BY <1>3 DEF vars, IInv, TypeOK, PhaseOK, KeyWasActive, AccountWasCurrent
  <1> QED
    BY <1>1, <1>2, <1>3 DEF Next

\* The invariant: what the key gave a call, and what its account was taken from.
THEOREM TenancyInvariance == Spec => []IInv
  BY InitIInv, NextIInv, PTL DEF Spec

\* For every instance the variables keep their types.
THEOREM TenancyTypes == Spec => []TypeOK
  <1>1. IInv => TypeOK
    BY DEF IInv
  <1> QED
    BY <1>1, TenancyInvariance, PTL

\* Whatever the operators change between the two transactions, a call acts as
\* the tenant of its own key, with a provider of that tenant and a pix key of both.
THEOREM NoForeignAccount == Spec => []OwnAccount
  <1>1. IInv => OwnAccount
    <2> SUFFICES ASSUME IInv, NEW c \in Calls, pc[c] = "acting"
                 PROVE  /\ account[c].tenant = TenantOfKey[RawKey(call[c])]
                        /\ TenantOfProvider[account[c].provider] = account[c].tenant
                        /\ TenantOfPix[account[c].pixKey] = account[c].tenant
                        /\ ProviderOfPix[account[c].pixKey] = account[c].provider
      BY DEF OwnAccount
    <2>1. KeyWasActive(c) /\ AccountWasCurrent(c)
      BY DEF IInv, PhaseOK
    <2>2. PICK i \in since[c]..Len(tables) : \E j \in i..Len(tables) :
            /\ Joined(tables[j], tenant[c], call[c].provider) # {}
            /\ account[c] = AccountOf(tables[j], tenant[c], call[c].provider)
      BY <2>1 DEF AccountWasCurrent
    <2>3. PICK j \in i..Len(tables) :
            /\ Joined(tables[j], tenant[c], call[c].provider) # {}
            /\ account[c] = AccountOf(tables[j], tenant[c], call[c].provider)
      BY <2>2
    <2>4. tables[j] \in Tables
      BY DEF IInv, TypeOK
    <2>5. tenant[c] \in Tenants /\ tenant[c] = TenantOfKey[RawKey(call[c])]
      BY <2>1, TenancyAssumption DEF KeyWasActive, TenancyAssumption
    <2> QED
      BY <2>3, <2>4, <2>5, AccountOfTenant, TenancyAssumption
  <1> QED
    BY <1>1, TenancyInvariance, PTL

\* An account is what the tables said, though not at one instant: first the key
\* was active, and then, or later, the account was the one to use.
THEOREM AccountsAreTrue == Spec => []ActsOnTruth
  <1>1. IInv => ActsOnTruth
    BY DEF IInv, PhaseOK, AccountWasCurrent, ActsOnTruth
  <1> QED
    BY <1>1, TenancyInvariance, PTL

-----------------------------------------------------------------------------
(* The causes of refusals. *)

\* At a moment of the call nothing joined.
NothingJoined(c) ==
  \E i \in since[c]..Len(tables) : Joined(tables[i], tenant[c], call[c].provider) = {}

Unmatched(c) ==
  \E i \in since[c]..Len(tables) : Matching(tables[i], tenant[c], call[c].provider) = {}

\* At one nothing joined, and at a later one the provider matched.
MatchedLater(c) ==
  \E i \in since[c]..Len(tables) : \E j \in i..Len(tables) :
    /\ Joined(tables[i], tenant[c], call[c].provider) = {}
    /\ Matching(tables[j], tenant[c], call[c].provider) # {}

Inactive(c) ==
  \E i \in since[c]..Len(tables) : ~Authentic(tables[i], RawKey(call[c]))

Caused(c) ==
  /\ error[c] # ""
  /\ error[c] = "missing api key" => RawKey(call[c]) = None
  /\ error[c] = "invalid api key" => Inactive(c)
  /\ error[c] = "no default provider for tenant" => call[c].provider = None /\ Unmatched(c)
  /\ error[c] = "unknown or inactive provider" => call[c].provider # None /\ Unmatched(c)
  /\ error[c] = "no pix key for provider" => MatchedLater(c)

CauseOK(c) ==
  /\ pc[c] = "diagnosing" => NothingJoined(c)
  /\ pc[c] = "refused" => Caused(c)

\* With IInv, the inductive invariant of refusals.
Causes == \A c \in Calls : CauseOK(c)

\* What a call has seen of the tables, it has seen of them when they have grown.
LEMMA SeenStays ==
  ASSUME IInv, NEW c \in Calls, Len(tables') = Len(tables) + 1,
         \A i \in 1..Len(tables) : tables'[i] = tables[i],
         UNCHANGED <<call, since, tenant, error>>
  PROVE  /\ NothingJoined(c) => NothingJoined(c)'
         /\ Caused(c) => Caused(c)'
  <1>1. Len(tables) \in Nat /\ since[c] \in 1..Len(tables)
    BY DEF IInv, TypeOK
  <1>2. \A i \in since[c]..Len(tables) : i \in since[c]..Len(tables') /\ tables'[i] = tables[i]
    BY <1>1
  <1>3. \A i \in since[c]..Len(tables) : \A j \in i..Len(tables) :
          j \in i..Len(tables') /\ tables'[j] = tables[j]
    BY <1>1
  <1>4. NothingJoined(c) => NothingJoined(c)'
    BY <1>2 DEF NothingJoined
  <1>5. Unmatched(c) => Unmatched(c)'
    BY <1>2 DEF Unmatched
  <1>6. Inactive(c) => Inactive(c)'
    BY <1>2 DEF Inactive
  <1>7. MatchedLater(c) => MatchedLater(c)'
    <2> SUFFICES ASSUME MatchedLater(c) PROVE MatchedLater(c)'
      OBVIOUS
    <2>1. PICK i \in since[c]..Len(tables) : \E j \in i..Len(tables) :
            /\ Joined(tables[i], tenant[c], call[c].provider) = {}
            /\ Matching(tables[j], tenant[c], call[c].provider) # {}
      BY DEF MatchedLater
    <2>2. PICK j \in i..Len(tables) :
            /\ Joined(tables[i], tenant[c], call[c].provider) = {}
            /\ Matching(tables[j], tenant[c], call[c].provider) # {}
      BY <2>1
    <2>3. /\ i \in since[c]..Len(tables') /\ tables'[i] = tables[i]
          /\ j \in i..Len(tables') /\ tables'[j] = tables[j]
      BY <1>2, <1>3
    <2> QED
      BY <2>2, <2>3 DEF MatchedLater
  <1> QED
    BY <1>4, <1>5, <1>6, <1>7 DEF Caused

\* A step of one call leaves the causes of the others alone.
LEMMA OthersCauses ==
  ASSUME NEW c \in Calls, NEW d \in Calls, d # c, IInv, Arrive(c) \/ Resolve(c)
  PROVE  CauseOK(d) => CauseOK(d)'
  <1>1. /\ call'[d] = call[d] /\ pc'[d] = pc[d] /\ since'[d] = since[d]
        /\ tenant'[d] = tenant[d] /\ error'[d] = error[d] /\ tables' = tables
    BY DEF IInv, TypeOK, Arrive, Resolve, MissingKey, Authenticate, Locate, Diagnose,
           ResolutionFails, Refuse
  <1> QED
    BY <1>1 DEF CauseOK, NothingJoined, Caused, Unmatched, MatchedLater, Inactive

\* What a refused call is told, of what it has seen.
LEMMA RefuseCauses ==
  ASSUME NEW c \in Calls, NEW e \in Refusals, IInv, Refuse(c, e), e # "",
         e = "missing api key" => RawKey(call[c]) = None,
         e = "invalid api key" => Inactive(c),
         e = "no default provider for tenant" => call[c].provider = None /\ Unmatched(c),
         e = "unknown or inactive provider" => call[c].provider # None /\ Unmatched(c),
         e = "no pix key for provider" => MatchedLater(c)
  PROVE  CauseOK(c)'
  <1>1. pc'[c] = "refused" /\ error'[c] = e /\ UNCHANGED <<tables, call, since, tenant>>
    BY DEF Refuse, IInv, TypeOK
  <1>2. /\ Unmatched(c)' <=> Unmatched(c)
        /\ MatchedLater(c)' <=> MatchedLater(c)
        /\ Inactive(c)' <=> Inactive(c)
    BY <1>1 DEF Unmatched, MatchedLater, Inactive
  <1> QED
    BY <1>1, <1>2 DEF CauseOK, Caused

\* The moving call has a cause for what it does.
LEMMA ResolveCauses ==
  ASSUME NEW c \in Calls, IInv, CauseOK(c), Arrive(c) \/ Resolve(c)
  PROVE  CauseOK(c)'
  <1>1. Len(tables) \in since[c]..Len(tables) /\ tables[Len(tables)] = Now
    BY DEF IInv, TypeOK, Now
  <1>2. CASE Arrive(c)
    BY <1>2 DEF Arrive, IInv, TypeOK, CauseOK
  <1>3. CASE MissingKey(c)
    BY <1>3, RefuseCauses DEF MissingKey, Refusals
  <1>4. CASE Authenticate(c)
    <2>1. CASE ~Authentic(Now, RawKey(call[c])) /\ Refuse(c, "invalid api key")
      BY <1>1, <2>1, RefuseCauses DEF Inactive, Refusals
    <2>2. CASE pc' = [pc EXCEPT ![c] = "authenticated"]
      BY <2>2 DEF IInv, TypeOK, CauseOK
    <2> QED
      BY <1>4, <2>1, <2>2 DEF Authenticate
  <1>5. CASE Locate(c)
    <2>1. UNCHANGED <<tables, call, since, tenant, error>>
      BY <1>5 DEF Locate
    <2>2. CASE Joined(Now, tenant[c], call[c].provider) = {} /\ pc' = [pc EXCEPT ![c] = "diagnosing"]
      <3>1. NothingJoined(c)'
        BY <1>1, <2>1, <2>2 DEF NothingJoined
      <3> QED
        BY <2>2, <3>1 DEF IInv, TypeOK, CauseOK
    <2>3. CASE pc' = [pc EXCEPT ![c] = "acting"]
      BY <2>3 DEF IInv, TypeOK, CauseOK
    <2> QED
      BY <1>5, <2>2, <2>3 DEF Locate
  <1>6. CASE Diagnose(c)
    <2>1. CASE Matching(Now, tenant[c], call[c].provider) # {}
      <3>1. PICK i \in since[c]..Len(tables) : Joined(tables[i], tenant[c], call[c].provider) = {}
        BY <1>6 DEF CauseOK, Diagnose, NothingJoined
      <3>2. Len(tables) \in i..Len(tables)
        BY DEF IInv, TypeOK
      <3>3. MatchedLater(c)
        BY <1>1, <2>1, <3>1, <3>2 DEF MatchedLater
      <3> QED
        BY <1>6, <2>1, <3>3, RefuseCauses DEF Diagnose, Diagnosis, Refusals
    <2>2. CASE Matching(Now, tenant[c], call[c].provider) = {}
      <3>1. Unmatched(c)
        BY <1>1, <2>2 DEF Unmatched
      <3>2. CASE call[c].provider = None
        BY <1>6, <2>2, <3>1, <3>2, RefuseCauses DEF Diagnose, Diagnosis, Refusals
      <3>3. CASE call[c].provider # None
        BY <1>6, <2>2, <3>1, <3>3, RefuseCauses DEF Diagnose, Diagnosis, Refusals
      <3> QED
        BY <3>2, <3>3
    <2> QED
      BY <2>1, <2>2
  <1>7. CASE ResolutionFails(c)
    BY <1>7, RefuseCauses DEF ResolutionFails, Refusals
  <1> QED
    BY <1>2, <1>3, <1>4, <1>5, <1>6, <1>7 DEF Resolve

\* Every step keeps the causes.
LEMMA NextCauses == IInv /\ Causes /\ [Next]_vars => Causes'
  <1> SUFFICES ASSUME IInv, Causes, [Next]_vars, NEW d \in Calls PROVE CauseOK(d)'
    BY DEF Causes
  <1>0. CauseOK(d)
    BY DEF Causes
  <1>1. CASE Operate
    <2>1. PICK db \in Tables : Change(db)
      BY <1>1, OperateChanges DEF IInv
    <2>2. /\ Len(tables') = Len(tables) + 1 /\ \A i \in 1..Len(tables) : tables'[i] = tables[i]
      BY <2>1, OnlyAppended DEF IInv
    <2>3. UNCHANGED <<call, pc, since, tenant, error>>
      BY <2>1 DEF Change
    <2> QED
      BY <1>0, <2>2, <2>3, SeenStays DEF CauseOK
  <1>2. ASSUME NEW c \in Calls, Arrive(c) \/ Resolve(c) PROVE CauseOK(d)'
    BY <1>0, <1>2, OthersCauses, ResolveCauses
  <1>3. CASE UNCHANGED vars
    BY <1>0, <1>3 DEF vars, CauseOK, NothingJoined, Caused, Unmatched, MatchedLater, Inactive
  <1> QED
    BY <1>1, <1>2, <1>3 DEF Next

\* Whatever the operators change between the statements, a call is refused for
\* something that was true while it was resolved.
THEOREM RefusalsHaveCauses == Spec => []RefusalHasCause
  <1>1. Init => Causes
    BY DEF Init, Causes, CauseOK
  <1>2. IInv /\ Causes => RefusalHasCause
    <2> SUFFICES ASSUME IInv, Causes PROVE RefusalHasCause
      OBVIOUS
    <2>1. ASSUME NEW c \in Calls, pc[c] = "refused"
          PROVE  Caused(c) /\ error[c] \in Refusals
      BY <2>1 DEF Causes, CauseOK, IInv, TypeOK
    <2>2. ASSUME NEW c \in Calls
          PROVE  /\ Unmatched(c) => \E db \in Window(c) : Matching(db, tenant[c], call[c].provider) = {}
                 /\ Inactive(c) => \E db \in Window(c) : ~Authentic(db, RawKey(call[c]))
      BY DEF Window, Unmatched, Inactive
    <2> QED
      BY <2>1, <2>2 DEF RefusalHasCause, Caused, MatchedLater, Refusals
  <1> QED
    BY <1>1, <1>2, NextCauses, TenancyInvariance, PTL DEF Spec
=============================================================================
