# Efipix in TLA+

Efipix is a multi-tenant Pix payment service in Go. At this commit it is its
phase 1: authenticated tenants create immediate charges through
`POST /api/v1/charges`, the service records them in PostgreSQL and registers
them with the provider, EFí. This directory models that program, checks it
with TLC on small instances and proves its safety properties with TLAPS for
all instances.

## Inventory

| Component | Source | State it keeps | Operations |
|---|---|---|---|
| Charge HTTP API | `internal/charge/api` | none | create, get |
| Idempotency middleware | `internal/platform/idempotency/middleware.go` | the response being captured | the whole POST protocol |
| Idempotency store | `.../idempotency.go`, table `idempotency_keys` | one row per (tenant, key) | Reserve, SaveResult |
| Create-charge use case | `internal/charge/app/create.go` | the charge in memory | Execute |
| Charge aggregate | `internal/charge/domain/charge.go` | status, version, pending events | NewImmediate, MarkActive, MarkFailed |
| Charge repository | `internal/charge/infra`, tables `charges`, `payment_events`, `outbox` | the rows | Create, Save, FindByID, FindByTxID |
| Database layer | `internal/platform/db` | connection pools | runTx under a tenant or as admin |
| EFí adapter | `internal/provider/efi` | pooled clients, one mutex, temporary files | CreateImmediateCharge, GetCharge |
| Tenancy | `internal/tenant` | API keys, tenants, providers, pix keys | Resolve (two transactions, three statements) |
| Error kinds | `internal/platform/errors`, `httpx` | none | KindOf, StatusFor |
| Money | `internal/platform/money` | none | ParseString, String |
| Secrets, config, logging, health, tenant context | `internal/platform/...` | none that changes | |
| Server lifecycle | `cmd/server/main.go` | none | start, shutdown with a 10 s deadline |
| OpenWolf hooks | `.wolf/hooks` | `_session.json`, `token-ledger.json`, `anatomy.md`, `buglog.json`, `memory.md` | session-start, pre-read, post-read, pre-write, post-write, stop: developer tooling, one process per event |

How they interact. The tenant middleware resolves the API key and puts the
acting tenant into the request context. The idempotency middleware reserves
the key in a transaction of its own, and either answers by itself or runs the
handler. The handler validates the body and runs the use case: transaction A
(insert the charge, CREATED), the provider call (PUT with a txid minted here),
transaction B (ACTIVE and an outbox row, or FAILED). The middleware then stores
the captured response under the key, in a fourth transaction. Requests share
nothing in memory but the pool of EFí clients; they meet in the database and at
EFí. Every transaction runs under the request context; the EFí SDK does not.

What is hard here: requests of one key racing and retrying; a process that dies
between any two of the four transactions; a client that hangs up, so that all
transactions still to come fail; a commit whose answer is lost; a PUT that is
applied though its caller was told it failed. What makes each part correct:

- *store and middleware*: one execution, one charge and one answer per key;
- *use case and repository*: EFí never knows a txid the database does not; row,
  version, audit events and outbox tell one story; an answer is backed by what
  is recorded;
- *aggregate*: a charge leaves CREATED once;
- *whole*: every request ends; without faults every charge and key settles;
- *tenancy*: nobody acts for rows of two tenants, and what a request acts on or
  is refused for was true at some moment during it;
- *client pool*: one client per provider, nothing built twice, every call returns;
- *money*: what is sent is what was asked for;
- *hooks*: no file is left half written but by a write in place that was cut short,
  no write is counted that is not logged, and nothing is lost when hooks do not overlap;
- *bug log*: one entry per bug, no fix made up, nothing shown that is not there;
- *anatomy*: the entry that is found of a file says what the file says, and the
  hooks add no second one.

The documents describe more than the source has: webhooks, refunds, due-date
charges, the outbox relay, the scheduler and reconciliation do not exist yet,
and nothing here models them. In particular nothing ever reads the outbox, and
nothing settles a charge that stays CREATED.

## Modules

| Module | Models |
|---|---|
| `Db` | the outcomes of `runTx` |
| `Charge` | the aggregate, as operators on a record |
| `Http` | `StatusFor` and the shape of answers |
| `IdempotencyStore` | `idempotency_keys`, Reserve and SaveResult |
| `ChargeRepository` | `charges`, `payment_events`, `outbox`; Create and Save |
| `EfiProvider` | EFí as the adapter uses it (external) |
| `CreateCharge` | the composition: clients, middleware, handler, use case, process, EFí; all properties |
| `IdempotentRequests` | the abstract promise of the endpoint |
| `CreateChargeRefinement` | the mapping under which `CreateCharge` implements it |
| `CreateChargeInv` | the inductive invariant |
| `CreateCharge_proofs` | the theorems about it, about behaviours without a fault, and that it implements the promise |
| `MCCreateCharge`, `MCCreateChargeFaults` | the instances TLC runs; the second remembers whether a fault has happened |
| `Tenancy`, `MCTenancy` | authentication and account resolution beside changing tables |
| `Tenancy_proofs` | its theorems |
| `EfiClientPool` | `clientFor`: the mutex, the map of clients, their temporary files |
| `EfiClientPool_proofs` | its theorems |
| `Money` | `ParseString`, the handler's check, `String` |
| `Money_proofs` | its theorems |
| `WolfHooks`, `MCWolfHooks` | the hook processes and the files they share |
| `WolfHooks_proofs` | its theorems |
| `BugLog`, `MCBugLog` | `detectFixPattern`, and `buglog.json` between pre-write, post-write and the agent |
| `BugLog_proofs` | its theorems |
| `FoldLemmas` | induction on numbers, sequences and finite sets, and what folds add up to |
| `Anatomy`, `MCAnatomy` | `extractDescription`, `estimateTokens`, and `anatomy.md` between post-write, the agent, pre-read and post-read |
| `Anatomy_proofs` | its theorems |

`CreateCharge` composes the first six. The other components are modelled
each by itself: `CreateCharge` starts where a request has its tenant and treats
any failure of `clientFor` as a failure of the provider call, and names amounts
after the body they are parsed from. `Tenancy`, `EfiClientPool` and `Money` say
what `CreateCharge` takes for granted there. The hooks touch no state of the
service.

State and actions of `CreateCharge`. `pc[r]` is where the goroutine of request
`r` is; `req[r]` what it carries; `mem[r]` the `*domain.Charge` that `Execute`
holds; `resp[r]` the response that was written; `client[r]` whether its client
is still there, which is whether the request context is live. There is one
action for each stretch of code between two points where other requests, the
client, EFí or death can intervene; these points are the four transactions and
the provider call.

| `pc` | Next action | Code |
|---|---|---|
| arrived | `MissingKey`, `UnreadableBody`, `Reserve*` | `middleware.go` 51-89 |
| reserved | `RejectBody`, `TxA` | `handler.go` 50-58, `create.go` 36-48 |
| created | `CallProvider`, or `ProviderFails` without a client | `efi.go` 44-54 |
| calling | `ProviderAnswers`, `ProviderFails` | `sdkclient.go` 76-92, `create.go` 50-56 |
| activating | `TxBActive` | `create.go` 65-76 |
| failing | `TxBFailed` | `create.go` 57-63 |
| saving | `SaveResult` | `middleware.go` 95-99 |

State and actions of `Tenancy`. `tables` is the history of the committed
tables, its last element the current ones; a call (`pc`, `call`, `tenant`,
`account`, `error`) runs `MissingKey` or `Authenticate` (first transaction),
`Locate` and, without a row, `Diagnose` (the two statements of the second).
Transactions are READ COMMITTED, so each statement reads `Now`; `Operate` is
what operators do to the tables in between, within the schema's constraints.
Row-level security is left out, so what is shown rests on the conditions of the
statements alone. Keys and their hashes are not told apart; rows that are
inactive, deleted or never inserted are not told apart either, since every
statement treats them alike.

State and actions of `EfiClientPool`. A call takes the `mutex`, finds its client
(`Hit`) or builds it (`Miss`, `WriteCert`, `WriteKey`, `Build`) with the mutex
held, and leaves; `LoadFails` and `WriteFails` are the error paths. `files` are
the temporary files on disk, which nothing removes.

`Money` follows one text: `Accept` or `Refuse`, then `Send`. Texts are sequences
of characters here, since what is accepted is decided by characters, and
integers wrap around at `Half`, which is 2^63 in the program.

State and actions of `WolfHooks`. `pc[h]` is where the process of a hook is;
`write[h]` the write it is at. Reading a file, the computation on it and
writing the temporary file are one step (`PreRead`, `PostRead`, `ListFile`,
`TrackWrite`, `CountSession`, `Sum`, `EnterSession`, `SaveSession`): what others
do in between they could as well do right after. `Rename` is the second half of
`writeJSON`. `RenameFails` is its fallback, for whatever cause: the temporary file
has been swept, or could not be written, or another process holds a handle of the
target. The target is then truncated, or cannot be opened either and stays as it
is; and `Rewrite` fills it, in part or not at all if that fails as well, which the
code swallows. Readers of no file, or of half a file, take the fallback the
code gives them, whose missing fields are `NoField`. `Kill` is the end of a hook
by its timeout or with the editor. Histories remember what properties ask for:
`overlapped` whether hooks have overlapped, `failures` how many renames have failed
of a temporary file that was there, `cut` the documents on which a write in place
was cut short, by a kill or by a failure (for the session, since a start has begun
it anew). Session ids, which the code takes from the minute of the start, are named
after the hook that starts the session; token counts and warnings are left out;
descriptions and hits are in `Anatomy`, and the bug log, the one file that the edits
of a session share with later ones, in `BugLog`.

State and actions of `BugLog`. `bugs` is the log, `pc[e]` where the hooks of the
edit `e` are: `PreWrite` shows what is `Relevant`, `NoFix` is a post-write that
detects nothing, `LogFix` one that reads the log, merges or adds and writes the
temporary file, and `Rename`, `RenameFails`, `Rewrite` and `Kill` are as in
`WolfHooks`, with `failures` and `cut`; `Sweep` is what a session start does. `Note`
is the agent, `Tick` the clock. A change is the record of
what the rules ask of the two texts; `Detect` keeps the rules and the order in
which they are tried. Similarity of messages is modelled by the words a
category's message shares with the new text.

State and actions of `Anatomy`. `listing` is `anatomy.md`: the entries that
`parseAnatomy` finds in it, in the order of their lines, each with its place (its
section and name), the rule that described it and its tokens. `PostWrite` is a
tool's write with the hook after it. If the description has no line break, the
entry replaces the first one of its place, or is added, and the whole is sorted
(`With`, `Serialize`). If it has one (`IsBroken`), the entry is written out as
several lines, and `Reread` is what the next hook finds there: entries, for a line
may look like one, of that or another section; and maybe a heading, which takes
over the entries below it in the section, or hides them if it has no name. What a
text makes of its lines is its `tail`. `Edit` is the agent, who replaces any
stretch of the file by other entries, in sections of its own too and as often as it
likes. `Elsewhere` is a change of a file that no hook sees, `Read` a read between
pre-read and post-read, of which the tool returns all, a part or nothing,
`NewSession` the reset of the session. `fresh` remembers the files whose place was
last changed by a tool's write of them, `touched` the places that the agent and
broken entries have changed. Hooks take turns here, since `WolfHooks` is about what
happens when they do not.

A text is what the rules find in it, what they find there across lines, and its
length. `RulesOf` is the order in which the rules of a language are tried; rules
that keep to a line stand together (`comment`, `code`), for only those that quote
text across lines are told apart by a property. Paths are `EndsWith`, for lookups
compare the ends of strings.

Abstractions of `CreateCharge`:

- A transaction is one step with an outcome (`Db`): PostgreSQL makes it atomic,
  and the statements of each one touch only rows that no other running
  transaction can change, but for the insert of a key, which waits for a
  conflicting one to end.
- Under a cancelled context a transaction never reports success, but may have
  committed. Under a live one the faults are those in `TxFaults`.
- A charge is named after the request that minted it, since id and txid are
  fresh uuids; an amount is named after the body it is parsed from; the body
  stands for its SHA-256 fingerprint.
- The middleware's own answers and the handler's are told apart by `by`. A
  handler's 201 carries the charge's name, which stands for the snapshot that
  `dto.go` renders.
- Death of the process and the end of the shutdown deadline are one action,
  `Crash`. A transaction that is running at that moment has either committed
  before the crash or never does.
- `Receive` lets an answer reach its client before SaveResult has run, which
  the buffering writer allows for; the client can then retry at once.
- EFí applies each PUT at most once, at any time after it was sent, even long
  after its caller was told of a failure; or never.

## Runs

| Run | Instance | Shows |
|---|---|---|
| `race` | 3 requests, 1 tenant, 1 key, a valid and an invalid body, hang-ups, one crash, statements that fail, commits that take effect unseen | the eight safety properties, the inductive invariant, `ImplementsPromise`, `InProgressTrueBeforeFault` |
| `live` | 2 requests, 2 tenants, every fault | `EveryRequestEnds`, `AllSettlesWithoutFault` |
| `hangup` | 2 requests, hang-ups | violation of `InProgressIsTrue` |
| `lateanswer` | 1 request | violation of `FailedIsNotPayable` |
| `resolve` | 1 call, 2 tenants with a key each, 3 providers, 3 pix keys (one filed under another tenant's provider), 2 changes of any kind | `OwnAccount`, `ActsOnTruth`, `RefusalHasCause` |
| `diagnosis` | the same, providers change | violation of `DiagnosisIsRight` |
| `pool` | 3 calls, a configured and an unknown provider | the four safety properties of the pool and `EveryCallReturns` |
| `money` | all texts of up to 5 of 8 characters, 12 bits | `PlainIsExact`, `SentReadsBack` |
| `negative` | texts of up to 4 characters, 20 bits, which they cannot overflow | violation of `NegativeIsRefused` |
| `hooks` | the start of a session, a write, a stop and a hook of any other event, of 2 files; one is killed, one rename fails | `NeverTorn`, `TrackerWithinLog`, `TotalsMatchEntries`; without overlap `SerialIsExact` |
| `buglog` | 3 edits of any of 4 kinds in 3 files, 2 of one name; an entry by hand, a kill, a rename that fails, sweeps, 3 moments | `NothingInvented`, `OnePerWindow`, `IdsAreUnique`; without overlap `SerialIsExact`, `ShownStaysLogged` |
| `anatomy` | 6 files, 4 texts, 3 changes, 1 read | `WrittenIsListed`, `OneEntryEach`, `ListedIsHit`, `EstimatesAgree` |

Why these bounds are enough to be interesting. Three requests are a first one,
a retry that races with it and a retry of the retry; two bodies are needed for
a conflict, and the invalid one for an answer without a charge. One key of one
tenant suffices: requests of different keys touch different rows, which the two
tenants of `live` and the theorems, for any number of both, confirm. One crash can
hit every request at every point, and requests can arrive after it. Every fault
a transaction can have under a live context it also has under a cancelled one,
so `race` names only those whose effect on a live client differs; `live` has all.
The theorems below do not depend on any of these bounds.

What only holds without faults is checked beside what always holds: the history
variable `faulted` of `MCCreateChargeFaults` says whether a step has been taken
that `CreateCharge` without faults does not have, and `InProgressTrueBeforeFault`
and `AllSettlesWithoutFault` ask of the behaviours up to there and of those that
never get there. Symmetry is used in `race` and `buglog`, which check no liveness. Deadlock is not checked in any run: each request, call, text and hook
runs once, so the instances end.

One call suffices in `resolve`, since calls only read; two changes put one into
each of its two gaps, and the three pix keys give an order, a second provider and
a row that only the tenant condition of the join rejects. Three calls in `pool`
are one that builds, one that waits and one that comes after a failure. In
`money`, 12 bits make texts of two digits overflow, so five characters hold every
combination of sign, point, fraction and overflow; nothing in the code depends on
the width but the range check and the wrap-around. In `hooks` the fourth hook
makes a second write, stop or read of the three; hooks of one event race for the
document they share, a kill cuts off any of them at any point, and the rename that
fails does so for any of them; sweeps are not bounded. `MaxKills` and
`MaxFailures` are 1 each, which puts a kill into the write in place that the
failure leads to; the theorems are about any number of both. In `buglog`, a window
of 2 and three moments let the third edit come within the window of the second but
not of the first; three edits are the two that lose each other's update and one
that merges into what is left; two files of one name are merged as one. In
`anatomy`, three changes write a file, let the agent or another write come in
between, and write again; the agent can thus put two entries of a file, also in a
wrong section, before a tool writes it. The files are one for each way in which a
path can match or not, the texts an empty one, a comment, a title that is read as
an entry of another file and then a heading of another section, and one that is
read as a heading without a name. One read (`MaxReads`) suffices: that of a file that
was read before is no different but for the counters, which a session start
resets.

The properties are stated with their meaning in the modules. Of `CreateCharge`,
`OneChargePerKey`, `OneOutcomePerKey` and `ResultIsFinal` are about the key;
`PersistFirst`, `RecordsAgree` and `StatusIsFinal` about the records;
`CreatedIsActive` and `FailureIsRecorded` about the truth of answers.

Fairness. `FairSpec` assumes that each request the server has taken keeps
taking steps (weak fairness of `Serve(r)`): goroutines are scheduled, a
transaction ends or fails, and the provider call is ended by the SDK's 30 s
timeout (`sdkclient.go` 40), which is why `ProviderFails` is part of
`Serve` and needs nothing of EFí. No fairness is assumed of clients, of EFí or
of crashes. In `EfiClientPool`, `FairSpec` assumes that a call inside the
critical section goes on, for it only reads and writes local files, and strong
fairness of taking the mutex: `sync.Mutex` hands itself over to a waiter that
has starved for a millisecond.

## What the violations show

`hangup`. Reserve and SaveResult run under the request context. A client that
hangs up before SaveResult makes it fail; one that hangs up while Reserve
commits makes Reserve report an error for a claimed key. In both cases the key
keeps status 0, and every retry is answered 409 "request in progress" though
nothing is in progress and nothing will ever complete it. The phase 1
specification promises a replay of the original response. A crash has the same
effect. `InProgressTrueBeforeFault` shows that the answer is true until something fails.

`lateanswer`. A charge is marked FAILED on any error of the provider call,
including a timeout of a PUT that EFí applied. ADR-0001 reads FAILED as
"provider charge creation failed"; here the cob is payable.

`diagnosis`. The comment on `ResolveAccount` says that a second query in the
same transaction tells "no such provider" from "no pix key". Under READ
COMMITTED the second query sees newer tables: a provider activated in between
is said to lack a pix key that it has. `RefusalHasCause` is what is true: at
some moment nothing joined, and at a later one the provider matched.

`negative`. The fraction is added to the whole part whatever its sign, so
"-0.50" is a charge of 0.50, where the handler means to refuse amounts that are
not positive. `PlainIsExact` says what is true of plain decimals. It asks that
an integer has room for the amount: a whole part that overflows when it is
multiplied by one hundred is not refused, and "184467440737095517" is a charge
of 0.84.

No run is kept for what the hooks lose when they overlap, since nothing promises
more: a session start deletes every `.tmp` file of `.wolf`, also that of a hook
about to rename it, which then writes in place; a session start that reads the
half-written ledger replaces it by one without sessions, on which every stop
throws. Two writes at a time can lose an entry of `anatomy.md`. A bug log that is
read half written is taken for an empty one, and the next fix replaces it. Nor is a
run kept for what is lost without overlap: a write in place that is cut short leaves
half a file, of whatever document, and the next reader starts from its fallback.
And stop runs after every turn and enters the whole session each time, so
`total_writes` counts the first writes of a session once for each of its turns.

Other disagreements between the code and what it says, met while modelling, have
no run either:

- `pre-read.js` 53 calls its lookup accurate, but it compares the ends of paths
  without a separator: the entry of a `main.go` in the root matches `cmd/main.go`
  and `domain.go` alike (`EstimatesAgree` and `ListedIsHit` say for which files it
  is right).
- `OPENWOLF.md` 9 promises that `anatomy.md` has an entry for every file; one
  whose title has a line break is read as something else by the next hook
  (`WrittenIsListed`).
- The bug log merges and shows by the last component of the path, where the
  comments say "same file" (`post-write.js` 254, `pre-write.js` 85).
- The reminder of `stop.js` 123 that `buglog.json` was not updated looks for a
  write to it in the session, which post-write never records (`post-write.js` 29).
- The rules for `@app.task` (`shared.js` 347) and `@Entity` (401) come after rules
  that apply whenever they do.

## Proofs

`CreateCharge_proofs` proves, for every choice of the constants allowed by
`CreateChargeAssumption` and `TxFaultsAssumption` (distinctness of the special
values, nothing about sizes):

- `Invariance`: `Spec => []Inv`;
- from it, each safety invariant of `race` (`TypeCorrectness`,
  `AtMostOneCharge`, `PersistedFirst`, `RecordsConsistency`,
  `CreatedIsBacked`, `FailureIsBacked`, `SingleOutcome`);
- from it, the action properties (`ResultsAreFinal`, `StatusesAreFinal`).

The safety invariants are not inductive by themselves. `OneChargePerKey`, for
instance, needs to know that a request past Reserve has its row in the table
(`RequestsKnown`) and that no second one got past it (`OneClaimant`);
`OneOutcomePerKey` needs that nobody has an answer while the key is being
executed (`NoAnswerBeforeTheEnd`) and that what is stored is what was answered
(`StoredIsDecided`); `RecordsAgree` needs that the use case's copy is the row
it is about to update (`MemoryMatchesRow`), which is also why the optimistic
lock never fails in phase 1. `Inv` is the conjunction of these parts.

The actions fall into four shapes with a lemma each: steps that leave keys,
tables and answers alone (`QuietInv`), the middleware refusing a request
(`RefusalInv`), the handler returning (`ReturnInv`) and the rest, one lemma per
action. `InsertRecords` and `UpdateRecords` say what tx A and tx B do to a
charge's records, `ReservingKeys` and `StoreRow` what happens to the keys.

The second part of `CreateCharge_proofs` is `InProgressIsTrueBeforeFault`. With `Inv`,
`FaultFreeInv` says that before the first fault a row without a result has a request
that is being handled, and nobody has left. The theorem is an action property: the
request that is refused as a duplicate meets such a row, and the request that
handles it is another one.

Its last part proves `Refinement`, that `CreateCharge` implements
`IdempotentRequests`: `Spec => ImplementsPromise`. It rests on the
assumptions above and on `RefinementAssumption` (the absent row is no request and
no body). The mapping reads claims off the rows, executions and charges off the
process and the tables, and the answer decided for a key off whoever was given
it; `WhatIsDecided` shows from `OneOutcomePerKey` that it does not matter who that
is. Each step of the code then claims, replays, mints, decides or abandons, or is
not seen at all (SaveResult), with a lemma for each. The invariant of the proof
is `Inv` with `IdleAsksNothing`, that a request which has not arrived asks
nothing. `Inv` is needed where the promise allows a step in some states only: the
request that returns from the handler was being executed and had no answer, and
a replay gives what was decided.

`EfiClientPool_proofs` proves, from `EfiClientPoolAssumption`, `PoolInvariance`
and from it `PoolTypes`, `OneClient` and `PoolIsForGood`. The inductive
invariant `PoolInv` adds mutual exclusion (whoever is inside `clientFor` holds
the mutex, so there is one), that a builder's provider is not pooled, and that
what was returned is what is pooled. `FilesAreAccountedFor` needs `FilesInv` too:
where a caller is tells which files it has written (`WrittenSoFar`), whoever built
a pooled client is served and wrote both (`BuiltWhole`), and every file is about
the provider its writer wants (`FilesAreOwned`).

`Tenancy_proofs` proves, from `TenancyAssumption`, `TenancyInvariance` and from
it `TenancyTypes`, `NoForeignAccount` and `AccountsAreTrue`, for any number of
calls, tenants, providers, pix keys and changes. The inductive invariant `IInv`
says what each phase knows: a call past authentication has the tenant of its key,
which was active at some index of `tables` since it arrived (`KeyWasActive`), and
a call that acts found its account at that index or a later one
(`AccountWasCurrent`). It is kept by the operators because `tables` is only ever
appended to (`OnlyAppended`), and by the calls because each only moves itself
(`OthersKeep`). That the row of `ORDER BY ... LIMIT 1` is one of the rows
(`OldestIsOne`) rests on the well-foundedness of < on Nat. `RefusalsHaveCauses`
needs `Causes` too: a call that is diagnosing saw nothing join, a refused one has
its cause, and both stay true while `tables` grows (`SeenStays`).

`WolfHooks_proofs` proves, from `WolfHooksAssumption`, `SessionInvariance` and from
it `CountsAreLogged`, for any hooks, overlaps, kills and failures. The inductive
invariant `SessionInv` says that every session there is, on disk, about to be written
or kept by a stop, counts no more writes than `memory.md` has lines (`Fits`), and
that a post-write has no line there before it tracks, so that its one line is new
when it counts one more. A step of a hook moves only itself (`Moves`, `MovesInv`);
how a write begins and how it ends have a lemma each.

`LedgerAddsUp` and the rest of `TypeInvariance` need `DocsInv`: the ledger, on disk or
about to be written, adds up or has no entries (`LedgerOK`). `TornByCutWrites` has two
halves. `TornInv` says that half a file is being written in place or is in `cut`, and
that until a rename fails a temporary file of the session stays until it is renamed,
for no hook deletes it. `SerialInv` says that without overlap one hook runs, and that
until a rename fails it finds the temporary file which it renames.
`SerialHooksAreExact` needs two more: `CourseInv`, which writes the hooks of each event
come to, and `ExactInv`, which says of each document that is whole (`Intact`), and of
each that is being written, between which sets of hooks its counts lie: those that
have run to their end, and those that have begun. A write in place begins by making
its document torn, so the invariant says nothing of the document then, and what it
says of the value being written makes it true again at the end. They count finite
sets of hooks, so `FilesAssumption` and `WolfHooksAssumption` ask for finitely many
files; hooks may be infinitely many, since only finitely many have run.

`BugLog_proofs` proves every safety property of `BugLog`, for any edits, changes,
notes, window and bounds. `LogsInv` says of the log, and of each log being written,
that the number of an entry is its place and that entries of one name and category
are a window apart (`LogOK`); so `IdsNameEntries` and `EntriesAreApart` hold though a
log is written late, over entries it has not read. `MadeInv` adds what a log counts
and quotes (`Justified`): each fix that it counts is one of the edits that have come
that far, so an update that is lost, and made again from an older log, is not counted
twice (`LogInventsNothing`). `TurnsInv` is about taking turns, with no write in place
cut short: one post-write at most is under way, and what it will write has every place
of the log, every bug shown, every note and every fix done (`Remembers`), its own one
included; so has the log itself, but while it is being written in place. From it
follow `TurnsKeepShown` and, with `MadeInv` as the upper bound, `TurnsAreExact`.

The assumptions are those of the module. `TornAssumption` tells no log and half a log
from a log. `ExtensionAssumption` says that no file has the name of a category as its
extension: the third tag of an entry is the extension, and with a file named
`x.refactor` an entry of another category would be taken for one of that. The
similarity of words, the detection and the first two bugs shown enter the proofs
only with what they return.

`Anatomy_proofs` proves every property of `Anatomy`, from `AnatomyAssumption`: for any
files, order of places, rules, texts of any length, edits by hand, and any number of
changes and reads. The inductive invariant `Inv` says of `anatomy.md` that only touched
places have two entries (`Once`), that the places of unlisted files have one only if
they are touched (`Within`), and that the first entry at the place of a fresh file is
that of its text (`IsFirst`, `FreshFirst`). It says nothing of the order of entries,
which an edit by hand may undo. Why it is kept: sorting is `Arranged`, the entries in
some order of their indices. That it returns each of them once, in order, is an
argument of counting (`BelowGrows`, `AtInOrder`): how many come before an index tells
it from the others, so by the pigeonhole principle every number is taken. As the order
is stable, sorting keeps which entry of a place is the first (`SerializeIs`), and
`With` replaces that one (`WithIs`). Where entries are replaced by others, those
outside keep their order, and no entry of a place that is not among the replaced and
the new ones is added, lost or moved past another (`SplicedIs`, `ReplaceIs`); an edit
by hand and the lines of a broken entry both are such a step, and a place they are
about is touched and its file no longer fresh (`ReplaceDisturbs`, `RereadDisturbs`).
`ListedAreHits` and `EstimatesAlike` are action properties; the second one uses that
the entries which match a file that no other place matches are those of its place
(`TokensOfOnly`), and the arithmetic of rounding (`EstimatesClose`, `EstimateGrows`).

`Money_proofs` proves `PlainAmountsAreExact` and `PrintedAmountsReadBack`, from
`MoneyAssumption`, for texts of any length and integers of any width. The invariant
`IInv` says little: what was decided was decided by what the text parses as. The work
is in the arithmetic of numerals. `NumberOf` and `Scale` are folds over the places of
a text; `NumberFoldIs` and `ScaleFoldIs` show by what steps they are made up,
`FoldsAgree` that they depend on no other text, and `NumberOfIs` that a digit at the
end counts ten of what was there and itself. By induction on texts follow what two
numerals in a row denote (`NumberOfBoth`), that the two digits `ParseString` cuts a
fraction to are what it denotes in centavos, cut off (`CentsCutOff`), and that the
numeral of a number reads back as it (`NumeralIs`). `PlainParses` puts them together:
the centavos of the whole and of the fraction add up to the quotient that `Denoted`
is, and if that is an integer of the program, so is each part, and nothing wraps
around. `StringIsPlain` says the rest for what is printed.

`FoldLemmas` is where induction comes in. The induction theorems of the library take
an operator; `Induction`, `SeqInduction` and `SubsetInduction` take the set of numbers,
sequences or subsets for which a formula holds. From the last follow that a recursive
definition over the subsets of a finite set has a solution (`SubsetSteps`), that a sum does not
depend on the order in which its fold picks the elements (`SumOverSet`), and what one
more element adds (`SumAdded`, `SumOneMore`).

Model-checked only: liveness (`EveryRequestEnds`, `AllSettlesWithoutFault`,
`EveryCallReturns`), which needs fairness and ENABLED, out of the provers' reach.
Every other property of a passing run is a theorem. The four runs that show a
violation show behaviours, and need no proof.

## Plan

1. (done) the core: `CreateCharge` and what it composes, its runs, its
   invariant and the theorems above.
2. (done) `Tenancy`. Still to do: the acting provider as part of the request in
   `CreateCharge`, for the fingerprint that does not cover it.
3. (done) `EfiClientPool`; (done) `Money`; (done) `WolfHooks`; (done) `BugLog`; (done) `Anatomy`.
4. `ChargeReads`: GET beside the writers; what a reader may see and in which
   order.
5. A composition of `CreateCharge` with `EfiClientPool`: a request that waits for
   the mutex while its client hangs up, two requests of one new provider.
6. Proofs: (done) `OwnAccount` and `ActsOnTruth` of `Tenancy`; (done) the
   refinement of the promise; (done) `RefusalHasCause`; (done)
   `FilesAccountedFor`; (done) `WolfHooks`; (done) `BugLog`; (done)
   `InProgressTrueBeforeFault`; (done) `Anatomy`; (done) `Money`.

## Not modelled, and why

Reads of charges wait for the steps above.
Configuration, logging and health checks have no state that
changes. Row-level security enters `CreateCharge` as the rows a tenant can touch:
every key and charge of the model is reached through its tenant. The connection
limits of the pools are left out, since no transaction is opened inside another.
Panics are left out: no step of the modelled code panics on the inputs it
accepts. The statuses, the `payments` table and the `txid` column of
`idempotency_keys` that phase 1 declares and never writes are left out, and so
are the QR code image, whose failure the adapter ignores, and `GetCharge`, which
nothing calls. Of the hooks,
the warnings are left out, with what pre-write looks up in `cerebrum.md` for one
and what stop says about missing updates; and so are the wording of descriptions,
of bug messages and of the lines of `memory.md`.
