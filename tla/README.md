# Verification of the carbon accounting platform

This directory holds TLA+ models of the Hyperledger blockchain-carbon-accounting
platform, the TLC configurations that check them on small instances, and proofs that the
TLA+ proof system (TLAPS) checks for instances of any size. Paths such as
`fabric/chaincode/datalock/` are relative to the root of the repository (`src/`).

Contents: [system](#the-system) · [what is modelled](#what-is-modelled) ·
[runs](#runs-bounds-and-what-they-show) · [proofs](#what-is-proved) ·
[findings](#findings) · [observations](#observations) ·
[limits](#what-the-models-leave-out) · [plan](#plan)

## The system

The platform records greenhouse-gas emissions on a Hyperledger Fabric channel, has
auditors turn them into tokens on an Ethereum contract, lets the owners of the tokens
track, transfer and retire them, and lets the holders of a DAO token vote on the
contract. A web application with a Postgres database mirrors the contract, keeps user
accounts and queues the requests that auditors work off.

| Component | State | Operations | Hard behaviour | What makes it correct |
|---|---|---|---|---|
| datalock chaincode (`fabric/chaincode/datalock`, Go) | transactions spanning ledgers: state, stage, data per stage; a lock per uuid; index keys txID~lockID | startTransitionProcess, endTransitionProcess, stageUpdate | clients call in any order; the keys checked and the keys locked are two lists; MVCC | a lock has one holder and changes hands only through it; the index lists the locks; FINISHED is final |
| emissions chaincode (`fabric/chaincode/emissionscontract`, TS) | emissions records; `tokenId` null until audited | recordEmissions, updateEmissionsRecord, updateEmissionsMintedToken, getValidEmissions | callable directly, around the locks | a record with a token is never valid again |
| Fabric peers and orderer (external) | world state with versions | endorse, order, validate, commit | overlapping proposals, lost submissions | simulate-then-commit looks atomic |
| audit service (`fabric/typescript_app/src/service/emissionsChannel.ts`) | none of its own: local variables of requests | recordAuditedEmissionsToken, recordEmission | awaits, concurrent requests, crashes, lost replies, retries that resume at the stored stage | locks, stages, records and tokens agree at all times; two audits never mint for one record; audits finish |
| NetEmissionsTokenNetwork (`hardhat/solidity`) | roles, tokens, available and retired balances, limited mode | issue, issueOnBehalf, issueAndTrack, mint, retire, transfer, register/unregister, ERC-1155 transfers | rules that depend on type, role and mode at once; every transfer path passes one hook | supply is conserved, retired stays retired, audited emissions are retired |
| CarbonTracker (`hardhat/solidity`) | trackers, products, tokens tracked, totals | track, trackUpdate, trackProduct, issueProducts, transferProducts, issue | integer division of totals, arrays with deleted entries, audit status | what is allocated to products adds up to what the tracker holds |
| Governor, DAOToken, Timelock (`hardhat/solidity/Governance`) | proposals, receipts, locked tokens, checkpoints, queued transactions | propose, castVote, queue, execute, cancel, refund, delegate | quadratic votes, child proposals, block numbers, grace period | votes are counted once, refunds are covered, execution only after a passed vote |
| synchronizer, event listener (`app/api-server`) | balances, tokens and trackers in Postgres; last block synced | syncEvents, event handlers, manual sync | events applied twice or out of order; live handlers beside a resync | the database converges to the contract |
| emissions request queue (`data`, `lib/supply-chain`, `app/api-server`, `app/supply-chain`) | requests: CREATED, PENDING, ISSUED, DECLINED; documents in the upload directory | queue by API, command line, web form; process_emissions_requests; issue, decline | check-then-update across database calls, overlapping runs of the job | emissions are conserved; a request has one auditor, one token, one verdict |
| supply-chain calculation (`lib/supply-chain`) | none | process_activity, group_processed_activities | which factor and which group, failures in the middle of a list | every activity in one group or reported |
| user accounts (`wallet` table, `app/api-server`) | rows: e-mail, roles, password, tokens, stamps | sign-up, verification, reset, password, profile | read, await, write; mails that fail | stamps mean mails, links are used once, saves do not mix columns |
| identity services (`secure-identities`) | sessions, keys | sign, connect | web-socket sessions | - |

Interactions: the service calls datalock over a Fabric gateway; datalock calls the
emissions chaincode inside the same Fabric transaction; between two datalock calls the
service calls `issue` of the Ethereum contract through `lib/blockchain-gateway`; the
synchronizer reads the contract's events; the request job and the issue form share the
table of requests; the synchronizer's roles and the account calls share the table of
wallets; the Governor locks and burns DAO tokens and is the admin of the timelock.

The rule the audit stands on: a request may die between any two awaits, and whoever
sends the audit again must find on the ledger what to do next. The same holds for the
server half: a handler, a pass or a run of the job may die between two database calls, and
what it leaves behind is what the next one starts from.

## What is modelled

| Module | Models | Extends |
|---|---|---|
| `EmissionsRecord` | the emissions chaincode: `tokenId` of every record | - |
| `DataLock` | the datalock chaincode, one atomic action per method, calling `EmissionsRecord` | `EmissionsRecord` |
| `FabricLedger` | the same invocations as Fabric runs them: simulated, then committed or invalidated | `DataLock` |
| `AuditService` | recordAuditedEmissionsToken, one action per await, with faults and retries | `DataLock` |
| `TokenSupply` | what the token contract promises about supply, abstractly | - |
| `NetEmissionsToken` | the token contract with its roles, limited mode and inherited functions | instance of `TokenSupply` |
| `ContractLog` | the events of both contracts, in blocks, as the API server sees them (external) | - |
| `Synchronizer` | the API server's copy of the contracts, filled by passes over the log | `ContractLog` |
| `EventListener` | the live subscriptions and the event queue beside the passes | `Synchronizer` |
| `ActivityGroups` | how an activity becomes emissions and how activities are grouped; operators only | - |
| `EmissionsRequests` | the queue of requests, from submission to verdict | `ActivityGroups` |
| `Accounts` | the wallet table under concurrent calls | - |
| `DAOToken` | balances, delegates, checkpoints of the DAO token | - |
| `Timelock` | the timelock's queue of transactions | - |
| `Governance` | the Governor over both | `DAOToken`, `Timelock` |
| `FiniteSums` | lemmas about sums over finite sets and greatest elements | - |
| `FabricLedgerProofs`, `AuditServiceProofs`, `NetEmissionsTokenProofs`, `SynchronizerProofs`, `EmissionsRequestsProofs`, `AccountsProofs`, `GovernanceProofs` | the theorems | their component, `FiniteSums` where they sum |
| `MC...` | instances for TLC | their component |

**EmissionsRecord.** Of a record only `tokenId` matters here. It is `Absent` (no record),
`Null` (recordEmissions writes JSON null), a token, or `Undefined`: updateEmissionsRecord
reads the token from its argument list, and a call without the last argument stores a
record without the field. getValidEmissions compares with null, so such a record is not
valid any more.

**DataLock.** `tx[t]` is the stored transaction, `lock[r]` the lock state of uuid `r`,
`lockIndex` the composite keys. A method that returns an error leaves the world state
alone, so its action is not enabled. A stage update names two lists of uuids: `keys`, which datalock checks, and `uuids`,
which the data chaincode gets; what it locks and frees is what the data chaincode answers.
Every caller in the repository passes the same uuids in both, and `ClientStageUpdate` says
so. No order of stages is enforced, and `Next` lets clients call anything at any time,
also straight on the data chaincode.

**FabricLedger.** Endorsing computes a read set and a write set; committing applies the
write set; a proposal that has read a key another one then writes is dropped at that
moment rather than when it is validated, which saves version counters and loses nothing,
since it can never become valid again. The property `ImplementsDataLock` is DataLock's
`Spec`: the committed state is DataLock's variables, so the refinement mapping is the
identity, and DataLock's own properties are checked here too, of the states the ledger reaches.

**AuditService.** `pc[w]` is the await request `w` stands at, `job[w]` its local
variables. `lock`, `store` and `update` are the three stage updates, `read` the second
getValidEmissions of a resumed request, `mint` the issue call, `start` and `end` the two
transition calls. A fault is one of: a call that fails without effect, a call that takes
effect and is reported as failed, a crash of the server. `MaxFaults` bounds their number
in TLC; the proofs have no bound. `Submit` is a user sending an audit, again and again,
under one txID, perhaps twice at once and perhaps with another list of records.

Correspondence at one glance (service lines of `emissionsChannel.ts`):

| Lines | Action | Effect |
|---|---|---|
| 171-177 | `Start` | startTransitionProcess; the request resumes at the stored stage |
| 187-209 | `LockRecords` | stage GetValidEmissions: lock and keep the valid uuids |
| 214-227 | `ReadRecords` | resumed request reads them again |
| 228-241 | `MintToken` | issue on Ethereum |
| 242-248 | `StoreToken` | stage StoreMintedToken |
| 250-276 | `UpdateRecords` | stage MintedTokenUpdate: write the token, unlock, is_last |
| 286-308 | `End` | endTransitionProcess and the answer |

**NetEmissionsToken.** `roles`, `limitedMode`, `timelock`, `token` (the stored details: type
and totals), `balance` (ERC-1155) and `retired` are the contract's storage. Each external function
is an action with the sender as a parameter, and so are the functions inherited from OpenZeppelin
that change state: grantRole, revokeRole, renounceRole, setApprovalForAll, safeTransferFrom. That
matters, because the checks of registerConsumer, say, are not those of grantRole, and because
safeTransferFrom does not ask whether the token exists. `BeforeTokenTransfer` is the hook;
`IssueInternal` is `_issue` with its mint and, for audited emissions, its `_retire`.
tokenExists compares with a counter, so the id 0 exists, and the model has it.
`AbstractSupply` maps the contract to `TokenSupply`: the sums over accounts of available
and retired balances, where transfers, roles and modes are stutters. The audit service's `issue` call
is one token issued by an auditor; the service's model needs of the contract only that ids are fresh.

**ContractLog, Synchronizer.** `log` is the list of events with their blocks, `roles` what the
contract says now. A pass of `syncEvents` is a worker: it fills the tables of trackers and
tokens (`FillTrackers`, `FillTokens`), reads the current block, and then for each window reads the
events (`ReadCurrentBlock`), handles them one by one (`TakeEvent`, `HandleTransfer`, each database call a
step, `call[Sync]` saying which), reads and writes roles once per account (`ReadRoles`, `EnsureWallet`,
`EnsureWalletWithRoles`) and saves the block (`SaveCurrentBlock`, `SaveLastSync`). `PassFails` is any
call that throws, `Crash` the death of the server; `StartupSync` and the two `RunManualSync` forms are how
passes begin, the startup pass on the local network clearing the tables first. The histories
`applied`, `ignored`, `torn` and `edges` record how often an event was handled, which mints the
handler took for conflicts, whose handler died half way, and where windows began.

**EventListener.** Subscriptions deliver an event to a handler or lose it; a handler looks the
token up and handles the transfer or puts it in `queue`; a `TokenCreated` inserts the token and drains
the queue; the task runner starts passes. It reuses every step of the synchronizer.

**ActivityGroups, EmissionsRequests.** `ProcessActivity` is process_activity: which branch, which
factor, when it fails; a weight, distance or amount is one number. `GroupProcessedActivities` is the grouping
by kind, dates and, for carriers, mode and issuer. In `EmissionsRequests` a list is answered group by
group (`ProcessGroup`, `GroupFails`, `AnswerSubmission`), the web form posts a request, attaches and moves
a document, each run of the job is a worker (`SelectCreated`, `EncryptEvidence`, `UpdateToPending`,
`RunFails`), each form an auditor opens a session (`FetchEmissionsRequest`, `IssueToken`, `Decline`,
`TellIssued`, `UpdateStatus`, `LeaveForm`). `shared`, `contested` and `early` are histories of the
three races the code admits, so that properties can say: only through these.

**Accounts.** A call is a record of what it has read and where it stands; `Write` changes a row and marks
every other call that has read that row, or that address, as overtaken. A stamp is its age (recent, old,
expired), a token a number drawn once.

**DAOToken, Timelock, Governance.** A block is the time; a call that reverts is not enabled. `Propose`,
`ProposeMultiAttribute`, `Vote`, `Refund`, `Queue`, `Execute`, `Cancel` and the guardian's `Set` are the
Governor's functions, each whole: votes on a parent are split among its children, tokens are locked, the
receipts of parent and child are written. `State` is the `state` view. `pot[p]` is a history variable:
the tokens locked for a proposal and its children less those burned or paid for them; the contract has
only one balance, and the question is whether each proposal pays for itself. `GetPriorVotes` is the
binary search over the checkpoints, `past` the history it is compared with.

## Runs, bounds and what they show

| Run | Instance | Distinct states | Shows |
|---|---|---|---|
| `fabric_ledger` | 2 transactions, 2 records, overlapping batches, 2 invocations in flight | 852 004 | `ProposalsReproduce`, `ImplementsDataLock`, `IndexMatchesLocks`, `LockDiscipline`, `FinishedIsFinal`, `AuditedStaysAudited` |
| `audit_service` | 3 audits, 2 requests at a time, 2 records in overlapping batches, all faults, 2 of them | 506 369 | `LocksMatchStages`, `OneRequestPerAudit`, `AuditTrail`, `FinishedIsRecorded`, `NoSharedMint`, `TokensAccountedFor` |
| `audit_liveness` | 2 audits, 2 requests, the faults an audit survives, 2 of them | 207 658 | `AuditsFinish` |
| `net_token` | the deployer and 2 accounts, the id 0 and one token, supply up to 2, 2 changes of a role, mode or approval | 148 920 | `RetiredMatches`, `ImplementsSupply`, `LimitedModeFreezes`, `AdminsGovern` |
| `synchronizer` | 2 accounts, 1 token, 1 tracker, 4 blocks, 4 events, windows of 1 block, 1 failed pass or crash | 784 562 | `NothingSkipped`, `RepeatsExplained`, `MirrorExact`, `SupplyMatches`, `RolesFollow`, `CatchesUp` |
| `emissions_requests` | 2 lists to submit (API and command line, 7 activities of all kinds), 1 web form, 2 requests, 2 runs of the job, 2 auditors, 2 forms, 1 failure | 698 128 | `RequestsTypeOK`, `ActivitiesConserved`, `TokensMatchRequests`, `EvidenceUsed`, `AssignedOnce`, `VerdictStands`, `RequestsProcessed` |
| `accounts` | 2 wallets, 1 e-mail address, 2 passwords, 2 calls at a time, 3 random tokens | 2 116 446 | `AccountsTypeOK`, `SentMeansMailed`, `ResetLinksGood`, `PasswordGuarded`, `SavesKeepApart` |
| `governance` | 2 holders of 40 tokens, 6 blocks, up to 3 proposals plain or with children, votes of 20, threshold 20, quorum 5 or 9, 2 of the calls that are votes, moves of tokens and settings | 1 313 580 | `PriorVotesExact`, `TalliesMatch`, `ClaimsCovered`, `TimelockMatches`, `StatesForward` |
| `double_mint` | 1 fault | violation | `OneTokenPerRecord` fails, see [findings](#findings) |
| `audit_answer` | no fault | violation | `SuccessIsReported` fails, see [findings](#findings) |
| `limited_transfer` | as `net_token` | violation | `LimitedTransfersRetire` fails, see [findings](#findings) |
| `event_listener` | 1 token, 1 live handler | violation | `QueueServed` fails, see [findings](#findings) |

*Why the bounds are enough.* Interference needs two: two holders of a lock, two requests,
two batches that share a record and differ in another, two runs of a job, two calls on a
row. The third audit of `audit_service` lets a record be locked, audited and met again by an audit
that has not started. Two faults let the recovery from a fault fail. One token and one stage name
suffice for the datalock because the chaincode compares neither; token identity matters in
`audit_service`, where there is an id for every audit and every fault, so that no mint
has to wait for one (with fewer, the guard in `MintToken` would hide behaviours).
`net_token` has three accounts, so that who calls, who pays and who receives can all differ, and a supply of
two, so that a holder can keep a part; the two changes allow a role with a mode, an
approval with a role, or the loss of the last admin with a grant after it.
In `synchronizer` a mint is of two units and a movement of one, so that a holder keeps a part; four blocks
are two windows with an event on the boundary, a failure between them and a pass after it.
In `emissions_requests` the lists hold an activity for every branch of process_activity, two that
share a group and one that fails; one failure may hit any call. In
`accounts` two calls of every pair of kinds meet on one row, a mail fails, a
token is drawn for each of two links and a reset. In `governance` the holder who proposes
misses the quorum alone and makes it with the other's vote; runs that should not be
possible were tried as invariants to see that the instance reaches them: a proposal executed, one expired,
both children of a family queued, two proposals queued at once. Each exception that
`ClaimsCovered` makes was taken away once, and TLC then found it violated.
`MaxChanges`, `MaxSupply`, `MaxFaults`, `MaxFailures`, `MaxEvents`, `MaxBlock`, `MaxTokens`, `MaxVerifications`,
`MaxCalls`, `MaxProposals`, `LastEarly` and the set `Session` are bounds of the models; the code has none of them.

*Reductions.* Interchangeable ids, auditors, runs and forms of `EmissionsRequests` are taken in order; one
list is posted at a time and not amid a web form, there is one web form, a second run of the job starts only before
any request has left CREATED, forms are opened for one request and not while runs overlap. In `Accounts` a
profile or role save is made only while no other row exists. In `Governance` proposals are made and tokens
moved in the early blocks (`LastEarly`).

*Deadlock.* `net_token`, `governance` and `synchronizer` switch the check off because they run out of calls or
blocks; `emissions_requests` because everything may be decided; `fabric_ledger` because when all records carry a
token and all transactions are finished, clients have nothing left that succeeds. The violation runs stop at
their counterexample. In the audit service a user can always submit, in `accounts` time passes and calls
end, and deadlock is checked.

*Symmetry.* Transactions with requests or slots, the two accounts of `net_token` that are not the deployer, and
calls, addresses, e-mails and passwords in `accounts` are interchangeable. The
runs with temporal properties that need fairness use none.

*Fairness.* `audit_liveness`: `WF(Step(w))`, since a Node promise settles and each call of a request returns or
throws, so a request that is being handled takes its next step; none on `Crash` or on
recording new records. `SF(Submit)` per audit: a user whose audit is not finished sends it
again, for as long as it takes; strong, because requests of other users keep occupying the
workers in between. The service has no retry of its own, so without this assumption nothing
is live. `AuditsFinish` is checked for the faults after which a retry can succeed. After a
crash, a lost reply of startTransitionProcess or a failed endTransitionProcess the
transaction stays PROCESSING, startTransitionProcess refuses every retry, and the locks
have no expiry: such an audit never finishes and its records stay locked. This is what the
code does; the safety properties are checked and proved for these faults as well.
`synchronizer`: weak fairness of a step of the pass, which includes starting one: the task runner's interval
and the restart of the server; failures are bounded. `emissions_requests`: weak fairness of `Run` of
some run of the job: cron starts it again, and a run that has started goes on; nothing is assumed of users or
auditors.

Every property of a passing run has a mutant in `PROJECT.json`: a plausible bug (a guard
dropped, a read left out of the read set, `is_last` one stage early, a refund that leaves the
tally) under which TLC finds the property violated. The operators marked `Mutation:` in the modules are
those variants; no action uses them.

## What is proved

All theorems hold for every value of the constants under the named assumptions (`...Assumption` in each module:
that special values differ from real ones, that sets that are summed over are finite, that amounts and blocks are
numbers). The bounds of the models are then no bounds, or arbitrary numbers.

Sums over sets appear in half of the properties. The library's induction rules take an operator
as parameter, which the installed provers cannot instantiate; *FiniteSums* gets the same by least counterexample
over the well-founded order of the naturals, and proves once what the other modules cite: that the
sum of a function over a finite set exists, is a number, splits, grows with its terms, changes with one of them by the
difference, and that finite sets of numbers have a greatest element. In the same way the recursive
binary search of `DAOToken` and the existence of square roots are proved by induction on
the length and on the number.

*FabricLedgerProofs.* On datalock: `TypeCorrect`, `IndexCorrect`, `LocksDisciplined`, `FinishedForGood`,
`AuditedForGood`. The lemma that carries them is `StageLocks`: because the keys checked are the uuids
passed on, every record a stage update locks was free, every record it frees was its own, and the two
sets are disjoint. `TypeOK` is inductive and `IndexMatchesLocks` is inductive relative to it;
the others are properties of single steps from a well-typed state.
On the ledger: `ProposalsCorrect` and `LedgerImplementsDataLock`. The invariant
`FabricInv` adds to `ProposalsReproduce` that each proposal in flight carries the read set of its
invocation. The `...Frame` lemmas say that each method decides and writes by the keys of its read
set only; so a commit that does not conflict preserves `Reproduces`, and a commit whose
proposal reproduces is the atomic action (`CommitIsStep`).

*AuditServiceProofs.* `ServiceTypeCorrect`, `LocksFollowStages`, `LockedStaysUnaudited`,
`RequestsExclusive`, `TrailsLead`, `FinishedAuditsComplete`, `MintsDisjoint`, `TokensAccounted`,
`RetriesMintByFaults`, `OneTokenWithoutFaults`. None of these invariants is inductive alone: that a
record is locked by its audit says nothing about the request that is about to free it. `AuditInv`
adds what is needed:
- `TxOK`: the stages of a transaction come in order, each with its data, and a stored token
  was issued for this audit;
- `ValidDisjoint`: no two audits found the same record valid (the lock of the first kept it
  from the second; afterwards its token does);
- `MintsOK`, `TrailOK`: a manifest lists what the audit locked, a token leads to a finished audit;
- `RequestOK`: what a request knows at each await is what is stored;
- `Exclusive`: two working requests have different transactions.

The proof separates the two ledgers' view from the requests': `LockStep`, `StoreStep`,
`UpdateStep`, `NewRecordStep` and `QuietStep` show what a commit does to what is said of audits,
`Assembled` puts the parts together for the request that moved and those that did not, and one
lemma per action joins them, faults included (`StageCallStep`, `FailStep`, `AnswerStep`).
`AccountInv` counts on top of it: each token issued is stored with its audit, or in the hands of the one
request that holds the audit, or charged to a fault of its own. Of the tokens of one audit at most one is not
lost (`OneHeld`, from `Exclusive`), so an audit has at most one token more than there were faults
(`RetriesMintByFaults`), and without a fault no record has two (`OneTokenWithoutFaults`, with `MintsDisjoint`).

*NetEmissionsTokenProofs.* `NetTypeCorrect`, `AdminsAlwaysGovern`, `LimitedModeAlwaysFreezes`,
`RetiredAlwaysMatches`, `TokensImplementSupply`. The first
says in particular that no balance falls below zero. The second is a step property that
needs no more than types: among all the ways to gain a role, only those for consumers and
industries are open when there is no admin. The third needs the invariant `UnissuedEmpty`: an inherited
transfer may name an id that was never issued, and moves nothing because nobody has any of
it. The fourth relates a stored total to a sum over accounts through every entry point. The last is the
refinement: every call maps to a step of `TokenSupply` or to a stutter, a transfer being a stutter because it
changes two terms of the sum by opposite amounts. The assumptions are that the zero address is not an account, that
the deployer is one, that accounts are finitely many, that ids are numbers with 0 among them, and that amounts are numbers.

*SynchronizerProofs.* `NoneSkipped`, `RolesFollowed`, `SupplyAlwaysMatches`, `MirrorAlwaysExact`,
`RepeatsAlwaysExplained`. `SyncInv` (`LogOK`, `CountsOK`, `SavedOK`, `PassOK`, `CallOK`, `SkipOK`, `RolesOK`) says
where a pass stands against the log: every event up to the window's beginning was handled, those
of the window are handled or still found, and an account whose roles were read is one of the window.
`BookInv` adds `EventsOK` (events come in block order, nobody gives what he was not given), `HandOK`
(the event in hand was seen in the window, and what its handler has written fits its stage), `RowsOK` (a row is of a
known token and there once an event brought its account something) and `Alone` (a polled
network has one worker). Steps are classified once, by what they do to the books (`Mined`, `Cleared`,
`Kept`, `Taken`, `Passed`, `Called`, `Lost`), and each of the three counting properties goes through the seven kinds:
`SupplyOK` and `MirrorOK` say the sums with what the first write of the event in hand is ahead by, `RepeatsOK` counts by windows.

*EmissionsRequestsProofs.* `TokensMatch`, `EvidenceAlwaysUsed`, `RequestsAssignedOnce`, `VerdictsStand` rest on
`QueueInv`: what each run and each form holds agrees with the row it is of, or the row is in `shared`,
`contested` or `early`. `RequestsTyped` and `ActivitiesAlwaysConserved` rest on `BatchInv`, which says of a list that is
being answered: what is reported and what is left in groups are together each activity once (`ListOK`), what was
reported with a request is in its row and fits it (`CoverOK`), and the requests' totals are the sum of the activities
counted so far (`AmountOK`). The lemmas `Processed` and `GroupsAre` are about the library itself:
every activity of a list is an error or in exactly one group, with its kind, dates and issuer.
One assumption comes from code: a factor for carriers is of a transport mode, for get_freight_emission_factor
throws for any other.

*AccountsProofs.* `AccountsTyped`, `SentWasMailed`, `ResetLinksWork`, `PasswordsGuarded`, `SavesApart`.
`AccountsInv` is `Shaped` (calls have the fields of their kind), `RowsOK` (rows are typed, e-mail addresses unique,
links as promised) and `CallsOK` (what a call has read still holds, unless it was overtaken). `WriteKeeps` and
`CallStepKeeps` are the two kinds of step; each action is an instance of one.

*GovernanceProofs.* `TimelockAlwaysMatches`, `ProposalsMoveForward`, `PriorVotesAlwaysExact`,
`TalliesAlwaysMatch`, `ClaimsAlwaysCovered`, `PotsAlwaysLocked`, `AlwaysSolvent`. `GovInv` joins `TimelockMatches` with `StructureOK`: proposals keep their shapes,
a parent comes before its children, has their blocks and no parent of its own, and an eta is set only after
the last block of the vote. `VotesOnly` is what proposing, voting and refunding have in common; from it and the
`...Keeps` lemmas the states move forward: after the last block only refunds touch receipts, and no refund
then touches a tally. `VotesInv` says the checkpoints ascend, none is of a later block, and the votes of an account at
an earlier block are those of its last checkpoint not after it; the binary search is then correct for lists of any
length. `TallyInv`: a receipt with tokens says that it has voted; the tallies of an open proposal
are the sums over receipts; a receipt on a parent is the sum of those on its children.
`ClaimsCovered` is not inductive: a step may change what can be claimed by
moving a state and no token. `ClaimInv` says what must be in the pot of a proposal whatever
its state: all that is on its leaves until it is queued, from then on what its proposer has
on them, less the half of his share with which he was rewarded if he took it back (`Due`).
A refund takes no more from the pot than from what is due (`LeafRefunded`, by the cases of
`BurnedAndPaid`), a vote adds the same to both, and a new proposal starts with its
proposer's share on each leaf and as much in its pot. Queueing burns the tally but the
threshold; that leaves what is due because a leaf's tally is what is on it and what its
proposer was refunded, which no tally is told (`Leafwise`), because the shares of the leaves
do not exceed the threshold, and because nobody else is refunded after it
(`QueuedRefunds`, from `EtaOK` and the proof that states move forward). Families are
disjoint, so one step moves one pot. The theorem has the hypotheses of the property: no
setting changed, no child queued for itself, and a parent's tally that is the sum of its
children's.

`ClaimsCovered` is about one proposal and its pot, a history variable. `Locked` ties the pots to the
tokens: the balance of the Governor contract is the sum of the pots, only proposals without parent have one, and no
balance is negative (`PotMoves`, with one lemma per action that moves tokens). With `ClaimsCovered` it says that the
contract can pay all that can be claimed of all its proposals at once, but for half the threshold per proposal
(`AlwaysSolvent`): `queue`'s burn for one proposal does not take what belongs to the voters of another.
These two and `RetriesMintByFaults`, `OneTokenWithoutFaults` are stated in the proof modules; no run checks them.

*Only model-checked.* `AuditsFinish`, `CatchesUp` and `RequestsProcessed` are liveness under fairness, which is out of
the prover's reach. Of the four violations the runs show traces; there is nothing to prove.

## Findings

- **A lost reply mints twice** (`double_mint`). `datalock/README.md:20` describes the purpose
  as minting "a token ... corresponding to a given emissions record". The service issues the
  token (231-240) and only then stores that it did (242-248). If issue reports an error after the
  token exists, or the StoreMintedToken update fails, the retry finds stage GetValidEmissions and issues again.
  `NoSharedMint` shows that the two tokens belong to the same audit, and `TokensAccountedFor` that
  there is at most one stray token per fault. The faults are the only cause: without one the promise is
  proved, whatever requests run side by side (`OneTokenWithoutFaults`).
- **A successful audit is answered with an error** (`audit_answer`). `err` starts as
  `undefined` and is compared with `null` (294), so every request throws, also one that went
  through; `tests/e2e.test.ts:161` expects status 200, inside a try whose catch calls `done`.
- **Transfers in limited mode do not retire** (`limited_transfer`).
  `hardhat/docs/using-the-contracts.md:66` says that tokens the admin transfers in limited mode are
  immediately retired in the recipient's account; no transfer path calls `_retire`, so they arrive as
  an available balance.
- **The event queue is never served** (`event_listener`). `event.listener.ts:111` says of the end of a manual
  synchronization "also run any queued event here", but `process_queued_events` (38-42) goes over an object with
  for...in and skips every key that is not a number; keys are strings. A transfer that was queued because its token
  was not known, and whose token then comes with a synchronization, is never handled. With more than one live handler
  the queue is also left behind by a race: the token is inserted between a handler's look-up and its entry in the queue.

## Observations

Met while modelling; stated by no document and therefore not findings, or outside what a run shows.

*Governor.* The reward of a proposer is 150 % of what he locked, while queueing keeps `threshold`
tokens (`Governor.sol:406`). A refund before the proposal is queued makes its queue revert, a refund after it
reverts itself, unless other proposals' tokens are locked: `ClaimsCovered` bounds what
one proposal takes from others by half the threshold, the code does not prevent it. Queueing burns down to
the threshold of that moment. A child can be queued though its parent failed the quorum, and then burns its tokens a
second time after the parent's queue. A vote taken back on a child stays in the parent's tally (comment at 540-541), so
that taking back and casting again inflates the parent's quorum. A proposal can be cancelled with votes against it up to the
threshold, and those voters get nothing back. Raising the quorum turns an executed proposal into one that failed it, and opens
refunds of tokens that were burned. Locking tokens does not reduce the votes of their owner's delegate, and refunds
add votes; addToTotalSupply gives votes to the holder whoever his delegate is; a transfer to an account
without a delegate leaves the votes of the sender's delegate.

*Synchronizer.* A second mint to an account that has a balance row is dropped (`ignored`); a transferred tracker makes the SQL
of updateStatus throw, which fails every later pass, while each retry applies the earlier events of the window again.

*Requests.* updateToPending does not look at the status, so two overlapping runs of the job can put a decided request back in
the queue of an auditor; the API gives up in the middle of a list with a status of 500 and leaves the earlier requests
queued, so that sending the list again counts them twice.

*Accounts.* RenewToken saves its stamp before the mail; two first sign-ups at once mail two links, of which one
never works; changePassword and verify find the row by its address again and are not awaited; a profile or role save
puts back every other public column as it was read.

*CarbonTracker*, from reading only: the update path of issueProducts asks for issuedBy but not that the product belongs to the
tracker, and resets what is available; the else branch of trackProduct takes the product amount, not the
residual, off what is available (comment at 678); its refund branch (724-733) always reverts; arrays never shrink.

## What the models leave out

- *Payload*: dates, amounts, parties, documents, the manifest beyond its uuids, the encryption of
  the metadata. A batch of an audit is a set: a uuid listed twice in a request would be counted twice
  in the quantity, which is not modelled.
- *Input errors*: wrong argument counts and malformed JSON are refused before anything changes.
- *Issuer addresses*: recordAuditedEmissionsToken's schema asks for `addressToIssue` while the
  handler reads `issuedTo` and `issuedFrom` (165-166). The model takes the addresses `issue` needs
  as given.
- *Keys*: datalock lets a client check other keys than the uuids it passes on. No caller
  does; `DataLock`'s theorems assume so.
- *An audit of nothing*: if all records of a batch carry a token already, the list of valid
  uuids is empty, a token of quantity zero is issued and updateEmissionsMintedToken refuses
  the empty list for ever. The model includes it; `AuditsFinish` therefore speaks of audits
  that locked a record, and `FinishedIsRecorded` says a finished audit locked one.
- *Token contract*: the zero address holds no role (grantRole would allow it), and accounts accept ERC-1155
  tokens; a contract that does not would make a transfer to it revert. Amounts do not overflow. issueAndTrack waits for
  the tracker contract; a batch transfer is a sequence of single transfers, whose checks read nothing that a transfer changes.
- *Direct calls* of the data chaincode by others while an audit runs are part of `DataLock` but
  not of `AuditService`: the locks protect records from audits only, by design.
- *recordEmission*: its overlap check beside a concurrent recordEmission needs records with dates.
- *Synchronizer*: products, the columns of tokens and trackers other than totals, e-mails. Clearing the tables is one step;
  the live mode may lose events, which its model includes; fillTokens resumes at the count of rows plus one.
- *Governance*: votes by signature, allowances and transferFrom, setGovernor, the guardian's calls on the timelock and his abdication,
  the timelock's own administration; nobody gives the Governor tokens (it would become its own delegate, and later refunds would
  revert for lack of votes); one action per proposal; a target call that fails reverts execute and is no step.
- *Accounts*: register and insertNewWallet with roles the client names, sign-in, export of the private key, the
  columns name, organization and keys. Renewal of a token reads and saves in one step.
- *CarbonTracker*, identity services, front ends, data loaders, e-mail, the oracle and the deployment scripts: the
  first would need a model of its own beside the token contract; the others are user interface, configuration and I/O.
  The conversions of units and distances are floating-point arithmetic and keep no state.

## Plan

The models are complete up to what the previous section lists. What is left, most important first:

1. `CarbonTracker`, composed with the token contract through issueAndTrack: what is allocated to products against
   the totals of a tracker; `ArrayModifier.updateIndex` with its leftover entries.
2. recordEmission's overlap check beside a concurrent recordEmission (`AuditService`).
3. Products in `Synchronizer`, signatures and allowances in `Governance`.
