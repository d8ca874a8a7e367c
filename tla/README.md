# Verification of the company REST APIs

TLA+ models of the platform that creates branded tokens for companies and
moves those tokens for them: an HTTP API, consumer processes that execute
transfers on chain nodes, observer and scanner processes that settle them,
routers that set up and airdrop a token, and crons and scripts that keep all of
it supplied with gas. Every definition is translated from the JavaScript;
`PROJECT.json` (`map`) names the lines of each.

## 1. Inventory

### 1.1 Components

| Component | State it keeps | Operations | Must hold |
|---|---|---|---|
| **Nonce manager** (`module_overrides/web3_eth/nonce_manager.js`, `nonce_helper.js`) | memcached: counter per chain kind, chain id and address; lock key, TTL 5 s | `getNonce`: increment, else lock, ask every node, set, release, or wait 2 s and start again, 50 s at most | a nonce is handed out once; a sync sees the nonces taken; every call is answered |
| **Signed sending** (`module_overrides/common/sign_raw_tx.js`, `web3_eth/*`) | nonce in the raw transaction, retry counters | sign, send, retry on another node, send a raw transaction again | a failure releases what it took; a retry does not change the transaction |
| **Token transfer** (`services/transaction/execute.js`, `executables/rmq_subscribers/execute_transaction.js`, `lib/transactions/transfer_bt.js`, `transaction_meta_observer.js`, `lib/transaction_error_handlers/*`) | row of `transaction_meta` (status, lock_id, next_action_at, retry_count, transaction_hash); item of the transaction log; RabbitMQ message | accept, deliver, compare-and-set, validate, pay, write row and item; lock due rows, fail, requeue, resubmit, release | one run at a time; one transfer on the chain; row and item agree; no row waits for ever; what is paid is what its kind says |
| **Transaction log and cache** (`app/models/transaction_log.js`, `lib/cache_multi_management/transaction_log.js`) | DynamoDB shards; memcached copies | put, update item, read through, clear | a stale copy does no harm |
| **Block delegator** (`executables/block_scanner/transaction_delegator.js`) | file with the last block; RabbitMQ batches | split a block among consumers, publish, save | every block is distributed; a crash repeats and never skips |
| **Block scanner worker** (`executables/rmq_subscribers/block_scanner.js`, `lib/block_scanner/for_tx_status_and_balance_sync.js`) | locked rows, log items, settled balances | lock known rows, read receipts, pay after the transfer, enter external transfers, settle balances, update items, release | a mined transfer is recognised and settled once |
| **Consumer processes, command queue** (`executables/rmq_subscribers/*`, `lib/execute_transaction_management/*`, `app/models/process_queue_association.js`) | `process_queue_association`, `client_worker_managed_address_ids`, prefetch count, intents | associate, deassociate, go on hold, resume | one process per queue and client; a held queue resumes |
| **Worker gas monitor** (`executables/continuous/lockables/monitor_workers_gas.js`, `lockables/base.js`) | bits, status, process and lock of worker rows; memory of a pass | lock rows, read balances, grant ST', associate, dissociate, release | a worker without gas is paid or taken off; nobody pays it twice; no lock outlives its pass |
| **Cron processes, signals** (`lib/cron_processes_handler.js`, `executables/sigint_handler.js`) | `cron_processes` rows, in-process counters | start, stop, SIGINT | one instance works on a row; a stop drains the work |
| **Fund addresses** (`services/address/fund_client_address.js`, `executables/fund_addresses/*`, `executables/add_more_workers.js`) | ST' of reserve, workers and airdrop holder | refill, add workers | shares the reserve with the monitor and with transfers |
| **ST' transfers and lists** (`services/stp_transfer/*`, `services/transaction/get*.js`, `services/transaction/list/*`, `lib/transactions/stPrime_transfer.js`, `lib/elasticsearch*`) | log items, messages, `transaction_meta` rows, two cache keys, search index | accept, pay, complete, index the stream, read, list by pages | paid once per delivery; ends; a walk through the pages misses nothing |
| **On-boarding** (`lib/on_boarding/*`, `critical_chain_interaction_log`) | a row and a message per step | start, do a step, route to the next, retry | steps take effect once and in order |
| **Stake and mint** (`lib/stake_and_mint/*`) | same table | verify, approve, stake, settle | as above; no value is minted twice |
| **Airdrop** (`lib/airdrop_management/*`, `lib/allocate_airdrop/*`, `executables/rmq_subscribers/start_airdrop.js`) | `client_airdrop`, `client_airdrop_details`, properties of addresses | validate, select users, move the budget, allocate by pages, approve | what is allotted is covered; "never airdropped" means it |
| **Economy records** (`services/transaction_kind/*`, `services/client_users/*`, `services/token_management/*`, `services/on_boarding/*`, `lib/cache_management/*`) | kinds, users, tokens, salts in MySQL; memcached copies | add, edit, read, list, generate, set up | a kind has a price; a token has one reserve; stale copies go |
| **Configuration strategies** (`app/models/config_strategy.js`, `client_config_strategies.js`, `helpers/config_strategy/*`, `lib/on_boarding/assign_strategies.js`, `devops/*`) | strategies, links of clients, two caches, status file of a deployment | assign, add, activate, update, deploy | a client's strategies fit together; no address of a contract is lost |
| Model base, HTTP front, price oracle, wrappers, nonce fire brigade, migrations | rows, files | input and output, formatting | – |

`PROJECT.json` (`components`) has the whole list with its sources, and says
for each part whether it is modelled, and why not if it is not.

### 1.2 Interaction

1. `execute.js` inserts the row (`queued`), creates the log item
   (`processing`), publishes the message and answers; it marks the row
   `failed` when publishing seems to have failed.
2. A consumer takes the message; `TransferBt` reads the item through the
   cache, changes the row from `queued` to `processing` by compare-and-set,
   validates, sends, and writes first the row (`submitted`, `geth_down`, …)
   and then the item (`waiting_for_mining`, …).
3. Sending takes a nonce from the counter all processes share. A run that
   failed on the node side saves its raw transaction with the nonce, and the
   next run uses that nonce again.
4. `transaction_meta_observer` locks rows whose `next_action_at` has passed
   with an id of its own, selects them *by lock id* in a second statement, and
   hands them to the handler of their status: `queued_handler` fails them,
   `geth_down_handler` requeues and runs them, `submitted_handler` asks the
   nodes and sends the raw transaction again.
5. Scripts (by hand or from the gas monitor) tie workers of a client to
   processes. Users move to other queues, so the processes that stay or join
   stop until a marker sent behind the old work has come to the end of it.
6. The delegator cuts blocks into batches; a scanner locks rows by transaction
   hash (`submitted` and unlocked ones), sets them to `mined`, settles their
   items and releases them. What has no row of the platform's is entered as an
   external transfer and changes the settled balances.
7. The monitor of the workers' gas, the funding service, added workers and ST'
   transfers all spend a client's reserve; the monitor calls the scripts of 5
   for the workers it could or could not serve.
8. On-boarding and stake-and-mint are rows and messages: a consumer does a step
   and calls a router that inserts the rows of the next ones; the step that
   finds all others processed asks for the airdrop.
9. Requests of the API read kinds, tokens and users through memcached; a
   transfer is checked by the API against one copy and by the consumer
   against another.

### 1.3 What is hard

The processes share no memory: they meet in MySQL (atomic single statements,
no transaction over two), DynamoDB, memcached (atomic commands, copies set and
cleared without being awaited), RabbitMQ (at least once) and the chain. So the
hazards are pairs of steps with a window between them, replies that are lost
although the command was carried out, processes that die between two writes,
locks that expire or outlive their holder, and the order in which late writes
arrive. `PROJECT.json` (`hazards`) lists them at their lines with the
properties aimed at them, and says why where there is none.

## 2. Plan

| # | Module | Models | Composes |
|---|---|---|---|
| 1 | `NonceManager` (theorems in `WorkerAssociation_proofs`) | nonce counter, lock, sync, sending retries, nodes | – |
| 2 | `TransactionLifecycle`, `TransactionLifecycle_proofs` | one transfer from the API call to its settlement | abstracts 1 to "a fresh nonce, or the saved one" |
| 3 | `WorkerAssociation`, `WorkerAssociation_proofs` | association of processes with workers, commands, hold and release, restarts | – |
| 4 | `StepOrder`, `CriticalSteps`, `CriticalSteps_proofs` | on-boarding and stake-and-mint, what they promise and how | `CriticalSteps` implements `StepOrder` |
| 5 | `BlockScanner`, `BlockScanner_proofs` | delegator, batches, workers, external transfers, balances | its settlement of one row is the scanner of 2 |
| 6 | `Airdrop`, `Airdrop_proofs` | request, distribution, approvals | begins where 4 ends |
| 7 | `EconomyRecords` | kinds, users, tokens, their lists and caches | – |
| 8 | `TransferRequests`, `TransferRequests_proofs` | what a transfer is asked for and checked against | extends 7; an accepted transfer goes on in 2 |
| 9 | `ConfigStrategies`, `ConfigStrategies_proofs` | strategies, links, deployments | – |
| 10 | `Reserve`, `WorkerGas`, `StpTransfers`, `StPrime`, `StPrime_proofs` | the programs that spend a client's ST' | `StPrime` composes the two over `Reserve`; an association in `WorkerGas` is one run of 3 |

All of these are in place. Every invariant, every action property and the
refinement are proved; liveness is model-checked (section 5 says why). What could
be added, in this order: the fairness of 5 refined to a scanner that lags by
several blocks; the nonce helper's repair functions on top of 1.

Abstract specifications: for 1, a dispenser that hands out each number once (it
is refined within an epoch, and `UniqueWithinEpoch` says so); for 2, a transfer
that is accepted, sent at most once and settled (`DoubleTransferNeedsLoss` and
`CompleteNeverFails` are its two halves, and the conditions in them show where
the code departs from it); for 4, the partial order of the steps, `StepOrder`,
which is checked and proved as a refinement.

## 3. Modules

Operators with the comment "Fault seeded to test the properties" are variants
of the action after them with a plausible bug. They are in no next-state
relation; `PROJECT.json` (`mutants`) says which property rejects which.

Where a module has a constant `Cases`, a behaviour begins by choosing a case:
the rows there are, the requests that are made, and bounds on what may go wrong
in it. One run then covers instances of different shapes, each with its own
trouble, without the product of all troubles.

### 3.1 `NonceManager`

One address on one chain. `Caller` is a call of `sendTransaction`, in
whatever process. `cache` and `lock` are the two memcached keys; `pc`,
`nonce`, `waits`, `retries` are the call's own; `acc` and `reads` belong to a
running `_getNonceFromChainAndSetCache` (the maximum so far and the requests
without answer). `head` and `pool` describe the nodes, which are external:
blocks are imported one nonce at a time, pooled transactions are passed on.
`epoch`, `born`, `stable` are history: nothing reads them but properties.

| Action | Code |
|---|---|
| `Increment`, `IncrementFails` | `getNonce` and `_incrementNonce` |
| `AcquireLock`, `LockFails`, `ExpireLock` | `_acquireLock`, the TTL |
| `TimedOut`, `WaitElapses` | `wait` |
| `ReadMined`, `ReadPool`, `ReadFails`, `ReadHangs` | the two requests to each node (`nonce_helper.js`); the hang is the rejection inside an async promise executor |
| `SetCache`, `SyncFails` | the rest of `_getNonceFromChainAndSetCache` |
| `ReleaseLock` | `_releaseLock`, which deletes the key whoever created it |
| `SubmitAccepted`, `SubmitNodeDown`, `SubmitRejected` | `web3_eth/index.js` and `sign_raw_tx.js`, with the retry on other nodes |
| `Crash`, `EvictCache`, `ImportBlock`, `Gossip` | environment |

A command to memcached whose reply is lost may have been carried out: each
failing action has both outcomes.

### 3.2 `TransactionLifecycle`

One transfer; every statement of the code selects by uuid, id or lock, so rows
of other transfers do not meet it. `Worker` are the deliveries consumer
processes can have under way, `Observer` the observer processes. `meta`, `log`,
`copies`, `queue`/`owner` and `chain` are the shared state, `api`, `at`,
`nonce`, `raw`, `res`, `scanner` the actors'. `copies` holds every version of
the item that memcached may still return: sets and clears are not awaited, so
a late set can bring back any earlier version.

| Action | Code |
|---|---|
| `InsertMeta` … `MarkFailed`, `ApiFails` | `execute.js` |
| `Deliver`, `NeverAcked`, `Disconnect` | `execute_transaction.js` and RabbitMQ |
| `FetchLog`, `FetchFails`, `StartProcessing`, `NotStarted`, `ValidationFails` | the head of `TransferBt._execute` |
| `StepsFail`, `Pay` | `performTransactionSteps`, `sendAirdropPay` |
| `WriteMeta`, `WriteMetaFails`, `WriteLog` | `updateParentTransactionLog`, from the steps and from the catch |
| `Lock`, `Select`, `HandlerFails` | `transaction_meta_observer.js`, `acquireLock` |
| `FailLog`, `FailMeta` | `queued_handler.js` |
| `Requeue`, `ReleaseLock`, `ReleaseHangs` | `geth_down_handler.js` (whose run of `TransferBt` is the same `RunStep`) |
| `Found`, `NotFound`, `Resubmit` | `submitted_handler.js` |
| `ScanLock`, `ScanSettle`, `ScanRelease`, `ScanFails` | `for_tx_status_and_balance_sync.js` for one transaction |
| `Crash`, `ScannerCrash`, `Mine`, `Drop`, `Due` | environment |

Abstractions, and what they rest on:

- A nonce identifies a transaction: hash, raw transaction and chain entry of a
  run are the nonce it was signed with. A run takes a fresh one (`chain.next`)
  or the one saved in the item.
- `gethDown` stands for `geth_down` and `geth_out_of_sync`, which have the same
  handler; `error` for the statuses without one.
- `due` is `next_action_at` seen against the clock: not set, to come, passed.
  `Due` waits for database writes under way: the intervals are 60 s and
  more. It does not wait for the observers or for a run's other steps.
- A statement MySQL refuses was not carried out. A lost *reply* adds
  nothing where another behaviour has the same effect: `StartProcessing` then
  `ValidationFails`, `Lock` then `HandlerFails`, `Requeue` then
  `HandlerFails`, `ScanLock` then `ScannerCrash`. It is not covered
  for the row's last write and for the release of a lock.
- `lock_id`s of live processes differ. `Orphan` is the id of a process that
  died or of an iteration that is over: nobody releases by it.
- A failed write to DynamoDB is swallowed by every caller (`UpdateItem`).
- Results of validation, gas refill and approval are nondeterministic.

### 3.3 `WorkerAssociation`

The protocol by which processes change hands. `rows` is
`client_worker_managed_address_ids` (process and status), `script` the runs of
the two scripts with what they still have to write and publish, `txQueue` and
`cmdQueue` the two queues of every process, `release` how far the first
command of `cmdQueue` has come, `proc` and `consuming` the process.

| Action | Code |
|---|---|
| `Associate`, `ValidateAllWorkers`, `MarkBlockingStatus`, `AssociateAvailableWorker`, `SendGoOnHold`, `SendBlockingMessage` | the steps of `associate_worker.js` |
| `Deassociate`, `GetAssociationIds`, `RemoveProcessWorkerAssociation`, `SendCommandMsg`, `GetSiblings`, `SendHoldToSiblings` | the steps of `deassociate_worker.js`, with the pairing of markers and processes by `Object.keys` |
| `MarkRead` … `MarkSend`, `HoldRead` … `HoldWrite`, `ReleaseRead` … `ReleaseWrite` | the three commands of `command_message_processor.js`, one action per database statement or published message |
| `HoldStop`, `ReleaseStart` | `commandResponseActions` of `execute_transaction.js` |
| `InitHolds`, `InitSiblings`, `InitRelease` | `init_process.js` |
| `Deliver`, `Stop`, `Crash`, `ScriptDies`, `CommandFails`, `ReleaseFails` | RabbitMQ, signals, failures |

Abstractions: transactions are not kept in the queues, because all they do there
is delay what is behind them, and any message may be delayed; inactive rows
take no part; every free row has gas and the processes' details are valid (the
scripts' other checks refuse to start); the cached routing list is left out.
The reads of a script before its first write are one step where nothing can
change in between: all rows of the client are active then, and only another
script could move them. `AssociationAssumption` has a process with at most one
worker of a client at first, as `associate_process_id_to_workers` leaves
it. A select without ORDER BY answers in the order of ids (`ById`, by rank).

### 3.4 `StepOrder`, `CriticalSteps`

`StepOrder` is the promise: a step takes effect (on a chain, or on a balance)
only after those it builds on. `CriticalSteps` is the machinery: `row` has the
status of each step's row in `critical_chain_interaction_logs`, whose unique
keys make an insertion of a second one fail, `queue` the messages, `pc` where
the consumer of each job is. Many updates and insertions of the code are not
awaited; they are in `inflight` until `Land` takes them to the database in any
order, or `Crash` loses those of the process that died and delivers its message
again. `effects` counts how often each step took effect.

| Action | Code |
|---|---|
| `StartOnBoarding`, `Propose…` | `on_boarding/start.js`, `propose_bt.js`, `on_boarding/router.js` |
| `DeployBegins` … `DeployQueues`, `InsertSetops`, `SendSetops` | `deploy_airdrop.js`, the router's three next steps |
| `SetWorkers…`, `SetPriceOracle…`, `SetAcceptedMargin…` | the three steps of that name |
| `StartStakeAndMint`, `Verify…`, `Approve…`, `Stake…` | `stake_and_mint/*`, with the router |
| `Minted`, `ClaimFailed`, `ClaimBegins`, `Settle` … `ClaimProcessed` | the intercomm's events and the consumers `factory.js` has for them |
| `CheckSteps`, `AllocateAirdrop` | `allocate_airdrop/router.js` |

`Order == INSTANCE StepOrder WITH effective <- {s : effects[s] > 0}, …` is the
refinement mapping. The set-up of the token before the flow is in
`EconomyRecords`; contracts, amounts and receipts are results of calls.

### 3.5 `BlockScanner`

A delegator and any number of workers. `file` is the last block on disk, `last`
in memory, `parts` the batches of the current block that are not published;
`queue` is a bag. A worker's `job` has the lock id it made
(`parseFloat(prefix + '.' + process_id)`, so that ids of processes 1 and 10
meet: `DropZeros`), what it found known and unknown, and the clients whose data
it has still to enter. `meta`, `item`, `paid`, `entered`, `balance` are the
platform's records; `handed`, `dropped`, `failures`, `deaths` are history.

| Action | Code |
|---|---|
| `Begins`, `PicksBlock`, `Publishes`, `WritesFile`, `NoBlock`, `PublishFails`, `GetsSignal`, `Exits`, `Dies`, `Restarts` | the loop of `transaction_delegator.js`, its catches, its signal and the supervisor |
| `AcquiresLock`, `Receipts`, `Pays` | lock by transaction hash, receipts and their events, `postAirdropPay` |
| `InsertsData`, `SettlesBalances`, `UpdatesLogs`, `ReleasesLock` | the data of a client, its balances, the log items, the lock |
| `LockFails`, `ReleaseFails` | an UPDATE of `_acquireLock` or `_releaseLock` that is refused, or the first one's lost answer: `perform` is rejected, and the consumer acknowledges |
| `WorkerDies`, `RowSubmitted` | a death; the row of a transaction the scanner meets before it is written |

A job that gives up (`GivesUp`: an exception inside `processTransactions`) still
releases its lock. It gives up after a failed read or payment, when a client's
shards are missing, which is noticed at that client after others were served
(`HasShards`), and after a balance update that fails with an error that is not
the platform's own: `catchHandlingFunction` then names an undeclared
`errorConfig` and throws. Other failed balance updates are reported and left.
`dropped` has the transactions of jobs that gave up and of batches whose lock
failed.

Abstractions: one Transfer event per transaction; a worker takes one message
at a time; of the updates of a client's balances one at most fails, and those
under way when a job gives up land before its lock is released; benchmark files
are left out. The scanner sets a row to `mined` in the statement that locks it,
as the code does.

### 3.6 `Airdrop`

Per airdrop: `status` (its row), `critical` (its row among the steps), `pc`,
`offset`, `detail` (its row per user), `granting`; per client: `granted`,
`approved` (properties of addresses), `reserve`, `budget`. `Validate` with
`InsertDb` is a request for one (`start_airdrop.js`), `KitDrop` one from the
kit, checked by `kit_drop.js` first; `Start`, `NoConfig`, `ChecksReserve`,
`CreatesDetails`, `StartsTokenTransfer`, `StartsContractApprove`, `Allocates`,
`MarksComplete`, `MarksProcessed`, `ApprovesReserve` are the steps of
`distribute_tokens/*` and of their consumer, `Failed`, `Exception` their ends; `ReadsRecords`, `ApprovesUsers` are
`user_airdrop_contract_approve.js` with `approve_contract.js`. `Dies` is a death
of the consumer; the message is delivered again. The page of pending records
is read with an offset that grows although the records of earlier pages have
left the query: `Allocates` does the same. `Page` takes records by their rank
among those that match. Users and amounts of a case are any (`CasesAssumption`).

### 3.7 `EconomyRecords`

A case gives each of a few requests an operation, and `pc`, `read`, `mine`,
`walk` are where it stands. `cache` has one entry or none per key of seven
kinds; `pending` has the sets, deletes and name updates nobody waits for, which
land one by one (`SetLands`, `DelLands`, `NameLands`), expire (`Expire`), or are
lost (`Crash`). `Fetch`, `FetchMissing`, `Served` are `cache_management/base.js`
with its subclasses; `AddKindChecks` … `EditKind` the services
`transaction_kind/add_new.js` and `edit.js` with the model's validations (a kind is
written as the columns its request changes, computed from a row read before);
`EditUser`, `InsertAddress`, `CreateDummyUsers`, `FetchSalt`, `InsertSalt`,
`SaveKey` generation and renaming of users; `ListKinds`, `ListUsers` the lists,
page by page; `SetupChecks` … `CreateWorkers` `setup_token.js`; `ValidateToken`,
`EditToken` the edit of a token. Users, kinds and tokens are active; encryption
is the id of the salt. Ids are given by the table in turn (`NextId`), and who
asks for one row takes the oldest (`First`). Bounds: keys have ids among `Ids`,
and a request has one set in flight. `RecordsAssumption` has the rows of a case
as earlier requests leave them: numbered, a kind's amount in the column of its
currency, a commission between users only, and that lists have a limit.

A page of a list is any set of rows that may come at its offset: in the order of
a name, which is not unique and which nothing breaks ties of, that is more than
one (`FirstOf`, `Pages`). `walk` has, beside the number of the next page, a
history: the places (id and sort key) of the rows as the first page and as the
last was read, what was shown, and whether a row has left its place since.

### 3.8 `TransferRequests`

Extends 3.7 by transfers. `SimulateToken`, `SimulateKinds`, `Simulate` are
`simulate_random_transaction.js` (whose errors are resolved and ignored, and
which sends leftovers when no sender has enough); `FetchToken`,
`FetchSecureToken`, `FetchKind`, `ValidateAction`, `CheckParams`, `CheckUsers`,
`Accept` are the checks of `execute.js` and again of `transfer_bt.js`, from the
same caches, at another time (`Parties` fills in the company's end, `Admits` is
the check of users and parties); `Pay` is `sendAirdropPay`; `AdmitStp` is
`stp_transfer/execute.js`. Balances are a nondeterministic member of `Balances`
or 0, a price of the token is 1, a commission is a number, the ages of cache
entries are those a case names. A user is read from its cache and table
in one step. What holds of the code as it is: the currency of an arbitrary
amount is not stored with the transfer, so that a kind edited from USD to
tokens in between pays the same number of tokens.

### 3.9 `ConfigStrategies`

`strategies` and `links` are the two tables, sets of rows; `assoc` is the shared
copy of a client's links, `local` the copies of strategies in the memory of each process,
`tasks` the status file of a deployment. `AskLinks`, `ReadLinks`,
`ServeStrategies`, `ServeKind` are `config_strategy/by_client_id.js` with its
caches; `ReadKinds`, `ChooseGroup`, `ChooseStrategy`, `InsertLinks`
`assign_strategies.js`; `Associate` the script for shared RabbitMQ; `CheckKind`
… `WriteStrategy` adding, activating and updating in `by_group_id.js`,
`config_strategy.js` and the seeding scripts; `PopulateShardNames`,
`CreateShard` the shard scripts; `NextTask` … `Mark` `devops/contract_deploy.js`
with its steps; `Lands` an effect nobody waited for, `Crash` and `RunAgain` a
death and the operator. `MissingKinds` says what the `splice` of every kind that
is there leaves: what the client lacks, less as many of the last kinds as there
are links of a kind met before. `Names` are the contracts and identifiers a row
may have. Left out: encryption, the check of a kind's keys, a custom map of
strategies, the price oracle's task.

What operators see to and the code does not is in `StrategiesAssumption`, part
by part: a kind has one row in a group, and an operator adds it once
(`OneRowEach`: two scripts that add the same row both pass `addForKind`'s check);
a group is active all the time, clients fit at first, and where groups come and
go a client that has none yet is given one by one assignment at a time
(`ClientsFit`: with no active group left, an assignment asks for any group);
contracts of a chain are deployed by one operator, whose scripts come one after
another and in processes that have no older copy of the row (`WritersApart`: a
copy in the memory of another process lives for a day); and the status file is
that of one chain (`OneStatusFile`). Within this, requests of clients overlap
freely.

### 3.10 `Reserve`, `WorkerGas`, `StpTransfers`, `StPrime`

`Reserve` is the ST' of each client's reserve. `WorkerGas` and `StpTransfers`
extend it, and `StPrime` runs both, one step of either at a time, so that each
spends what the other counted on.

`WorkerGas`: `row` (status, process, lock, whether its time is due, property
bits), `bal`, `cron`, `inst` (the memory of each process started for the one
cron), `fund`, `adds`, `copy` (bits a consumer has read and will write back).

| Action | Code |
|---|---|
| `CanStart`, `MarkRunning`, `Signal`, `StopProcess`, `Exit`, `OperatorResets` | `cron_processes_handler.js`, `cron_processes.js`, `sigint_handler.js` |
| `RunTask`, `AcquireLock`, `NextBatch`, `ServeClient`, `GrantTo`, `MarkGas`, `Associate`, `Dissociate`, `Release`, `PassEnds`, `PassFails` | `lockables/base.js` and `monitor_workers_gas.js` in their order |
| `Crash`, `TimeDue`, `Settle`, `Use` | death, time, the end of what 3.3 models, gas spent |
| `ReadBits`, `UnsetGas` | `transfer_bt.js`, when a transfer lacks gas |
| `FundClient`, `CheckReserve`, `FundWorker`, `FundHolder` | `fund_client_address.js`, `by_reserve/st_prime.js` |
| `GenerateWorkers`, `SetWorkers` | `add_more_workers.js` |

An association is one step here; clients of a batch are served one after
another.

`StpTransfers`: `Create`, the consumer (`Deliver`, `FetchLog`, `Pay`,
`MarkFailed`, `InsertMeta`, `WriteWaiting`, `Ack`, `Redeliver`), the scanner
(`Scan`, `Complete`, `ReleaseMeta`), reads (`Get`, `GetDetails`, `Expire`) and
lists (`BeginWalk`, `Page`, `EndWalk`, `Index`). An item is cached under the
client's key, which writers clear, and under that of a client that is
undefined, which `list.js:278` and `transaction/get.js:101` use and nobody
clears. The consumer reads the item through the first and fills its entry.
The stream is followed while a list is still to be read, and
`GetDetails` asks for all items (both bounds). `TokenMoves` stands for 3.2.

## 4. Runs

| Run | Instance | Shows |
|---|---|---|
| `nonce_two_callers` | 2 callers, 2 nodes, 1 wait, 1 retry | `UniqueWithinEpoch`: from one cached value nobody gets the nonce of another, with lock expiry, foreign releases, evictions and lost replies. `SyncSeesStable`: a sync never hands out a nonce an answering node has held all the while; the definition of `stable` says what a sync can miss: a transaction mined between the two answers of a node |
| `nonce_liveness` | 2 callers, 1 node | `AnsweredOrHung`: every call ends, unless its txpool request is stuck |
| `transfer` | 2 deliveries, 1 observer, scanner, nonces 1 and 2 | `CompleteNeverFails` over all failures; `ExclusiveRun` with the message delivered twice |
| `transfer_double` | 1 consumer, 1 observer, one more nonce, no scanner | `DoubleTransferNeedsLoss`: one transfer is sent twice only after a loss |
| `transfer_liveness` | 1 consumer, 2 observers | `QueuedSettles`: a queued row is run or failed, unless its lock is lost |
| `workers` | 3 rows, 3 processes (2 at work), 1 script, 1 crash, 1 loss | `BlockerHasMarker`, `HeldIsStopped`; under fairness `RowsSettle`, `QueuesConsumed` |
| `on_boarding` | all branches; late statuses; a death or a message lost; both flows | `StepsInOrder` (the refinement), `RepeatNeedsCrash`, `NothingForgotten`: nothing stays queued and the last step asks for the airdrop |
| `block_scan` | 10 chains of 1 to 3 blocks, 2 workers, 1 or 2 nodes, the troubles of each its own | `NothingSkipped`, `PaidTwiceNeedsDeath`, `KnownIsComplete`, `BalancesFollowDeliveries`; `LocksLeftByFailures`: who may leave a row locked without having died; under fairness `ScansTheChain` |
| `airdrop` | 2 airdrops, 3 users, pages of 2 or 4, refused requests, 1 failure, 1 death | `AllotmentsBacked`, `NeverMeansOnce`; under fairness `ServedInTheEnd` |
| `records` | cases of three requests over kinds, users, tokens, transfers | `PricedInItsCurrency`, `TransfersAreWhole`, `OneReserve`, `WalkMissesNothing`; under fairness `StaleEntriesGo` |
| `strategies` | cases of three or four requests, 2 clients, 2 groups, 6 strategies, deaths | `OneChain`, `WholeOrNothing`, `SuccessIsRecorded`, `AddressesStay` |
| `st_prime` | 3 worker rows of 2 clients, 2 monitors, 2 ST' and 2 token transfers, 1 failure | `LockHasPass`, `OneMonitorPays`, `PaidOncePerDelivery`, `WalkShowsAll`; under fairness `LowIsServed`, `TransferEnds` |

### 4.1 Bounds

- `MaxWaits`, `MaxRetries` are limits of the code (25, 10), smaller. One round
  is enough to re-enter `getNonce` with everything changed; the theorems hold for
  every value.
- `Caller`: two callers can overtake each other at every await; the theorem
  covers any number. Nonces and epochs need no bound: each caller takes
  part once.
- `MaxRetry = 2` for ten: two rounds of requeueing show a second run that finds
  the first one's traces. `RequeueForever` and the counters are reached.
- `MaxNonce` bounds fresh nonces: `FirstNonce = 1`, `MaxNonce = 2` give one
  fresh nonce, `MaxNonce = 3` two, the fewest that make two transfers.
  Nonces of other transfers in between change nothing, since only equality of
  nonces matters. `FirstNonce = 0` is left out: a saved nonce 0 is falsy
  (`transfer_bt.js:876`), so that a retry takes a fresh nonce.
- `MaxScans` bounds how many mined transactions are scanned.
- `OnTime` (`~early`) and `NothingLost` (`~lost /\ ~early`) are CONSTRAINTs.
  Both history variables stay TRUE once they are, and every property checked
  under a constraint says nothing of a step from a state that breaks it, so
  cutting those states off loses no violation.
- `MaxRuns`, `MaxCrashes`, `MaxLost` of `WorkerAssociation`: one change of a
  client's processes meets one crash and one loss at any point. Three processes
  let one leave or join while two stay, so that siblings, several markers and
  their order matter. A second script refutes `RowsSettle` and `HeldIsStopped`
  (4.3). `Script` is one script at a time, as operators run them.
- `CriticalSteps`: `crashes`, `losses` of a case bound deaths and messages not
  published, `mortal` and `slow` say of which jobs and steps. One of each is the
  trouble every property names; the theorems hold for any.
- `BlockScanner`: two blocks let a batch of the first be under way while the
  second is cut; `min`, `max` of 1 to 3 for 10 and 60 cut a block in one, two or
  three; two workers meet in one row; processes 1 and 10 share lock ids. One
  failure of any kind, three of publishing, locking and releasing together, one
  stop, or two deaths per case; clients without known shards are one in some
  cases and two, after one with shards, in another.
- `Airdrop`: a page of two with three users is the smallest with a second page
  that begins beyond rows which have left the query.
- `EconomyRecords`, `TransferRequests`, `ConfigStrategies`: two writers and one
  reader meet in every order; pages have one row; `ages` names the kinds of
  keys a case reads, so that others do not expire in vain. Four kinds of
  strategies stand for fifteen; `Ids` number the rows of a
  case and those it adds, and `Names` are what its tasks record.
- `StPrime`: `RowLimit = 2`, `BatchSize = 1`, `MaxRuns = 2`, `Grant = 1` for 20,
  10, 10 and the platform's amount, with 3 rows of 2 clients: a pass meets more
  rows than it may lock, more clients than a batch and a reserve that covers
  too few. `MaxFaults = 1` bounds failures and so payments per transfer; `left`
  and `calls` of a case bound processes, signals, uses, fundings, walks, reads.
- Deadlock is not checked where requests, callers or processes end; it is in
  `workers`, where processes can always be stopped and started.

### 4.2 Fairness

- `WF(GetNonceStep(c))`: the event loop runs the continuations of a live
  call, and a request is answered, refused or timed out. A crash ends the
  obligation. Nothing is assumed of the TTL, evictions, nodes or sending.
- `WF(RunStep(e))`, `WF(HandlerStep(o))`: the same for a run and for a
  handler; an observer process comes back every two minutes. `SF(Due)`: clocks
  advance, while writes may disable `Due` again and again. Nothing is assumed of
  the API call, the broker, the scanner, crashes or the chain.
- `WorkerAssociation`: `WF` of a script's next step, of the commands a process
  has, of starting and of `Stop`, since a process ends itself every 45 minutes
  and its cron starts it again. `SF(Deliver(p))`: those ends are far apart, so
  a process that is started again and again is given its messages in between.
  Without `Stop`, `RowsSettle` is false (4.3). Crashes, losses and the start of
  a script are not fair.
- `BlockScanner`: `WF` of the delegator, whose supervisor starts it again, and
  of each worker. Failures, signals, deaths are not fair.
- `Airdrop`: `WF` of a distribution and of an approval, which are consumers'
  work. Requests of the API need not be made.
- `TransferRequests`: `WF` of every request's next step, of every effect that
  was not awaited, and of the expiry of an entry: memcached's time to live.
- `StPrime`: `WF` of a monitor (its cron starts it again and again while its row
  is stopped), of time for a row and of what 3.3 settles, of the consumer and of
  the scanner. Crashes, signals, failures, transfers, scripts are not fair, and
  a cron whose row is left `running` is not reset by anybody: `LowIsServed` has
  `CronIsDown` for it.

### 4.3 What the checks found

Transfers and nonces:

- Two runs of a transfer do overlap: an observer locks a due row, a run changes
  it to `geth_down` before the observer's select, and the observer requeues it
  at once, before that run has written the item: it acts on a row that is not
  due. From there a stale nonce, two transfers and a completed item that is
  failed later are reachable. The history variable `early` marks it;
  `ExclusiveRun` says it is the only way.
- A transfer can be sent twice when the reply of a node is lost, or when
  a run dies (or DynamoDB refuses) between the row and the item: the item then
  has the raw transaction of an earlier attempt, which `submitted_handler`
  sends, and it releases the row of another hash, so the lock is never released.
- A stale copy alone, a redelivered message alone and a requeued row alone never
  make two transfers (`DoubleTransferNeedsLoss`).
- The row of a process that dies with a lock stays locked: observers pass it
  over and the scanner takes its transaction for an unknown one, as it does with
  any transaction an observer has locked. A row locked as it turns to
  `processing` finds no handler and keeps its lock.
- The item may go back from `complete` to `waiting_for_mining`: the run
  that sent it writes after the scanner. It never goes to `failed`.
- The API call's `_markFailedInTransactionMeta` and `queued_handler` compare no
  status, so they may fail a row that a consumer is running.
- `getNonce` waits beyond its 50 s when a txpool request never settles
  (`nonce_helper.js:429` rejects inside an async promise executor).

Workers and gas:

- A worker may go on hold after the last blocker has sent its releases; its
  process stays stopped until its next start. A crash between a blocker's
  restoring and its releases has the same effect, since the marker delivered
  again finds nothing to restore.
- Markers pair the i-th key of an object, in numeric order, with the i-th process
  the operator named (`deassociate_worker.js:248`): with several processes a
  marker may go to the queue of another worker of the client. No property tells
  the queues apart.
- A marker or a script that is lost leaves a blocker for ever, and with it every
  sibling that is held: no process looks for old blockers.
- With a second script, a deassociated worker that still blocks is not seen by
  the next association: its process can be stopped with the marker in its own
  queue, and nobody can release either.
- A release that MySQL refuses twice leaves a promise that never settles, and
  the observer waits for it.
- The gas monitor keeps the workers found low from one batch to the next and
  pays those of earlier batches again (`monitor_workers_gas.js:487`; hence the
  exception in `OneMonitorPays`); the result of `reserveBalance.minus` is
  dropped; a failed pass with a signal pending never ends; an ordinary grant
  without a worker to associate ends the pass with its rows locked for ever.
  Workers taken off keep their gas bit; added ones lack the bit of their first
  grant, and the monitor passes them over until the funding service pays them.

Steps, blocks, airdrops:

- Effects repeat only by a death, and at most once for each; the airdrop is
  asked for once, though it may be forgotten when the status of another step is
  still in flight (`overtaken`).
- A batch published twice enters its transactions as external the second time
  and changes balances again. Lock ids of processes whose numbers differ by
  zeros at the end alone are the same number ('1.1' and '1.10'), and a row is
  then released by the other.
- An UPDATE that locks or releases rows is awaited outside any `try`, and the
  consumer acknowledges whatever rejects. A refused release leaves the rows of
  the batch locked, without a death and for ever; a refused lock leaves the
  batch unprocessed, and its rows locked if only the answer was lost.
- The file is damaged by a death while it is written, and the next start fails.
- Pages of pending airdrop records are read with an offset over a query that
  shrinks: records are skipped, and the airdrop is marked complete all the same.
  `validateIncompleteRequests` never fires its query, so two airdrops overlap.

Records, lists, strategies:

- The entry of an old name is deleted by no edit and lives until its time is up.
- A list by offset shows all rows that stay only if none has the second of
  creation of another and nothing ceases to match; the definition of
  `WalkShowsAll` states this. A list by name loses a row when one that was shown
  is renamed so that it comes later, or when it is itself renamed so that it
  comes earlier; and of rows with one name a row may be shown twice and another
  never. `WalkMissesNothing` says that
  there is no other way to lose one.
- A late "waiting" of a consumer covers the scanner's "complete"; the consumer
  of ST' transfers does not look at the item's status, and pays again when its
  message is delivered again.
- Read-only observations: `observe_balance_of_donors.js:67` and
  `for_tx_status_and_balance_sync.js:194` compare an array with 0;
  `clear_nonce_cache.js` deletes keys whose parts are in another order than the
  nonce manager's, and so clears nothing; rows of ST' transfers have no
  `next_action_at`, and no observer finds them.

## 5. Proofs

TLAPS proves the theorems below for every value of the constants that meets the
named assumptions: `NonceAssumption`, `LifecycleAssumption`,
`AssociationAssumption`, `CasesAssumption` (of `CriticalSteps`, `BlockScanner`
and `Airdrop`), `RecordsAssumption`, `AsksAssumption`, `ReserveAssumption`,
`WorkerGasAssumption`, `StpAssumption`, `StPrimeAssumption`, `StrategiesAssumption` (3.9). They say that
limits and values are naturals, that sets of rows, users and processes are finite,
that markers are no processes, and that a case is one the program can be in. TLC
evaluates them on every run. Each proof is that of an inductive invariant, one
step per action; the property follows from it.

### 5.1 Nonces

The theorems are the last part of `WorkerAssociation_proofs`: association gives
the address of a worker to one process, and the nonce manager gives the nonces of
that address, to whoever sends for it.

- `NonceTypeCorrect`, `NoncesUnique`. `UniqueWithinEpoch` is not inductive: it
  does not say where the counter is. `CounterAhead` adds that no nonce is
  born in a later epoch than the present one, and that the counter, while
  present, is at least every nonce born in the present one. A missing counter
  comes back only by a sync, which opens a new epoch.
- `SyncSound`. `StableCounted` says that a stable nonce of node `n` is in the
  pool of `n` or mined there, and that the maximum exceeds it once the request
  that shows it has been answered. A pooled nonce that is mined leaves
  `stable`, so one of the two answers counts it.

### 5.2 One transfer

The four invariants build on each other: `TypeInv`, `RunInv`, `SettleInv`,
`PayInv`. What each adds holds as long as no observer took a row before its
time (`~early`), the last one as long as nothing was lost besides.

- `TypeCorrect`, `SubmittedHasHash`: a row in `submitted` has its hash. For the
  second: the run about to write `submitted` holds a nonce. It is proved alone;
  no run checks it.
- `RunsExclusive`. Two runs exclude each other not by one lock but by the row's
  status: compare-and-set needs `queued`, and a row comes back to `queued` only
  through `Requeue`. `RunFacts` says why the earlier run is over by then: an
  observer that is not idle has the row's lock (`LockHeld`); the row of an
  executing run is not `queued`, and not in a `geth_down` that an observer could
  take (`RowOfRun`); an observer about to requeue has found no run executing
  (`Ready`); an executing run is alone (`Alone`); and the row is not locked
  before it exists (`NotInserted`).
- `CompleteStays`. `SettleFacts`: while the row is `submitted` a run that is not
  over has only to write its success, and the row is not due (`Submitted`); so
  an observer that asks for the transaction meets no run (`Checked`); and from
  the scanner's lock on no observer is at work and the row does not come back
  (`Sealed`).
- `DoublesNeedLoss`. `PayFacts`: once a node has taken a transaction no run pays
  any more and the row cannot come back to `queued` (`Once`); the run that paid
  knows what it sent (`Paid`); and before an observer can resubmit what the item
  has, the item has that very transaction (`Logged`).

### 5.3 Processes and workers

- `BlockersHaveMarkers` assumes what operators do: one script at a time
  (`Script = {s0}`), any number of them, one after another. `BlockInv` says that
  a process has one worker of a client (`OneRow`) and, by where a script is,
  what it knows (`Phase`): the rows and processes it is about to join are still
  free, the client has no blocker as it reads process ids, and the markers it
  will send are those of the rows it has made blockers. A marker restores its
  row before it is gone, and is back in the queue after a crash.
- `HeldProcessesStop`: for the first run of a script, with nothing lost, as the
  property says. `HoldInv` adds to `BlockInv` that a row nothing has been sent
  for is quiet (`NotYet`), that the run is about one client (`OneClient`), that
  a command is at the process of its row and the one to hold only once
  (`Commands`), that a process with a held row has stopped or has the
  cancellation as its next step (`Held`), and that a release which has begun is
  not overtaken by a hold (`Released`).

### 5.4 Steps, blocks, airdrops

- `ImplementsStepOrder`: `Spec => StepsInOrder`, that is `Spec => Order!Spec`.
  `OrderInv` says that what waits for a consumer or is with it builds on steps
  that are done (`BegunInv`), what a consumer has done by where it is
  (`PassedInv`), and the same of rows in flight and of stakes being minted
  (`FlightInv`). Then every step of `CriticalSteps` is `Order!Effect` of one
  step, or leaves flow and effects alone.
- `RepeatsNeedCrashes`: `OftenInv` counts. For each job what waits for its
  consumer, is with it before its effect, and has taken effect adds up to at
  most one for its row and one for every death; for stakes the claims that
  follow from what was minted are in the sum.
- `NoStepForgotten`: `ForgetInv` adds, while no consumer has died: a step whose
  predecessor has yet to ask for it has no row, also none on its way
  (`FreshInv`), so that asking inserts one; a row that is queued has a message,
  a consumer, an answer in flight, or its message was never published
  (`AwaitedInv`); and when all are settled and the airdrop has not been asked
  for, one consumer is still to look (`LastInv`), which is the one that settled
  last.
- `LocksKeepPaymentsApart`. While nobody has died and lock ids differ, `PayInv`
  has: the lock of a job is one only its process gives out (`JobLocks`); a row
  that is not mined has been neither locked nor paid for, and a lock belongs to
  a job (`RowLocks`); until a job settles its payments nobody has (`NotYetPaid`).
- `ScanSkipsNothing`: `SkipInv` says it of the number in memory as well as of
  that in the file, and of the block being published but for `parts`.
- `OwnTransfersComplete`: `KnowInv` adds to `PayInv` that the row of a transfer
  is free until it is delivered, and that the one job it is delivered to has it
  locked and so never among the unknown ones (`Seen`); that job has it until it
  completes the item, gives up or its update fails (`Kept`). A delivery whose
  lock fails has no job, and its transactions are dropped at once.
- `LocksAreLeftByFailures`: `LeftInv` says it at every moment of the locks no
  job has (`LeftLocks`): there are at most as many as locks and releases that
  failed, and each row with one was dropped or a release failed. That a new
  job's lock is none of those left is from `RowLocks` of `PayInv`: a process
  that has not died numbers its locks upwards.
- `BalancesAreRight`: `BalanceInv` says of the balances at every moment what
  the property says of them at rest: of every transfer, the times it has been
  settled are those it was delivered, less the one the platform made itself, less
  the jobs that still have it to settle (`Settled`, `Owned`, `Holders`), and a
  balance is the sum of what has been settled. A job settles a client's transfers
  in one step, so the step adds one sum to another. Sums are
  `SumFunctionOnSet`, a fold: that the sum over a finite set is the sum without
  one member and that member, and that sums add up, is proved by a smallest
  counterexample among the finite sets, since induction itself is out of reach.
- `AllotmentsAreBacked`, `NeverAirdroppedOnce`: both from `AirdropInv`. `Local`
  says of an airdrop by where it is that its tokens are not moved yet, or were
  moved once, for all it had entered by then (the amount times their number,
  which is where the proof needs arithmetic beyond the provers' linear one and a
  lemma of its own). While nothing has failed, `Steady` says that whoever was
  allotted has the property or is about to be given it, and `Apart` that of two
  airdrops not under way together one was over before the other chose its users.

### 5.5 Records and transfers

- `KindsArePriced`, `TransfersStayWhole`, `ReserveIsShared`: all from
  `RequestsInv`, over `EconomyRecords` and `TransferRequests` together. Tables
  are numbered and their rows well formed (`KindsInv`, `TokensInv`); what the
  cache has, or is to be given, of a name is one well-formed row that may be old
  (`CacheInv`, `Waiting`). By where a request is: an edit has a row that is
  still in the table by its id, with a commission that suits it (`Adding`,
  `Editing`); a token that is written back has the reserve it has in the table
  (`EditingToken`), and a set-up the reserve of the oldest token
  (`SettingUp`); a transfer has one token, one kind, and from the checks on what
  that kind leaves open and the right parties (`Transferring`), which
  is the same kind that it is paid by. `ReserveIsShared` is about cases whose
  set-ups come one after another (`case.sequential`, kept by `Sequential`).
- `WalksMissNothing`: `ListsInv` adds to `RequestsInv` that rows can be sorted
  (`Sortable`, also by a name that an edit has read: `NamesRead`), and that a row
  which is yet to be shown, and not tied, has at least as many rows before it as
  the offset of the next page (`Walked`). The lemma for it is `PagePasses`: if a
  page does not show a row which had as many before it as the offset, then the
  rows of the page are before it too, and the page is not the last.

### 5.6 ST'

- `LocksHavePasses`, `OneMonitorAtATime`: both follow from
  `GasInv == TypeInv /\ PassInv`. `PassInv` says of every process of the cron
  that a row with its lock is of a client it serves or has yet to serve, that
  the workers it has found low are of clients taken up, and that they are
  locked by it for as long as their batch lasts. Two monitors that pay one
  worker would both have its lock, unless the worker is left from an earlier
  batch of one of them. Of all this, `StpTransfers` touches the reserve alone.
- `PaymentsNeedDeliveries`: `PaidInv` counts, for a transfer, its payments, its
  messages and the consumers that have it and have yet to pay: together at
  most one, and one more for every call that failed.
- `WalksShowAll`: `WalkInv` says that a record which a walk has yet to show has
  at least as many records ahead of it as the pages so far had. New records
  come behind it, or push it back, and an offset never passes it.

### 5.7 Strategies

All four follow from `ScriptsInv` with one more invariant each. `ScriptsInv` is
what is true of rows, links and copies: ids, kinds and groups of rows stay, and
there is one row for each kind and group (`RowsInv`, `AddInv`); who has begun did
so in its turn (`TurnsInv`); what is known of a client's links is a part of them
that has those of the beginning (`LinksInv`); what a process remembers is
one version of a row that is there (`MemoryInv`).

- `AddressesKept`: a script writes a whole row from what it has read, so it must
  have read it as it is. While a script has yet to write, no copy in its
  process differs from the row (`FreshInv`, from `WritersApart`), and from its
  read to its write it holds all addresses of the row and the one it adds
  (`WritesInv`).
- `StatusIsTrue`: `DeployInv` says what is recorded by where a deployment is: a
  task that records an address is marked only when the row has it, by the process
  that wrote it or found it there, and `AddressesKept` has it stay.
- `ClientsHaveOneChain`: `GroupInv` says that all groups of a client are one, those
  of its links, of the links about to be inserted, and of every assignment that
  has settled on one. An assignment that reads old links settles on the same
  group as one that reads all of them: if the client had a group at first, every
  copy of its links has it; if it had none and groups stay, the choice goes by
  the client's number among groups that are always the same (`GivenInv`,
  `SteadyInv`); if groups come and go, its assignments do not overlap
  (`TiedInv`). An active group is always left (`ActiveInv`). One row for each kind
  and group then makes it one strategy of each kind (`ChainIsOne`).
- `ClientsAreWhole`: since a client has one link of a kind, the `splice` cuts off
  nothing (`NothingIsCutOff`), the missing kinds are what it lacks, and an
  assignment has in sight all kinds until it inserts them at once (`WholeInv`).

That the pick by number is a member of the set picked from (`Ranks`) is a
counting argument over finite sets.

### 5.8 Only model-checked

- The liveness properties (`AnsweredOrHung`, `QueuedSettles`, `RowsSettle`,
  `QueuesConsumed`, `ScansTheChain`, `ServedInTheEnd`, `StaleEntriesGo`,
  `LowIsServed`, `TransferEnds`): beyond this prover, as is all with ENABLED.
- What a recursive function computes for every input, as `DropZeros` of
  `BlockScanner`: the proofs use no more of it than that two processes may have
  one value, which is the condition `SharedLockIds`.

No module declares a RECURSIVE operator.

## 6. Not modelled

Listed in `PROJECT.json` with reasons:

- Routing, parameter checks and formatting, the query builder: no state of
  their own. Wrappers of geth, RabbitMQ, memcached, AWS and exchanges: external,
  seen through their callers. Logging.
- The price oracle's cron, the scripts that fund the platform's own addresses
  (`by_utility_chain_owner`), the archive of old rows, one-time migrations, the
  start of services, the nonce fire brigade and `nonce_helper.js`'s repair
  functions: run by an operator or one cron, one after another.
- Of the modelled parts: the list of working processes the API caches, several
  clients at one process, batches of several rows under one lock, several
  addresses of a client, the refill that precedes an approval, the contents of
  receipts, supply and staked amounts, the list and status of airdrops for the
  API, the inside of the intercomm processes (a library), the locker of
  processes on one machine, the comparison of balances with the chain.

## 7. Running

    tlc -workers 2 -config MCTransaction.cfg MCTransactionLifecycle
    tlapm TransactionLifecycle_proofs.tla

`PROJECT.json` (`runs`) names the module and the configuration of each run.
