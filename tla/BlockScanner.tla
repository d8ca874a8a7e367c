---------------------------- MODULE BlockScanner ----------------------------
(***************************************************************************)
(* The block scanner.  A delegator reads the blocks of the utility chain   *)
(* in order, publishes the transactions of each in batches and keeps the   *)
(* number of the last block in a file                                      *)
(* (executables/block_scanner/transaction_delegator.js).  Workers consume  *)
(* the batches (executables/rmq_subscribers/block_scanner.js): a worker    *)
(* locks the rows of the platform's own transactions, settles their        *)
(* payments, enters the transfers nobody of the platform sent as external  *)
(* ones, settles the balances these change, completes the log items and    *)
(* releases the lock (lib/block_scanner/for_tx_status_and_balance_sync.js).*)
(***************************************************************************)
EXTENDS Integers, FiniteSets, FiniteSetsExt, Functions, SequencesExt, Bags

CONSTANT Cases  \* bound: the chains scanned, with what may go wrong

(***************************************************************************)
(* A transaction is sent by the platform ("token", "stp") or by others; it *)
(* carries one Transfer event of the branded token of a client, from one   *)
(* address to another ("contract": the token's own), unless it is          *)
(* "foreign".  first: the first log of the receipt is the token's too.     *)
(* A case has the blocks of a chain, the transactions whose row becomes    *)
(* submitted late, how many nodes there are, how many transactions a batch *)
(* has at least and at most (10 and 60 in the code), the process_id of the *)
(* workers, which take one message at a time each, and bounds: deaths of   *)
(* the delegator and of workers, and failures of calls, by kind.           *)
(***************************************************************************)
VARIABLES
  case,
  dpc,          \* delegator: init, idle, publishing, exited, dead, broken
  file,         \* lastProcessedBlock in the file; Damaged
  last,         \* scannerData.lastProcessedBlock
  parts,        \* batches of the current block not published yet
  stopping, canExit,
  delegations,  \* deaths of the delegator so far
  queue,        \* bag of batches: [block, txs]
  handed,       \* per transaction: how many deliveries contained it
  job,          \* per worker process: the message it works on
  prefix,       \* per worker process: currentLockIdPrefix
  meta,         \* transaction_meta of the platform's own: [status, lock]
  item,         \* status in the transaction log of the platform's own
  paid,         \* how often postAirdropPay was performed for it
  entered,      \* how often it was inserted as an external transfer
  balance,      \* settled balance per client and address
  dropped,      \* transactions of jobs that gave up
  deaths,       \* deaths of workers so far
  failures      \* the calls that failed so far: a bag of kinds

dvars == <<dpc, file, last, parts, stopping, canExit, delegations>>
dbvars == <<meta, item, paid, entered, balance>>
wvars == <<handed, dropped, job, prefix, deaths>>
platform == <<case, wvars, dbvars>>
scanned == <<case, dvars>>
vars == <<case, dvars, queue, wvars, dbvars, failures>>

Damaged == -1
NoLock == <<>>
Fails == {"block", "publish", "lock", "receipts", "pay", "insert", "settle",
          "update", "release"}

Txs == UNION {ToSet(block) : block \in ToSet(case.blocks)}
Procs == case.procs
Own == {t \in Txs : t.kind \in {"token", "stp"}}
Clients == {t.client : t \in Txs}
Addresses == {t.from : t \in Txs} \cup {t.to : t \in Txs}

ASSUME CasesAssumption ==
  \A c \in Cases :
    /\ c.blocks \in Seq(Seq(UNION {ToSet(block) : block \in ToSet(c.blocks)}))
    /\ c.nodes \in Nat \ {0} /\ c.min \in Nat \ {0}
    /\ c.max \in Nat /\ c.max >= c.min
    /\ \A i, j \in DOMAIN FlattenSeq(c.blocks) :
         FlattenSeq(c.blocks)[i] = FlattenSeq(c.blocks)[j] => i = j
    /\ c.may \subseteq Fails /\ c.failures \in Nat
    /\ \A t \in UNION {ToSet(block) : block \in ToSet(c.blocks)} : t.value \in Nat
    /\ c.procs \subseteq Nat \ {0} /\ IsFiniteSet(c.procs)
    /\ c.delegations \in Nat /\ c.deaths \in Nat

Idle == [pc |-> "idle", msg |-> <<>>, lock |-> NoLock, known |-> {},
         unknown |-> {}, clients |-> {}]

(* A call fails: the bound of the case on failures, and the kinds it has.  *)
MayFail(k) ==
  /\ k \in case.may
  /\ BagCardinality(failures) < case.failures
  /\ failures' = failures (+) SetToBag({k})

Init ==
  /\ case \in Cases
  /\ dpc = "init" /\ file = 0 /\ last = 0 /\ parts = <<>>
  /\ stopping = FALSE /\ canExit = TRUE /\ delegations = 0
  /\ queue = EmptyBag
  /\ handed = [t \in Txs |-> 0]
  /\ job = [p \in Procs |-> Idle]
  /\ prefix = [p \in Procs |-> 1]
  /\ meta = [t \in Own |-> [status |-> IF t.late THEN "processing"
                                                 ELSE "submitted",
                            lock |-> NoLock]]
  /\ item = [t \in Own |-> "waiting"]
  /\ paid = [t \in Own |-> 0]
  /\ entered = [t \in Txs |-> 0]
  /\ balance = [ca \in Clients \X Addresses |-> 0]
  /\ dropped = {}
  /\ deaths = 0
  /\ failures = EmptyBag

(* External: the run that sent the transaction writes its row after the    *)
(* block has it.                                                           *)
RowSubmitted(t) ==
  /\ meta[t].status = "processing"
  /\ meta' = [meta EXCEPT ![t].status = "submitted"]
  /\ UNCHANGED <<case, dvars, queue, wvars, item, paid, entered, balance,
                 failures>>

(***************************************************************************)
(* The delegator.                                                          *)
(***************************************************************************)
(* The file is read when the process starts and after an exception; a file *)
(* that cannot be parsed rejects init, and nothing runs any more.          *)
Begins ==
  /\ dpc = "init"
  /\ IF file = Damaged THEN dpc' = "broken" /\ UNCHANGED last
                       ELSE dpc' = "idle" /\ last' = file
  /\ UNCHANGED <<platform, file, parts, stopping, canExit, delegations, queue,
                 failures>>

Clamp(n, d) ==
  IF n > case.max * d THEN <<case.max, 1>>
  ELSE IF n < case.min * d THEN <<case.min, 1>> ELSE <<n, d>>

(* Fault seeded to test the properties: the remainder has no batch.        *)
NoRemainder(txs, nodes) ==
  LET per == Clamp(Len(txs), nodes)
      cut(k) == Min({Len(txs), (k * per[1]) \div per[2]})
  IN [k \in 1 .. (Len(txs) * per[2]) \div per[1] |->
        SubSeq(txs, cut(k - 1) + 1, cut(k))]

(* perBatchCount may be a fraction (here a pair); slice drops the part     *)
(* after the point of both ends.                                           *)
Batches(txs, nodes) ==
  LET per == Clamp(Len(txs), nodes)
      number == (Len(txs) * per[2] + per[1] - 1) \div per[1]
      cut(k) == Min({Len(txs), (k * per[1]) \div per[2]})
  IN [k \in 1 .. number |-> SubSeq(txs, cut(k - 1) + 1, cut(k))]

(* The next block is read from the first of the nodes that have more       *)
(* blocks than the last one; it is cut by how many these are.              *)
PicksBlock(ahead) ==
  /\ dpc = "idle" /\ ~stopping /\ last < Len(case.blocks)
  /\ dpc' = "publishing" /\ canExit' = FALSE
  /\ parts' = Batches(case.blocks[last + 1], ahead)
  /\ UNCHANGED <<platform, file, last, stopping, delegations, queue,
                 failures>>

(* Fault seeded to test the properties: the exception is not caught.       *)
NoBlockUncaught ==
  /\ dpc = "idle" /\ ~stopping /\ last < Len(case.blocks)
  /\ MayFail("block")
  /\ dpc' = "broken"
  /\ UNCHANGED <<platform, file, last, parts, stopping, canExit, delegations,
                 queue>>

(* getBlock is rejected: the file is read again a second later.            *)
NoBlock ==
  /\ dpc = "idle" /\ ~stopping /\ last < Len(case.blocks)
  /\ MayFail("block")
  /\ dpc' = "init"
  /\ UNCHANGED <<platform, file, last, parts, stopping, canExit, delegations,
                 queue>>

Publishes ==
  /\ dpc = "publishing" /\ parts # <<>>
  /\ queue' = queue (+) SetToBag({[block |-> last + 1, txs |-> Head(parts)]})
  /\ parts' = Tail(parts)
  /\ UNCHANGED <<platform, dpc, file, last, stopping, canExit, delegations,
                 failures>>

(* A batch is not published: the block is distributed again, the batches   *)
(* published already with it.                                              *)
PublishFails ==
  /\ dpc = "publishing" /\ parts # <<>>
  /\ MayFail("publish")
  /\ dpc' = "idle" /\ parts' = <<>> /\ canExit' = TRUE
  /\ UNCHANGED <<platform, file, last, stopping, delegations, queue>>

(* updateScannerDataFile.                                                  *)
WritesFile ==
  /\ dpc = "publishing" /\ parts = <<>>
  /\ last' = last + 1 /\ file' = last + 1
  /\ dpc' = "idle" /\ canExit' = TRUE
  /\ UNCHANGED <<platform, parts, stopping, delegations, queue, failures>>

(* SIGINT or SIGTERM: no further block; the process ends when              *)
(* pendingTasksDone, which is asked again every second.                    *)
GetsSignal ==
  /\ dpc \notin {"exited", "dead"} /\ ~stopping
  /\ delegations < case.delegations
  /\ stopping' = TRUE
  /\ UNCHANGED <<platform, dpc, file, last, parts, canExit, delegations,
                 queue, failures>>

Exits ==
  /\ dpc \notin {"exited", "dead"} /\ stopping /\ canExit
  /\ dpc' = "exited" /\ delegations' = delegations + 1
  /\ UNCHANGED <<platform, file, last, parts, stopping, canExit, queue,
                 failures>>

(* The process dies; while it writes, the file may be left without its     *)
(* content.                                                                *)
Dies ==
  /\ dpc \notin {"exited", "dead"} /\ delegations < case.delegations
  /\ dpc' = "dead" /\ delegations' = delegations + 1
  /\ \/ UNCHANGED file
     \/ dpc = "publishing" /\ parts = <<>> /\ file' = Damaged
  /\ UNCHANGED <<platform, last, parts, stopping, canExit, queue, failures>>

Restarts ==
  /\ dpc \in {"exited", "dead"}
  /\ dpc' = "init" /\ parts' = <<>> /\ stopping' = FALSE /\ canExit' = TRUE
  /\ UNCHANGED <<platform, file, last, delegations, queue, failures>>

DelegatorWorks ==
  \/ Begins \/ Publishes \/ WritesFile \/ Exits \/ Restarts
  \/ \E ahead \in 1 .. case.nodes : PicksBlock(ahead)
DelegatorFails == NoBlock \/ PublishFails \/ GetsSignal \/ Dies

(***************************************************************************)
(* The workers.                                                            *)
(***************************************************************************)
(* parseFloat(prefix + '.' + process_id): the zeros at the end are lost.   *)
DropZeros[n \in Nat \ {0}] ==
  IF n % 10 = 0 THEN DropZeros[n \div 10] ELSE n
LockId(p) == <<prefix[p], DropZeros[p]>>

InBatch(p) == ToSet(job[p].msg.txs)
LockedBy(l) == {t \in Own : meta[t].lock = l}
Goto(p, l) == job' = [job EXCEPT ![p].pc = l]

(* Fault seeded to test the properties: rows that are not submitted are    *)
(* locked as well.                                                         *)
AcquireAnyRow(p, msg) ==
  {t \in ToSet(msg.txs) \cap Own : meta[t].lock = NoLock}

(* The rows acquireLock takes.                                             *)
Acquired(p, msg) ==
  {t \in ToSet(msg.txs) \cap Own :
     meta[t].status = "submitted" /\ meta[t].lock = NoLock}

LocksRows(p, msg) ==
  meta' = [t \in Own |-> IF t \in Acquired(p, msg)
                           THEN [status |-> "mined", lock |-> LockId(p)]
                           ELSE meta[t]]

(* A message is delivered, and the object made that numbers its lock.      *)
Delivered(p, msg) ==
  /\ job[p].pc = "idle" /\ BagIn(msg, queue)
  /\ queue' = queue (-) SetToBag({msg})
  /\ prefix' = [prefix EXCEPT ![p] = @ + 1]
  /\ handed' = [t \in Txs |-> handed[t] + IF t \in ToSet(msg.txs) THEN 1
                                                                  ELSE 0]
  /\ UNCHANGED <<scanned, item, paid, entered, balance, deaths>>

(* _acquireLock.                                                           *)
AcquiresLock(p, msg) ==
  /\ Delivered(p, msg) /\ LocksRows(p, msg)
  /\ job' = [job EXCEPT ![p] = [Idle EXCEPT !.pc = "locked", !.msg = msg,
                                            !.lock = LockId(p)]]
  /\ UNCHANGED <<dropped, failures>>

(* Its UPDATE fails, or only its answer is lost: perform is rejected, the  *)
(* message acknowledged and nothing of the batch processed.  Rows it did   *)
(* lock keep the lock.                                                     *)
LockFails(p, msg) ==
  /\ Delivered(p, msg) /\ MayFail("lock")
  /\ LocksRows(p, msg) \/ UNCHANGED meta
  /\ dropped' = dropped \cup ToSet(msg.txs)
  /\ UNCHANGED job

(* Any exception inside processTransactions is logged.                     *)
GivesUp(p) ==
  Goto(p, "release") /\ dropped' = dropped \cup InBatch(p)

(* Fault seeded to test the properties: only token transfers are looked up.*)
RecognisesTokens(p) == {t \in LockedBy(job[p].lock) : t.kind = "token"}

(* categorizeTransactions reads the rows by the lock id, whoever took      *)
(* them.                                                                   *)
Recognised(p) == LockedBy(job[p].lock)

(* A Transfer event of a known token in a transaction not recognised.      *)
IsTransfer(t) == t.kind # "foreign"
External(p) == {t \in job[p].unknown : IsTransfer(t)}

(* The rows and the receipts are read and decoded.  A row of another       *)
(* batch, found under the same lock id, has no receipt.                    *)
Receipts(p) ==
  /\ job[p].pc = "locked"
  /\ \/ /\ Recognised(p) \subseteq InBatch(p)
        /\ job' = [job EXCEPT ![p].pc = "decoded",
                              ![p].known = Recognised(p),
                              ![p].unknown = InBatch(p) \ Recognised(p)]
        /\ UNCHANGED <<scanned, dropped, failures>>
     \/ /\ ~(Recognised(p) \subseteq InBatch(p))
        /\ GivesUp(p) /\ UNCHANGED failures
     \/ MayFail("receipts") /\ GivesUp(p)
  /\ UNCHANGED <<scanned, queue, dbvars, handed, prefix, deaths>>

(* Whether the shards of a client with external transfers are known: those *)
(* of the clients of recognised transactions are; of the others they are   *)
(* fetched if Object.keys(clientIdsMap) > 0, which holds of one client     *)
(* only.                                                                   *)
HasShards(p, c) ==
  LET known == {t.client : t \in job[p].known}
  IN c \in known \/ Cardinality({t.client : t \in External(p)} \ known) <= 1

(* What is entered in the log, and what changes balances.                  *)
Entries(p) == {t \in External(p) : t.first}
Moves(p) == {t \in External(p) : t.from # "contract"}

Turns(p, l, ts) ==
  job' = [job EXCEPT ![p].pc = l, ![p].clients = {t.client : t \in ts}]
Without(p, c) == job' = [job EXCEPT ![p].clients = @ \ {c}]

(* callAirdropPayForSettle: the payments of token transfers are settled.   *)
(* Then the external transfers are grouped by client.                      *)
Pays(p) ==
  /\ job[p].pc = "decoded"
  /\ \/ /\ paid' = [t \in Own |->
             paid[t] + IF t \in job[p].known /\ t.kind = "token" THEN 1 ELSE 0]
        /\ IF Entries(p) = {} THEN Turns(p, "settling", Moves(p))
                              ELSE Turns(p, "inserting", Entries(p))
        /\ UNCHANGED <<dropped, failures>>
     \/ MayFail("pay") /\ GivesUp(p) /\ UNCHANGED paid
  /\ UNCHANGED <<scanned, queue, meta, item, entered, balance, handed, prefix,
                 deaths>>

Transfers(p, c) == {t \in External(p) : t.client = c}

(* _insertDataInTransactionLogs, one client after another; the response of *)
(* batchPutItem is not looked at.  Without the shards of a client it       *)
(* throws.                                                                 *)
InsertsData(p, c) ==
  /\ job[p].pc = "inserting" /\ c = Min(job[p].clients)
  /\ \/ /\ HasShards(p, c)
        /\ IF job[p].clients = {c} THEN Turns(p, "settling", Moves(p))
                                   ELSE Without(p, c)
        /\ \/ /\ entered' = [t \in Txs |->
                   entered[t] + IF t \in Transfers(p, c) /\ t.first THEN 1 ELSE 0]
              /\ UNCHANGED failures
           \/ MayFail("insert") /\ UNCHANGED entered
        /\ UNCHANGED dropped
     \/ ~HasShards(p, c) /\ GivesUp(p) /\ UNCHANGED <<entered, failures>>
  /\ UNCHANGED <<scanned, queue, meta, item, paid, balance, handed, prefix,
                 deaths>>

(* Fault seeded to test the properties: the receiver is not credited.      *)
DebitOnly(ts, a) ==
  SumFunctionOnSet([t \in ts |-> IF t.from = a THEN -t.value ELSE 0],
                   {t \in ts : t.from # "contract"})

(* _computeBalanceAdjustments: what the transfers change of an address.    *)
Adjustment(ts, a) ==
  SumFunctionOnSet([t \in ts |-> (IF t.to = a THEN t.value ELSE 0)
                                    - (IF t.from = a THEN t.value ELSE 0)],
                   {t \in ts : t.from # "contract"})

(* The contract whose transfer comes first in the batch.                   *)
NextClient(p) ==
  SelectSeq(job[p].msg.txs,
            LAMBDA t : t \in Moves(p) /\ t.client \in job[p].clients)[1].client

(* _settleBalancesInDb, the addresses of a contract at once.  An update    *)
(* that fails is reported and left if its error is a response of the       *)
(* platform's own; for any other, catchHandlingFunction names an undeclared*)
(* errorConfig and throws, as it does without the shards of a client.      *)
SettlesBalances(p, c) ==
  /\ job[p].pc = "settling" /\ c = NextClient(p)
  /\ \/ /\ HasShards(p, c)
        /\ \E lost \in {{}} \cup {{a} : a \in Addresses} :
             /\ balance' = [ca \in DOMAIN balance |->
                  IF ca[1] = c /\ ca[2] \notin lost
                    THEN balance[ca] + Adjustment(Transfers(p, c), ca[2])
                    ELSE balance[ca]]
             /\ \/ /\ IF lost = {} THEN UNCHANGED failures ELSE MayFail("settle")
                   /\ Without(p, c) /\ UNCHANGED dropped
                \/ MayFail("settle") /\ GivesUp(p)
     \/ ~HasShards(p, c) /\ GivesUp(p) /\ UNCHANGED <<balance, failures>>
  /\ UNCHANGED <<scanned, queue, meta, item, paid, entered, handed, prefix,
                 deaths>>

(* updateTransactionLogs, in batches of ten at once; one that fails leaves *)
(* those of its batch in doubt.                                            *)
UpdatesLogs(p) ==
  /\ job[p].pc = "settling" /\ job[p].clients = {}
  /\ Goto(p, "release")
  /\ \E done \in SUBSET job[p].known :
       /\ IF done = job[p].known THEN UNCHANGED failures ELSE MayFail("update")
       /\ item' = [t \in Own |-> IF t \in done THEN "complete" ELSE item[t]]
  /\ UNCHANGED <<scanned, dropped, queue, meta, paid, entered, balance,
                 handed, prefix, deaths>>

(* Fault seeded to test the properties: the lock is not released.          *)
ReleasesNothing(p) ==
  /\ job[p].pc = "release"
  /\ job' = [job EXCEPT ![p] = Idle]
  /\ UNCHANGED <<scanned, dropped, queue, dbvars, handed, prefix, deaths,
                 failures>>

(* _releaseLock, and the acknowledgement.                                  *)
ReleasesLock(p) ==
  /\ job[p].pc = "release"
  /\ meta' = [t \in Own |-> IF meta[t].lock = job[p].lock
                              THEN [meta[t] EXCEPT !.lock = NoLock]
                              ELSE meta[t]]
  /\ job' = [job EXCEPT ![p] = Idle]
  /\ UNCHANGED <<scanned, dropped, queue, item, paid, entered, balance,
                 handed, prefix, deaths, failures>>

(* Its UPDATE fails: perform is rejected, and acknowledged all the same.   *)
ReleaseFails(p) ==
  /\ job[p].pc = "release" /\ MayFail("release")
  /\ job' = [job EXCEPT ![p] = Idle]
  /\ UNCHANGED <<scanned, dropped, queue, dbvars, handed, prefix, deaths>>

(* A worker dies and is started again: its message is delivered again, its *)
(* locks stay, its prefixes begin anew.                                    *)
WorkerDies(p) ==
  /\ job[p].pc # "idle" /\ deaths < case.deaths
  /\ deaths' = deaths + 1
  /\ queue' = queue (+) SetToBag({job[p].msg})
  /\ job' = [job EXCEPT ![p] = Idle]
  /\ prefix' = [prefix EXCEPT ![p] = 1]
  /\ UNCHANGED <<scanned, dropped, dbvars, handed, failures>>

WorkerWorks(p) ==
  \/ \E msg \in BagToSet(queue) : AcquiresLock(p, msg) \/ LockFails(p, msg)
  \/ Receipts(p) \/ Pays(p)
  \/ \E c \in job[p].clients : InsertsData(p, c) \/ SettlesBalances(p, c)
  \/ UpdatesLogs(p) \/ ReleasesLock(p) \/ ReleaseFails(p)

Next ==
  \/ DelegatorWorks \/ DelegatorFails
  \/ \E p \in Procs : WorkerWorks(p) \/ WorkerDies(p)
  \/ \E t \in Own : RowSubmitted(t)
Spec == Init /\ [][Next]_vars

(* Fairness: calls answer or fail; a message is delivered in the end; a    *)
(* delegator that ended is started again (by its supervisor).              *)
Fairness ==
  /\ WF_vars(DelegatorWorks)
  /\ \A p \in UNION {c.procs : c \in Cases} :
       WF_vars(p \in Procs /\ WorkerWorks(p))
FairSpec == Spec /\ Fairness

(***************************************************************************)
(* Properties.                                                             *)
(***************************************************************************)
Happened(k) == BagIn(k, failures)
Failed(k) == IF Happened(k) THEN failures[k] ELSE 0
Waiting(t) == \E msg \in BagToSet(queue) : t \in ToSet(msg.txs)
AtRest == queue = EmptyBag /\ \A p \in Procs : job[p] = Idle

SharedLockIds == \E p, q \in Procs : p # q /\ DropZeros[p] = DropZeros[q]

(* However a block is cut, its publication interrupted and the delegator   *)
(* stopped, killed or started again: a block the file counts as scanned    *)
(* has every transaction in a batch that was delivered or still waits.     *)
NothingSkipped ==
  \A b \in 1 .. file : \A t \in ToSet(case.blocks[b]) :
    handed[t] > 0 \/ Waiting(t)

(* A payment is settled a second time only after a worker died: the next   *)
(* holder of its lock id finds the row it had locked.  (Or if two workers  *)
(* have the same lock ids and the batch comes twice.)                      *)
PaidTwiceNeedsDeath ==
  ~SharedLockIds => \A t \in Own : paid[t] > 1 => deaths > 0

(* A transfer of the platform enters the log a second time, as an external *)
(* one, only if its row was not written yet, its batch came twice, or the  *)
(* numbers of two processes differ by zeros at the end alone.  And when the*)
(* workers rest and none has died, one that was delivered is complete in   *)
(* the log, unless its job gave up, its update failed or its row came late.*)
KnownIsComplete ==
  ~SharedLockIds => \A t \in Own :
    /\ entered[t] > 0 => t.late \/ handed[t] > 1
    /\ AtRest /\ deaths = 0 /\ handed[t] > 0 /\ t \notin dropped /\ ~t.late
         /\ ~Happened("update") => item[t] = "complete"

(* When the workers rest and none has died, a row is locked only because an*)
(* UPDATE that locks or releases rows failed, and each such failure leaves *)
(* the rows of one batch locked at most; if it was the one that locks, the *)
(* transaction is one of a job that gave up.                               *)
LocksLeftByFailures ==
  AtRest /\ deaths = 0 /\ ~SharedLockIds =>
    /\ Cardinality({meta[t].lock : t \in Own} \ {NoLock})
         <= Failed("lock") + Failed("release")
    /\ \A t \in Own : meta[t].lock # NoLock =>
                        t \in dropped \/ Happened("release")

(* When the workers rest, every delivery of a transfer that was not taken  *)
(* for the platform's own has changed both balances once: the settled      *)
(* balances follow the chain, and leave it when a batch comes twice.       *)
BalancesFollowDeliveries ==
  AtRest /\ deaths = 0 /\ dropped = {} /\ ~Happened("settle")
    /\ (\A t \in Own : ~t.late) /\ ~SharedLockIds
    => \A c \in Clients, a \in Addresses :
         LET times(t) == handed[t] - (IF t \in Own THEN 1 ELSE 0)
             of(end) == SumFunctionOnSet([t \in Txs |-> t.value * times(t)],
               {t \in Txs : /\ IsTransfer(t) /\ t.client = c /\ t[end] = a
                            /\ t.from # "contract" /\ handed[t] > 0})
         IN balance[<<c, a>>] = of("to") - of("from")

(* The chain is scanned to its end and the workers come to rest, unless    *)
(* the file was damaged by a death while it was written.                   *)
ScansTheChain ==
  <>[](AtRest /\ last = Len(case.blocks)) \/ <>(file = Damaged)
=============================================================================
