----------------------------- MODULE WorkerGas -----------------------------
(* The gas of the workers that send token transfers.  The cron             *)
(* monitor_workers_gas locks worker rows a pass at a time, grants ST' from *)
(* the client's reserve to workers that run low, and associates with, or   *)
(* takes from, the processes that execute transactions the workers it      *)
(* could, or could not, serve.  Beside it run a second process started     *)
(* with the same cron row, the service that funds the addresses of a       *)
(* client, the script that adds workers, and the consumers that use the    *)
(* gas.  Every row, bit and lock is a column of                            *)
(* client_worker_managed_address_ids.                                      *)
(*                                                                         *)
(* An association is a step here; WorkerAssociation takes it apart.        *)
EXTENDS Reserve

CONSTANTS
  Rows,        \* ids of worker rows: pairs of a client and a number
  Processes,   \* execute-transaction processes of the clients' chain
  Instances,   \* processes started for the one monitor cron
  RowLimit,    \* rows a pass may lock (20)
  BatchSize,   \* clients of a batch of a pass (10)
  MaxRuns,     \* passes after which a process ends itself (10)
  Grant,       \* transferSTPrimeToWorker
  MinGas,      \* WORKER_MINIMUM_BALANCE_REQUIRED, isSTPrimeTransferRequiredBal
  Alert,       \* reserveAlertBalanceWei
  HolderGrant  \* transferSTPrimeToBudgetHolder

ASSUME WorkerGasAssumption ==
  /\ Rows \subseteq Clients \X Nat
  /\ {RowLimit, BatchSize, MaxRuns, Grant, MinGas} \subseteq Nat \ {0}
  /\ MinGas <= Grant
  /\ {"none", "lost"} \cap Instances = {}   \* no process has these lock ids

VARIABLES
  row,      \* worker -> its row
  bal,      \* worker -> its ST' on the chain
  cron,     \* status of the cron's row: stopped or running
  inst,     \* instance -> the memory of its process
  fund,     \* the run of fund_client_address under way
  adds,     \* where the script that adds workers is
  copy,     \* worker -> the bits its consumer has read, {} when it has not
  left      \* processes that may be started; other runs that are left

gasVars == <<row, bal, cron, inst, fund, adds, copy, left>>

Client(w) == w[1]
RowsOf(c) == {w \in Rows : Client(w) = c}

(* The memory of a monitor when its process begins: runTask has not run.   *)
Fresh ==
  [at |-> "armed", todo |-> {}, batch |-> {}, low |-> {},
   owed |-> {}, client |-> 0, queue |-> {}, seen |-> 0, got |-> {},
   short |-> {}, acquired |-> FALSE, runs |-> 1, stopping |-> FALSE,
   ending |-> FALSE, full |-> FALSE]
Off == [Fresh EXCEPT !.at = "off"]

(* A worker row that is part of the system has a process or none (0).      *)
InitGas(c) ==
  /\ row = [w \in Rows |->
             [status |-> c.status[w], proc |-> c.proc[w], lock |-> "none",
              due |-> TRUE,
              bits |-> IF c.status[w] = "active" THEN {"initial", "gas"}
                                                 ELSE {}]]
  /\ bal = c.bal /\ left = c.left
  /\ cron = "stopped"
  /\ inst = [i \in Instances |-> Off]
  /\ fund = [at |-> "off", client |-> 0, queue |-> {}]
  /\ adds = [at |-> "off", client |-> 0]
  /\ copy = [w \in Rows |-> {}]

-----------------------------------------------------------------------------
(* The cron row and the processes started for it.                          *)

(* canStartProcess: the status is read, then written; what another process *)
(* does in between is not seen.                                            *)
CanStart(i) ==
  /\ inst[i].at = "off" /\ cron = "stopped" /\ i \in left.procs
  /\ inst' = [inst EXCEPT ![i].at = "starting"]
  /\ UNCHANGED <<row, bal, cron, fund, adds, copy, left, reserve, faults>>

MarkRunning(i) ==
  /\ inst[i].at = "starting"
  /\ cron' = "running"
  /\ inst' = [inst EXCEPT ![i] = Fresh]
  /\ UNCHANGED <<row, bal, fund, adds, copy, left, reserve, faults>>

(* A process that is gone: no other pass has its lock id, so the rows it   *)
(* has locked stay so.                                                     *)
Orphaned(i) ==
  [w \in Rows |-> IF row[w].lock = i THEN [row[w] EXCEPT !.lock = "lost"]
                                      ELSE row[w]]

Dies(i) ==
  /\ row' = Orphaned(i)
  /\ inst' = [inst EXCEPT ![i] = Off]
  /\ UNCHANGED <<bal, cron, fund, adds, copy, left, reserve>>

Crash(i) == inst[i].at # "off" /\ Fault /\ Dies(i)

(* The operator sets the row of a cron that is down to stopped.            *)
OperatorResets ==
  /\ cron = "running" /\ \A i \in Instances : inst[i].at = "off"
  /\ cron' = "stopped"
  /\ UNCHANGED <<row, bal, inst, fund, adds, copy, left, reserve, faults>>

(* SIGINT or SIGTERM: no new work is picked up after this pass.            *)
Signal(i) ==
  /\ left.signals > 0 /\ inst[i].at \notin {"off", "starting"}
  /\ ~inst[i].stopping
  /\ left' = [left EXCEPT !.signals = @ - 1]
  /\ inst' = [inst EXCEPT ![i].stopping = TRUE]
  /\ UNCHANGED <<row, bal, cron, fund, adds, copy, reserve, faults>>

(* pendingTasksDone, polled every second once a signal has come.           *)
TasksDone(i) == ~inst[i].acquired

StopProcess(i) ==
  /\ inst[i].stopping /\ ~inst[i].ending /\ TasksDone(i)
  /\ inst' = [inst EXCEPT ![i].ending = TRUE]
  /\ UNCHANGED <<row, bal, cron, fund, adds, copy, left, reserve, faults>>

(* The status is written, and the process ends, whatever it does by then.  *)
Exit(i) ==
  /\ inst[i].ending
  /\ cron' = "stopped"
  /\ row' = Orphaned(i)
  /\ inst' = [inst EXCEPT ![i] = Off]
  /\ UNCHANGED <<bal, fund, adds, copy, left, reserve, faults>>

-----------------------------------------------------------------------------
(* A pass of the monitor.                                                  *)

At(i, at) == inst[i].at = at
Go(i, r) == inst' = [inst EXCEPT ![i] = r]

(* The timer of runTask: it looks neither at a signal nor at the end.      *)
RunTask(i) ==
  /\ At(i, "armed")
  /\ Go(i, [inst[i] EXCEPT !.at = "locking", !.acquired = TRUE,
                           !.low = {}, !.owed = {}])
  /\ UNCHANGED <<row, bal, cron, fund, adds, copy, left, reserve, faults>>

(* Fault seeded to test the properties: rows locked by another pass match. *)
LockableLocked ==
  {w \in Rows : /\ row[w].status = "active" /\ row[w].due
                /\ "initial" \in row[w].bits}

Lockable ==
  {w \in Rows : /\ row[w].status = "active" /\ row[w].due
                /\ "initial" \in row[w].bits /\ row[w].lock = "none"}

UpTo(n, S) == {T \in SUBSET S : Cardinality(T) = Min({n, Cardinality(S)})}

(* acquireLock, and the read of the rows that carry the lock.              *)
AcquireLock(i) ==
  /\ At(i, "locking")
  /\ \E S \in UpTo(RowLimit, Lockable) :
       /\ row' = [w \in Rows |->
                   IF w \in S THEN [row[w] EXCEPT !.lock = i] ELSE row[w]]
       /\ Go(i, [inst[i] EXCEPT !.at = "batch",
                                !.full = Cardinality(S) = RowLimit,
                                !.todo = {Client(w) : w \in S}])
  /\ UNCHANGED <<bal, cron, fund, adds, copy, left, reserve, faults>>

Mine(i) == {w \in Rows : row[w].lock = i}

(* _markSTPrimeBalanceLow: a balance that is not had counts as not low.    *)
Low(i, B) == {w \in Mine(i) : Client(w) \in B /\ bal[w] < MinGas}

(* The next clients.  The clients found low so far are granted with them:  *)
(* clientLowBalanceWorkerIds is not emptied between two batches.           *)
NextBatch(i) ==
  /\ At(i, "batch") /\ inst[i].todo # {}
  /\ \E B \in UpTo(BatchSize, inst[i].todo) :
       \E unread \in {{}} \cup {{w} : w \in Low(i, B)} :
         LET low == inst[i].low \cup (Low(i, B) \ unread) IN
         /\ IF unread = {} THEN NoFault ELSE Fault
         /\ Go(i, [inst[i] EXCEPT !.at = "grant", !.batch = B, !.low = low,
                                  !.todo = @ \ B,
                                  !.owed = {Client(w) : w \in low}])
  /\ UNCHANGED <<row, bal, cron, fund, adds, copy, left, reserve>>

(* _grantSTPrimeFromReserve begins: the reserve's balance is read once.    *)
(* The clients of a batch are served in any order; they share nothing.     *)
ServeClient(i) ==
  /\ At(i, "grant")
  /\ \E c \in inst[i].owed :
       Go(i, [inst[i] EXCEPT !.at = "pay", !.client = c, !.seen = reserve[c],
                             !.owed = @ \ {c}, !.got = {}, !.short = {},
                             !.queue = inst[i].low \cap RowsOf(c)])
  /\ UNCHANGED <<row, bal, cron, fund, adds, copy, left, reserve, faults>>

Receives(w, n) == bal' = [bal EXCEPT ![w] = @ + n]

(* One transfer to one worker, while the balance once read suffices: the   *)
(* result of reserveBalance.minus is dropped.                              *)
GrantTo(i, w) ==
  LET m == inst[i]
      rest == [m EXCEPT !.queue = @ \ {w}]
      Short == Go(i, [rest EXCEPT !.short = @ \cup {w}]) IN
  /\ At(i, "pay") /\ w \in m.queue
  /\ \/ /\ m.seen > Grant /\ Covers(m.client, Grant)
        /\ Spend(m.client, Grant) /\ Receives(w, Grant)
        /\ Go(i, [rest EXCEPT !.got = @ \cup {w}])
        /\ NoFault
     \/ /\ Short /\ UNCHANGED <<bal, reserve>>
        /\ IF m.seen > Grant /\ Covers(m.client, Grant) THEN Fault
                                                        ELSE NoFault
  /\ UNCHANGED <<row, cron, fund, adds, copy, left>>

(* The workers that got gas are marked, then associated.                   *)
MarkGas(i) ==
  /\ At(i, "pay") /\ inst[i].queue = {}
  /\ row' = [w \in Rows |-> IF w \in inst[i].got
                              THEN [row[w] EXCEPT !.bits = @ \cup {"gas"}]
                              ELSE row[w]]
  /\ Go(i, [inst[i] EXCEPT !.at = IF inst[i].got = {} THEN "dissociate"
                                                      ELSE "associate"])
  /\ UNCHANGED <<bal, cron, fund, adds, copy, left, reserve, faults>>

Working(c) == {w \in RowsOf(c) : row[w].proc # 0}
Busy(W) == \E w \in W : row[w].status = "busy"
Served(i) ==
  [inst[i] EXCEPT !.at = "grant", !.client = 0, !.seen = 0, !.got = {},
                  !.short = {}]

(* _associateWorkerProcesses: workers that have gas and no process get the *)
(* processes of the chain that have no worker of the client.  The script   *)
(* ends the whole cron when no such worker is left, or a row is on hold or *)
(* blocking.                                                               *)
Associate(i) ==
  LET c == inst[i].client
      free == Processes \ {row[w].proc : w \in RowsOf(c)}
      available == {w \in RowsOf(c) : /\ row[w].status = "active"
                                      /\ "gas" \in row[w].bits
                                      /\ row[w].proc = 0}
      n == Min({Cardinality(free), Cardinality(available)}) IN
  /\ At(i, "associate")
  /\ \/ /\ free # {} /\ (available = {} \/ Busy(Working(c)))
        /\ NoFault /\ Dies(i)
     \/ /\ free # {} => ~Busy(Working(c))
        /\ free # {} => available # {}
        /\ \E P \in kSubset(n, free) : \E g \in Injection(P, available) :
             row' = [w \in Rows |->
                      CASE w \in Working(c) -> [row[w] EXCEPT !.status =
                             IF free = {} THEN @ ELSE "busy"]
                        [] w \in Range(g) ->
                             [row[w] EXCEPT !.proc = CHOOSE p \in P : g[p] = w]
                        [] OTHER -> row[w]]
        /\ Go(i, [inst[i] EXCEPT !.at = "dissociate"])
        /\ UNCHANGED <<bal, cron, fund, adds, copy, left, reserve, faults>>

(* Fault seeded to test the properties: the script is told no process.     *)
DissociateNone(i) ==
  /\ At(i, "dissociate")
  /\ Go(i, Served(i))
  /\ UNCHANGED <<row, bal, cron, fund, adds, copy, left, reserve, faults>>

(* _dissociateClientWorkers: the workers that got nothing lose their       *)
(* process, and are blocking until a consumer has seen it.  An error of    *)
(* the script is logged; a row on hold or blocking ends the cron.          *)
Dissociate(i) ==
  LET c == inst[i].client
      taken == inst[i].short \cap Working(c) IN
  /\ At(i, "dissociate")
  /\ \/ taken # {} /\ Busy(RowsOf(c)) /\ NoFault /\ Dies(i)
     \/ /\ taken # {} => ~Busy(RowsOf(c))
        /\ \/ /\ row' = [w \in Rows |->
                          IF w \in taken
                            THEN [row[w] EXCEPT !.proc = 0, !.status = "busy"]
                            ELSE row[w]]
              /\ NoFault
           \/ taken # {} /\ row' = row /\ Fault
        /\ Go(i, Served(i))
        /\ UNCHANGED <<bal, cron, fund, adds, copy, left, reserve>>

Unlock(i, W) ==
  [w \in Rows |-> IF w \in W THEN [row[w] EXCEPT !.lock = "none",
                                                !.due = FALSE]
                             ELSE row[w]]

(* Fault seeded to test the properties: only the rows found low are        *)
(* released.                                                               *)
ReleaseLow(i) ==
  /\ At(i, "grant") /\ inst[i].owed = {}
  /\ row' = Unlock(i, {w \in Mine(i) : w \in inst[i].low})
  /\ Go(i, [inst[i] EXCEPT !.at = "batch", !.batch = {}])
  /\ UNCHANGED <<bal, cron, fund, adds, copy, left, reserve, faults>>

(* The rows of the batch are released, to be looked at in two minutes.     *)
Release(i) ==
  /\ At(i, "grant") /\ inst[i].owed = {}
  /\ row' = Unlock(i, {w \in Mine(i) : Client(w) \in inst[i].batch})
  /\ Go(i, [inst[i] EXCEPT !.at = "batch", !.batch = {}])
  /\ UNCHANGED <<bal, cron, fund, adds, copy, left, reserve, faults>>

(* onExecutionComplete: the next run is due, or the process signals itself *)
Completed(m) ==
  IF m.stopping \/ m.runs >= MaxRuns
    THEN [m EXCEPT !.at = "done", !.stopping = TRUE]
    ELSE [m EXCEPT !.at = "armed", !.runs = @ + 1]

PassEnds(i) ==
  /\ At(i, "batch") /\ inst[i].todo = {}
  /\ Go(i, Completed([inst[i] EXCEPT !.acquired = FALSE, !.low = {}]))
  /\ UNCHANGED <<row, bal, cron, fund, adds, copy, left, reserve, faults>>

(* A pass that throws completes too; its rows stay locked, and lockAcquired*)
(* stays true until a later pass ends.                                     *)
PassFails(i) ==
  /\ inst[i].at \in {"locking", "batch", "grant", "pay", "associate"}
  /\ Fault
  /\ row' = Orphaned(i)
  /\ Go(i, Completed([Served(i) EXCEPT !.todo = {}, !.batch = {}, !.owed = {},
                                      !.queue = {}, !.low = {}]))
  /\ UNCHANGED <<bal, cron, fund, adds, copy, left, reserve>>

(* Two minutes pass.  A pass that locked all the rows it may is followed   *)
(* by the next at once, before the rows it released are due again.         *)
TimeDue(w) ==
  /\ ~row[w].due /\ row[w].lock = "none"
  /\ \A i \in Instances : ~inst[i].full
  /\ row' = [row EXCEPT ![w].due = TRUE]
  /\ UNCHANGED <<bal, cron, inst, fund, adds, copy, left, reserve, faults>>

(* The consumers have acted on the messages of the scripts: see            *)
(* WorkerAssociation.                                                      *)
Settle(w) ==
  /\ row[w].status = "busy"
  /\ row' = [row EXCEPT ![w].status = "active"]
  /\ UNCHANGED <<bal, cron, inst, fund, adds, copy, left, reserve, faults>>

-----------------------------------------------------------------------------
(* The consumer that uses a worker's gas.                                  *)

Use(w) ==
  /\ left.uses > 0 /\ row[w].proc # 0 /\ bal[w] > 0
  /\ bal' = [bal EXCEPT ![w] = @ - 1]
  /\ left' = [left EXCEPT !.uses = @ - 1]
  /\ UNCHANGED <<row, cron, inst, fund, adds, copy, reserve, faults>>

(* The chain refused a transfer for want of gas: the properties are read,  *)
(* and later written whole, without the bit.                               *)
ReadBits(w) ==
  /\ row[w].proc # 0 /\ bal[w] = 0 /\ "gas" \in row[w].bits
  /\ copy[w] = {}
  /\ copy' = [copy EXCEPT ![w] = row[w].bits]
  /\ UNCHANGED <<row, bal, cron, inst, fund, adds, left, reserve, faults>>

UnsetGas(w) ==
  /\ copy[w] # {}
  /\ row' = [row EXCEPT ![w].bits = copy[w] \ {"gas"}]
  /\ copy' = [copy EXCEPT ![w] = {}]
  /\ UNCHANGED <<bal, cron, inst, fund, adds, left, reserve, faults>>

-----------------------------------------------------------------------------
(* fund_client_address: called by the airdrop for all the addresses of a   *)
(* client, by the cron by_reserve/st_prime for its budget holder only.     *)

FundClient(c, workers) ==
  /\ fund.at = "off" /\ left.funds > 0
  /\ left' = [left EXCEPT !.funds = @ - 1]
  /\ fund' = [at |-> "check", client |-> c,
              queue |-> {w \in RowsOf(c) :
                          workers /\ row[w].status = "active"}]
  /\ UNCHANGED <<row, bal, cron, inst, adds, copy, reserve, faults>>

FundOver == fund' = [at |-> "off", client |-> 0, queue |-> {}]

(* A reserve below the alert funds nobody; a balance that is not had ends  *)
(* the call.                                                               *)
CheckReserve ==
  /\ fund.at = "check"
  /\ \/ FundOver /\ IF reserve[fund.client] < Alert THEN NoFault ELSE Fault
     \/ /\ reserve[fund.client] >= Alert
        /\ fund' = [fund EXCEPT !.at = "pay"] /\ NoFault
  /\ UNCHANGED <<row, bal, cron, inst, adds, copy, left, reserve>>

(* A worker that needs gas gets it and both bits, whatever its status is   *)
(* by now.  A refused transfer is passed over; a balance that is not had   *)
(* ends the call.                                                          *)
FundWorker(w) ==
  LET pays == bal[w] < MinGas /\ Covers(fund.client, Grant) IN
  /\ fund.at = "pay" /\ w \in fund.queue
  /\ \/ /\ fund' = [fund EXCEPT !.queue = @ \ {w}]
        /\ \/ /\ pays /\ Spend(fund.client, Grant) /\ Receives(w, Grant)
              /\ row' = [row EXCEPT ![w].bits = {"initial", "gas"}]
              /\ NoFault
           \/ /\ IF pays THEN Fault ELSE NoFault
              /\ UNCHANGED <<row, bal, reserve>>
     \/ FundOver /\ Fault /\ UNCHANGED <<row, bal, reserve>>
  /\ UNCHANGED <<cron, inst, adds, copy, left>>

(* The budget holder may need ST' too; what becomes of it is not followed, *)
(* nor whether its balance is had.                                         *)
FundHolder ==
  /\ fund.at = "pay" /\ fund.queue = {}
  /\ \/ /\ Covers(fund.client, HolderGrant)
        /\ Spend(fund.client, HolderGrant)
     \/ UNCHANGED reserve
  /\ FundOver
  /\ UNCHANGED <<row, bal, cron, inst, adds, copy, left, faults>>

-----------------------------------------------------------------------------
(* add_more_workers: rows of new addresses, inactive until the workers     *)
(* contract knows them.  No gas is given, and without the bit that says so *)
(* the monitor does not look at them.                                      *)

GenerateWorkers(c) ==
  LET new == {w \in RowsOf(c) : row[w].status = "none"} IN
  /\ adds.at = "off" /\ new # {} /\ left.adds > 0
  /\ left' = [left EXCEPT !.adds = @ - 1]
  /\ row' = [w \in Rows |->
               IF w \in new THEN [row[w] EXCEPT !.status = "inactive"]
                            ELSE row[w]]
  /\ adds' = [at |-> "set", client |-> c]
  /\ UNCHANGED <<bal, cron, inst, fund, copy, reserve, faults>>

(* setWorker for every inactive row of the client; those that succeeded    *)
(* become active.                                                          *)
SetWorkers ==
  LET inactive == {w \in RowsOf(adds.client) : row[w].status = "inactive"} IN
  /\ adds.at = "set"
  /\ \E S \in SUBSET inactive :
       /\ row' = [w \in Rows |->
                    IF w \in S THEN [row[w] EXCEPT !.status = "active"]
                               ELSE row[w]]
       /\ IF S = inactive THEN NoFault ELSE Fault
  /\ adds' = [at |-> "off", client |-> 0]
  /\ UNCHANGED <<bal, cron, inst, fund, copy, left, reserve>>

-----------------------------------------------------------------------------
(* The steps a monitor process takes by itself.                            *)
MonitorStep(i) ==
  \/ MarkRunning(i) \/ RunTask(i) \/ AcquireLock(i) \/ NextBatch(i)
  \/ ServeClient(i) \/ \E w \in Rows : GrantTo(i, w)
  \/ MarkGas(i) \/ Associate(i) \/ Dissociate(i) \/ Release(i)
  \/ PassEnds(i) \/ StopProcess(i) \/ Exit(i)

GasNext ==
  \/ \E i \in Instances :
       MonitorStep(i) \/ CanStart(i) \/ PassFails(i) \/ Crash(i) \/ Signal(i)
  \/ \E w \in Rows :
       TimeDue(w) \/ Settle(w) \/ Use(w) \/ ReadBits(w) \/ UnsetGas(w)
         \/ FundWorker(w)
  \/ \E c \in Clients :
       GenerateWorkers(c) \/ \E workers \in BOOLEAN : FundClient(c, workers)
  \/ OperatorResets \/ CheckReserve \/ FundHolder \/ SetWorkers
-----------------------------------------------------------------------------
(* A row that carries the lock of a process belongs to the pass it is at:  *)
(* a pass that ends well has released every row it locked, batch by batch, *)
(* whatever became of the scripts it called (_releaseLock).                *)
LockHasPass ==
  \A w \in Rows : row[w].lock \in Instances => inst[row[w].lock].acquired

(* Two processes that were started for the one cron never have the same    *)
(* worker to pay, but for a worker of an earlier batch, which its pass     *)
(* pays a second time (acquireLock, clientLowBalanceWorkerIds).            *)
OneMonitorPays ==
  \A i, j \in Instances : i # j =>
    \A w \in inst[i].queue \cap inst[j].queue :
      \E k \in {i, j} : Client(w) \notin inst[k].batch

(* The row says that the cron runs, and no process does, or will.          *)
CronIsDown ==
  /\ cron = "running"
  /\ \A i \in Instances :
       inst[i].at = "off" \/ (inst[i].at = "done" /\ inst[i].acquired)

(* A worker without gas, once its row may be locked, is paid or loses its  *)
(* process, unless its row stays locked for ever, its bit is lost to a     *)
(* consumer's late write, or the cron is down: starved workers do not keep *)
(* their transfers waiting (_grantSTPrimeFromReserve).                     *)
LowIsServed ==
  \A w \in Rows :
    (w \in Lockable /\ bal[w] < MinGas)
      ~> \/ bal[w] >= MinGas \/ row[w].proc = 0 \/ row[w].lock = "lost"
         \/ "initial" \notin row[w].bits \/ CronIsDown
=============================================================================
