------------------------ MODULE TransactionLifecycle ------------------------
(***************************************************************************)
(* One token transfer, from the API call to its settlement.  Its state is  *)
(* spread over a row of transaction_meta (MySQL), an item of the           *)
(* transaction log (DynamoDB) with its memcached copy, a RabbitMQ message, *)
(* and the chain.  The actors are the API call (transaction/execute.js),   *)
(* the consumers that run TransferBt (execute_transaction.js,              *)
(* transfer_bt.js), the observers of stuck rows                            *)
(* (transaction_meta_observer.js and its handlers) and the block scanner   *)
(* (for_tx_status_and_balance_sync.js).  Rows of other transfers never     *)
(* meet this one: every statement selects by uuid, id or lock.             *)
(***************************************************************************)
EXTENDS Integers, FiniteSets

CONSTANTS
  Worker,      \* deliveries that consumer processes can work on at a time
  Observer,    \* transaction_meta_observer processes
  MaxRetry,    \* rows with this retry_count are no longer observed (10)
  FirstNonce,  \* the next nonce of the worker address
  MaxNonce,    \* bound: fresh nonces are taken below it
  MaxScans     \* bound: mined transactions that are scanned

VARIABLES
  api,       \* where the API call stands
  meta,      \* the transaction_meta row
  log,       \* the transaction log item
  copies,    \* what memcached may hold: see FetchLog
  queue,     \* is the message in the queue
  owner,     \* the consumer RabbitMQ has delivered it to, or NoOne
  at,        \* where each consumer and each observer stands
  nonce,     \* the nonce a run has read from the log or has taken
  raw,       \* does the run hold the raw transaction's details
  res,       \* what came of a run
  chain,     \* the nonces taken, and the transfers nodes hold or have mined
  scanner,   \* where the scanner of this transfer's blocks stands
  lost,      \* history: a node took a transfer and its run was told of an
             \* error, or a raw transaction did not get into the log
  early      \* history: a handler took the row before its time

logVars == <<log, copies>>
mqVars == <<queue, owner>>
runVars == <<at, nonce, raw, res>>
worldVars == <<chain, scanner>>
histVars == <<lost, early>>
vars == <<api, meta, logVars, mqVars, runVars, worldVars, histVars>>

Exec == Worker \cup Observer
NoNonce == -1
NoOne == "none"
Orphan == "orphan"        \* a lock_id that no live process will use again
Scanner == "scanner"

ASSUME LifecycleAssumption ==
  /\ MaxRetry \in Nat /\ FirstNonce \in Nat /\ MaxNonce \in Nat
  /\ MaxScans \in Nat
  /\ Worker \cap Observer = {}
  /\ {NoOne, Orphan, Scanner} \cap Exec = {}

NoItem == [status |-> "none", nonce |-> NoNonce, raw |-> FALSE, hash |-> NoNonce]

(* What a run reads of the item, or of a copy in the cache. *)
Copy(item) == [status |-> item.status, nonce |-> item.nonce]

Nonces == FirstNonce .. MaxNonce
(* "gethDown" stands for geth_down and geth_out_of_sync, which have the    *)
(* same handler; "error" for the statuses without one: insufficient_gas,   *)
(* nonce_too_low, replacement_tx_under_priced, insufficient_funds, unknown.*)
Status == {"none", "queued", "processing", "submitted", "gethDown", "mined",
           "failed", "error"}
Meta == [status : Status, lock : Observer \cup {NoOne, Orphan, Scanner},
         due : {"never", "later", "now"}, retry : Nat,
         hash : Nonces \cup {NoNonce}]
Item == [status : {"none", "processing", "waiting", "complete", "failed"},
         nonce : Nonces \cup {NoNonce}, raw : BOOLEAN,
         hash : Nonces \cup {NoNonce}]
Copies == {Copy(item) : item \in Item}
Chain == [next : Nat, pending : SUBSET Nonces, mined : SUBSET Nonces]
ScannerState == [at : {"idle", "settle", "release"},
                 tx : Nonces \cup {NoNonce}, seen : SUBSET Nonces]

(* transaction_meta_observer: the statuses with a handler. *)
Handled == {"queued", "submitted", "gethDown"}

Places == {"idle", "unacked", "fetch", "cas", "steps", "meta", "log",
           "catchMeta", "catchLog", "select", "failLog", "failMeta",
           "requeue", "check", "resubmit", "release", "hung"}

(* A run of TransferBt between its compare-and-set and its last write; it  *)
(* has database writes under way once it is past its steps.                *)
Executing(e) == at[e] \in {"steps", "meta", "log", "catchMeta", "catchLog"}
Writing(e) == at[e] \in {"meta", "log", "catchMeta", "catchLog"}

TypeOK ==
  /\ api \in {"insert", "createLog", "publish", "markFailed", "done"}
  /\ meta \in Meta /\ log \in Item /\ copies \subseteq Copies
  /\ queue \in BOOLEAN /\ owner \in Worker \cup {NoOne}
  /\ at \in [Exec -> Places]
  /\ nonce \in [Exec -> Nonces \cup {NoNonce}]
  /\ raw \in [Exec -> BOOLEAN]
  /\ res \in [Exec -> {"ok", "gethDown", "error", "unwritten"}]
  /\ chain \in Chain /\ scanner \in ScannerState
  /\ lost \in BOOLEAN /\ early \in BOOLEAN

Init ==
  /\ api = "insert"
  /\ meta = [status |-> "none", lock |-> NoOne, due |-> "never", retry |-> 0,
             hash |-> NoNonce]
  /\ log = NoItem /\ copies = {}
  /\ queue = FALSE /\ owner = NoOne
  /\ at = [e \in Exec |-> "idle"]
  /\ nonce = [e \in Exec |-> NoNonce]
  /\ raw = [e \in Exec |-> FALSE]
  /\ res = [e \in Exec |-> "ok"]
  /\ chain = [next |-> FirstNonce, pending |-> {}, mined |-> {}]
  /\ scanner = [at |-> "idle", tx |-> NoNonce, seen |-> {}]
  /\ lost = FALSE /\ early = FALSE

Move(e, from, to) == at[e] = from /\ at' = [at EXCEPT ![e] = to]

(* updateItem of the transaction log; every caller ignores a failure.      *)
UpdateItem(item) ==
  \/ log' = item /\ copies' = copies \cup {Copy(item)}
  \/ UNCHANGED logVars

-----------------------------------------------------------------------------
(* The API call: insert the row, create the item, publish the message.     *)
InsertMeta ==
  /\ api = "insert"
  /\ meta' = [meta EXCEPT !.status = "queued", !.due = "later"]
  /\ api' \in {"createLog", "done"}      \* done: no working process (s_t_e_20)
  /\ UNCHANGED <<logVars, mqVars, runVars, worldVars, histVars>>

(* _createTransactionLog *)
CreateLog ==
  /\ api = "createLog"
  /\ api' = "publish"
  /\ UpdateItem([log EXCEPT !.status = "processing"])
  /\ UNCHANGED <<meta, mqVars, runVars, worldVars, histVars>>

(* publishEvent: it may report a failure although the message got through. *)
Publish ==
  /\ api = "publish"
  /\ \/ queue' = TRUE /\ api' \in {"done", "markFailed"}
     \/ UNCHANGED queue /\ api' = "markFailed"
  /\ UNCHANGED <<meta, logVars, owner, runVars, worldVars, histVars>>

(* _markFailedInTransactionMeta, whatever the row's status is by now.      *)
MarkFailed ==
  /\ api = "markFailed"
  /\ api' = "done"
  /\ meta' = [meta EXCEPT !.status = "failed", !.due = "never"]
  /\ UNCHANGED <<logVars, mqVars, runVars, worldVars, histVars>>

ApiFails ==
  /\ api # "done"
  /\ api' = "done"
  /\ UNCHANGED <<meta, logVars, mqVars, runVars, worldVars, histVars>>

-----------------------------------------------------------------------------
(* Consumers: one message, acknowledged when its run ends.                 *)
Deliver(w) ==
  /\ queue
  /\ Move(w, "idle", "fetch")
  /\ queue' = FALSE /\ owner' = w
  /\ UNCHANGED <<api, meta, logVars, nonce, raw, res, worldVars, histVars>>

(* promiseTxExecutor: the client's configuration cannot be read; nobody    *)
(* handles the rejection and the message is never acknowledged.            *)
NeverAcked(w) ==
  /\ Move(w, "fetch", "unacked")
  /\ UNCHANGED <<api, meta, logVars, mqVars, nonce, raw, res, worldVars,
                 histVars>>

(* The connection breaks: the message is queued again while its run goes   *)
(* on.                                                                     *)
Disconnect ==
  /\ owner # NoOne
  /\ queue' = TRUE /\ owner' = NoOne
  /\ UNCHANGED <<api, meta, logVars, runVars, worldVars, histVars>>

(* A run has ended: a consumer acknowledges its message, an observer goes  *)
(* on to release its row.                                                  *)
Ended(e, from) ==
  /\ Move(e, from, IF e \in Worker THEN "idle" ELSE "release")
  /\ owner' = IF owner = e THEN NoOne ELSE owner
  /\ nonce' = [nonce EXCEPT ![e] = NoNonce]
  /\ raw' = [raw EXCEPT ![e] = FALSE]
  /\ res' = [res EXCEPT ![e] = "ok"]


(* _fetchTransactionLog reads through the cache.  Copies are sent to       *)
(* memcached without being awaited, by this and by any other reader of the *)
(* transfer and by the API call, and so are the commands that clear them:  *)
(* a read may find any version the item ever had.                          *)
FetchLog(e) ==
  /\ \E item \in copies \cup {Copy(log)} :
        IF item.status = "processing"
        THEN /\ Move(e, "fetch", "cas")
             /\ nonce' = [nonce EXCEPT ![e] = item.nonce]
             /\ UNCHANGED <<owner, raw, res>>
        ELSE Ended(e, "fetch")
  /\ UNCHANGED <<api, meta, logVars, queue, worldVars, histVars>>

(* The item cannot be read: the consumer puts its message back on a        *)
(* ddbDownError and acknowledges it on a failure that is only returned.    *)
FetchFails(e) ==
  /\ Ended(e, "fetch")
  /\ queue' \in {queue, queue \/ owner = e}
  /\ UNCHANGED <<api, meta, logVars, worldVars, histVars>>

(* Fault seeded to test the properties: the update does not compare the    *)
(* status.                                                                 *)
StartProcessingUnchecked(e) ==
  /\ Move(e, "cas", "steps")
  /\ meta' = [meta EXCEPT !.status = "processing", !.due = "later",
                          !.retry = 0]
  /\ UNCHANGED <<api, logVars, mqVars, nonce, raw, res, worldVars, histVars>>

(* _updateInTransactionMeta: compare-and-set from queued to processing.    *)
StartProcessing(e) ==
  /\ Move(e, "cas", "steps")
  /\ meta.status = "queued"
  /\ meta' = [meta EXCEPT !.status = "processing", !.due = "later",
                          !.retry = 0]
  /\ UNCHANGED <<api, logVars, mqVars, nonce, raw, res, worldVars, histVars>>

(* The row is not queued, or MySQL did not answer. *)
NotStarted(e) ==
  /\ Ended(e, "cas")
  /\ UNCHANGED <<api, meta, logVars, queue, worldVars, histVars>>

(* _validateClientToken .. _validateUsers reject: nothing is written.      *)
ValidationFails(e) ==
  /\ Ended(e, "steps")
  /\ UNCHANGED <<api, meta, logVars, queue, worldVars, histVars>>

(* performTransactionSteps: the gas refill or the approval fails and       *)
(* records it, before _execute's catch records it again; or a lookup fails.*)
StepsFail(e, outcome) ==
  /\ outcome # "ok"
  /\ Move(e, "steps", "meta") \/ Move(e, "steps", "catchMeta")
  /\ res' = [res EXCEPT ![e] = outcome]
  /\ UNCHANGED <<api, meta, logVars, mqVars, nonce, raw, worldVars, histVars>>

(* sendAirdropPay: the nonce read from the log is used only if truthy; an  *)
(* attempt that took a node may still be answered with an error, which may *)
(* or may not carry the raw transaction.                                   *)
Kept(e) == nonce[e] \notin {NoNonce, 0}
OnChain == chain.pending \cup chain.mined

Pay(e, outcome) ==
  \E k \in Nonces, taken, known \in BOOLEAN :
    /\ Move(e, "steps", IF outcome = "ok" THEN "meta" ELSE "catchMeta")
    /\ IF Kept(e) THEN k = nonce[e] ELSE k = chain.next /\ k < MaxNonce
    /\ taken => k \notin OnChain
    /\ outcome = "ok" => taken /\ known
    /\ chain' = [chain EXCEPT !.next = IF Kept(e) THEN @ ELSE @ + 1,
                   !.pending = IF taken THEN @ \cup {k} ELSE @]
    /\ nonce' = [nonce EXCEPT ![e] = k]
    /\ raw' = [raw EXCEPT ![e] = known]
    /\ res' = [res EXCEPT ![e] = outcome]
    /\ lost' = (lost \/ (taken /\ outcome # "ok"))
    /\ UNCHANGED <<api, meta, logVars, mqVars, scanner, early>>

(* updateParentTransactionLog, first half: the row, whatever its status.   *)
(* The time of a row in "error" is never read: nobody handles it.          *)
MetaStatus(outcome) ==
  IF outcome = "ok" THEN "submitted"
  ELSE IF outcome = "unwritten" THEN "error" ELSE outcome

WriteMeta(e) ==
  /\ Move(e, "meta", "log") \/ Move(e, "catchMeta", "catchLog")
  /\ meta' = [meta EXCEPT !.status = MetaStatus(res[e]), !.retry = 0,
       !.due = IF MetaStatus(res[e]) = "error" THEN @ ELSE "later",
       !.hash = IF res[e] = "ok" THEN nonce[e] ELSE @]
  /\ UNCHANGED <<api, logVars, mqVars, nonce, raw, res, worldVars, histVars>>

(* MySQL refuses: _execute's catch records an error, once.                 *)
WriteMetaFails(e) ==
  /\ \/ /\ Move(e, "meta", "catchMeta")
        /\ res' = [res EXCEPT ![e] = IF @ = "ok" THEN "unwritten" ELSE "error"]
        /\ UNCHANGED <<owner, nonce, raw>>
     \/ Ended(e, "catchMeta")
  /\ UNCHANGED <<api, meta, logVars, queue, worldVars, histVars>>

(* Second half: the log item.                                              *)
LogStatus(outcome) ==
  IF outcome = "ok" THEN "waiting"
  ELSE IF outcome = "gethDown" THEN "processing"
  ELSE "failed"

(* Fault seeded to test the properties: a raw transaction that the item    *)
(* has already is kept.                                                    *)
WriteLogOnce(e) ==
  /\ UpdateItem([log EXCEPT !.status = LogStatus(res[e]),
       !.nonce = IF raw[e] /\ ~log.raw THEN nonce[e] ELSE @,
       !.raw = raw[e] \/ @,
       !.hash = IF res[e] \in {"ok", "unwritten"} THEN nonce[e] ELSE @])
  /\ lost' = (lost \/ (raw[e] /\ log' = log))
  /\ \/ Move(e, "log", "catchMeta") /\ res[e] # "ok"
        /\ UNCHANGED <<owner, nonce, raw, res>>
     \/ Ended(e, "log") /\ res[e] = "ok"
     \/ Ended(e, "catchLog")
  /\ UNCHANGED <<api, meta, queue, worldVars, early>>

WriteLog(e) ==
  /\ UpdateItem([log EXCEPT !.status = LogStatus(res[e]),
       !.nonce = IF raw[e] THEN nonce[e] ELSE @,
       !.raw = raw[e] \/ @,
       !.hash = IF res[e] \in {"ok", "unwritten"} THEN nonce[e] ELSE @])
  /\ lost' = (lost \/ (raw[e] /\ log' = log))
  /\ \/ Move(e, "log", "catchMeta") /\ res[e] # "ok"
        /\ UNCHANGED <<owner, nonce, raw, res>>
     \/ Ended(e, "log") /\ res[e] = "ok"
     \/ Ended(e, "catchLog")
  /\ UNCHANGED <<api, meta, queue, worldVars, early>>

-----------------------------------------------------------------------------
(* Observers: lock rows whose time has come, then select them by lock.     *)
Lock(o) ==
  /\ Move(o, "idle", "select")
  /\ meta.status \in Handled
  /\ meta.due = "now" /\ meta.retry < MaxRetry /\ meta.lock = NoOne
  /\ meta' = [meta EXCEPT !.lock = o]
  /\ UNCHANGED <<api, logVars, mqVars, nonce, raw, res, worldVars, histVars>>

(* The status the row has now picks the handler.  There may be none: the   *)
(* next iteration has another lock_id, and this lock stays.                *)
Select(o) ==
  /\ \/ /\ \/ meta.status = "queued" /\ Move(o, "select", "failLog")
           \/ meta.status = "gethDown" /\ Move(o, "select", "requeue")
           \/ meta.status = "submitted" /\ Move(o, "select", "check")
        /\ early' = (early \/ meta.due # "now")
        /\ UNCHANGED meta
     \/ /\ meta.status \notin Handled
        /\ Move(o, "select", "idle")
        /\ meta' = [meta EXCEPT !.lock = Orphan]
        /\ UNCHANGED early
  /\ UNCHANGED <<api, logVars, mqVars, nonce, raw, res, worldVars, lost>>

(* An exception in a handler is logged; the lock stays. *)
HandlerFails(o) ==
  /\ at[o] \in {"select", "failLog", "failMeta", "requeue", "fetch", "check",
                "resubmit"}
  /\ at' = [at EXCEPT ![o] = "idle"]
  /\ meta' = [meta EXCEPT !.lock = IF @ = o THEN Orphan ELSE @]
  /\ UNCHANGED <<api, logVars, mqVars, nonce, raw, res, worldVars, histVars>>

(* queued_handler: the log item first, then the row and its lock.          *)
FailLog(o) ==
  /\ Move(o, "failLog", "failMeta")
  /\ UpdateItem([log EXCEPT !.status = "failed"])
  /\ UNCHANGED <<api, meta, mqVars, nonce, raw, res, worldVars, histVars>>

FailMeta(o) ==
  /\ Move(o, "failMeta", "idle")
  /\ meta' = IF meta.lock = o
             THEN [meta EXCEPT !.status = "failed", !.due = "never",
                               !.lock = NoOne]
             ELSE meta
  /\ UNCHANGED <<api, logVars, mqVars, nonce, raw, res, worldVars, histVars>>

(* Fault seeded to test the properties: next_action_at is cleared.         *)
RequeueForever(o) ==
  /\ Move(o, "requeue", "fetch")
  /\ meta' = [meta EXCEPT !.status = "queued", !.due = "never", !.retry = @ + 1]
  /\ UNCHANGED <<api, logVars, mqVars, nonce, raw, res, worldVars, histVars>>

(* geth_down_handler: _markAllAsQueued, then a run of TransferBt.          *)
Requeue(o) ==
  /\ Move(o, "requeue", "fetch")
  /\ meta' = [meta EXCEPT !.status = "queued", !.due = "later", !.retry = @ + 1]
  /\ UNCHANGED <<api, logVars, mqVars, nonce, raw, res, worldVars, histVars>>

(* _releaseTransactionLock is refused: the catch calls it once more, and   *)
(* when that is refused too the promise never settles.                     *)
ReleaseHangs(o) ==
  /\ Move(o, "release", "hung")
  /\ UNCHANGED <<api, meta, logVars, mqVars, nonce, raw, res, worldVars,
                 histVars>>

ReleaseLock(o) ==
  /\ Move(o, "release", "idle")
  /\ meta' = [meta EXCEPT !.lock = IF @ = o THEN NoOne ELSE @]
  /\ UNCHANGED <<api, logVars, mqVars, nonce, raw, res, worldVars, histVars>>

(* Fault seeded to test the properties: retries are counted down.          *)
PostponedDown(o) ==
  IF meta.lock = o
  THEN [meta EXCEPT !.due = "later", !.retry = @ - 1, !.lock = NoOne]
  ELSE meta

(* submitted_handler: _releaseLock postpones and counts a retry.           *)
Postponed(o) == IF meta.lock = o
                THEN [meta EXCEPT !.due = "later", !.retry = @ + 1, !.lock = NoOne]
                ELSE meta

Found(o) ==
  /\ Move(o, "check", "idle")
  /\ meta.hash \in OnChain
  /\ meta' = Postponed(o)
  /\ UNCHANGED <<api, logVars, mqVars, nonce, raw, res, worldVars, histVars>>

NotFound(o) ==
  /\ Move(o, "check", "resubmit")
  /\ UNCHANGED <<api, meta, logVars, mqVars, nonce, raw, res, worldVars,
                 histVars>>

(* _resubmitTransaction: the raw transaction of the log item is sent; the  *)
(* row released is the one with the item's hash; without one, none is.     *)
Resubmit(o) ==
  /\ \/ UNCHANGED chain
     \/ /\ log.raw /\ log.nonce \notin OnChain
        /\ chain' = [chain EXCEPT !.pending = @ \cup {log.nonce}]
  /\ \/ /\ Move(o, "resubmit", "idle")
        /\ meta' = IF log.raw /\ log.hash = meta.hash THEN Postponed(o)
                   ELSE [meta EXCEPT !.lock = IF @ = o THEN Orphan ELSE @]
     \/ /\ log.raw /\ Move(o, "resubmit", "hung")   \* as ReleaseHangs
        /\ UNCHANGED meta
  /\ UNCHANGED <<api, logVars, mqVars, nonce, raw, res, scanner,
                 histVars>>

-----------------------------------------------------------------------------
(* The block scanner, once a block with a transaction of this transfer is  *)
(* deep enough.  The message with the block is acknowledged at the end.    *)
(* _acquireLock and categorizeTransactions: a row that is not submitted,   *)
(* or is locked, is not recognised; its transaction goes into the log as a *)
(* transfer of unknown origin.                                             *)
Recognised(k) == /\ meta.status = "submitted"
                 /\ meta.lock = NoOne
                 /\ meta.hash = k

Unscanned == IF Cardinality(scanner.seen) < MaxScans
             THEN chain.mined \ scanner.seen ELSE {}

Scanned(k) == scanner' = [at |-> "idle", tx |-> NoNonce,
                          seen |-> scanner.seen \cup {k}]

ScanLock(k) ==
  /\ scanner.at = "idle"
  /\ k \in Unscanned
  /\ \/ /\ Recognised(k)
        /\ meta' = [meta EXCEPT !.status = "mined", !.due = "never",
                                !.lock = Scanner]
        /\ scanner' = [scanner EXCEPT !.at = "settle", !.tx = k]
     \/ /\ ~Recognised(k)
        /\ Scanned(k)
        /\ UNCHANGED meta
  /\ UNCHANGED <<api, logVars, mqVars, runVars, chain, histVars>>

(* updateTransactionLogs: the receipt's status; an exception on the way    *)
(* there is swallowed and nothing is written.                              *)
ScanSettle ==
  /\ scanner.at = "settle"
  /\ scanner' = [scanner EXCEPT !.at = "release"]
  /\ \E s \in {"complete", "failed"} :
        UpdateItem([log EXCEPT !.status = s, !.raw = FALSE])
  /\ UNCHANGED <<api, meta, mqVars, runVars, chain, histVars>>

ScanRelease ==
  /\ scanner.at = "release"
  /\ Scanned(scanner.tx)
  /\ meta' = [meta EXCEPT !.lock = IF @ = Scanner THEN NoOne ELSE @]
  /\ UNCHANGED <<api, logVars, mqVars, runVars, chain, histVars>>

(* MySQL refuses the lock or its release: the block counts as scanned.     *)
ScanFails ==
  /\ \/ /\ scanner.at = "idle"
        /\ \E k \in Unscanned : Scanned(k)
        /\ UNCHANGED meta
     \/ /\ scanner.at = "release"
        /\ Scanned(scanner.tx)
        /\ meta' = [meta EXCEPT !.lock = IF @ = Scanner THEN Orphan ELSE @]
  /\ UNCHANGED <<api, logVars, mqVars, runVars, chain, histVars>>

-----------------------------------------------------------------------------
(* Processes die at any await.  A consumer's message is queued again; the  *)
(* row an observer or a scanner has locked stays locked.                   *)
Crash(e) ==
  /\ at[e] # "idle"
  /\ at' = [at EXCEPT ![e] = "idle"]
  /\ nonce' = [nonce EXCEPT ![e] = NoNonce]
  /\ raw' = [raw EXCEPT ![e] = FALSE]
  /\ res' = [res EXCEPT ![e] = "ok"]
  /\ queue' = (queue \/ owner = e)
  /\ owner' = IF owner = e THEN NoOne ELSE owner
  /\ meta' = [meta EXCEPT !.lock = IF @ = e THEN Orphan ELSE @]
  /\ lost' = (lost \/ (raw[e] /\ at[e] \in {"log", "catchLog"}))
  /\ UNCHANGED <<api, logVars, worldVars, early>>

ScannerCrash ==
  /\ scanner.at # "idle"
  /\ scanner' = [scanner EXCEPT !.at = "idle", !.tx = NoNonce]
  /\ meta' = [meta EXCEPT !.lock = IF @ = Scanner THEN Orphan ELSE @]
  /\ UNCHANGED <<api, logVars, mqVars, runVars, chain, histVars>>

Mine(k) ==
  /\ k \in chain.pending
  /\ chain' = [chain EXCEPT !.pending = @ \ {k}, !.mined = @ \cup {k}]
  /\ UNCHANGED <<api, meta, logVars, mqVars, runVars, scanner, histVars>>

Drop(k) ==
  /\ k \in chain.pending
  /\ chain' = [chain EXCEPT !.pending = @ \ {k}]
  /\ UNCHANGED <<api, meta, logVars, mqVars, runVars, scanner, histVars>>

(* next_action_at is passed.  The times are 60 s and more: the database    *)
(* writes that a run has already started are over by then.                 *)
Due ==
  /\ meta.due = "later"
  /\ \A e \in Exec : ~Writing(e)
  /\ meta' = [meta EXCEPT !.due = "now"]
  /\ UNCHANGED <<api, logVars, mqVars, runVars, worldVars, histVars>>

-----------------------------------------------------------------------------
Outcomes == {"ok", "gethDown", "error"}

ApiStep == InsertMeta \/ CreateLog \/ Publish \/ MarkFailed

RunStep(e) ==
  \/ FetchLog(e) \/ FetchFails(e) \/ StartProcessing(e) \/ NotStarted(e)
  \/ ValidationFails(e) \/ WriteMeta(e) \/ WriteMetaFails(e) \/ WriteLog(e)
  \/ \E outcome \in Outcomes : StepsFail(e, outcome) \/ Pay(e, outcome)

HandlerStep(o) ==
  \/ Lock(o) \/ Select(o) \/ HandlerFails(o) \/ FailLog(o) \/ FailMeta(o)
  \/ Requeue(o) \/ ReleaseLock(o) \/ ReleaseHangs(o)
  \/ Found(o) \/ NotFound(o) \/ Resubmit(o)

ScanStep == \/ \E k \in chain.mined : ScanLock(k)
            \/ ScanSettle \/ ScanRelease \/ ScanFails

Environment ==
  \/ ApiFails \/ ScannerCrash \/ \E e \in Exec : Crash(e)
  \/ Disconnect
  \/ \E k \in chain.pending : Mine(k) \/ Drop(k)

Next ==
  \/ ApiStep \/ ScanStep \/ Due \/ Environment
  \/ \E w \in Worker : Deliver(w) \/ NeverAcked(w)
  \/ \E e \in Exec : RunStep(e)
  \/ \E o \in Observer : HandlerStep(o)

Spec == Init /\ [][Next]_vars

(* Every delivered message is worked on, observers come back every two     *)
(* minutes, and time passes; nothing is assumed of the API call, the       *)
(* queue, the scanner, crashes or the chain.                               *)
FairSpec ==
  /\ Spec
  /\ \A e \in Exec : WF_vars(RunStep(e))
  /\ \A o \in Observer : WF_vars(HandlerStep(o))
  /\ SF_vars(Due)

-----------------------------------------------------------------------------
(* At most one run of TransferBt is between its compare-and-set on the row *)
(* (_updateInTransactionMeta) and its last write, whatever is redelivered, *)
(* requeued or lost, unless a handler took the row before its time.        *)
ExclusiveRun ==
  \A e, f \in Exec : Executing(e) /\ Executing(f) /\ ~early => e = f

(* A transfer gets two transactions onto the chain only after a loss: a    *)
(* node took one although its run was told of an error, or the raw         *)
(* transaction of a run did not get into the log (lost).  Otherwise        *)
(* redelivered messages, requeued rows and resubmissions of the raw        *)
(* transaction in the log all end in at most one transfer.                 *)
DoubleTransferNeedsLoss ==
  ~lost /\ ~early => \A j, k \in OnChain : j = k

(* A row in submitted has a transaction hash: submitted_handler and the    *)
(* scanner find the transaction by it.  (Proved, as a part of the type      *)
(* invariant of TransactionLifecycle_proofs.)                              *)
SubmittedHash == meta.status = "submitted" => meta.hash \in Nonces

(* A settled transfer is never reported as failed afterwards: no late      *)
(* write of a run or of queued_handler meets a complete item.              *)
CompleteNeverFails ==
  [][log.status = "complete" /\ ~early => log'.status # "failed"]_vars

(* A row does not stay in queued, unless its lock is lost: its observer    *)
(* died or failed on it, or hangs in a release that MySQL refused twice.   *)
LockLost == meta.lock = Orphan \/ \E o \in Observer : meta.lock = o /\ at[o] = "hung"
QueuedSettles == meta.status = "queued" ~> meta.status # "queued" \/ LockLost
=============================================================================
