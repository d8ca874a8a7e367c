---------------------------- MODULE NonceManager ----------------------------
(***************************************************************************)
(* The nonce of one sender address on one chain: the memcached counter and *)
(* its lock (module_overrides/web3_eth/nonce_manager.js), the signing      *)
(* retry loop that uses it (common/sign_raw_tx.js, web3_eth/index.js) and  *)
(* the chain nodes it is synchronised from (external).  A caller is one    *)
(* sendTransaction of that address, in any process of the platform.        *)
(***************************************************************************)
EXTENDS Integers

CONSTANTS
  Caller,       \* concurrent sendTransaction calls
  Node,         \* chain nodes (chain_ws_providers)
  MaxWaits,     \* waitTimeout / waitTimeInterval (25 in the code)
  MaxRetries    \* chainNodeDownErrorMaxRetryCnt (10 in the code)

ASSUME NonceAssumption == MaxWaits \in Nat /\ MaxRetries \in Nat

VARIABLES
  cache,    \* memcached: the last nonce handed out, or NoNonce (no key)
  lock,     \* memcached: does the lock key exist
  pc,       \* where each caller stands
  nonce,    \* the nonce in the caller's rawTx, or NoNonce
  acc,      \* maxNonceCount of a running sync, NoNonce before any answer
  reads,    \* node requests of a running sync that are unanswered
  waits,    \* setTimeout rounds the caller has been through
  retries,  \* chainNodeDownErrorRetryCount
  head,     \* head[n]: transactions of the address mined, as node n sees it
  pool,     \* pool[n]: nonces in the txpool (pending or queued) of node n
  epoch,    \* history: how often a sync has overwritten the cache
  born,     \* history: the epoch a caller's nonce was handed out in
  stable    \* history: <<n, k>>, nonce k stayed in the pool, or stayed
            \* mined, on node n since the running sync began, and n has
            \* refused no request of it

memVars   == <<cache, lock>>
syncVars  == <<acc, reads, stable>>
chainVars == <<head, pool>>
nonceVars == <<cache, lock, pc, nonce, acc, reads, waits, retries, head,
               pool, epoch, born, stable>>

NoNonce == -1

Max2(a, b) == IF a >= b THEN a ELSE b

CallerStates == {"increment", "acquire", "sync", "release", "releaseFailed",
                 "wait", "send", "hash", "failed", "timedOut", "hung", "dead"}

Requests == Node \X {"mined", "pool"}

(* The nonces node n knows, mined or waiting. *)
Known(n) == pool[n] \cup {k \in 0 .. head[n] : k < head[n]}

TypeOK ==
  /\ cache \in Nat \cup {NoNonce}
  /\ lock \in BOOLEAN
  /\ pc \in [Caller -> CallerStates]
  /\ nonce \in [Caller -> Nat \cup {NoNonce}]
  /\ acc \in [Caller -> Nat \cup {NoNonce}]
  /\ reads \in [Caller -> SUBSET Requests]
  /\ waits \in [Caller -> Nat]
  /\ retries \in [Caller -> Nat]
  /\ head \in [Node -> Nat]
  /\ pool \in [Node -> SUBSET Nat]
  /\ epoch \in Nat
  /\ born \in [Caller -> Nat]
  /\ stable \in [Caller -> SUBSET (Node \X Nat)]

InitNonce ==
  /\ cache = NoNonce
  /\ lock = FALSE
  /\ pc = [c \in Caller |-> "increment"]
  /\ nonce = [c \in Caller |-> NoNonce]
  /\ acc = [c \in Caller |-> NoNonce]
  /\ reads = [c \in Caller |-> {}]
  /\ waits = [c \in Caller |-> 0]
  /\ retries = [c \in Caller |-> 0]
  /\ head = [n \in Node |-> 0]
  /\ pool = [n \in Node |-> {}]
  /\ epoch = 0
  /\ born = [c \in Caller |-> 0]
  /\ stable = [c \in Caller |-> {}]

Goto(c, s) == pc' = [pc EXCEPT ![c] = s]

-----------------------------------------------------------------------------
(* Fault seeded to test the properties: the counter is read and not        *)
(* advanced.                                                               *)
IncrementStale(c) ==
  /\ pc[c] = "increment"
  /\ cache # NoNonce
  /\ nonce' = [nonce EXCEPT ![c] = cache + 1]
  /\ born' = [born EXCEPT ![c] = epoch]
  /\ Goto(c, "send")
  /\ UNCHANGED <<memVars, waits, retries, epoch, syncVars, chainVars>>

(* getNonce: memcached increments the key atomically. *)
Increment(c) ==
  /\ pc[c] = "increment"
  /\ cache # NoNonce
  /\ cache' = cache + 1
  /\ nonce' = [nonce EXCEPT ![c] = cache + 1]
  /\ born' = [born EXCEPT ![c] = epoch]
  /\ Goto(c, "send")
  /\ UNCHANGED <<lock, waits, retries, epoch, syncVars, chainVars>>

(* getNonce: the key is missing, or memcached did not answer.  A request   *)
(* without an answer may have been carried out, here and below.            *)
IncrementFails(c) ==
  /\ pc[c] = "increment"
  /\ cache' = cache \/ (cache # NoNonce /\ cache' = cache + 1)
  /\ Goto(c, "acquire")
  /\ UNCHANGED <<lock, nonce, waits, retries, epoch, born, syncVars,
                 chainVars>>

(* Fault seeded to test the properties: the limit is met one round late.   *)
TimedOutLate(c) ==
  /\ pc[c] = "acquire"
  /\ waits[c] > MaxWaits + 1
  /\ Goto(c, "timedOut")
  /\ UNCHANGED <<memVars, nonce, waits, retries, epoch, born, syncVars,
                 chainVars>>

(* wait(): over waitTimeout since the manager was created.  Requests may   *)
(* be slow, so the limit may be met in any round, and is met after         *)
(* MaxWaits rounds.                                                        *)
TimedOut(c) ==
  /\ pc[c] = "acquire"
  /\ Goto(c, "timedOut")
  /\ UNCHANGED <<memVars, nonce, waits, retries, epoch, born, syncVars,
                 chainVars>>

(* _acquireLock succeeds; both requests go to every node at once. *)
AcquireLock(c) ==
  /\ pc[c] = "acquire"
  /\ waits[c] <= MaxWaits
  /\ ~lock
  /\ lock' = TRUE
  /\ acc' = [acc EXCEPT ![c] = NoNonce]
  /\ reads' = [reads EXCEPT ![c] = Requests]
  /\ stable' = [stable EXCEPT ![c] = UNION {{n} \X Known(n) : n \in Node}]
  /\ Goto(c, "sync")
  /\ UNCHANGED <<cache, nonce, waits, retries, epoch, born, chainVars>>

(* _acquireLock fails: the key exists, or memcached did not answer. *)
LockFails(c) ==
  /\ pc[c] = "acquire"
  /\ waits[c] <= MaxWaits
  /\ lock' \in {lock, TRUE}
  /\ Goto(c, "wait")
  /\ UNCHANGED <<cache, nonce, waits, retries, epoch, born, syncVars,
                 chainVars>>

(* The lock key is created with a TTL of lockingTtl = 5 seconds. *)
ExpireLock ==
  /\ lock
  /\ lock' = FALSE
  /\ UNCHANGED <<cache, pc, nonce, waits, retries, epoch, born, syncVars,
                 chainVars>>

Awaits(c, n, kind) == pc[c] = "sync" /\ <<n, kind>> \in reads[c]

(* A node answers one of the two requests of c's sync with count. *)
Answer(c, n, kind, count) ==
  /\ acc' = [acc EXCEPT ![c] = Max2(@, count)]
  /\ reads' = [reads EXCEPT ![c] = @ \ {<<n, kind>>}]
  /\ UNCHANGED <<memVars, pc, nonce, waits, retries, epoch, born, stable,
                 chainVars>>

(* getMinedTxCountFromNode answers. *)
ReadMined(c, n) == /\ Awaits(c, n, "mined")
                   /\ Answer(c, n, "mined", head[n])

(* Fault seeded to test the properties: the largest nonce in the pool      *)
(* counts, not the one past it.                                            *)
ReadPoolTop(c, n) ==
  /\ Awaits(c, n, "pool")
  /\ \/ /\ pool[n] = {}
        /\ Answer(c, n, "pool", NoNonce)
     \/ \E top \in pool[n] : /\ \A k \in pool[n] : k <= top
                             /\ Answer(c, n, "pool", top)

(* getUnminedTransactionsFromNode answers: one past the largest nonce in   *)
(* the pool counts, nothing when the pool is empty.                        *)
ReadPool(c, n) ==
  /\ Awaits(c, n, "pool")
  /\ \/ /\ pool[n] = {}
        /\ Answer(c, n, "pool", NoNonce)
     \/ \E top \in pool[n] : /\ \A k \in pool[n] : k <= top
                             /\ Answer(c, n, "pool", top + 1)

(* A node answers with an error: the sync goes on without it. *)
ReadFails(c, n, kind) ==
  /\ Awaits(c, n, kind)
  /\ reads' = [reads EXCEPT ![c] = @ \ {<<n, kind>>}]
  /\ stable' = [stable EXCEPT ![c] = {s \in @ : s[1] # n}]
  /\ UNCHANGED <<memVars, pc, nonce, waits, retries, epoch, born, acc, chainVars>>

(* getUnminedTransactionsFromNode: the websocket fails, and the RPC        *)
(* fallback, awaited inside the catch of an async executor, fails too: the *)
(* executor's rejection is dropped and the promise never settles.          *)
ReadHangs(c, n) ==
  /\ Awaits(c, n, "pool")
  /\ Goto(c, "hung")
  /\ UNCHANGED <<memVars, nonce, waits, retries, epoch, born, syncVars,
                 chainVars>>

(* _getNonceFromChainAndSetCache: the answer becomes the cached nonce and  *)
(* the nonce of this caller.                                               *)
SetCache(c) ==
  /\ pc[c] = "sync"
  /\ reads[c] = {}
  /\ acc[c] # NoNonce
  /\ cache' = acc[c]
  /\ nonce' = [nonce EXCEPT ![c] = acc[c]]
  /\ epoch' = epoch + 1
  /\ born' = [born EXCEPT ![c] = epoch + 1]
  /\ Goto(c, "release")
  /\ UNCHANGED <<lock, waits, retries, syncVars, chainVars>>

(* No node answered, or memcached did not answer the set. *)
SyncFails(c) ==
  /\ pc[c] = "sync"
  /\ reads[c] = {}
  /\ \/ UNCHANGED <<cache, epoch>>
     \/ acc[c] # NoNonce /\ cache' = acc[c] /\ epoch' = epoch + 1
  /\ Goto(c, "releaseFailed")
  /\ UNCHANGED <<lock, nonce, waits, retries, born, syncVars, chainVars>>

(* _releaseLock deletes the lock key, whoever created it; that memcached   *)
(* did not do it goes unnoticed.                                           *)
ReleaseLock(c) ==
  /\ pc[c] \in {"release", "releaseFailed"}
  /\ lock' \in {FALSE, lock}
  /\ Goto(c, IF pc[c] = "release" THEN "send" ELSE "wait")
  /\ UNCHANGED <<cache, nonce, waits, retries, epoch, born, syncVars,
                 chainVars>>

(* Fault seeded to test the properties: rounds are counted down.           *)
WaitElapsesDown(c) ==
  /\ pc[c] = "wait"
  /\ waits' = [waits EXCEPT ![c] = @ - 1]
  /\ Goto(c, "increment")
  /\ UNCHANGED <<memVars, nonce, retries, epoch, born, syncVars, chainVars>>

(* setTimeout(getNonce, waitTimeInterval) fires. *)
WaitElapses(c) ==
  /\ pc[c] = "wait"
  /\ waits' = [waits EXCEPT ![c] = @ + 1]
  /\ Goto(c, "increment")
  /\ UNCHANGED <<memVars, nonce, retries, epoch, born, syncVars, chainVars>>

-----------------------------------------------------------------------------
(* web3_eth sendTransaction: the signed transaction goes to a node. *)
Accepts(n, k) == k >= head[n] /\ k \notin pool[n]

SubmitAccepted(c, n) ==
  /\ pc[c] = "send"
  /\ Accepts(n, nonce[c])
  /\ pool' = [pool EXCEPT ![n] = @ \cup {nonce[c]}]
  /\ Goto(c, "hash")
  /\ UNCHANGED <<memVars, nonce, waits, retries, epoch, born, syncVars, head>>

(* onError, chain node down: try again on another node, the same nonce     *)
(* kept in rawTx; the node may have taken the transaction all the same.    *)
SubmitNodeDown(c, n) ==
  /\ pc[c] = "send"
  /\ \/ UNCHANGED pool
     \/ /\ Accepts(n, nonce[c])
        /\ pool' = [pool EXCEPT ![n] = @ \cup {nonce[c]}]
  /\ IF retries[c] < MaxRetries
     THEN /\ retries' = [retries EXCEPT ![c] = @ + 1]
          /\ UNCHANGED pc
     ELSE /\ Goto(c, "failed")
          /\ UNCHANGED retries
  /\ UNCHANGED <<memVars, nonce, waits, epoch, born, syncVars, head>>

(* onUnhandledError: nonce too low, known or underpriced, gas too low, out *)
(* of sync ...  markAsFailure() leaves the cached nonce in place, so a     *)
(* nonce that no node took is never handed out again.                      *)
SubmitRejected(c) ==
  /\ pc[c] = "send"
  /\ Goto(c, "failed")
  /\ UNCHANGED <<memVars, nonce, waits, retries, epoch, born, syncVars,
                 chainVars>>

(* The process of c dies, at any await. *)
CallerDies(c) ==
  /\ pc[c] \notin {"hash", "failed", "timedOut", "dead"}
  /\ Goto(c, "dead")
  /\ UNCHANGED <<memVars, nonce, waits, retries, epoch, born, syncVars,
                 chainVars>>

-----------------------------------------------------------------------------
(* Memcached drops the key (TTL, eviction, restart). *)
EvictCache ==
  /\ cache # NoNonce
  /\ cache' = NoNonce
  /\ UNCHANGED <<lock, pc, nonce, waits, retries, epoch, born, syncVars,
                 chainVars>>

(* Node n imports the block with the transaction at its next nonce: one it *)
(* holds itself, or one another node has mined already.                    *)
ImportBlock(n) ==
  /\ head[n] \in pool[n] \/ \E m \in Node : head[m] > head[n]
  /\ head' = [head EXCEPT ![n] = @ + 1]
  /\ pool' = [pool EXCEPT ![n] = @ \ {head[n]}]
  /\ stable' = [c \in Caller |->
        IF head[n] \in pool[n] THEN stable[c] \ {<<n, head[n]>>}
        ELSE stable[c]]
  /\ UNCHANGED <<memVars, pc, nonce, waits, retries, epoch, born, acc, reads>>

(* Nodes pass pooled transactions on to each other. *)
Gossip(n, m) ==
  /\ \E k \in pool[n] : /\ Accepts(m, k)
                        /\ pool' = [pool EXCEPT ![m] = @ \cup {k}]
  /\ UNCHANGED <<memVars, pc, nonce, waits, retries, epoch, born, syncVars,
                 head>>

-----------------------------------------------------------------------------
SyncStep(c) ==
  \/ \E n \in Node : ReadMined(c, n) \/ ReadPool(c, n) \/ ReadHangs(c, n)
  \/ \E n \in Node, kind \in {"mined", "pool"} : ReadFails(c, n, kind)
  \/ SetCache(c) \/ SyncFails(c)

GetNonceStep(c) ==
  \/ Increment(c) \/ IncrementFails(c) \/ TimedOut(c) \/ AcquireLock(c)
  \/ LockFails(c) \/ SyncStep(c) \/ ReleaseLock(c) \/ WaitElapses(c)

SendStep(c) ==
  \/ \E n \in Node : SubmitAccepted(c, n) \/ SubmitNodeDown(c, n)
  \/ SubmitRejected(c)

Environment ==
  \/ ExpireLock
  \/ EvictCache
  \/ \E n \in Node : ImportBlock(n)
  \/ \E n, m \in Node : Gossip(n, m)

NonceNext ==
  \/ \E c \in Caller : GetNonceStep(c) \/ SendStep(c) \/ CallerDies(c)
  \/ Environment

NonceSpec == InitNonce /\ [][NonceNext]_nonceVars

(* The event loop runs every continuation of a live caller, and each       *)
(* request is answered, fails or times out; nothing is assumed of crashes, *)
(* evictions, the TTL or the chain.                                        *)
FairNonceSpec == NonceSpec /\ \A c \in Caller : WF_nonceVars(GetNonceStep(c))

-----------------------------------------------------------------------------
(* Between two syncs the counter hands every nonce out once: concurrent    *)
(* getNonce calls that were served from the same cached value never get    *)
(* the same nonce (_incrementNonce and the value that                      *)
(* _getNonceFromChainAndSetCache both caches and returns).                 *)
UniqueWithinEpoch ==
  \A c, d \in Caller :
    /\ c # d
    /\ nonce[c] # NoNonce
    /\ nonce[d] # NoNonce
    /\ born[c] = born[d]
    => nonce[c] # nonce[d]

(* When the answers are in, a nonce that a node which answered both        *)
(* requests has held in its pool, or as mined, since the sync began is     *)
(* below the maximum: _getNonceFromChainAndSetCache does not hand out a    *)
(* nonce that was taken all the while.  (A block imported between the two  *)
(* answers of a node defeats it: such nonces are not stable.)              *)
SyncSeesStable ==
  \A c \in Caller :
    pc[c] = "sync" /\ reads[c] = {} =>
      \A s \in stable[c] : s[2] < acc[c]

(* Every getNonce call is answered, with a nonce or an error, or its       *)
(* process has died, or a node's txpool request is stuck: the 50 second    *)
(* limit of wait() bounds the retries while the lock is held elsewhere and *)
(* while no node answers.                                                  *)
Answered(c) == pc[c] \in {"send", "hash", "failed", "timedOut", "dead"}

AnsweredOrHung ==
  \A c \in Caller : pc[c] = "increment" ~> Answered(c) \/ pc[c] = "hung"
=============================================================================
