---------------------------- MODULE StpTransfers ----------------------------
(* Transfers of ST' that a client asks for: the service that accepts one   *)
(* (app/services/stp_transfer/execute), the consumer of the topic that     *)
(* pays it from the client's reserve (lib/transactions/stPrime_transfer),  *)
(* the scanner that completes its item, and the services that show items:  *)
(* by id, from a cache, and in pages, from the search index that follows   *)
(* the table of items through its stream.  The lists of token transfers    *)
(* read the same index; what moves a token transfer is in                  *)
(* TransactionLifecycle.                                                   *)
EXTENDS Reserve

CONSTANTS
  Payer,       \* the client whose transfers are followed
  Stps,        \* ids of ST' transfers, in the order of their creation
  Tokens,      \* ids of token transfers
  Slots,       \* messages consumers work on at one time
  Amount,      \* ST' of a transfer
  PageSize     \* limit of a list

Items == Stps \cup Tokens

ASSUME StpAssumption ==
  /\ Payer \in Clients /\ Items \subseteq Nat /\ Stps \cap Tokens = {}
  /\ IsFiniteSet(Items)
  /\ {Amount, PageSize} \subseteq Nat \ {0}

ItemStatus == {"absent", "processing", "waiting", "complete", "failed"}

VARIABLES
  item,      \* id -> status of its item in the transaction log
  second,    \* id -> second it was created in
  messages,  \* id -> copies of its message in the queue
  run,       \* slot -> the message worked on and the step reached
  pays,      \* id -> payments made for it
  meta,      \* payment -> status of its row, with the scanner's progress
  seen,      \* payments whose block was scanned
  cache,     \* key -> id -> status in the cache: none, or what was read
  stream,    \* items written, not yet indexed
  doc,       \* id -> status of its document in the index
  walk,      \* a client's walk through the pages of a list
  calls      \* walks and reads left

stpVars == <<item, second, messages, run, pays, meta, seen, cache, stream,
             doc, walk, calls>>

(* The n-th payment made for a transfer.                                   *)
Payments == Stps \X (1 .. MaxFaults + 1)
Of(p) == p[1]

(* The keys an item is cached under: the client's, that writers clear, and *)
(* the one made of a client that is undefined (oThis.client_id).           *)
Keys == {"client", "undefined"}

NoWalk == [list |-> "none", asc |-> FALSE, page |-> 1, shown |-> {},
           begun |-> {}, done |-> FALSE]
IdleRun == [t |-> 0, n |-> 0, at |-> "idle"]

InitStp(c) ==
  /\ item = c.item /\ second = c.second /\ calls = c.calls
  /\ doc = item
  /\ messages = [t \in Stps |-> 0]
  /\ run = [k \in Slots |-> IdleRun]
  /\ pays = [t \in Stps |-> 0]
  /\ meta = [p \in Payments |-> "none"]
  /\ seen = {}
  /\ cache = [k \in Keys |-> [t \in Items |-> "none"]]
  /\ stream = <<>>
  /\ walk = NoWalk

-----------------------------------------------------------------------------
(* Writing an item: the table's stream gets its new image, if a list is    *)
(* still to be read, and the cache of the writer's key is cleared.         *)
Image(t, status) ==
  stream' = IF calls.walks > 0 \/ walk.list # "none"
              THEN Append(stream, [t |-> t, status |-> status]) ELSE stream

Write(t, status) ==
  /\ item' = [item EXCEPT ![t] = status]
  /\ Image(t, status)
  /\ cache' = [cache EXCEPT !["client"][t] = "none"]

(* A write whose failure nobody looks at.                                  *)
WriteUnchecked(t, status) ==
  \/ Write(t, status) /\ NoFault
  \/ UNCHANGED <<item, stream, cache>> /\ Fault

(* fetch: what the cache has, and for a miss the item, kept under the key. *)
Fetched(key, T) ==
  [cache EXCEPT ![key] = [t \in Items |->
     IF t \in T /\ @[t] = "none" /\ item[t] # "absent" THEN item[t] ELSE @[t]]]

-----------------------------------------------------------------------------
(* The service: the item is created and cached, then the message is        *)
(* published.  A failed publication is answered, and the item stays.       *)
Create(t) ==
  /\ item[t] = "absent" /\ \A u \in Stps : u < t => item[u] # "absent"
  /\ item' = [item EXCEPT ![t] = "processing"]
  /\ Image(t, "processing")
  /\ cache' = [cache EXCEPT !["client"][t] = "processing"]
  /\ \/ messages' = [messages EXCEPT ![t] = 1] /\ NoFault
     \/ UNCHANGED messages /\ Fault
  /\ UNCHANGED <<second, run, pays, meta, seen, doc, walk, calls, reserve>>

-----------------------------------------------------------------------------
(* The consumer of the topic.                                              *)

RunAt(k, at) == run[k].at = at
RunGo(k, at) == run' = [run EXCEPT ![k].at = at]

Deliver(k, t) ==
  /\ RunAt(k, "idle") /\ messages[t] > 0
  /\ messages' = [messages EXCEPT ![t] = @ - 1]
  /\ run' = [run EXCEPT ![k] = [IdleRun EXCEPT !.t = t, !.at = "got"]]
  /\ UNCHANGED <<item, second, pays, meta, seen, cache, stream, doc, walk,
                 calls, reserve, faults>>

(* The item is fetched for its addresses and amount, through the client's  *)
(* cache; its status is not looked at.  A failure ends the work on the     *)
(* message.                                                                *)
FetchLog(k) ==
  /\ RunAt(k, "got")
  /\ \/ /\ RunGo(k, "fetched") /\ NoFault
        /\ cache' = Fetched("client", {run[k].t})
     \/ RunGo(k, "over") /\ Fault /\ UNCHANGED cache
  /\ UNCHANGED <<item, second, messages, pays, meta, seen, stream, doc, walk,
                 calls, reserve>>

(* The transfer is sent, or refused by the chain.                          *)
Pay(k) ==
  LET t == run[k].t IN
  /\ RunAt(k, "fetched")
  /\ \/ /\ Covers(Payer, Amount) /\ Spend(Payer, Amount)
        /\ pays' = [pays EXCEPT ![t] = @ + 1]
        /\ run' = [run EXCEPT ![k].at = "paid", ![k].n = pays[t] + 1]
        /\ NoFault
     \/ /\ RunGo(k, "refused")
        /\ IF Covers(Payer, Amount) THEN Fault ELSE NoFault
        /\ UNCHANGED <<pays, reserve>>
  /\ UNCHANGED <<item, second, messages, meta, seen, cache, stream, doc, walk,
                 calls>>

(* Fault seeded to test the properties: a refusal is only answered.        *)
MarkFailedNot(k) ==
  /\ RunAt(k, "refused") /\ RunGo(k, "over")
  /\ UNCHANGED <<item, second, messages, pays, meta, seen, cache, stream, doc,
                 walk, calls, reserve, faults>>

MarkFailed(k) ==
  /\ RunAt(k, "refused") /\ RunGo(k, "over")
  /\ WriteUnchecked(run[k].t, "failed")
  /\ UNCHANGED <<second, messages, pays, meta, seen, doc, walk, calls,
                 reserve>>

(* The row by which the scanner knows the payment.  It has no              *)
(* next_action_at: no observer takes it.                                   *)
InsertMeta(k) ==
  /\ RunAt(k, "paid")
  /\ \/ /\ meta' = [meta EXCEPT ![<<run[k].t, run[k].n>>] = "submitted"]
        /\ RunGo(k, "inserted") /\ NoFault
     \/ RunGo(k, "over") /\ UNCHANGED meta /\ Fault
  /\ UNCHANGED <<item, second, messages, pays, seen, cache, stream, doc, walk,
                 calls, reserve>>

(* Written whatever the item has become.                                   *)
WriteWaiting(k) ==
  /\ RunAt(k, "inserted") /\ RunGo(k, "over")
  /\ WriteUnchecked(run[k].t, "waiting")
  /\ UNCHANGED <<second, messages, pays, meta, seen, doc, walk, calls,
                 reserve>>

(* Fault seeded to test the properties: the message of a transfer that     *)
(* ended in an error is put back.                                          *)
AckRequeues(k) ==
  /\ RunAt(k, "over")
  /\ run' = [run EXCEPT ![k] = IdleRun]
  /\ messages' = [messages EXCEPT ![run[k].t] =
                   IF item[run[k].t] = "waiting" THEN @ ELSE @ + 1]
  /\ UNCHANGED <<item, second, pays, meta, seen, cache, stream, doc, walk,
                 calls, reserve, faults>>

(* Every outcome is acknowledged.                                          *)
Ack(k) ==
  /\ RunAt(k, "over")
  /\ run' = [run EXCEPT ![k] = IdleRun]
  /\ UNCHANGED <<item, second, messages, pays, meta, seen, cache, stream, doc,
                 walk, calls, reserve, faults>>

(* The consumer or its connection is lost, or it rejects the message since *)
(* the client's strategies are not had: the message is delivered again.    *)
Redeliver(k) ==
  /\ ~RunAt(k, "idle") /\ Fault
  /\ messages' = [messages EXCEPT ![run[k].t] = @ + 1]
  /\ run' = [run EXCEPT ![k] = IdleRun]
  /\ UNCHANGED <<item, second, pays, meta, seen, cache, stream, doc, walk,
                 calls, reserve>>
-----------------------------------------------------------------------------
(* The scanner and what it is told of a payment.                           *)

(* The block of a payment is scanned: without a row it is not recognised,  *)
(* now or later.                                                           *)
Scan(p) ==
  /\ p[2] <= pays[Of(p)] /\ p \notin seen
  /\ seen' = seen \cup {p}
  /\ meta' = IF meta[p] = "submitted" THEN [meta EXCEPT ![p] = "locked"]
                                      ELSE meta
  /\ UNCHANGED <<item, second, messages, run, pays, cache, stream, doc, walk,
                 calls, reserve, faults>>

(* The item gets its final status, and the row, mined since it was locked, *)
(* is released.  What fails in between is logged, and the row is released. *)
Complete(p) ==
  /\ meta[p] = "locked"
  /\ \E status \in {"complete", "failed"} : WriteUnchecked(Of(p), status)
  /\ meta' = [meta EXCEPT ![p] = "completed"]
  /\ UNCHANGED <<second, messages, run, pays, seen, doc, walk, calls,
                 reserve>>

ReleaseMeta(p) ==
  /\ meta[p] = "completed"
  /\ meta' = [meta EXCEPT ![p] = "mined"]
  /\ UNCHANGED <<item, second, messages, run, pays, seen, cache, stream, doc,
                 walk, calls, reserve, faults>>

(* A token transfer is completed: see TransactionLifecycle.                *)
TokenMoves(t) ==
  /\ item[t] = "waiting" /\ Write(t, "complete")
  /\ UNCHANGED <<second, messages, run, pays, meta, seen, doc, walk, calls,
                 reserve, faults>>

(* The stream's images are indexed in their order, each whole.             *)
Index ==
  /\ stream # <<>>
  /\ doc' = [doc EXCEPT ![Head(stream).t] = Head(stream).status]
  /\ stream' = Tail(stream)
  /\ UNCHANGED <<item, second, messages, run, pays, meta, seen, cache, walk,
                 calls, reserve, faults>>

-----------------------------------------------------------------------------
(* Reading.                                                                *)

(* An entry is dropped after half an hour (setCacheExpiry).                *)
Expire(key, t) ==
  /\ cache[key][t] # "none"
  /\ cache' = [cache EXCEPT ![key][t] = "none"]
  /\ UNCHANGED <<item, second, messages, run, pays, meta, seen, stream, doc,
                 walk, calls, reserve, faults>>

(* One record by its id: an ST' transfer under its client's key, a token   *)
(* transfer under the other.                                               *)
Get(t) ==
  /\ calls.gets > 0 /\ calls' = [calls EXCEPT !.gets = @ - 1]
  /\ cache' = Fetched(IF t \in Stps THEN "client" ELSE "undefined", {t})
  /\ UNCHANGED <<item, second, messages, run, pays, meta, seen, stream, doc,
                 walk, reserve, faults>>

(* The records of ids under their client's key: those of a page of token   *)
(* transfers, and of the ids a client names, which come with the rows of   *)
(* their tokens, kinds and users.  A client names all of them: a bound.    *)
DataFor(T) == Fetched("client", T)

GetDetails(T) ==
  /\ calls.gets > 0 /\ calls' = [calls EXCEPT !.gets = @ - 1]
  /\ cache' = DataFor(T)
  /\ UNCHANGED <<item, second, messages, run, pays, meta, seen, stream, doc,
                 walk, reserve, faults>>

(* The lists: all ST' transfers, all token transfers of the client, those  *)
(* of one of its users that have a status.                                 *)
Lists == {"stp", "tokens", "waiting"}

Matches(list, t) ==
  /\ doc[t] # "absent"
  /\ t \in (IF list = "stp" THEN Stps ELSE Tokens)
  /\ list = "waiting" => doc[t] = "waiting"

Hits(list) == {t \in Items : Matches(list, t)}

(* The index sorts by the second of creation; equals come in any order.    *)
Sorted(list, s, asc) ==
  /\ Len(s) = Cardinality(Hits(list)) /\ ToSet(s) = Hits(list)
  /\ \A m, n \in 1 .. Len(s) : m < n =>
       IF asc THEN second[s[m]] <= second[s[n]]
              ELSE second[s[m]] >= second[s[n]]

BeginWalk(list, asc) ==
  /\ walk.list = "none" /\ calls.walks > 0
  /\ calls' = [calls EXCEPT !.walks = @ - 1]
  /\ walk' = [NoWalk EXCEPT !.list = list, !.begun = Hits(list),
                            !.asc = asc]
  /\ UNCHANGED <<item, second, messages, run, pays, meta, seen, cache, stream,
                 doc, reserve, faults>>

(* Fault seeded to test the properties: pages counted from zero.           *)
OffsetOfNext(page) == page * PageSize

Offset(page) == (page - 1) * PageSize

(* Whether the answer has a next page: from the total, the offset and the  *)
(* size asked for.                                                         *)
HasNextPage(total, page) == total > PageSize + Offset(page)

Uuids(s, page) ==
  SubSeq(s, Offset(page) + 1, Min({Offset(page) + PageSize, Len(s)}))

(* One page: the ids the index gives, then their records from the cache.   *)
Page ==
  /\ walk.list # "none"
  /\ \E s \in SetToSeqs(Hits(walk.list)) :
       LET page == Uuids(s, walk.page) IN
       /\ Sorted(walk.list, s, walk.asc)
       /\ cache' = IF walk.list = "stp" THEN Fetched("undefined", ToSet(page))
                                        ELSE DataFor(ToSet(page))
       /\ walk' = [walk EXCEPT
            !.shown = @ \cup ToSet(page), !.page = @ + 1,
            !.done = ~HasNextPage(Len(s), walk.page)]
  /\ ~walk.done
  /\ UNCHANGED <<item, second, messages, run, pays, meta, seen, stream, doc,
                 calls, reserve, faults>>

EndWalk ==
  /\ walk.done /\ walk' = NoWalk
  /\ UNCHANGED <<item, second, messages, run, pays, meta, seen, cache, stream,
                 doc, calls, reserve, faults>>

-----------------------------------------------------------------------------
RunStep(k) ==
  \/ \E t \in Stps : Deliver(k, t)
  \/ FetchLog(k) \/ Pay(k) \/ MarkFailed(k) \/ InsertMeta(k) \/ WriteWaiting(k)
  \/ Ack(k)

ScanStep(p) == Scan(p) \/ Complete(p) \/ ReleaseMeta(p)

StpNext ==
  \/ \E t \in Stps : Create(t)
  \/ \E k \in Slots : RunStep(k) \/ Redeliver(k)
  \/ \E p \in Payments : ScanStep(p)
  \/ \E t \in Tokens : TokenMoves(t)
  \/ GetDetails(Items)
  \/ \E t \in Items : Get(t) \/ \E key \in Keys : Expire(key, t)
  \/ \E list \in Lists : \E asc \in BOOLEAN : BeginWalk(list, asc)
  \/ Index \/ Page \/ EndWalk

-----------------------------------------------------------------------------
(* A transfer is paid at most once for each time its message may have been *)
(* handed out: only a redelivery, which finds an item in any status and    *)
(* does not look at it, pays again (TransferSTPrimeKlass).                 *)
PaidOncePerDelivery == \A t \in Stps : pays[t] <= 1 + faults

(* A walk through the pages of a list shows every record that matched when *)
(* it began, if no two of those have the same second of creation, new ones *)
(* come behind it (ascending order) or push others back (descending), and  *)
(* none has ceased to match (offsets and has_next_page).                   *)
WalkShowsAll ==
  walk.done =>
    \A t \in walk.begun \ walk.shown :
      \/ \E u \in Hits(walk.list) \ {t} : second[u] = second[t]
      \/ walk.begun \ Hits(walk.list) # {}

InWork(t) ==
  messages[t] > 0 \/ \E k \in Slots : run[k].t = t

(* An accepted transfer comes to a final status, but for these: a call     *)
(* failed, and it is not paid and its message is gone; its payment was     *)
(* scanned before it had a row; its status was overwritten by a consumer   *)
(* after the scanner had completed it, or the scanner failed to complete   *)
(* it (mined row, item waiting).                                           *)
TransferEnds ==
  \A t \in Stps :
    (item[t] \in {"processing", "waiting"})
      ~> \/ item[t] \in {"complete", "failed"}
         \/ faults > 0 /\ ~InWork(t) /\ pays[t] = 0
         \/ \E p \in Payments :
              Of(p) = t /\ p \in seen /\ meta[p] \in {"none", "submitted"}
         \/ item[t] = "waiting" /\ \E p \in Payments :
              Of(p) = t /\ meta[p] = "mined"
=============================================================================
