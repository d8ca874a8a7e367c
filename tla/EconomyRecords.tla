--------------------------- MODULE EconomyRecords ---------------------------
(***************************************************************************)
(* The records of one client's economy and the requests of its API that    *)
(* read, write and list them: transaction kinds, users and their           *)
(* addresses, the token and its set-up.                                    *)
(*                                                                         *)
(* The rows live in MySQL.  Most reads go through memcached: an entry that *)
(* is not there is read from its table and then set, and the writers       *)
(* delete the entries they know of.  Neither the set nor most deletes are  *)
(* awaited, nor is the update of a user's name, so each is an effect that  *)
(* lands some time after the request was answered.  Requests run side by   *)
(* side; a request is a few queries and anything may happen between two.   *)
(*                                                                         *)
(* Ids, names, symbols and amounts are numbers; Null stands for NULL.      *)
(***************************************************************************)
EXTENDS Integers, FiniteSets, SequencesExt

CONSTANTS
  Requests,   \* the requests of a case, 1..n
  Ids,        \* ids, names and symbols the cache is asked for
  Cases       \* the cases: rows at the start and what each request asks

Null == 0

VARIABLES
  case,       \* the case this behaviour is about
  kinds,      \* rows of client_transaction_types
  addresses,  \* rows of managed_addresses
  salts,      \* rows of managed_address_salts: ids 1..salts
  tokens,     \* rows of client_branded_tokens
  workers,    \* client_worker_managed_address_ids: ids of worker addresses
  cache,      \* memcached: per key {} or the set of the one entry
  pc,         \* where each request stands
  read,       \* the rows a request has read and works on
  mine,       \* ids of addresses a set-up holds
  walk,       \* the pages a listing has followed
  pending,    \* effects of a request that were not awaited
  faults      \* failures so far

rows == <<kinds, addresses, salts, tokens, workers>>
vars == <<case, kinds, addresses, salts, tokens, workers, cache, pc, read,
          mine, walk, pending, faults>>

R(r) == case.requests[r]
At(r, op, l) == R(r).op = op /\ pc[r] = l
Goto(r, l) == pc' = [pc EXCEPT ![r] = l]
Fail == faults < case.faults /\ faults' = faults + 1
NextId(s) == Cardinality({x.id : x \in s}) + 1

(***************************************************************************)
(* What an entry of the cache stands for.                                  *)
(***************************************************************************)
(* A query has no order of its own; its answer begins with the oldest row, *)
(* and who asks for one row takes the first.                               *)
First(s) == {x \in s : \A y \in s : x.id <= y.id}
KindByName(n) == {k \in kinds : k.name = n}
KindById(i) == {k \in kinds : k.id = i}
UserById(i) == {a \in addresses : a.id = i}
(* getByClientId is in descending order and the cache takes the first.     *)
TokenOfClient == {t \in tokens : \A u \in tokens : u.id <= t.id}
TokenBySymbol(s) == {t \in tokens : t.symbol = s}
LatestSalt == {[salt |-> salts]}
KindCount == {[count |-> Cardinality(kinds)]}

Bys == {"name", "kind", "count", "user", "token", "symbol", "salt"}
Keys == [by : Bys, of : Ids]
Key(by, of) == [by |-> by, of |-> of]
Source(key) ==
  CASE key.by = "name" -> First(KindByName(key.of))
    [] key.by = "kind" -> KindById(key.of)
    [] key.by = "count" -> KindCount
    [] key.by = "user" -> UserById(key.of)
    [] key.by = "token" -> TokenOfClient
    [] key.by = "symbol" -> First(TokenBySymbol(key.of))
    [] key.by = "salt" -> LatestSalt

Coherent == \A key \in Keys : cache[key] \subseteq {Source(key)}

(* The rows of a case are as the API's requests leave them: numbered from  *)
(* 1, a kind's amount in the column of its currency, a commission between  *)
(* users, and tokens as their set-ups one after another; a page has rows.  *)
Numbered(s) ==
  /\ IsFiniteSet(s) /\ {x.id : x \in s} = 1 .. NextId(s) - 1
  /\ \A x, y \in s : x.id = y.id => x = y
ASSUME RecordsAssumption ==
  /\ Requests \subseteq Nat
  /\ \A c \in Cases :
       /\ Numbered(c.kinds) /\ Numbered(c.tokens)
       /\ \A k \in c.kinds :
            /\ DOMAIN k = {"id", "name", "kind", "cur", "usd", "bt", "com"}
            /\ k.usd # Null => k.cur = 2
            /\ k.bt # Null => k.cur = 1
            /\ k.kind # "user_to_user" => k.com = Null
       /\ \A t \in c.tokens :
            DOMAIN t = {"id", "symbol", "factor", "reserve", "holder"}
       /\ IsFiniteSet(c.addresses)
       /\ \A a \in c.addresses :
            DOMAIN a = {"id", "type", "name", "salt"} /\ {a.id, a.name} \subseteq Nat
       /\ \A k \in c.kinds : k.name \in Nat
       /\ \A r \in Requests : LET q == c.requests[r] IN
            /\ q.op \in {"add_kind", "edit_kind", "edit_user", "generate"}
                 => q.name \in Nat
            /\ q.op \in {"list_kinds", "list_users"} => q.limit \in Nat \ {0}
       /\ c.sequential =>
            \A t \in First(c.tokens) : t.reserve # Null =>
              \A u \in c.tokens : u.reserve = t.reserve

NotWalked ==
  [start |-> {}, seen |-> {}, places |-> {}, moved |-> FALSE, page |-> 1]
NothingHeld == [reserve |-> Null, holder |-> Null, new |-> {}, salt |-> Null]
Init ==
  /\ case \in Cases
  /\ kinds = case.kinds /\ addresses = case.addresses
  /\ tokens = case.tokens /\ salts = 0 /\ workers = {}
  /\ cache = [key \in Keys |-> {}]
  /\ pc = [r \in Requests |-> IF R(r).op = "generate" THEN R(r).from ELSE "start"]
  /\ read = [r \in Requests |-> {}]
  /\ mine = [r \in Requests |-> NothingHeld]
  /\ walk = [r \in Requests |-> NotWalked]
  /\ pending = [r \in Requests |-> {}]
  /\ faults = 0

(***************************************************************************)
(* Effects that land later, and the entries' time to live.                 *)
(***************************************************************************)
Set(key, value) == [do |-> "set", key |-> key, value |-> value]
Del(key) == [do |-> "del", key |-> key, value |-> {}]
Later(r, effects) == pending' = [pending EXCEPT ![r] = @ \cup effects]

(* Fault seeded to test the properties: a request writes its copy again    *)
(* for as long as it is there.                                             *)
LandsAndStays(r) ==
  \E e \in pending[r] :
    /\ e.do = "set"
    /\ cache' = [cache EXCEPT ![e.key] = {e.value}]
    /\ UNCHANGED <<case, rows, pc, read, mine, walk, pending, faults>>

SetLands(r) ==
  \E e \in pending[r] :
    /\ e.do = "set"
    /\ cache' = [cache EXCEPT ![e.key] = {e.value}]
    /\ pending' = [pending EXCEPT ![r] = @ \ {e}]
    /\ UNCHANGED <<case, rows, pc, read, mine, walk, faults>>

DelLands(r) ==
  \E e \in pending[r] :
    /\ e.do = "del"
    /\ cache' = [cache EXCEPT ![e.key] = {}]
    /\ pending' = [pending EXCEPT ![r] = @ \ {e}]
    /\ UNCHANGED <<case, rows, pc, read, mine, walk, faults>>

(* The time to live: an hour for kinds, five minutes for users, ...  A     *)
(* case names the kinds of entries that are old enough: a bound.           *)
Expire(by, of) ==
  /\ by \in case.ages
  /\ cache[Key(by, of)] # {}
  /\ cache' = [cache EXCEPT ![Key(by, of)] = {}]
  /\ UNCHANGED <<case, rows, pc, read, mine, walk, pending, faults>>

(* A deleted process takes the effects that have not landed with it.       *)
Crash(r) ==
  /\ pc[r] \notin {"done", "dead"} /\ R(r).mayDie
  /\ Goto(r, "dead")
  /\ pending' = [pending EXCEPT ![r] = {}]
  /\ UNCHANGED <<case, rows, cache, read, mine, walk, faults>>

(***************************************************************************)
(* fetch of the cache classes: the entry, else the source and a set that   *)
(* nobody awaits.  Bounds: one set of a request is in flight, and ids are  *)
(* among Ids.                                                              *)
(***************************************************************************)
FromCache(r, l, key, found, missed) ==
  /\ pc[r] = l /\ pending[r] = {} /\ key \in Keys
  /\ IF cache[key] # {}
       THEN /\ read' = [read EXCEPT ![r] = CHOOSE v \in cache[key] : TRUE]
            /\ Goto(r, found)
       ELSE Goto(r, missed) /\ UNCHANGED read
  /\ UNCHANGED <<case, rows, cache, mine, walk, pending, faults>>

FromSource(r, l, key, found, none) ==
  /\ pc[r] = l
  /\ LET value == Source(key) IN
     IF value = {}
       THEN Goto(r, none) /\ UNCHANGED <<read, pending>>
       ELSE /\ read' = [read EXCEPT ![r] = value]
            /\ Later(r, {Set(key, value)}) /\ Goto(r, found)
  /\ UNCHANGED <<case, rows, cache, mine, walk, faults>>

Readers == {"kind_by_name", "kind_by_id", "stats", "fetch_user", "get_token"}
KeyOf(r) ==
  CASE R(r).op = "kind_by_name" -> Key("name", R(r).of)
    [] R(r).op = "kind_by_id" -> Key("kind", R(r).of)
    [] R(r).op = "stats" -> Key("count", 1)
    [] R(r).op \in {"fetch_user", "edit_user"} -> Key("user", R(r).of)
    [] R(r).op \in {"get_token", "dummy_users"} -> Key("token", 1)

Cached(r) == R(r).op \in Readers \cup {"edit_user", "dummy_users"}
Fetch(r) == Cached(r) /\ FromCache(r, "start", KeyOf(r), "got", "source")
FetchMissing(r) == Cached(r) /\ FromSource(r, "source", KeyOf(r), "got", "done")

(* The answer; the next request of its kind finds the cache as it is.      *)
Served(r) ==
  /\ R(r).op \in Readers \ {"get_token"} /\ pc[r] = "got"
  /\ Goto(r, "start") /\ read' = [read EXCEPT ![r] = {}]
  /\ UNCHANGED <<case, rows, cache, mine, walk, pending, faults>>

(* token get: after the client's entry it asks for the one of the symbol,  *)
(* whose source reads the addresses' rows too.                             *)
GetSecureToken(r) ==
  /\ R(r).op = "get_token"
  /\ \/ /\ pc[r] = "got"
        /\ \E t \in read[r] :
             FromCache(r, "got", Key("symbol", t.symbol), "start", "secure")
     \/ /\ pc[r] = "secure"
        /\ \E t \in read[r] :
             FromSource(r, "secure", Key("symbol", t.symbol), "start", "start")

(***************************************************************************)
(* Transaction kinds: user_to_user, user_to_company or company_to_user.  A *)
(* change gives name, cur, amount, arb, com and arbCom, each Null when it  *)
(* is not in the request.                                                  *)
(***************************************************************************)
BT == 1
USD == 2
True == 1
False == 2
MaxAmount == 2
InBounds(amount) == amount <= MaxAmount
ArbitraryAmountFits(amount, arb) ==
  ~(arb = True /\ amount # Null) /\ ~(arb = False /\ amount = Null)

BetweenUsers(k) == k.kind = "user_to_user"

ValidKind(c) ==
  /\ c.name # Null /\ InBounds(c.amount)
  /\ ArbitraryAmountFits(c.amount, c.arb)
  /\ IF BetweenUsers(c) THEN ArbitraryAmountFits(c.com, c.arbCom)
                        ELSE c.com = Null /\ c.arbCom = Null
NewKind(c) ==
  [id |-> NextId(kinds), name |-> c.name, kind |-> c.kind, cur |-> c.cur,
   usd |-> IF c.cur = USD THEN c.amount ELSE Null,
   bt |-> IF c.cur = BT THEN c.amount ELSE Null, com |-> c.com]

AddKindChecks(r) ==
  /\ At(r, "add_kind", "start")
  /\ LET ok == ValidKind(R(r)) /\ KindByName(R(r).name) = {}
     IN  Goto(r, IF ok THEN "insert" ELSE "done")
  /\ UNCHANGED <<case, rows, cache, read, mine, walk, pending, faults>>

CreateKind(r) ==
  /\ At(r, "add_kind", "insert")
  /\ kinds' = kinds \cup {NewKind(R(r))}
  /\ Goto(r, "done") /\ Later(r, {Del(Key("count", 1))})
  /\ UNCHANGED <<case, addresses, salts, tokens, workers, cache, read, mine,
                 walk, faults>>

(* edit: the row by its id, and it must be the client's.                   *)
FetchKindRecord(r) ==
  /\ At(r, "edit_kind", "start")
  /\ read' = [read EXCEPT ![r] = KindById(R(r).id)]
  /\ Goto(r, IF KindById(R(r).id) = {} THEN "done" ELSE "validate")
  /\ UNCHANGED <<case, rows, cache, mine, walk, pending, faults>>

ValidCommission(k, c) ==
  IF BetweenUsers(k)
    THEN /\ c.com # Null /\ c.arbCom # Null => ArbitraryAmountFits(c.com, c.arbCom)
         /\ c.com # Null /\ c.arbCom = Null => k.com # Null
         /\ c.com = Null /\ c.arbCom = False => k.com # Null
    ELSE c.com = Null /\ c.arbCom = Null
EditedCommission(k, c) ==
  IF c.com # Null THEN c.com ELSE IF c.arbCom = True THEN Null ELSE k.com

Currency(k, c) == IF c.cur # Null THEN c.cur ELSE k.cur
ValueOf(k, cur) == IF cur = USD THEN k.usd ELSE k.bt
(* What the cached record of a kind says a transfer costs.                 *)
ArbitraryAmount(k) == k.usd = Null /\ k.bt = Null
Price(k) == IF ArbitraryAmount(k) THEN Null ELSE ValueOf(k, k.cur)

(* _validateAmount, of the column of the currency the kind is to have.     *)
ValidAmount(k, c) ==
  /\ c.cur # Null => c.amount # Null \/ c.arb # Null
  /\ InBounds(c.amount)
  /\ c.amount # Null /\ c.arb # Null => ArbitraryAmountFits(c.amount, c.arb)
  /\ c.amount # Null /\ c.arb = Null => ValueOf(k, Currency(k, c)) # Null
  /\ c.amount = Null => c.arb # False
EditedAmount(k, c) ==
  IF c.amount # Null THEN c.amount
  ELSE IF c.arb = True THEN Null ELSE ValueOf(k, Currency(k, c))

(* The whole record: what was read with the changed columns in it.         *)
EditedKind(k, c) ==
  [k EXCEPT
     !.name = IF c.name # Null THEN c.name ELSE @,
     !.cur = Currency(k, c), !.com = EditedCommission(k, c),
     !.usd = IF Currency(k, c) = USD THEN EditedAmount(k, c) ELSE Null,
     !.bt = IF Currency(k, c) = BT THEN EditedAmount(k, c) ELSE Null]

(* Any row with the new name refuses it: its id is asked of the array.     *)
EditKindChecks(r) ==
  /\ At(r, "edit_kind", "validate")
  /\ LET k == CHOOSE k \in read[r] : TRUE
         c == R(r)
         free == c.name \notin {Null, k.name} => KindByName(c.name) = {}
         ok == ValidCommission(k, c) /\ ValidAmount(k, c) /\ free
     IN  Goto(r, IF ok THEN "write" ELSE "done")
  /\ UNCHANGED <<case, rows, cache, read, mine, walk, pending, faults>>

(* Fault seeded to test the properties: only the columns of the request    *)
(* are written, into the row as it is by now.                              *)
WritesChangedColumns(r) ==
  /\ At(r, "edit_kind", "write")
  /\ LET k == CHOOSE k \in read[r] : TRUE
         e == EditedKind(k, R(r))
         now == CHOOSE n \in KindById(k.id) : TRUE
         cur == IF R(r).cur # Null THEN R(r).cur ELSE now.cur
     IN  kinds' = (kinds \ {now}) \cup
           {[e EXCEPT !.cur = cur]}
  /\ Goto(r, "done")
  /\ UNCHANGED <<case, addresses, salts, tokens, workers, cache, read, mine,
                 walk, pending, faults>>

EditKind(r) ==
  /\ At(r, "edit_kind", "write")
  /\ LET k == CHOOSE k \in read[r] : TRUE
         e == EditedKind(k, R(r))
     IN  /\ kinds' = (kinds \ KindById(k.id)) \cup {e}
         /\ Later(r, {Del(Key("name", e.name)), Del(Key("kind", k.id))})
  /\ Goto(r, "done")
  /\ UNCHANGED <<case, addresses, salts, tokens, workers, cache, read, mine,
                 walk, faults>>

(***************************************************************************)
(* Users and addresses.                                                    *)
(***************************************************************************)
(* edit: the user from the cache; neither the update nor the delete is     *)
(* awaited, and a name the cache already has is not written.               *)
EditUser(r) ==
  /\ At(r, "edit_user", "got")
  /\ \E u \in read[r] :
       IF u.name = R(r).name
         THEN UNCHANGED pending
         ELSE Later(r, {[do |-> "name", key |-> Key("user", u.id), value |-> {}],
                        Del(Key("user", u.id))})
  /\ Goto(r, "done")
  /\ UNCHANGED <<case, rows, cache, read, mine, walk, faults>>

NameLands(r) ==
  \E e \in pending[r] :
    /\ e.do = "name"
    /\ addresses' = {IF a.id = e.key.of THEN [a EXCEPT !.name = R(r).name] ELSE a
                       : a \in addresses}
    /\ pending' = [pending EXCEPT ![r] = @ \ {e}]
    /\ UNCHANGED <<case, kinds, salts, tokens, workers, cache, pc, read, mine,
                   walk, faults>>

(* generate: the row first, its address and key when they are there.       *)
Generates(r, l) == R(r).op = "generate" /\ pc[r] = l
NewAddress(id, type, name, salt) ==
  [id |-> id, type |-> type, name |-> name, salt |-> salt]

InsertAddress(r) ==
  /\ Generates(r, "start")
  /\ IF R(r).name = Null
       THEN Goto(r, "done") /\ UNCHANGED <<addresses, read>>
       ELSE LET a == NewAddress(NextId(addresses), "user", R(r).name, Null)
            IN  /\ addresses' = addresses \cup {a}
                /\ read' = [read EXCEPT ![r] = {a}] /\ Goto(r, "salt")
  /\ UNCHANGED <<case, kinds, salts, tokens, workers, cache, mine, walk,
                 pending, faults>>

(* A dummy user is one of a batch that starts when the token is found.     *)
CreateDummyUsers(r) ==
  /\ At(r, "dummy_users", "got")
  /\ pc' = [q \in Requests |->
              IF q = r THEN "done"
              ELSE IF R(q).op = "generate" /\ pc[q] = "wait" THEN "start" ELSE pc[q]]
  /\ UNCHANGED <<case, rows, cache, read, mine, walk, pending, faults>>

(* _generateManagedAddressSalt: the mapping is a cache too, and 0 in it    *)
(* stands for a client without a salt.                                     *)
SaltKey == Key("salt", 1)
CachedSalt == {s.salt : s \in UNION cache[SaltKey]}
FetchSalt(r) ==
  /\ Generates(r, "salt")
  /\ LET known == IF cache[SaltKey] # {} THEN CachedSalt ELSE {salts}
         salt == CHOOSE s \in known : TRUE
     IN  IF salt > 0
           THEN /\ mine' = [mine EXCEPT ![r].salt = salt]
                /\ Goto(r, "key")
           ELSE Goto(r, "new_salt") /\ UNCHANGED mine
  /\ IF cache[SaltKey] = {} THEN Later(r, {Set(SaltKey, LatestSalt)})
                            ELSE UNCHANGED pending
  /\ UNCHANGED <<case, rows, cache, read, walk, faults>>

InsertSalt(r) ==
  /\ Generates(r, "new_salt")
  /\ salts' = salts + 1
  /\ mine' = [mine EXCEPT ![r].salt = salts + 1]
  /\ Goto(r, "key") /\ Later(r, {Del(SaltKey)})
  /\ UNCHANGED <<case, kinds, addresses, tokens, workers, cache, read, walk,
                 faults>>

(* KMS and the key generator may fail: the row stays without its address.  *)
GenerateFails(r) ==
  /\ Generates(r, "salt") \/ Generates(r, "new_salt")
  /\ Fail /\ Goto(r, "done")
  /\ UNCHANGED <<case, rows, cache, read, mine, walk, pending>>

(* Encryption that returns nothing is answered as a success too.           *)
SaveKey(r) ==
  /\ Generates(r, "key")
  /\ \E a \in read[r] :
       /\ \/ /\ addresses' = {IF b.id = a.id THEN [b EXCEPT !.salt = mine[r].salt]
                              ELSE b : b \in addresses}
             /\ UNCHANGED faults
          \/ Fail /\ UNCHANGED addresses
       /\ Later(r, {Del(Key("user", a.id))})
  /\ Goto(r, "done")
  /\ UNCHANGED <<case, kinds, salts, tokens, workers, cache, read, mine, walk>>

(***************************************************************************)
(* Lists: a page is read with one row more than its limit, and that row    *)
(* says whether there is a next page.  Rows of the same name come in any   *)
(* order, another one each time.                                           *)
(***************************************************************************)
Listed(r) ==
  IF R(r).op = "list_kinds" THEN kinds
  ELSE {a \in addresses : a.type = "user"}
SortKey(r, x) == IF R(r).by = "name" THEN x.name ELSE x.id
Places(r) == {[id |-> x.id, key |-> SortKey(r, x)] : x \in Listed(r)}
Before(r, p, q) == IF R(r).asc THEN p.key < q.key ELSE p.key > q.key
Tied(p, S) == \E q \in S \ {p} : q.key = p.key

(* Fault seeded to test the properties: pages are counted from 0 when they *)
(* are from 1.                                                             *)
OffsetFromZero(page, limit) == page * limit

Offset(page, limit) == (page - 1) * limit

(* The sets of n rows that may come first, or all when there are fewer.    *)
FirstOf(r, S, n) ==
  {F \in SUBSET S :
     /\ Cardinality(F) = n \/ (F = S /\ Cardinality(S) < n)
     /\ \A p \in F, q \in S \ F : ~Before(r, q, p)}
Pages(r) ==
  UNION {FirstOf(r, Places(r) \ skipped, R(r).limit) :
           skipped \in FirstOf(r, Places(r), Offset(walk[r].page, R(r).limit))}
IsLast(r) ==
  Cardinality(Places(r)) <= Offset(walk[r].page, R(r).limit) + R(r).limit

(* History: the places of the rows as the first page was read, and the     *)
(* last; and whether a row has left the place it was read at.              *)
FollowPage(r, shown) ==
  LET w == walk[r] IN
  /\ walk' = [walk EXCEPT ![r] =
       [start |-> IF w.page = 1 THEN Places(r) ELSE w.start,
        seen |-> w.seen \cup {p.id : p \in shown},
        places |-> Places(r), moved |-> w.moved \/ ~(w.places \subseteq Places(r)),
        page |-> w.page + 1]]
  /\ Goto(r, IF IsLast(r) THEN "listed" ELSE "start")
  /\ UNCHANGED <<case, rows, cache, read, mine, pending, faults>>

ListKinds(r) ==
  At(r, "list_kinds", "start") /\ \E shown \in Pages(r) : FollowPage(r, shown)

(* A user without an address among the shown ends the list with an error.  *)
ListUsers(r) ==
  /\ At(r, "list_users", "start")
  /\ \E shown \in Pages(r) :
       IF \E a \in addresses : a.salt = Null /\ \E p \in shown : p.id = a.id
         THEN /\ Goto(r, "done")
              /\ UNCHANGED <<case, rows, cache, read, mine, walk, pending, faults>>
         ELSE FollowPage(r, shown)

(***************************************************************************)
(* The token and its set-up.                                               *)
(***************************************************************************)
Over(r) == pc[r] \in {"done", "dead", "listed"}
Turn(r) == case.sequential => \A q \in Requests : q < r => Over(q)
SetupChecks(r) ==
  /\ At(r, "setup", "start") /\ Turn(r)
  /\ Goto(r, IF TokenBySymbol(R(r).symbol) # {} THEN "done" ELSE "salt")
  /\ UNCHANGED <<case, rows, cache, read, mine, walk, pending, faults>>

(* A new salt every time, and the mapping's entry is left.                 *)
SetupSalt(r) ==
  /\ At(r, "setup", "salt")
  /\ salts' = salts + 1 /\ Goto(r, "existing")
  /\ UNCHANGED <<case, kinds, addresses, tokens, workers, cache, read, mine,
                 walk, pending, faults>>

OldestToken == First(tokens)
(* Fault seeded to test the properties: a token counts as existing when    *)
(* its workers do.                                                         *)
GetsWithWorkers(r) ==
  /\ At(r, "setup", "existing")
  /\ read' = [read EXCEPT ![r] = IF workers = {} THEN {} ELSE OldestToken]
  /\ mine' = [mine EXCEPT ![r].new = workers]
  /\ Goto(r, "addresses")
  /\ UNCHANGED <<case, rows, cache, walk, pending, faults>>

(* The token is the oldest of the client.                                  *)
GetExisting(r) ==
  /\ At(r, "setup", "existing")
  /\ read' = [read EXCEPT ![r] = OldestToken]
  /\ mine' = [mine EXCEPT ![r].new = workers]
  /\ Goto(r, "addresses")
  /\ UNCHANGED <<case, rows, cache, walk, pending, faults>>

(* Reserve, workers and holder are set side by side; a failure of one      *)
(* resolves as if it had gone well.                                        *)
Reused(r, field) == {t[field] : t \in read[r]} \ {Null}
SetClientAddresses(r) ==
  /\ At(r, "setup", "addresses")
  /\ \E failed \in SUBSET {"reserve", "holder", "workers"} :
       LET n == NextId(addresses)
           want == {f \in {"reserve", "holder"} : Reused(r, f) = {}} \cup
                   (IF mine[r].new = {} THEN {"workers"} ELSE {})
           id == [reserve |-> n, holder |-> n + 1, workers |-> n + 2]
           held(f) == IF f \notin want THEN CHOOSE i \in Reused(r, f) : TRUE
                      ELSE IF f \in failed THEN Null ELSE id[f]
       IN  /\ failed \subseteq want
           /\ IF failed = {} THEN UNCHANGED faults ELSE Fail
           /\ addresses' = addresses \cup
                {NewAddress(id[f], f, Null, IF f \in failed THEN Null ELSE salts)
                   : f \in want}
           /\ mine' = [mine EXCEPT
                ![r].reserve = held("reserve"), ![r].holder = held("holder"),
                ![r].new = IF "workers" \in want \ failed THEN {id["workers"]}
                           ELSE {}]
  /\ Goto(r, "token")
  /\ UNCHANGED <<case, kinds, salts, tokens, workers, cache, read, walk,
                 pending>>

CreateToken(r) ==
  /\ At(r, "setup", "token")
  /\ tokens' = tokens \cup
       {[id |-> NextId(tokens), symbol |-> R(r).symbol, factor |-> 1,
         reserve |-> mine[r].reserve, holder |-> mine[r].holder]}
  /\ Goto(r, "workers")
  /\ UNCHANGED <<case, kinds, addresses, salts, workers, cache, read, mine,
                 walk, pending, faults>>

TokenDels(s) == {Del(Key("token", 1)), Del(Key("symbol", s))}
CreateWorkers(r) ==
  /\ At(r, "setup", "workers")
  /\ workers' = workers \cup mine[r].new
  /\ Goto(r, "done") /\ Later(r, TokenDels(R(r).symbol))
  /\ UNCHANGED <<case, kinds, addresses, salts, tokens, cache, read, mine,
                 walk, faults>>

(* edit: the row by its symbol, an event on the shared queue, the row.     *)
ValidateToken(r) ==
  /\ At(r, "edit_token", "start")
  /\ read' = [read EXCEPT ![r] = First(TokenBySymbol(R(r).symbol))]
  /\ Goto(r, IF TokenBySymbol(R(r).symbol) = {} THEN "done" ELSE "write")
  /\ UNCHANGED <<case, rows, cache, mine, walk, pending, faults>>

EditToken(r) ==
  /\ At(r, "edit_token", "write")
  /\ \E t \in read[r] :
       tokens' = {u \in tokens : u.id # t.id} \cup {[t EXCEPT !.factor = R(r).factor]}
  /\ Goto(r, "done") /\ Later(r, TokenDels(R(r).symbol))
  /\ UNCHANGED <<case, kinds, addresses, salts, workers, cache, read, mine,
                 walk, faults>>

(***************************************************************************)
(* The specification.                                                      *)
(***************************************************************************)
Step(r) ==
  \/ Fetch(r) \/ FetchMissing(r) \/ Served(r) \/ GetSecureToken(r)
  \/ AddKindChecks(r) \/ CreateKind(r)
  \/ FetchKindRecord(r) \/ EditKindChecks(r) \/ EditKind(r)
  \/ EditUser(r) \/ InsertAddress(r) \/ CreateDummyUsers(r)
  \/ FetchSalt(r) \/ InsertSalt(r) \/ SaveKey(r)
  \/ ListKinds(r) \/ ListUsers(r)
  \/ SetupChecks(r) \/ SetupSalt(r) \/ GetExisting(r)
  \/ SetClientAddresses(r) \/ CreateToken(r) \/ CreateWorkers(r)
  \/ ValidateToken(r) \/ EditToken(r)

Next ==
  \/ \E r \in Requests : Step(r) \/ GenerateFails(r) \/ Crash(r)
  \/ \E r \in Requests : SetLands(r) \/ DelLands(r) \/ NameLands(r)
  \/ \E by \in Bys, of \in Ids : Expire(by, of)

Spec == Init /\ [][Next]_vars

(***************************************************************************)
(* Properties.                                                             *)
(***************************************************************************)
(* A kind whose amount is not left to the caller has a price, and only one *)
(* between users a commission, however many edits read the row before      *)
(* others wrote it: execute takes the price of a transfer from the column  *)
(* of the kind's currency.                                                 *)
PricedInItsCurrency ==
  \A k \in kinds :
    /\ ~ArbitraryAmount(k) => Price(k) # Null
    /\ ~BetweenUsers(k) => k.com = Null

(* Set-ups of a client one after another, each of which may have died or   *)
(* failed to make an address, leave tokens that share the reserve of the   *)
(* oldest one: fund_client_address funds the oldest's, get_token shows the *)
(* newest's.                                                               *)
OneReserve ==
  case.sequential =>
    \A t \in OldestToken : t.reserve # Null =>
      \A u \in tokens : u.reserve = t.reserve

(* Following the next page to the end shows every row that was there from  *)
(* the start, whatever is added meanwhile: if no row has left the place it *)
(* was read at (a renamed one may move others under the offset), and but   *)
(* for rows of one name, which come in any order.                          *)
WalkMissesNothing ==
  \A r \in Requests : pc[r] = "listed" /\ ~walk[r].moved =>
    \A p \in walk[r].start :
      p.id \in walk[r].seen \/ Tied(p, walk[r].places)

(* In the end every entry of the cache is what its table says: a name that *)
(* was changed, whose old entry no edit deletes, and a copy set after the  *)
(* delete that was meant for it last until their time is up.               *)
StaleEntriesGo == <>[]Coherent
=============================================================================
