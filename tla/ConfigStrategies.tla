-------------------------- MODULE ConfigStrategies --------------------------
(***************************************************************************)
(* Configuration strategies: which servers, chains and contracts a client  *)
(* of the company's APIs uses.                                             *)
(*                                                                         *)
(* A strategy is a row of config_strategies.  It has a kind and, for most  *)
(* kinds, a group: the strategies of a group belong to one utility chain.  *)
(* client_config_strategies links a client to one strategy of each kind.   *)
(* On-boarding makes the links; scripts of the operators add strategies,   *)
(* deploy contracts and write their addresses into them, activate groups.  *)
(*                                                                         *)
(* Links are read through a shared memcached and strategies through the    *)
(* memory of each process.  Requests and scripts are a few queries each;   *)
(* anything may happen between two.                                        *)
(***************************************************************************)
EXTENDS Integers, FiniteSets, Sequences, Functions

CONSTANTS
  Requests,   \* requests and scripts of a case, 1..n; also the processes
  Clients,    \* ids of clients
  Ids,        \* ids of strategies
  Names,      \* of the tasks of a deployment and the addresses they write
  Cases       \* the cases: rows at the start and what each request asks

Null == 0

(* The kinds, in the order of their numbers.  Four stand for the fifteen:  *)
(* one with shards, two with addresses of contracts, one that may change   *)
(* while it is active.                                                     *)
Kinds == <<"dynamo", "value_constants", "utility_constants", "shared_rmq">>
KindsWithoutGroup == {"value_constants", "shared_rmq"}

VARIABLES
  case,       \* the case this behaviour is about
  strategies, \* rows of config_strategies
  links,      \* rows of client_config_strategies
  assoc,      \* shared memcached: per client {} or {ids of its strategies}
  local,      \* memory of a process: per strategy {} or {its params}
  tasks,      \* status file of a deployment: "PENDING" or "SUCCESS"
  pc,         \* where each request stands
  held,       \* what a request has read and works on
  pending,    \* effects of a request that were not awaited
  faults      \* failures and deaths so far

db == <<strategies, links>>
vars == <<case, strategies, links, assoc, local, tasks, pc, held, pending,
          faults>>

R(r) == IF r \in DOMAIN case.requests THEN case.requests[r]
                                    ELSE [op |-> "none", proc |-> r]
At(r, op, l) == R(r).op = op /\ pc[r] = l
Goto(r, l) == pc' = [pc EXCEPT ![r] = l]
Hold(r, field, value) == held' = [held EXCEPT ![r][field] = value]
Over == {"done", "assigned", "refused"}
Ended(r) == pc[r] \in Over

(* Scripts of one operator come one after another.                         *)
MayStart(r) == R(r).after # Null => Ended(R(r).after)

Nothing == [ids |-> {}, missing |-> {}, group |-> Null, rows |-> {},
            task |-> "none", id |-> Null, active |-> FALSE,
            params |-> [ident |-> Null, bal |-> 0, log |-> 0, addr |-> {}],
            recorded |-> FALSE]

Init ==
  /\ case \in Cases
  /\ strategies = case.strategies /\ links = case.links
  /\ assoc = [c \in Clients |-> {}]
  /\ local = [p \in Requests |-> [i \in Ids |-> {}]]
  /\ tasks = case.tasks
  /\ pc = [r \in Requests |->
             IF r \in DOMAIN case.requests THEN "start" ELSE "done"]
  /\ held = [r \in Requests |-> Nothing]
  /\ pending = [r \in Requests |-> {}]
  /\ faults = 0

(***************************************************************************)
(* Queries.                                                                *)
(***************************************************************************)
ById(i) == CHOOSE s \in strategies : s.id = i
(* The nth of a list in ascending order, counted from 0 and round and      *)
(* round, and the last one.                                                *)
PickFrom(S, n) ==
  CHOOSE x \in S : Cardinality({y \in S : y < x}) = n % Cardinality(S)
Greatest(S) == CHOOSE x \in S : \A y \in S : y <= x

(* by_group_id: the row of a kind is the group's, or the only one.         *)
Grouped(kind) == kind \notin KindsWithoutGroup
GroupIn(kind, g) == IF Grouped(kind) THEN g ELSE Null
RowsOf(kind, g) ==
  {s \in strategies : s.kind = kind /\ s.group = GroupIn(kind, g)}
(* Of the group or of none; whether they are active is not asked.          *)
GroupAndShared(g) == {s \in strategies : s.group \in {g, Null}}

(* _getStrategyIdsByKindAndGroupId: without a group all rows of the kind.  *)
Candidates(kind, g) ==
  {s \in strategies : s.kind = kind /\ (g = Null \/ s.group \in {g, Null})}

(* splice(indexOf(null), 1): without a null the last group is cut off.     *)
ActiveGroups ==
  LET gs == {s.group : s \in {t \in strategies : t.active}}
  IN IF Null \in gs THEN gs \ {Null} ELSE {g \in gs : \E h \in gs : g < h}

(* The text the row's unique hash is made of: the keys that identify it.   *)
Sha(kind, params) ==
  <<kind, params.ident, IF kind = "utility_constants" \/
                           kind = "value_constants" THEN params.addr ELSE {}>>
WithSha(kind, params) ==
  {s \in strategies : Sha(s.kind, s.params) = Sha(kind, params)}

LinkedBy(rows, c) == {l.strategy : l \in {k \in rows : k.client = c}}
StrategiesOf(c) == LinkedBy(links, c)
Link(c, i, shards) == [client |-> c, strategy |-> i, shards |-> shards]

(***************************************************************************)
(* The two caches.                                                         *)
(***************************************************************************)
(* A fetch of strategies: what is not in the process' memory is read from  *)
(* the database and remembered.                                            *)
Copy(r, i) ==
  LET mine == local[R(r).proc][i] IN
  IF mine # {} THEN CHOOSE p \in mine : TRUE ELSE ById(i).params
Remember(r, ids) ==
  local' = [local EXCEPT ![R(r).proc] =
              [i \in Ids |-> IF i \in ids THEN {Copy(r, i)} ELSE @[i]]]
(* Only the process that clears forgets; the others keep their copy for a  *)
(* day.                                                                    *)
Forget(r, i) == local' = [local EXCEPT ![R(r).proc][i] = {}]
MemoryExpires(p, i) ==
  /\ local[p][i] # {}
  /\ local' = [local EXCEPT ![p][i] = {}]
  /\ UNCHANGED <<case, db, assoc, tasks, pc, held, pending, faults>>

SetLinks(c, ids) == [do |-> "set", client |-> c, ids |-> ids]
DelLinks(c) == [do |-> "del", client |-> c, ids |-> {}]
Later(r, effect) == pending' = [pending EXCEPT ![r] = @ \cup {effect}]

(* Neither the set of an entry nor its deletion is awaited.                *)
Lands(r) ==
  \E e \in pending[r] :
    /\ assoc' = [assoc EXCEPT ![e.client] = IF e.do = "set" THEN {e.ids}
                                                            ELSE {}]
    /\ pending' = [pending EXCEPT ![r] = @ \ {e}]
    /\ UNCHANGED <<case, db, local, tasks, pc, held, faults>>

LinksExpire(c) ==
  /\ assoc[c] # {}
  /\ assoc' = [assoc EXCEPT ![c] = {}]
  /\ UNCHANGED <<case, db, local, tasks, pc, held, pending, faults>>

(***************************************************************************)
(* Reading a client's strategies: the API's get, and where an assignment   *)
(* begins.                                                                 *)
(***************************************************************************)
Readers == {"assign", "get", "get_kind"}
AskLinks(r) ==
  /\ R(r).op \in Readers /\ pc[r] = "start" /\ MayStart(r)
  /\ IF assoc[R(r).client] # {}
       THEN /\ Hold(r, "ids", CHOOSE ids \in assoc[R(r).client] : TRUE)
            /\ Goto(r, "ids")
       ELSE Goto(r, "source") /\ UNCHANGED held
  /\ UNCHANGED <<case, db, assoc, local, tasks, pending, faults>>

(* A client without rows is not in the answer, and nothing is set for it.  *)
ReadLinks(r) ==
  /\ R(r).op \in Readers /\ pc[r] = "source"
  /\ LET ids == StrategiesOf(R(r).client) IN
     /\ Hold(r, "ids", ids)
     /\ IF ids = {} THEN UNCHANGED pending
                    ELSE Later(r, SetLinks(R(r).client, ids))
     /\ Goto(r, IF ids = {} /\ R(r).op # "assign" THEN "done" ELSE "ids")
  /\ UNCHANGED <<case, db, assoc, local, tasks, faults>>

ServeStrategies(r) ==
  /\ At(r, "get", "ids")
  /\ Remember(r, held[r].ids) /\ Goto(r, "done")
  /\ UNCHANGED <<case, db, assoc, tasks, held, pending, faults>>

(* getForKind: exactly one of the client's strategies is of the kind.      *)
ServeKind(r) ==
  /\ At(r, "get_kind", "ids")
  /\ LET ids == {i \in held[r].ids : ById(i).kind = R(r).kind} IN
     IF Cardinality(ids) = 1 THEN Remember(r, ids) /\ Goto(r, "done")
                             ELSE Goto(r, "refused") /\ UNCHANGED local
  /\ UNCHANGED <<case, db, assoc, tasks, held, pending, faults>>

(***************************************************************************)
(* assign_strategies: links for the kinds a client does not have.          *)
(***************************************************************************)
(* splice(indexOf(kind), 1) for each strategy: a kind that was met before  *)
(* cuts off the last one left, so that of the kinds a client lacks as many *)
(* of the last go as it has strategies of a kind it had already.           *)
Number(kind) == CHOOSE n \in DOMAIN Kinds : Kinds[n] = kind
MissingKinds(ids) ==
  LET lacks == Range(Kinds) \ {ById(i).kind : i \in ids}
      again == {i \in ids : \E j \in ids :
                  j < i /\ ById(j).kind = ById(i).kind}
  IN {kind \in lacks : Cardinality(again) <=
        Cardinality({k \in lacks : Number(k) > Number(kind)})}

ReadKinds(r) ==
  /\ At(r, "assign", "ids")
  /\ LET missing == MissingKinds(held[r].ids) IN
     /\ Hold(r, "missing", missing)
     /\ Goto(r, IF missing = {} THEN "assigned" ELSE "group")
  /\ Remember(r, held[r].ids)
  /\ UNCHANGED <<case, db, assoc, tasks, pending, faults>>

(* Fault seeded to test the properties: the links a client has are not     *)
(* asked for their group.                                                  *)
GroupOfActive(c, ids) ==
  IF ActiveGroups = {} THEN Null ELSE PickFrom(ActiveGroups, c)

(* The group of the last link that has one, else one of the active groups; *)
(* with no group left the index is NaN and no group is asked for.          *)
GroupFor(c, ids) ==
  LET own == {i \in ids : ById(i).group # Null}
  IN CASE own # {} -> ById(Greatest(own)).group
       [] own = {} /\ ActiveGroups # {} -> PickFrom(ActiveGroups, c)
       [] OTHER -> Null

ChooseGroup(r) ==
  /\ At(r, "assign", "group")
  /\ Hold(r, "group", GroupFor(R(r).client, held[r].ids))
  /\ Goto(r, "choose")
  /\ UNCHANGED <<case, db, assoc, local, tasks, pending, faults>>

(* A mix of rows with and without a group is refused.                      *)
SameSort(rows) == \/ \A s \in rows : s.group = Null
                  \/ \A s \in rows : s.group # Null
ShardsFor(c, p) == IF p.log = 0 THEN <<(c % p.bal) + 1, Null>>
                               ELSE <<(c % p.bal) + 1, (c % p.log) + 1>>
Refused(kind, rows, choice) ==
  \/ rows = {} \/ ~SameSort(rows)
  \/ kind = "dynamo" /\ choice.params.bal = 0

(* One kind at a time; a kind without a strategy refuses the whole.        *)
ChosenStrategy(r) ==
  LET c == R(r).client
      kind == CHOOSE k \in held[r].missing :
                \A l \in held[r].missing : Number(k) <= Number(l)
      rows == Candidates(kind, held[r].group)
      choice == ById(PickFrom({s.id : s \in rows}, c))
  IN [kind |-> kind,
      refused |-> Refused(kind, rows, choice),
      link |-> IF Refused(kind, rows, choice) THEN Link(c, Null, <<>>)
               ELSE Link(c, choice.id, IF kind = "dynamo"
                                         THEN ShardsFor(c, choice.params)
                                         ELSE <<>>)]

(* Fault seeded to test the properties: the link of a kind is inserted     *)
(* before the next kind is looked at.                                      *)
ChoosesAndInserts(r) ==
  /\ At(r, "assign", "choose")
  /\ LET chosen == ChosenStrategy(r) IN
     IF chosen.refused
       THEN Goto(r, "refused") /\ UNCHANGED <<held, links>>
       ELSE /\ links' = links \cup {chosen.link}
            /\ Hold(r, "missing", held[r].missing \ {chosen.kind})
            /\ Goto(r, IF held[r].missing = {chosen.kind} THEN "insert"
                                                         ELSE "choose")
  /\ UNCHANGED <<case, strategies, assoc, local, tasks, pending, faults>>

ChooseStrategy(r) ==
  /\ At(r, "assign", "choose")
  /\ LET chosen == ChosenStrategy(r) IN
     IF chosen.refused THEN Goto(r, "refused") /\ UNCHANGED held
     ELSE /\ held' = [held EXCEPT ![r].missing = @ \ {chosen.kind},
                                  ![r].rows = @ \cup {chosen.link}]
          /\ Goto(r, IF held[r].missing = {chosen.kind} THEN "insert"
                                                       ELSE "choose")
  /\ UNCHANGED <<case, db, assoc, local, tasks, pending, faults>>

(* All at once; the entry of the client is deleted, and nobody waits.      *)
InsertLinks(r) ==
  /\ At(r, "assign", "insert")
  /\ links' = links \cup held[r].rows
  /\ Later(r, DelLinks(R(r).client))
  /\ Hold(r, "rows", {}) /\ Goto(r, "assigned")
  /\ UNCHANGED <<case, strategies, assoc, local, tasks, faults>>

(* A script links every client to one strategy; the entries stay.          *)
Associate(r) ==
  /\ At(r, "associate", "start") /\ MayStart(r)
  /\ links' = links \cup {Link(c, R(r).id, <<>>) : c \in Clients}
  /\ Goto(r, "done")
  /\ UNCHANGED <<case, strategies, assoc, local, tasks, held, pending, faults>>

(***************************************************************************)
(* Adding strategies: addForKind looks for a row of the kind, populateKind *)
(* before it whether one can be read; the seed looks for neither.          *)
(***************************************************************************)
Adds == {"add", "populate", "seed"}
UnusedIds == {i \in Ids : \A s \in strategies : s.id < i}
FitsGroup(r) == Grouped(R(r).kind) <=> R(r).group # Null
CheckKind(r) ==
  /\ At(r, "add", "start") /\ MayStart(r)
  /\ Goto(r, IF FitsGroup(r) /\ RowsOf(R(r).kind, R(r).group) = {}
               THEN "sha" ELSE "done")
  /\ UNCHANGED <<case, db, assoc, local, tasks, held, pending, faults>>

PopulateKind(r) ==
  /\ At(r, "populate", "start") /\ MayStart(r)
  /\ LET rows == RowsOf(R(r).kind, R(r).group) IN
     /\ Remember(r, {s.id : s \in rows})
     /\ Goto(r, IF rows = {} THEN "sha" ELSE "done")
  /\ UNCHANGED <<case, db, assoc, tasks, held, pending, faults>>

SeedKind(r) ==
  /\ At(r, "seed", "start") /\ MayStart(r)
  /\ Goto(r, "sha")
  /\ UNCHANGED <<case, db, assoc, local, tasks, held, pending, faults>>

(* create: a row with the same hash, of whatever group, is the answer.     *)
CheckSha(r) ==
  /\ R(r).op \in Adds /\ pc[r] = "sha"
  /\ Goto(r, IF WithSha(R(r).kind, R(r).params) = {} THEN "create"
                                                     ELSE "done")
  /\ UNCHANGED <<case, db, assoc, local, tasks, held, pending, faults>>

(* The row has the next id; bound: of Ids.                                 *)
CreateStrategy(r) ==
  /\ R(r).op \in Adds /\ pc[r] = "create"
  /\ \E id \in UnusedIds :
       /\ \A i \in UnusedIds : id <= i
       /\ strategies' = strategies \cup
            {[id |-> id, kind |-> R(r).kind,
              group |-> GroupIn(R(r).kind, R(r).group),
              active |-> FALSE, params |-> R(r).params]}
  /\ Goto(r, "done")
  /\ UNCHANGED <<case, links, assoc, local, tasks, held, pending, faults>>

(***************************************************************************)
(* Activating and deactivating.                                            *)
(***************************************************************************)
SetActive(rows, active) ==
  strategies' = {IF s \in rows THEN [s EXCEPT !.active = active] ELSE s :
                 s \in strategies}

Activate(r) ==
  /\ At(r, "activate", "start") /\ MayStart(r)
  /\ SetActive(GroupAndShared(R(r).group), TRUE)
  /\ Goto(r, "done")
  /\ UNCHANGED <<case, links, assoc, local, tasks, held, pending, faults>>

ActivateByStrategyId(r) ==
  /\ At(r, "activate_one", "start") /\ MayStart(r)
  /\ SetActive({s \in strategies : s.id = R(r).id}, TRUE)
  /\ Goto(r, "done")
  /\ UNCHANGED <<case, links, assoc, local, tasks, held, pending, faults>>

(* Refused while a client is linked to one of the group's strategies.      *)
CheckUnused(r) ==
  /\ At(r, "deactivate", "start") /\ MayStart(r)
  /\ LET ids == {s.id : s \in {t \in strategies : t.group = R(r).group}} IN
     Goto(r, IF \E l \in links : l.strategy \in ids
               THEN "refused" ELSE "deactivate")
  /\ UNCHANGED <<case, db, assoc, local, tasks, held, pending, faults>>

Deactivate(r) ==
  /\ At(r, "deactivate", "deactivate")
  /\ SetActive({s \in strategies : s.group = R(r).group}, FALSE)
  /\ Goto(r, "done")
  /\ UNCHANGED <<case, links, assoc, local, tasks, held, pending, faults>>

(***************************************************************************)
(* Changing a strategy.  getForKind reads it through memory; the caller    *)
(* changes the copy and gives the whole of it to updateForKind.            *)
(*   "deploy": the deployment of a chain, which works off a status file    *)
(*   "step":   one step of it, pasted by hand into a process of its own    *)
(*   "change": a change of what identifies it                              *)
(*   "count_shards", "create_shard": scripts about the shards of a row     *)
(***************************************************************************)
Updates == {"deploy", "step", "change"}
ShardScripts == {"count_shards", "create_shard"}
(* What ends a script, and for a deployment the process, without success.  *)
GiveUp(r) == Goto(r, IF R(r).op = "deploy" THEN "dead" ELSE "refused")

AddressOf(task) ==
  CASE task = "ST_PRIME_UUID" -> "UUID" [] OTHER -> task
Changed(r, p) ==
  CASE R(r).op = "change" -> [p EXCEPT !.ident = R(r).ident]
    [] OTHER -> [p EXCEPT !.addr = @ \cup {AddressOf(held[r].task)}]

(* configDbOps: an address that is there is not written again; a step by   *)
(* hand writes it.                                                         *)
Vacant(r, p) ==
  R(r).op = "deploy" => AddressOf(held[r].task) \notin p.addr

ReadStrategy(r) ==
  /\ R(r).op \in Updates
  /\ \/ pc[r] = "read"
     \/ R(r).op = "change" /\ pc[r] = "start" /\ MayStart(r)
  /\ LET rows == RowsOf(R(r).kind, R(r).group)
         ids == {s.id : s \in rows}
         old == Copy(r, Greatest(ids))
     IN IF rows = {} THEN GiveUp(r) /\ UNCHANGED <<held, local>>
        ELSE /\ Remember(r, ids)
             /\ IF Vacant(r, old)
                  THEN Hold(r, "params", Changed(r, old)) /\ Goto(r, "rows")
                  ELSE GiveUp(r) /\ UNCHANGED held
  /\ UNCHANGED <<case, db, assoc, tasks, pending, faults>>

(* updateForKind: exactly one row, and its status as it is now.            *)
ReadRow(r) ==
  /\ R(r).op \in Updates /\ pc[r] = "rows"
  /\ LET rows == RowsOf(R(r).kind, R(r).group) IN
     IF Cardinality(rows) # 1 THEN GiveUp(r) /\ UNCHANGED held
     ELSE \E s \in rows :
            /\ held' = [held EXCEPT ![r].id = s.id, ![r].active = s.active]
            /\ Goto(r, "white")
  /\ UNCHANGED <<case, db, assoc, local, tasks, pending, faults>>

(* Of the kinds here only shared_rmq has keys that an active row may       *)
(* change: its nodes, which ident stands for.                              *)
WhiteListed(r) == held[r].active => R(r).kind = "shared_rmq"
CheckWhiteList(r) ==
  /\ R(r).op \in Updates /\ pc[r] = "white"
  /\ Remember(r, {held[r].id})
  /\ IF WhiteListed(r) THEN Goto(r, "unique") ELSE GiveUp(r)
  /\ UNCHANGED <<case, db, assoc, tasks, held, pending, faults>>

(* updateStrategyId: the hash must not be that of another row.             *)
CheckUnique(r) ==
  /\ R(r).op \in Updates \cup ShardScripts /\ pc[r] = "unique"
  /\ IF WithSha(ById(held[r].id).kind, held[r].params) \subseteq
          {s \in strategies : s.id = held[r].id}
       THEN Goto(r, "write") ELSE GiveUp(r)
  /\ UNCHANGED <<case, db, assoc, local, tasks, held, pending, faults>>

Written(r) ==
  strategies' = {IF s.id # held[r].id THEN s
                 ELSE [s EXCEPT !.params = held[r].params] : s \in strategies}

(* Fault seeded to test the properties: the copy in memory stays.          *)
WritesOnly(r) ==
  /\ R(r).op \in Updates \cup ShardScripts /\ pc[r] = "write"
  /\ Written(r)
  /\ Hold(r, "recorded", TRUE)
  /\ Goto(r, IF R(r).op = "deploy" THEN "mark" ELSE "done")
  /\ UNCHANGED <<case, links, assoc, local, tasks, pending, faults>>

(* The shard scripts do not clear the copy; their process ends here.       *)
WriteStrategy(r) ==
  /\ R(r).op \in Updates \cup ShardScripts /\ pc[r] = "write"
  /\ Written(r)
  /\ IF R(r).op \in ShardScripts THEN UNCHANGED local
                                  ELSE Forget(r, held[r].id)
  /\ Hold(r, "recorded", TRUE)
  /\ Goto(r, IF R(r).op = "deploy" THEN "mark" ELSE "done")
  /\ UNCHANGED <<case, links, assoc, tasks, pending, faults>>

(* Two scripts go straight to updateStrategyId: one writes the shards it   *)
(* has counted in the database, the other adds one.                        *)
WithShards(r, params) ==
  /\ held' = [held EXCEPT ![r].id = R(r).id, ![r].params = params]
  /\ Remember(r, {R(r).id}) /\ Goto(r, "unique")
  /\ UNCHANGED <<case, db, assoc, tasks, pending, faults>>

PopulateShardNames(r) ==
  /\ At(r, "count_shards", "start") /\ MayStart(r)
  /\ WithShards(r, [Copy(r, R(r).id) EXCEPT !.bal = R(r).bal,
                                            !.log = R(r).log])

CreateShard(r) ==
  /\ At(r, "create_shard", "start") /\ MayStart(r)
  /\ \/ WithShards(r, [Copy(r, R(r).id) EXCEPT !.bal = @ + 1])
     \/ WithShards(r, [Copy(r, R(r).id) EXCEPT !.log = @ + 1])

(***************************************************************************)
(* Deploying contracts.                                                    *)
(***************************************************************************)
WithAddress == {"REGISTRAR", "ST_PRIME"}
(* The first task of the list that is not done.                            *)
IsNext(n) == /\ tasks[case.order[n]] # "SUCCESS"
             /\ \A m \in 1..(n - 1) : tasks[case.order[m]] = "SUCCESS"

NextTask(r) ==
  /\ At(r, "deploy", "start") /\ MayStart(r)
  /\ \/ /\ \A n \in DOMAIN case.order : ~IsNext(n)
        /\ Goto(r, "done") /\ UNCHANGED held
     \/ \E n \in DOMAIN case.order :
          IsNext(n) /\ Hold(r, "task", case.order[n]) /\ Goto(r, "hash")
  /\ UNCHANGED <<case, db, assoc, local, tasks, pending, faults>>

BeginStep(r) ==
  /\ At(r, "step", "start") /\ MayStart(r)
  /\ Hold(r, "task", R(r).task) /\ Goto(r, "hash")
  /\ UNCHANGED <<case, db, assoc, local, tasks, pending, faults>>

(* getCompleteHash; a deployment does not deploy what has an address.      *)
ReadHash(r) ==
  /\ R(r).op \in {"deploy", "step"} /\ pc[r] = "hash"
  /\ LET rows == GroupAndShared(R(r).group)
         has == \E s \in rows : s.kind = R(r).kind /\
                  AddressOf(held[r].task) \in Copy(r, s.id).addr
     IN /\ Remember(r, {s.id : s \in rows})
        /\ IF R(r).op = "deploy" /\ held[r].task \in WithAddress /\ has
             THEN GiveUp(r) ELSE Goto(r, "perform")
  /\ UNCHANGED <<case, db, assoc, tasks, held, pending, faults>>

(* Fault seeded to test the properties: the task is marked when its        *)
(* contract is there, before its address is written.                       *)
PerformsAndMarks(r) ==
  /\ R(r).op \in {"deploy", "step"} /\ pc[r] = "perform"
  /\ tasks' = [tasks EXCEPT ![held[r].task] = "SUCCESS"]
  /\ Goto(r, IF held[r].task \in WithAddress THEN "read" ELSE "mark")
  /\ UNCHANGED <<case, db, assoc, local, held, pending, faults>>

(* A contract, or another transaction on the chain.                        *)
Perform(r) ==
  /\ R(r).op \in {"deploy", "step"} /\ pc[r] = "perform"
  /\ Goto(r, IF held[r].task \in WithAddress THEN "read"
             ELSE IF R(r).op = "deploy" THEN "mark" ELSE "done")
  /\ UNCHANGED <<case, db, assoc, local, tasks, held, pending, faults>>

PerformFails(r) ==
  /\ R(r).op \in {"deploy", "step"} /\ pc[r] = "perform"
  /\ faults < case.faults /\ faults' = faults + 1
  /\ GiveUp(r)
  /\ UNCHANGED <<case, db, assoc, local, tasks, held, pending>>

(* ST' has a UUID too.  A task without an address reports what the last    *)
(* update of the process did; in a new process that is nothing, and the    *)
(* task has failed.                                                        *)
Mark(r) ==
  /\ At(r, "deploy", "mark")
  /\ CASE held[r].task = "ST_PRIME" ->
            /\ Hold(r, "task", "ST_PRIME_UUID") /\ Goto(r, "read")
            /\ UNCHANGED tasks
       [] held[r].task # "ST_PRIME" /\ held[r].recorded ->
            /\ tasks' = [tasks EXCEPT
                 ![IF held[r].task = "ST_PRIME_UUID" THEN "ST_PRIME"
                                                     ELSE held[r].task] =
                   "SUCCESS"]
            /\ Goto(r, "start") /\ UNCHANGED held
       [] OTHER -> GiveUp(r) /\ UNCHANGED <<held, tasks>>
  /\ UNCHANGED <<case, db, assoc, local, pending, faults>>

(* The process dies with its memory; the operator runs it again.           *)
Crash(r) ==
  /\ R(r).op = "deploy" /\ pc[r] \notin Over \cup {"dead"} /\ MayStart(r)
  /\ faults < case.faults /\ faults' = faults + 1
  /\ Goto(r, "dead")
  /\ UNCHANGED <<case, db, assoc, local, tasks, held, pending>>

RunAgain(r) ==
  /\ At(r, "deploy", "dead")
  /\ local' = [local EXCEPT ![R(r).proc] = [i \in Ids |-> {}]]
  /\ held' = [held EXCEPT ![r] = Nothing]
  /\ Goto(r, "start")
  /\ UNCHANGED <<case, db, assoc, tasks, pending, faults>>

Next ==
  \/ \E r \in Requests : AskLinks(r)
  \/ \E r \in Requests : ReadLinks(r)
  \/ \E r \in Requests : ServeStrategies(r)
  \/ \E r \in Requests : ServeKind(r)
  \/ \E r \in Requests : ReadKinds(r)
  \/ \E r \in Requests : ChooseGroup(r)
  \/ \E r \in Requests : ChooseStrategy(r)
  \/ \E r \in Requests : InsertLinks(r)
  \/ \E r \in Requests : Associate(r)
  \/ \E r \in Requests : CheckKind(r)
  \/ \E r \in Requests : PopulateKind(r)
  \/ \E r \in Requests : SeedKind(r)
  \/ \E r \in Requests : CheckSha(r)
  \/ \E r \in Requests : CreateStrategy(r)
  \/ \E r \in Requests : Activate(r)
  \/ \E r \in Requests : ActivateByStrategyId(r)
  \/ \E r \in Requests : CheckUnused(r)
  \/ \E r \in Requests : Deactivate(r)
  \/ \E r \in Requests : ReadStrategy(r)
  \/ \E r \in Requests : ReadRow(r)
  \/ \E r \in Requests : CheckWhiteList(r)
  \/ \E r \in Requests : CheckUnique(r)
  \/ \E r \in Requests : WriteStrategy(r)
  \/ \E r \in Requests : PopulateShardNames(r)
  \/ \E r \in Requests : CreateShard(r)
  \/ \E r \in Requests : NextTask(r)
  \/ \E r \in Requests : BeginStep(r)
  \/ \E r \in Requests : ReadHash(r)
  \/ \E r \in Requests : Perform(r)
  \/ \E r \in Requests : PerformFails(r)
  \/ \E r \in Requests : Mark(r)
  \/ \E r \in Requests : Crash(r)
  \/ \E r \in Requests : RunAgain(r)
  \/ \E r \in Requests : Lands(r)
  \/ \E p \in Requests, i \in Ids : MemoryExpires(p, i)
  \/ \E c \in Clients : LinksExpire(c)
Spec == Init /\ [][Next]_vars

(***************************************************************************)
(* What is assumed of a case.                                              *)
(***************************************************************************)
ParamType == [ident : Nat, bal : Nat, log : Nat, addr : SUBSET Names]
RowType == [id : Ids, kind : Range(Kinds), group : Nat, active : BOOLEAN,
            params : ParamType]
With(k, ops) == {r \in DOMAIN k.requests : k.requests[r].op \in ops}

(* Rows have an id, links are to rows, requests name what is there.        *)
WellFormed(k) ==
  /\ IsFiniteSet(k.strategies) /\ k.strategies \subseteq RowType
  /\ \A s, t \in k.strategies : s.id = t.id => s = t
  /\ \A l \in k.links : \E s \in k.strategies : s.id = l.strategy
  /\ DOMAIN k.requests \subseteq Requests
  /\ \A r \in DOMAIN k.requests :
       LET q == k.requests[r] IN
       /\ q.proc \in Requests /\ q.after \in Requests \cup {Null}
       /\ q.op \in Readers => q.client \in Clients
       /\ q.op \in Adds =>
            q.kind \in Range(Kinds) /\ q.group \in Nat /\ q.params \in ParamType
       /\ q.op \in ShardScripts \cup {"associate"} =>
            \E s \in k.strategies : s.id = q.id
       /\ q.op = "count_shards" => q.bal \in Nat /\ q.log \in Nat
       /\ q.op = "change" => q.ident \in Nat
       /\ q.op = "step" => q.task \in Names

(* The kind and group of the row a script adds or writes.                  *)
Place(k, r) ==
  LET q == k.requests[r]
      s == CHOOSE row \in k.strategies : row.id = q.id
  IN IF q.op \in ShardScripts THEN <<s.kind, s.group>>
                              ELSE <<q.kind, GroupIn(q.kind, q.group)>>
IsAt(s, place) == <<s.kind, s.group>> = place

(* A kind has one row in a group.  The code sees to it only where it looks *)
(* for a row first, so an operator adds a row once.                        *)
OneRowEach(k) ==
  /\ \A s \in k.strategies : Grouped(s.kind) <=> s.group # Null
  /\ \A s, t \in k.strategies :
       s.kind = t.kind /\ s.group = t.group => s = t
  /\ \A r \in With(k, Adds) :
       LET q == k.requests[r] IN
       /\ q.op # "add" /\ Grouped(q.kind) => q.group # Null
       /\ q.op = "seed" => \A s \in k.strategies : ~IsAt(s, Place(k, r))
       /\ \A a \in With(k, Adds) \ {r} : Place(k, a) # Place(k, r)

(* One comes after the other, directly or not: what contains a request and *)
(* with each the one it comes after contains the other.                    *)
Follows(k, r, first) ==
  \A S \in SUBSET Requests :
    r \in S /\ (\A q \in S \cap DOMAIN k.requests :
                 k.requests[q].after # Null => k.requests[q].after \in S)
    => first \in S

(* The strategies clients have at first fit together, and a group is       *)
(* active all the time.  Where groups come and go, a client that has none  *)
(* yet is given one by one assignment at a time.                           *)
GroupsStay(k) == With(k, {"activate", "activate_one", "deactivate"}) = {}
HasGroup(k, c) ==
  \E s \in k.strategies : s.id \in LinkedBy(k.links, c) /\ s.group # Null
OneAtATime(k, c) ==
  \A r, q \in With(k, {"assign"}) :
    r # q /\ k.requests[r].client = c /\ k.requests[q].client = c
      => Follows(k, r, q) \/ Follows(k, q, r)
ClientsFit(k) ==
  /\ \A c \in Clients : \A s, t \in k.strategies :
       {s.id, t.id} \subseteq LinkedBy(k.links, c) =>
         /\ s.kind = t.kind => s = t
         /\ s.group # Null /\ t.group # Null => s.group = t.group
  /\ \A r \in With(k, {"associate"}) : \A s \in k.strategies :
       s.id = k.requests[r].id => s.kind = "shared_rmq"
  /\ \E s \in k.strategies : s.active /\ s.group = Null
  /\ \E s \in k.strategies : s.active /\ s.group # Null /\
       \A r \in With(k, {"deactivate"}) :
         k.requests[r].group \notin {Null, s.group}
  /\ \/ GroupsStay(k)
     \/ \A c \in Clients :
          \/ HasGroup(k, c)
          \/ /\ LinkedBy(k.links, c) = {} /\ With(k, {"associate"}) = {}
             /\ OneAtATime(k, c)

(* Contracts of a chain are deployed by one operator: what may write the   *)
(* row they are written to comes before or after, and then in a process    *)
(* that has not read it before.                                            *)
Writes == Updates \cup ShardScripts
WritersApart(k) ==
  \A a \in With(k, {"deploy", "step"}), w \in With(k, Writes) :
    a # w /\ Place(k, a) = Place(k, w) =>
      \/ Follows(k, a, w)
      \/ /\ Follows(k, w, a)
         /\ \/ k.requests[w].proc = k.requests[a].proc
            \/ \A q \in DOMAIN k.requests :
                 k.requests[q].proc = k.requests[w].proc => Follows(k, q, a)

Recorded(task) ==
  IF task = "ST_PRIME" THEN {"ST_PRIME", "UUID"} ELSE {task}
(* The status file is that of one chain.                                   *)
OneStatusFile(k) ==
  /\ DOMAIN k.tasks \subseteq Names \ {"ST_PRIME_UUID"}
  /\ Range(k.order) \subseteq DOMAIN k.tasks
  /\ \A r, q \in With(k, {"deploy"}) : Place(k, r) = Place(k, q)
  /\ \A r \in With(k, {"deploy"}), t \in WithAddress \cap DOMAIN k.tasks :
       k.tasks[t] = "SUCCESS" =>
         \E s \in k.strategies :
           IsAt(s, Place(k, r)) /\ Recorded(t) \subseteq s.params.addr

ASSUME StrategiesAssumption ==
  /\ Null \notin Requests /\ IsFiniteSet(Ids) /\ Ids \subseteq Nat
  /\ Clients \subseteq Nat /\ {"UUID", "ST_PRIME_UUID"} \subseteq Names
  /\ \A k \in Cases : /\ WellFormed(k) /\ OneRowEach(k) /\ ClientsFit(k)
                      /\ WritersApart(k) /\ OneStatusFile(k)

(***************************************************************************)
(* Properties.                                                             *)
(***************************************************************************)
(* The strategies of a client fit together: one of each kind, and those    *)
(* with a group are of one group.  Assignments of one client may overlap,  *)
(* see old links and insert twice, and groups come and go between them.    *)
OneChain ==
  \A c \in Clients : \A i, j \in StrategiesOf(c) :
    LET a == ById(i)
        b == ById(j)
    IN /\ a.kind = b.kind => a = b
       /\ a.group # Null /\ b.group # Null => a.group = b.group

(* An assignment gives a client all kinds or leaves it as it was: a client *)
(* is never left with some of them because one had no strategy.  (The      *)
(* script may have added shared_rmq.)                                      *)
WholeOrNothing ==
  \A c \in Clients :
    LET kinds == {ById(i).kind : i \in StrategiesOf(c)}
        before == {ById(i).kind : i \in LinkedBy(case.links, c)}
    IN kinds \cup {"shared_rmq"} \in
         {before \cup {"shared_rmq"}, Range(Kinds)}

(* No update of a strategy loses the address of a contract that is there,  *)
(* though each writes all of the row from a copy kept in memory.           *)
AddressesStay ==
  [][\A s \in strategies : \E t \in strategies' :
       t.id = s.id /\ s.params.addr \subseteq t.params.addr]_vars

(* A task the status file calls done has its address in the strategy,      *)
(* wherever a deployment died and however often it ran.                    *)
SuccessIsRecorded ==
  \A r \in DOMAIN case.requests : R(r).op = "deploy" =>
    \A task \in WithAddress \cap DOMAIN tasks :
      tasks[task] = "SUCCESS" =>
        \E s \in RowsOf(R(r).kind, R(r).group) :
          Recorded(task) \subseteq s.params.addr
=============================================================================
