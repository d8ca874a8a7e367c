----------------------- MODULE ConfigStrategies_proofs -----------------------
(* Theorems about ConfigStrategies, for any cases that meet the assumption *)
(* of the module: strategies of a client fit together and are whole,       *)
(* addresses stay, and what a status file calls done is recorded.          *)
EXTENDS ConfigStrategies, FiniteSetTheorems, WellFoundedInduction, TLAPS

(***************************************************************************)
(* Rows and the order of the scripts.                                      *)
(***************************************************************************)
Fields == {"ids", "missing", "group", "rows", "task", "id", "active",
           "params", "recorded"}
TypeInv ==
  /\ case \in Cases
  /\ DOMAIN pc = Requests /\ DOMAIN held = Requests
  /\ \A r \in Requests : DOMAIN held[r] = Fields
  /\ DOMAIN local = Requests
  /\ \A p \in Requests : DOMAIN local[p] = Ids
  /\ DOMAIN assoc = Clients /\ DOMAIN pending = Requests
  /\ DOMAIN tasks = DOMAIN case.tasks

(* Rows keep their id, kind and group, and there is one for each of both.  *)
RowsInv ==
  /\ IsFiniteSet(strategies) /\ strategies \subseteq RowType
  /\ \A s, t \in strategies : s.id = t.id => s = t
  /\ \A s \in strategies : Grouped(s.kind) <=> s.group # Null
  /\ \A s, t \in strategies : s.kind = t.kind /\ s.group = t.group => s = t
  /\ \A s \in case.strategies : \E t \in strategies :
       t.id = s.id /\ t.kind = s.kind /\ t.group = s.group

(* Whoever is past its beginning began in its turn.                        *)
TurnsInv ==
  \A r \in DOMAIN case.requests : pc[r] # "start" => MayStart(r)

(* Of what a script is about to add there is no row.                       *)
AddInv ==
  \A r \in With(case, Adds) :
    /\ \/ pc[r] \in {"sha", "create"}
       \/ R(r).op = "seed" /\ pc[r] = "start"
       => \A s \in strategies : ~IsAt(s, Place(case, r))
    /\ pc[r] \in {"sha", "create"} /\ Grouped(R(r).kind) => R(r).group # Null

BaseInv == TypeInv /\ RowsInv /\ TurnsInv /\ AddInv

(***************************************************************************)
(* Addresses.                                                              *)
(***************************************************************************)
(* What a process remembers are params of rows that are there; it has      *)
(* begun one of its requests then.                                         *)
MemoryInv ==
  \A p \in Requests : \A i \in Ids : local[p][i] # {} =>
    /\ \A v, u \in local[p][i] : v \in ParamType /\ u = v
    /\ \E s \in strategies : s.id = i
    /\ \E q \in DOMAIN case.requests : R(q).proc = p /\ MayStart(q)

(* Who may yet write a row sees all its addresses, wherever it looks.      *)
FreshInv ==
  \A w \in With(case, Writes) : ~Ended(w) =>
    \A s \in strategies : IsAt(s, Place(case, w)) =>
      \A v \in local[R(w).proc][s.id] : v.addr = s.params.addr

(* What a request adds to the addresses it has read.                       *)
Gain(r) == IF R(r).op \in {"deploy", "step"} THEN {AddressOf(held[r].task)}
                                             ELSE {}
Sees(r, s) == /\ IsAt(s, Place(case, r))
              /\ held[r].params \in ParamType
              /\ held[r].params.addr = s.params.addr \cup Gain(r)
WritesInv ==
  \A r \in With(case, Writes) :
    /\ pc[r] \in {"hash", "perform", "read", "rows", "white", "unique",
                  "write", "mark"} /\ R(r).op \in {"deploy", "step"} =>
         held[r].task \in Names
    /\ pc[r] = "rows" => \E s \in strategies : Sees(r, s)
    /\ pc[r] \in {"white", "unique", "write"} =>
         \E s \in strategies : s.id = held[r].id /\ Sees(r, s)

(***************************************************************************)
(* The status file.                                                        *)
(***************************************************************************)
Has(r, addr) ==
  \E s \in strategies : IsAt(s, Place(case, r)) /\ addr \subseteq s.params.addr
DeployInv ==
  \A r \in With(case, {"deploy"}) :
    /\ pc[r] \in {"hash", "perform"} => held[r].task \in Range(case.order)
    /\ held[r].task = "ST_PRIME_UUID" => Has(r, {"ST_PRIME"})
    /\ pc[r] \in {"read", "rows", "white", "unique", "write"} =>
         held[r].task \in WithAddress \cup {"ST_PRIME_UUID"}
    /\ pc[r] = "mark" /\ held[r].task \in WithAddress \cup {"ST_PRIME_UUID"}
         => Has(r, {AddressOf(held[r].task)})
    /\ \A t \in WithAddress \cap DOMAIN tasks :
         tasks[t] = "SUCCESS" => Has(r, Recorded(t))

(***************************************************************************)
(* Clients.                                                                *)
(***************************************************************************)
Kind(i) == ById(i).kind
Before(c) == LinkedBy(case.links, c)
(* Of a client's strategies, what a request or a cache has.                *)
PartOf(ids, c) == Before(c) \subseteq ids /\ ids \subseteq StrategiesOf(c)
Assigning(r, where) == R(r).op = "assign" /\ pc[r] \in where
LinksInv ==
  /\ case.links \subseteq links
  /\ \A l \in links : \E s \in strategies : s.id = l.strategy
  /\ \A c \in Clients : \A ids \in assoc[c] : ids # {} /\ PartOf(ids, c)
  /\ \A r \in Requests : \A e \in pending[r] :
       e.client \in Clients /\
         (e.do = "set" => e.ids # {} /\ PartOf(e.ids, e.client))
  /\ \A r \in Requests : R(r).op \in Readers =>
       /\ pc[r] \notin {"start", "source"} \cup Over =>
            PartOf(held[r].ids, R(r).client)
       /\ \A l \in held[r].rows :
            l.client = R(r).client /\ \E s \in strategies : s.id = l.strategy
       /\ pc[r] \in {"start", "source", "ids", "group"} => held[r].rows = {}

(* Groups.                                                                 *)
GroupOf(i) == ById(i).group
ActiveInv ==
  /\ \E s \in strategies : s.active /\ s.group = Null
  /\ \E s \in strategies : s.active /\ s.group # Null /\
       \A r \in With(case, {"deactivate"}) :
         case.requests[r].group \notin {Null, s.group}
FirstActive == {s.group : s \in {t \in case.strategies : t.active}}
SteadyInv ==
  GroupsStay(case) =>
    {s.group : s \in {t \in strategies : t.active}} = FirstActive

(* All groups of a client are one, also those it is about to get.          *)
GroupInv ==
  /\ \A c \in Clients : \A i, j \in StrategiesOf(c) :
       GroupOf(i) # Null /\ GroupOf(j) # Null => GroupOf(i) = GroupOf(j)
  /\ \A r \in Requests : Assigning(r, {"choose", "insert"}) =>
       /\ held[r].group # Null
       /\ \A i \in StrategiesOf(R(r).client) :
            GroupOf(i) \in {Null, held[r].group}
       /\ \A l \in held[r].rows : GroupOf(l.strategy) \in {Null, held[r].group}
       /\ \A q \in Requests : Assigning(q, {"choose", "insert"}) /\
            R(q).client = R(r).client => held[q].group = held[r].group

(* A client without a group at first: where groups stay, it is given that  *)
(* of its number; where they do not, it has none or has been through.      *)
GivenInv ==
  \A c \in Clients : GroupsStay(case) /\ ~HasGroup(case, c) =>
    /\ \A i \in StrategiesOf(c) :
         GroupOf(i) \in {Null, PickFrom(ActiveGroups, c)}
    /\ \A r \in Requests :
         Assigning(r, {"choose", "insert"}) /\ R(r).client = c =>
           held[r].group = PickFrom(ActiveGroups, c)
Grown(ids) == ids # {} => \E i \in ids : GroupOf(i) # Null
TiedInv ==
  \A c \in Clients : ~GroupsStay(case) =>
    /\ Grown(StrategiesOf(c))
    /\ \A ids \in assoc[c] : Grown(ids)
    /\ \A r \in Requests : \A e \in pending[r] :
         e.do = "set" /\ e.client = c => Grown(e.ids)
    /\ \A r \in Requests :
         Assigning(r, {"ids", "group", "choose", "insert"})
           /\ R(r).client = c =>
           /\ Grown(held[r].ids)
           /\ held[r].ids = {} => StrategiesOf(c) = {}

(* Kinds.                                                                  *)
AllKinds == Range(Kinds)
KindsOf(ids) == {Kind(i) : i \in ids}
WholeInv ==
  /\ WholeOrNothing
  /\ \A r \in Requests :
       /\ Assigning(r, {"group", "choose", "insert"}) =>
            held[r].missing \subseteq AllKinds
       /\ Assigning(r, {"group", "choose", "insert"}) =>
            AllKinds \subseteq KindsOf(held[r].ids) \cup held[r].missing
                        \cup {Kind(l.strategy) : l \in held[r].rows}
       /\ Assigning(r, {"insert"}) => held[r].missing = {}
       /\ Assigning(r, {"group", "choose"}) => held[r].missing # {}

(***************************************************************************)
(* The frame: one request moves at a time, when it is its turn.            *)
(***************************************************************************)
LEMMA NumberedIds ==
  /\ IsFiniteSet(Ids) /\ Ids \subseteq Nat
  /\ "UUID" \in Names /\ "ST_PRIME_UUID" \in Names
BY StrategiesAssumption

(* A case is one the assumption of the module lets in.                     *)
LEMMA CaseFits ==
  ASSUME case \in Cases
  PROVE  /\ WellFormed(case) /\ OneRowEach(case) /\ ClientsFit(case)
         /\ WritersApart(case) /\ OneStatusFile(case)
BY StrategiesAssumption

(* What a case says of a request, seen as the request of a run.            *)
LEMMA RequestFits ==
  ASSUME case \in Cases, NEW r \in DOMAIN case.requests
  PROVE  /\ r \in Requests /\ R(r) = case.requests[r]
         /\ R(r).proc \in Requests
         /\ R(r).after \in Requests \cup {Null}
         /\ R(r).op \in Readers => R(r).client \in Clients
BY CaseFits DEF WellFormed, R

(* Ids being apart, a row is the one of its id.                            *)
LEMMA ByIdIs ==
  ASSUME RowsInv, NEW s \in strategies
  PROVE  ById(s.id) = s
BY DEF RowsInv, ById

(* Steps by what their request is.                                         *)
Reading(r) ==
  \/ AskLinks(r) \/ ReadLinks(r) \/ ServeStrategies(r) \/ ServeKind(r)
  \/ ReadKinds(r) \/ ChooseGroup(r) \/ ChooseStrategy(r) \/ InsertLinks(r)
Adding(r) ==
  \/ CheckKind(r) \/ PopulateKind(r) \/ SeedKind(r) \/ CheckSha(r)
  \/ CreateStrategy(r)
Switching(r) ==
  \/ Associate(r) \/ Activate(r) \/ ActivateByStrategyId(r)
  \/ CheckUnused(r) \/ Deactivate(r)
Changing(r) ==
  \/ ReadStrategy(r) \/ ReadRow(r) \/ CheckWhiteList(r) \/ CheckUnique(r)
  \/ WriteStrategy(r) \/ PopulateShardNames(r) \/ CreateShard(r)
Deploying(r) ==
  \/ NextTask(r) \/ BeginStep(r) \/ ReadHash(r) \/ Perform(r)
  \/ PerformFails(r) \/ Mark(r) \/ Crash(r) \/ RunAgain(r)
Acting(r) ==
  Reading(r) \/ Adding(r) \/ Switching(r) \/ Changing(r) \/ Deploying(r)
Elsewhere ==
  \/ \E r \in Requests : Lands(r)
  \/ \E p \in Requests, i \in Ids : MemoryExpires(p, i)
  \/ \E c \in Clients : LinksExpire(c)

(* A step of a request leaves the others where they are.                   *)
Moved(r) ==
  /\ r \in DOMAIN case.requests /\ pc[r] \notin Over
  /\ pc[r] = "start" => MayStart(r)
  /\ DOMAIN pc' = Requests /\ DOMAIN held' = Requests
  /\ DOMAIN held'[r] = Fields
  /\ \A q \in Requests : q # r => pc'[q] = pc[q] /\ held'[q] = held[q]

(* A step of a request moves its own place and memory, and no other's.     *)
LEMMA ActsMove ==
  ASSUME TypeInv, NEW r \in Requests, Acting(r)
  PROVE  Moved(r)
<1>1. R(r).op # "none" => r \in DOMAIN case.requests
  BY DEF R
<1>2. CASE AskLinks(r)
  BY <1>1, <1>2 DEF AskLinks, Readers, TypeInv, Moved,
     Goto, At, Hold, Over, GiveUp, WithShards, Nothing, Fields
<1>3. CASE ReadLinks(r)
  BY <1>1, <1>3 DEF ReadLinks, Readers, TypeInv, Moved,
     Goto, At, Hold, Over, GiveUp, WithShards, Nothing, Fields
<1>4. CASE ServeStrategies(r)
  BY <1>1, <1>4 DEF ServeStrategies, TypeInv, Moved,
     Goto, At, Hold, Over, GiveUp, WithShards, Nothing, Fields
<1>5. CASE ServeKind(r)
  BY <1>1, <1>5 DEF ServeKind, TypeInv, Moved,
     Goto, At, Hold, Over, GiveUp, WithShards, Nothing, Fields
<1>6. CASE ReadKinds(r)
  BY <1>1, <1>6 DEF ReadKinds, TypeInv, Moved,
     Goto, At, Hold, Over, GiveUp, WithShards, Nothing, Fields
<1>7. CASE ChooseGroup(r)
  BY <1>1, <1>7 DEF ChooseGroup, TypeInv, Moved,
     Goto, At, Hold, Over, GiveUp, WithShards, Nothing, Fields
<1>8. CASE ChooseStrategy(r)
  BY <1>1, <1>8 DEF ChooseStrategy, TypeInv, Moved,
     Goto, At, Hold, Over, GiveUp, WithShards, Nothing, Fields
<1>9. CASE InsertLinks(r)
  BY <1>1, <1>9 DEF InsertLinks, TypeInv, Moved,
     Goto, At, Hold, Over, GiveUp, WithShards, Nothing, Fields
<1>10. CASE Associate(r)
  BY <1>1, <1>10 DEF Associate, TypeInv, Moved,
     Goto, At, Hold, Over, GiveUp, WithShards, Nothing, Fields
<1>11. CASE CheckKind(r)
  BY <1>1, <1>11 DEF CheckKind, TypeInv, Moved,
     Goto, At, Hold, Over, GiveUp, WithShards, Nothing, Fields
<1>12. CASE PopulateKind(r)
  BY <1>1, <1>12 DEF PopulateKind, TypeInv, Moved,
     Goto, At, Hold, Over, GiveUp, WithShards, Nothing, Fields
<1>13. CASE SeedKind(r)
  BY <1>1, <1>13 DEF SeedKind, TypeInv, Moved,
     Goto, At, Hold, Over, GiveUp, WithShards, Nothing, Fields
<1>14. CASE CheckSha(r)
  BY <1>1, <1>14 DEF CheckSha, Adds, TypeInv, Moved,
     Goto, At, Hold, Over, GiveUp, WithShards, Nothing, Fields
<1>15. CASE CreateStrategy(r)
  BY <1>1, <1>15 DEF CreateStrategy, Adds, TypeInv, Moved,
     Goto, At, Hold, Over, GiveUp, WithShards, Nothing, Fields
<1>16. CASE Activate(r)
  BY <1>1, <1>16 DEF Activate, TypeInv, Moved,
     Goto, At, Hold, Over, GiveUp, WithShards, Nothing, Fields
<1>17. CASE ActivateByStrategyId(r)
  BY <1>1, <1>17 DEF ActivateByStrategyId, TypeInv, Moved,
     Goto, At, Hold, Over, GiveUp, WithShards, Nothing, Fields
<1>18. CASE CheckUnused(r)
  BY <1>1, <1>18 DEF CheckUnused, TypeInv, Moved,
     Goto, At, Hold, Over, GiveUp, WithShards, Nothing, Fields
<1>19. CASE Deactivate(r)
  BY <1>1, <1>19 DEF Deactivate, TypeInv, Moved,
     Goto, At, Hold, Over, GiveUp, WithShards, Nothing, Fields
<1>20. CASE ReadStrategy(r)
  BY <1>1, <1>20 DEF ReadStrategy, Updates, TypeInv, Moved,
     Goto, At, Hold, Over, GiveUp, WithShards, Nothing, Fields
<1>21. CASE ReadRow(r)
  <2>1. /\ R(r).op \in {"deploy", "step", "change"} /\ pc[r] = "rows"
        /\ \E where : pc' = [pc EXCEPT ![r] = where]
        /\ \/ UNCHANGED held
           \/ \E id, active :
                held' = [held EXCEPT ![r].id = id, ![r].active = active]
    BY <1>21 DEF ReadRow, Updates, GiveUp, Goto
  <2>2. /\ DOMAIN held' = Requests /\ DOMAIN held'[r] = Fields
        /\ \A q \in Requests : q # r => held'[q] = held[q]
    <3>1. CASE UNCHANGED held
      BY <3>1 DEF TypeInv
    <3>2. CASE \E id, active :
                 held' = [held EXCEPT ![r].id = id, ![r].active = active]
      BY <3>2 DEF TypeInv
    <3> QED BY <2>1, <3>1, <3>2
  <2>3. DOMAIN pc' = Requests /\ \A q \in Requests : q # r => pc'[q] = pc[q]
    BY <2>1 DEF TypeInv
  <2> QED BY <1>1, <2>1, <2>2, <2>3 DEF Moved, Over
<1>22. CASE CheckWhiteList(r)
  BY <1>1, <1>22 DEF CheckWhiteList, Updates, TypeInv, Moved,
     Goto, At, Hold, Over, GiveUp, WithShards, Nothing, Fields
<1>23. CASE CheckUnique(r)
  BY <1>1, <1>23 DEF CheckUnique, Updates, ShardScripts, TypeInv, Moved,
     Goto, At, Hold, Over, GiveUp, WithShards, Nothing, Fields
<1>24. CASE WriteStrategy(r)
  BY <1>1, <1>24 DEF WriteStrategy, Updates, ShardScripts, TypeInv, Moved,
     Goto, At, Hold, Over, GiveUp, WithShards, Nothing, Fields
<1>25. CASE PopulateShardNames(r)
  BY <1>1, <1>25 DEF PopulateShardNames, TypeInv, Moved,
     Goto, At, Hold, Over, GiveUp, WithShards, Nothing, Fields
<1>26. CASE CreateShard(r)
  BY <1>1, <1>26 DEF CreateShard, TypeInv, Moved,
     Goto, At, Hold, Over, GiveUp, WithShards, Nothing, Fields
<1>27. CASE NextTask(r)
  BY <1>1, <1>27 DEF NextTask, TypeInv, Moved,
     Goto, At, Hold, Over, GiveUp, WithShards, Nothing, Fields
<1>28. CASE BeginStep(r)
  BY <1>1, <1>28 DEF BeginStep, TypeInv, Moved,
     Goto, At, Hold, Over, GiveUp, WithShards, Nothing, Fields
<1>29. CASE ReadHash(r)
  BY <1>1, <1>29 DEF ReadHash, TypeInv, Moved,
     Goto, At, Hold, Over, GiveUp, WithShards, Nothing, Fields
<1>30. CASE Perform(r)
  BY <1>1, <1>30 DEF Perform, TypeInv, Moved,
     Goto, At, Hold, Over, GiveUp, WithShards, Nothing, Fields
<1>31. CASE PerformFails(r)
  BY <1>1, <1>31 DEF PerformFails, TypeInv, Moved,
     Goto, At, Hold, Over, GiveUp, WithShards, Nothing, Fields
<1>32. CASE Mark(r)
  BY <1>1, <1>32 DEF Mark, TypeInv, Moved,
     Goto, At, Hold, Over, GiveUp, WithShards, Nothing, Fields
<1>33. CASE Crash(r)
  BY <1>1, <1>33 DEF Crash, TypeInv, Moved,
     Goto, At, Hold, Over, GiveUp, WithShards, Nothing, Fields
<1>34. CASE RunAgain(r)
  BY <1>1, <1>34 DEF RunAgain, TypeInv, Moved,
     Goto, At, Hold, Over, GiveUp, WithShards, Nothing, Fields
<1> QED
  BY <1>2, <1>3, <1>4, <1>5, <1>6, <1>7, <1>8, <1>9, <1>10, <1>11, <1>12,
     <1>13, <1>14, <1>15, <1>16, <1>17, <1>18, <1>19, <1>20, <1>21, <1>22,
     <1>23, <1>24, <1>25, <1>26, <1>27, <1>28, <1>29, <1>30, <1>31, <1>32,
     <1>33, <1>34
  DEF Acting, Reading, Adding, Switching, Changing, Deploying

(* Every step is one of a request, or of what happens by itself.           *)
LEMMA Acts ==
  ASSUME Next
  PROVE  (\E r \in Requests : Acting(r)) \/ Elsewhere
BY DEF Next, Acting, Reading, Adding, Switching, Changing, Deploying,
   Elsewhere

(* So at most one request moves, and it is one the case has.               *)
LEMMA Steps ==
  ASSUME TypeInv, Next
  PROVE  \/ UNCHANGED <<pc, held>> /\ Elsewhere
         \/ \E r \in DOMAIN case.requests : Moved(r) /\ Acting(r)
<1>1. \A r \in Requests : Acting(r) => Moved(r)
  BY ActsMove
<1>2. Elsewhere => UNCHANGED <<pc, held>>
  BY DEF Elsewhere, Lands, MemoryExpires, LinksExpire
<1> QED
  BY <1>1, <1>2, Acts DEF Moved

(* The request tells which step it is.                                     *)
LEMMA Ops ==
  ASSUME NEW r \in Requests
  PROVE  /\ Reading(r) => R(r).op \in Readers
         /\ Adding(r) => R(r).op \in Adds
         /\ Switching(r) => R(r).op \notin Readers \cup Adds \cup Writes
         /\ Changing(r) => R(r).op \in Writes
         /\ Deploying(r) => R(r).op \in {"deploy", "step"}
BY DEF Reading, Adding, Switching, Changing, Deploying, At, WithShards,
   Readers, Adds, Writes, Updates, ShardScripts,
   AskLinks, ReadLinks, ServeStrategies, ServeKind, ReadKinds, ChooseGroup,
   ChooseStrategy, InsertLinks, Associate, CheckKind, PopulateKind,
   SeedKind, CheckSha, CreateStrategy, Activate, ActivateByStrategyId,
   CheckUnused, Deactivate, ReadStrategy, ReadRow, CheckWhiteList,
   CheckUnique, WriteStrategy, PopulateShardNames, CreateShard, NextTask,
   BeginStep, ReadHash, Perform, PerformFails, Mark, Crash, RunAgain

(* Every variable keeps its domain.                                        *)
Domains ==
  /\ case' = case
  /\ DOMAIN local' = Requests /\ \A p \in Requests : DOMAIN local'[p] = Ids
  /\ DOMAIN assoc' = Clients /\ DOMAIN pending' = Requests
  /\ DOMAIN tasks' = DOMAIN case.tasks

(* No step changes the case, or what the tables and memories range over.   *)
LEMMA DomainsKept ==
  ASSUME TypeInv, Next
  PROVE  Domains
<1>1. ASSUME NEW r \in Requests, AskLinks(r) PROVE Domains
  BY <1>1 DEF AskLinks, TypeInv, Domains, db
<1>2. ASSUME NEW r \in Requests, ReadLinks(r) PROVE Domains
  BY <1>2 DEF ReadLinks, Later, TypeInv, Domains, db
<1>3. ASSUME NEW r \in Requests, ServeStrategies(r) PROVE Domains
  BY <1>3 DEF ServeStrategies, Remember, TypeInv, Domains, db
<1>4. ASSUME NEW r \in Requests, ServeKind(r) PROVE Domains
  BY <1>4 DEF ServeKind, Remember, TypeInv, Domains, db
<1>5. ASSUME NEW r \in Requests, ReadKinds(r) PROVE Domains
  BY <1>5 DEF ReadKinds, Remember, TypeInv, Domains, db
<1>6. ASSUME NEW r \in Requests, ChooseGroup(r) PROVE Domains
  BY <1>6 DEF ChooseGroup, TypeInv, Domains, db
<1>7. ASSUME NEW r \in Requests, ChooseStrategy(r) PROVE Domains
  BY <1>7 DEF ChooseStrategy, TypeInv, Domains, db
<1>8. ASSUME NEW r \in Requests, InsertLinks(r) PROVE Domains
  BY <1>8 DEF InsertLinks, Later, TypeInv, Domains, db
<1>9. ASSUME NEW r \in Requests, Associate(r) PROVE Domains
  BY <1>9 DEF Associate, TypeInv, Domains, db
<1>10. ASSUME NEW r \in Requests, CheckKind(r) PROVE Domains
  BY <1>10 DEF CheckKind, TypeInv, Domains, db
<1>11. ASSUME NEW r \in Requests, PopulateKind(r) PROVE Domains
  BY <1>11 DEF PopulateKind, Remember, TypeInv, Domains, db
<1>12. ASSUME NEW r \in Requests, SeedKind(r) PROVE Domains
  BY <1>12 DEF SeedKind, TypeInv, Domains, db
<1>13. ASSUME NEW r \in Requests, CheckSha(r) PROVE Domains
  BY <1>13 DEF CheckSha, TypeInv, Domains, db
<1>14. ASSUME NEW r \in Requests, CreateStrategy(r) PROVE Domains
  BY <1>14 DEF CreateStrategy, Adds, TypeInv, Domains, db
<1>15. ASSUME NEW r \in Requests, Activate(r) PROVE Domains
  BY <1>15 DEF Activate, TypeInv, Domains, db
<1>16. ASSUME NEW r \in Requests, ActivateByStrategyId(r) PROVE Domains
  BY <1>16 DEF ActivateByStrategyId, TypeInv, Domains, db
<1>17. ASSUME NEW r \in Requests, CheckUnused(r) PROVE Domains
  BY <1>17 DEF CheckUnused, TypeInv, Domains, db
<1>18. ASSUME NEW r \in Requests, Deactivate(r) PROVE Domains
  BY <1>18 DEF Deactivate, TypeInv, Domains, db
<1>19. ASSUME NEW r \in Requests, ReadStrategy(r) PROVE Domains
  BY <1>19 DEF ReadStrategy, Remember, TypeInv, Domains, db
<1>20. ASSUME NEW r \in Requests, ReadRow(r) PROVE Domains
  BY <1>20 DEF ReadRow, TypeInv, Domains, db
<1>21. ASSUME NEW r \in Requests, CheckWhiteList(r) PROVE Domains
  BY <1>21 DEF CheckWhiteList, Remember, TypeInv, Domains, db
<1>22. ASSUME NEW r \in Requests, CheckUnique(r) PROVE Domains
  BY <1>22 DEF CheckUnique, TypeInv, Domains, db
<1>23. ASSUME NEW r \in Requests, WriteStrategy(r) PROVE Domains
  BY <1>23 DEF WriteStrategy, Forget, TypeInv, Domains, db
<1>24. ASSUME NEW r \in Requests, PopulateShardNames(r) PROVE Domains
  BY <1>24 DEF PopulateShardNames, WithShards, Remember, TypeInv, Domains, db
<1>25. ASSUME NEW r \in Requests, CreateShard(r) PROVE Domains
  BY <1>25 DEF CreateShard, WithShards, Remember, TypeInv, Domains, db
<1>26. ASSUME NEW r \in Requests, NextTask(r) PROVE Domains
  BY <1>26 DEF NextTask, TypeInv, Domains, db
<1>27. ASSUME NEW r \in Requests, BeginStep(r) PROVE Domains
  BY <1>27 DEF BeginStep, TypeInv, Domains, db
<1>28. ASSUME NEW r \in Requests, ReadHash(r) PROVE Domains
  BY <1>28 DEF ReadHash, Remember, TypeInv, Domains, db
<1>29. ASSUME NEW r \in Requests, Perform(r) PROVE Domains
  BY <1>29 DEF Perform, TypeInv, Domains, db
<1>30. ASSUME NEW r \in Requests, PerformFails(r) PROVE Domains
  BY <1>30 DEF PerformFails, TypeInv, Domains, db
<1>31. ASSUME NEW r \in Requests, Mark(r) PROVE Domains
  BY <1>31 DEF Mark, TypeInv, Domains, db
<1>32. ASSUME NEW r \in Requests, Crash(r) PROVE Domains
  BY <1>32 DEF Crash, TypeInv, Domains, db
<1>33. ASSUME NEW r \in Requests, RunAgain(r) PROVE Domains
  BY <1>33 DEF RunAgain, TypeInv, Domains, db
<1>34. ASSUME NEW r \in Requests, Lands(r) PROVE Domains
  BY <1>34 DEF Lands, TypeInv, Domains, db
<1>35. ASSUME NEW p \in Requests, NEW i \in Ids, MemoryExpires(p, i) PROVE Domains
  BY <1>35 DEF MemoryExpires, TypeInv, Domains, db
<1>36. ASSUME NEW c \in Clients, LinksExpire(c) PROVE Domains
  BY <1>36 DEF LinksExpire, TypeInv, Domains, db
<1> QED
  BY <1>1, <1>2, <1>3, <1>4, <1>5, <1>6, <1>7, <1>8, <1>9, <1>10, <1>11,
     <1>12, <1>13, <1>14, <1>15, <1>16, <1>17, <1>18, <1>19, <1>20, <1>21,
     <1>22, <1>23, <1>24, <1>25, <1>26, <1>27, <1>28, <1>29, <1>30, <1>31,
     <1>32, <1>33, <1>34, <1>35, <1>36
  DEF Next

(* Hence the types are kept,                                               *)
LEMMA TypeNext ==
  ASSUME TypeInv, Next
  PROVE  TypeInv'
<1>1. Domains
  BY DomainsKept
<1>2. CASE UNCHANGED <<pc, held>>
  BY <1>1, <1>2 DEF TypeInv, Domains
<1>3. ASSUME NEW r \in DOMAIN case.requests, Moved(r) PROVE TypeInv'
  BY <1>1, <1>3 DEF TypeInv, Domains, Moved
<1> QED
  BY <1>2, <1>3, Steps

(* Who has ended stays ended, so a turn that has come stays.               *)
LEMMA TurnsStay ==
  ASSUME TypeInv, Next
  PROVE  /\ \A q \in Requests : Ended(q) => Ended(q)'
         /\ \A q \in DOMAIN case.requests : MayStart(q) => MayStart(q)'
<1>1. \A q \in Requests : Ended(q) => Ended(q)'
  <2>1. CASE UNCHANGED <<pc, held>>
    BY <2>1 DEF Ended, Over
  <2>2. ASSUME NEW r \in DOMAIN case.requests, Moved(r)
        PROVE  \A q \in Requests : Ended(q) => Ended(q)'
    BY <2>2 DEF Ended, Moved
  <2> QED BY <2>1, <2>2, Steps
<1>2. ASSUME NEW q \in DOMAIN case.requests, MayStart(q) PROVE MayStart(q)'
  <2>1. case' = case
    BY DomainsKept DEF Domains
  <2>2. R(q).after \in Requests \cup {Null}
    BY RequestFits DEF TypeInv
  <2>3. R(q)' = R(q)
    BY <2>1 DEF R
  <2> QED BY <1>1, <1>2, <2>2, <2>3 DEF MayStart
<1> QED
  BY <1>1, <1>2

(* and requests begin in their turn.                                       *)
LEMMA TurnsNext ==
  ASSUME TypeInv, TurnsInv, Next
  PROVE  TurnsInv'
<1>1. case' = case
  BY DomainsKept DEF Domains
<1>2. \A q \in DOMAIN case.requests : q \in Requests
  BY RequestFits DEF TypeInv
<1>3. CASE UNCHANGED <<pc, held>>
  BY <1>1, <1>3, TurnsStay DEF TurnsInv
<1>4. ASSUME NEW r \in DOMAIN case.requests, Moved(r) PROVE TurnsInv'
  BY <1>1, <1>2, <1>4, TurnsStay DEF TurnsInv, Moved
<1> QED
  BY <1>3, <1>4, Steps

(* Who has its turn finds those ended that it follows.                     *)
LEMMA FirstEnded ==
  ASSUME TypeInv, TurnsInv, NEW r \in DOMAIN case.requests,
         NEW first \in Requests, first # r, MayStart(r),
         Follows(case, r, first)
  PROVE  Ended(first)
<1> DEFINE S == {r} \cup {q \in Requests : Ended(q)}
<1>1. r \in Requests /\ S \in SUBSET Requests
  BY RequestFits DEF TypeInv
<1>2. ASSUME NEW q \in S \cap DOMAIN case.requests,
             case.requests[q].after # Null
      PROVE  case.requests[q].after \in S
  <2>1. /\ case.requests[q] = R(q) /\ R(q).after \in Requests \cup {Null}
    BY RequestFits DEF TypeInv
  <2>2. MayStart(q)
    BY DEF Ended, Over, TurnsInv
  <2> QED BY <1>2, <2>1, <2>2 DEF MayStart
<1> QED
  BY <1>1, <1>2 DEF Follows

(***************************************************************************)
(* Rows.                                                                   *)
(***************************************************************************)
ScriptsInv == BaseInv /\ LinksInv /\ MemoryInv /\ FreshInv /\ WritesInv

(* Rows are changed where they are.                                        *)
Same(s, t) == t.id = s.id /\ t.kind = s.kind /\ t.group = s.group
Changes(f) ==
  /\ f \in [strategies -> RowType] /\ strategies' = {f[s] : s \in strategies}
  /\ \A s \in strategies : Same(s, f[s])

(* A switch of rows changes whether they are active, and nothing else.     *)
LEMMA RowsActivated ==
  ASSUME RowsInv, NEW rows, NEW active \in BOOLEAN, SetActive(rows, active)
  PROVE  \E f : /\ Changes(f)
                /\ \A s \in strategies :
                     /\ f[s].params = s.params
                     /\ f[s].active = IF s \in rows THEN active ELSE s.active
<1> DEFINE f == [s \in strategies |->
                   IF s \in rows THEN [s EXCEPT !.active = active] ELSE s]
<1>1. ASSUME NEW s \in strategies
      PROVE  /\ f[s] \in RowType /\ Same(s, f[s]) /\ f[s].params = s.params
             /\ f[s].active = IF s \in rows THEN active ELSE s.active
  <2>1. s \in RowType
    BY DEF RowsInv
  <2> QED BY <2>1 DEF RowType, Same
<1>2. strategies' = {f[s] : s \in strategies}
  BY DEF SetActive
<1> HIDE DEF f
<1>3. f \in [strategies -> RowType]
  <2> f = [s \in strategies |-> f[s]]
    BY DEF f
  <2> QED BY <1>1
<1> QED
  BY <1>1, <1>2, <1>3 DEF Changes

(* A row that is written stays where it was, and the others as they were.  *)
LEMMA RowWritten ==
  ASSUME RowsInv, WritesInv, NEW r \in With(case, Writes),
         pc[r] = "write", Written(r)
  PROVE  \E f : /\ Changes(f)
                /\ \A s \in strategies :
                     /\ f[s].active = s.active
                     /\ IF s.id = held[r].id
                          THEN /\ IsAt(s, Place(case, r))
                               /\ f[s].params.addr = s.params.addr \cup Gain(r)
                          ELSE f[s] = s
<1> DEFINE f == [s \in strategies |->
                   IF s.id # held[r].id THEN s
                   ELSE [s EXCEPT !.params = held[r].params]]
<1>1. PICK row \in strategies : row.id = held[r].id /\ Sees(r, row)
  BY DEF WritesInv
<1>2. ASSUME NEW s \in strategies
      PROVE  /\ f[s] \in RowType /\ Same(s, f[s]) /\ f[s].active = s.active
             /\ IF s.id = held[r].id
                  THEN /\ IsAt(s, Place(case, r))
                       /\ f[s].params.addr = s.params.addr \cup Gain(r)
                  ELSE f[s] = s
  <2>1. s \in RowType
    BY DEF RowsInv
  <2>2. s.id = held[r].id => s = row
    BY <1>1 DEF RowsInv
  <2>3. CASE s.id = held[r].id
    <3>1. f[s] = [s EXCEPT !.params = held[r].params]
      BY <2>3
    <3>2. f[s].params = held[r].params /\ f[s] \in RowType /\ Same(s, f[s])
          /\ f[s].active = s.active
      BY <1>1, <2>1, <3>1 DEF Sees, RowType, Same
    <3> HIDE DEF f
    <3> QED BY <1>1, <2>2, <2>3, <3>2 DEF Sees
  <2>4. CASE s.id # held[r].id
    BY <2>1, <2>4 DEF Same
  <2> QED BY <2>3, <2>4
<1>3. strategies' = {f[s] : s \in strategies}
  BY DEF Written
<1> HIDE DEF f
<1>4. f \in [strategies -> RowType]
  <2> f = [s \in strategies |-> f[s]]
    BY DEF f
  <2> QED BY <1>2
<1> QED
  BY <1>2, <1>3, <1>4 DEF Changes

(* No row goes, and none loses an address; only a write adds some.         *)
Keeps(f) == Changes(f) /\ \A s \in strategies : f[s].params.addr = s.params.addr
Extends(f, r) ==
  /\ Changes(f)
  /\ \A s \in strategies :
       IF s.id = held[r].id
         THEN /\ IsAt(s, Place(case, r))
              /\ f[s].params.addr = s.params.addr \cup Gain(r)
         ELSE f[s] = s

(* What a step may do to the rows: keep the addresses of all, write one,   *)
(* add one.                                                                *)
LEMMA RowShapes ==
  ASSUME ScriptsInv, Next
  PROVE  \/ \E f : Keeps(f)
         \/ \E r \in With(case, Writes) :
              WriteStrategy(r) /\ \E f : Extends(f, r)
         \/ \E r \in With(case, Adds) : CreateStrategy(r)
<1> DEFINE Kept == \E f : Keeps(f)
<1> USE DEF ScriptsInv, BaseInv
<1>1. ASSUME UNCHANGED strategies PROVE Kept
  <2> DEFINE f == [s \in strategies |-> s]
  <2>1. Changes(f)
    BY <1>1 DEF Changes, Same, RowsInv
  <2> QED BY <2>1 DEF Keeps
<1>2. ASSUME NEW rows, NEW active \in BOOLEAN, SetActive(rows, active)
      PROVE  Kept
  BY <1>2, RowsActivated DEF Keeps
<1>3. ASSUME NEW r \in Requests, WriteStrategy(r)
      PROVE  r \in With(case, Writes) /\ \E f : Extends(f, r)
  <2>1. r \in With(case, Writes) /\ pc[r] = "write" /\ Written(r)
    BY <1>3 DEF WriteStrategy, Writes, Updates, ShardScripts, With, R
  <2> QED BY <2>1, RowWritten DEF Extends
<1> HIDE DEF Kept
<1>4. ASSUME NEW r \in Requests, CreateStrategy(r)
      PROVE  r \in With(case, Adds)
  BY <1>4 DEF CreateStrategy, Adds, With, R
<1>5. ASSUME NEW r \in Requests, Reading(r) PROVE Kept
  BY <1>1, <1>5
  DEF Reading, db, AskLinks, ReadLinks, ServeStrategies, ServeKind,
      ReadKinds, ChooseGroup, ChooseStrategy, InsertLinks
<1>6. ASSUME NEW r \in Requests, Adding(r), ~CreateStrategy(r) PROVE Kept
  BY <1>1, <1>6 DEF Adding, db, CheckKind, PopulateKind, SeedKind, CheckSha
<1>7. ASSUME NEW r \in Requests, Switching(r) PROVE Kept
  BY <1>1, <1>2, <1>7
  DEF Switching, db, Associate, Activate, ActivateByStrategyId,
      CheckUnused, Deactivate
<1>8. ASSUME NEW r \in Requests, Changing(r), ~WriteStrategy(r) PROVE Kept
  BY <1>1, <1>8 DEF Changing, db, ReadStrategy, ReadRow,
     CheckWhiteList, CheckUnique, PopulateShardNames, CreateShard, WithShards
<1>9. ASSUME NEW r \in Requests, Deploying(r) PROVE Kept
  BY <1>1, <1>9
  DEF Deploying, db, NextTask, BeginStep, ReadHash, Perform,
      PerformFails, Mark, Crash, RunAgain
<1>10. ASSUME Elsewhere PROVE Kept
  BY <1>1, <1>10 DEF Elsewhere, db, Lands, MemoryExpires, LinksExpire
<1> QED
  BY <1>3, <1>4, <1>5, <1>6, <1>7, <1>8, <1>9, <1>10, Acts
  DEF Acting, Adding, Kept

(* Rows that keep their id, kind and group stay well formed.               *)
LEMMA RowsFollow ==
  ASSUME RowsInv, case' = case, NEW f, Changes(f)
  PROVE  RowsInv'
<1>1. \A s \in strategies : f[s] \in RowType /\ Same(s, f[s])
  BY DEF Changes
<1>2. strategies' = {f[s] : s \in strategies}
  BY DEF Changes
<1>3. IsFiniteSet(strategies')
  <2>1. f \in Surjection(strategies, strategies')
    BY <1>2 DEF Changes, Surjection
  <2> QED BY <2>1, FS_Surjection DEF RowsInv
<1>4. strategies' \subseteq RowType
  BY <1>1, <1>2
<1>5. ASSUME NEW s \in strategies', NEW t \in strategies'
      PROVE  /\ s.id = t.id => s = t
             /\ Grouped(s.kind) <=> s.group # Null
             /\ s.kind = t.kind /\ s.group = t.group => s = t
  <2>1. PICK x \in strategies : s = f[x]
    BY <1>2
  <2>2. PICK y \in strategies : t = f[y]
    BY <1>2
  <2> QED BY <1>1, <2>1, <2>2 DEF RowsInv, Same
<1>6. ASSUME NEW s \in case.strategies
      PROVE  \E t \in strategies' :
               t.id = s.id /\ t.kind = s.kind /\ t.group = s.group
  <2>1. PICK x \in strategies :
          x.id = s.id /\ x.kind = s.kind /\ x.group = s.group
    BY DEF RowsInv
  <2> QED BY <1>1, <1>2, <2>1 DEF Same
<1> QED
  BY <1>3, <1>4, <1>5, <1>6 DEF RowsInv

(* Where a request adds a row is a place of the table.                     *)
LEMMA PlaceOfAdd ==
  ASSUME TypeInv, NEW r \in With(case, Adds)
  PROVE  /\ r \in Requests /\ R(r).op \in Adds
         /\ R(r).kind \in Range(Kinds) /\ R(r).group \in Nat
         /\ R(r).params \in ParamType
         /\ Place(case, r) = <<R(r).kind, GroupIn(R(r).kind, R(r).group)>>
<1>1. r \in DOMAIN case.requests /\ case.requests[r].op \in Adds
  BY DEF With
<1>2. R(r) = case.requests[r] /\ r \in Requests
  BY <1>1, RequestFits DEF TypeInv
<1>3. R(r).op \notin ShardScripts
  BY <1>1, <1>2 DEF Adds, ShardScripts
<1> QED
  BY <1>1, <1>2, <1>3, CaseFits DEF TypeInv, WellFormed, Place

(* A new row has an id and a place of its own.                             *)
LEMMA RowCreated ==
  ASSUME TypeInv, RowsInv, AddInv, NEW r \in With(case, Adds),
         CreateStrategy(r)
  PROVE  \E t \in RowType :
           /\ strategies' = strategies \cup {t}
           /\ IsAt(t, Place(case, r)) /\ ~t.active
           /\ \A s \in strategies : s.id < t.id /\ ~IsAt(s, Place(case, r))
           /\ Grouped(t.kind) <=> t.group # Null
<1>1. PICK id \in UnusedIds :
        strategies' = strategies \cup
            {[id |-> id, kind |-> R(r).kind,
              group |-> GroupIn(R(r).kind, R(r).group),
              active |-> FALSE, params |-> R(r).params]}
  BY DEF CreateStrategy
<1> DEFINE t == [id |-> id, kind |-> R(r).kind,
                 group |-> GroupIn(R(r).kind, R(r).group),
                 active |-> FALSE, params |-> R(r).params]
<1>2. /\ t.id = id /\ t.kind = R(r).kind
      /\ t.group = GroupIn(R(r).kind, R(r).group) /\ t.active = FALSE
  OBVIOUS
<1>3. t \in RowType
  BY PlaceOfAdd DEF RowType, GroupIn, UnusedIds, Null
<1>4. strategies' = strategies \cup {t}
  BY <1>1
<1> HIDE DEF t
<1>5. IsAt(t, Place(case, r))
  BY <1>2, PlaceOfAdd DEF IsAt
<1>6. \A s \in strategies : s.id < t.id /\ ~IsAt(s, Place(case, r))
  BY <1>2 DEF UnusedIds, AddInv, CreateStrategy
<1>7. pc[r] = "create" /\ (Grouped(R(r).kind) => R(r).group # Null)
  BY DEF AddInv, CreateStrategy
<1>8. Grouped(t.kind) <=> t.group # Null
  BY <1>2, <1>7 DEF GroupIn
<1> QED
  BY <1>2, <1>3, <1>4, <1>5, <1>6, <1>8

(* The rows stay well formed.                                              *)
LEMMA RowsNext ==
  ASSUME ScriptsInv, Next
  PROVE  RowsInv'
<1> USE DEF ScriptsInv, BaseInv
<1>1. case' = case
  BY DomainsKept DEF Domains
<1>2. ASSUME NEW f, Changes(f) PROVE RowsInv'
  BY <1>1, <1>2, RowsFollow
<1>3. ASSUME NEW r \in With(case, Adds), CreateStrategy(r) PROVE RowsInv'
  <2>1. PICK t \in RowType :
           /\ strategies' = strategies \cup {t}
           /\ IsAt(t, Place(case, r)) /\ ~t.active
           /\ \A s \in strategies : s.id < t.id /\ ~IsAt(s, Place(case, r))
           /\ Grouped(t.kind) <=> t.group # Null
    BY <1>3, RowCreated
  <2>2. IsFiniteSet(strategies')
    BY <2>1, FS_AddElement DEF RowsInv
  <2>3. \A s \in strategies : s.id \in Nat /\ s.id # t.id
    <3>1. t.id \in Ids /\ \A s \in strategies : s.id \in Ids
      BY DEF RowsInv, RowType
    <3>2. \A s \in strategies : s.id < t.id
      BY <2>1
    <3>3. \A i, j \in Nat : i < j => i # j
      OBVIOUS
    <3> QED BY <3>1, <3>2, <3>3, NumberedIds, Zenon
  <2>4. \A s \in strategies : <<s.kind, s.group>> # <<t.kind, t.group>>
    BY <2>1 DEF IsAt
  <2> QED BY <1>1, <2>1, <2>2, <2>3, <2>4 DEF RowsInv
<1> QED
  BY <1>2, <1>3, RowShapes DEF Keeps, Extends

(* What a script waits to add nobody adds before.                          *)
LEMMA AddNext ==
  ASSUME ScriptsInv, Next
  PROVE  AddInv'
<1> USE DEF ScriptsInv, BaseInv
<1>1. case' = case
  BY DomainsKept DEF Domains
<1> DEFINE None(r) == \A s \in strategies : ~IsAt(s, Place(case, r))
           About(r) == \/ pc[r] \in {"sha", "create"}
                       \/ R(r).op = "seed" /\ pc[r] = "start"
<1>2. ASSUME NEW r \in With(case, Adds)
      PROVE  /\ None(r) => None(r)' \/ CreateStrategy(r)
  <2>1. ASSUME NEW f, Changes(f), None(r) PROVE None(r)'
    BY <1>1, <2>1 DEF Changes, Same, IsAt, Place
  <2>2. ASSUME NEW q \in With(case, Adds), q # r, CreateStrategy(q), None(r)
        PROVE  None(r)'
    <3>1. PICK t : /\ strategies' = strategies \cup {t}
                   /\ IsAt(t, Place(case, q))
      BY <2>2, RowCreated
    <3>2. Place(case, q) # Place(case, r)
      BY <2>2, CaseFits DEF TypeInv, OneRowEach, With
    <3> QED BY <1>1, <2>2, <3>1, <3>2 DEF IsAt, Place
  <2> QED BY <2>1, <2>2, RowShapes DEF Keeps, Extends
<1>3. ASSUME NEW r \in With(case, Adds)
      PROVE  /\ About(r)' => \/ About(r) /\ ~CreateStrategy(r)
                             \/ None(r) /\ strategies' = strategies
             /\ pc'[r] \in {"sha", "create"} /\ pc[r] \notin {"sha", "create"}
                  /\ Grouped(R(r).kind) => R(r).group # Null
  <2>1. r \in Requests /\ R(r).op \in Adds /\ R(r)' = R(r)
    BY <1>1, PlaceOfAdd DEF R
  <2>5. About(r)' <=> \/ pc'[r] \in {"sha", "create"}
                      \/ R(r).op = "seed" /\ pc'[r] = "start"
    BY <2>1
  <2>6. CreateStrategy(r) => pc[r] = "create" /\ pc'[r] = "done"
    BY <2>1 DEF CreateStrategy, Goto, TypeInv
  <2> HIDE DEF None
  <2>2. CASE pc'[r] = pc[r]
    <3> HIDE DEF ScriptsInv, BaseInv
    <3> QED BY <2>2, <2>5, <2>6
  <2>3. CASE Adding(r)
    <3>1. R(r) = case.requests[r] /\ r \in DOMAIN case.requests
      BY RequestFits DEF With, TypeInv
    <3>2. R(r).op \notin {"add"} /\ Grouped(R(r).kind) => R(r).group # Null
      BY <3>1, CaseFits DEF TypeInv, OneRowEach
    <3>3. RowsOf(R(r).kind, R(r).group) = {} => None(r)
      BY PlaceOfAdd DEF RowsOf, IsAt, None
    <3>4. CASE CheckKind(r)
      BY <2>1, <2>5, <3>3, <3>4 DEF CheckKind, At, Goto, TypeInv, FitsGroup, db
    <3>5. CASE PopulateKind(r)
      BY <2>1, <2>5, <3>2, <3>3, <3>5 DEF PopulateKind, At, Goto, TypeInv, db
    <3>6. CASE SeedKind(r)
      BY <2>1, <2>5, <2>6, <3>2, <3>6 DEF SeedKind, At, Goto, TypeInv
    <3>7. CASE CheckSha(r)
      BY <2>1, <2>5, <2>6, <3>7 DEF CheckSha, Goto, TypeInv
    <3>8. CASE CreateStrategy(r)
      BY <2>5, <2>6, <3>8
    <3> QED BY <2>3, <3>4, <3>5, <3>6, <3>7, <3>8 DEF Adding
  <2>4. CASE ~Adding(r)
    <3>1. \A q \in DOMAIN case.requests : Moved(q) /\ Acting(q) => q # r
      BY <2>1, <2>4, Ops, RequestFits
         DEF Acting, Adds, Readers, Writes, Updates, ShardScripts, TypeInv
    <3>2. pc'[r] = pc[r]
      BY <2>1, <3>1, Steps DEF Moved
    <3> QED BY <2>2, <3>2
  <2> QED BY <2>3, <2>4
<1>4. ASSUME NEW r \in With(case, Adds) PROVE About(r) => None(r)
  BY DEF AddInv
<1>5. ASSUME NEW r \in With(case, Adds)
      PROVE  /\ About(r)' => None(r)'
             /\ pc'[r] \in {"sha", "create"} /\ Grouped(R(r).kind)
                  => R(r).group # Null
  <2>1. strategies' = strategies => (None(r) => None(r)')
    BY <1>1 DEF IsAt, Place
  <2> QED BY <1>2, <1>3, <1>4, <2>1 DEF AddInv
<1>6. With(case, Adds)' = With(case, Adds)
  BY <1>1 DEF With
<1>7. \A r : R(r)' = R(r)
  BY <1>1 DEF R
<1> QED
  BY <1>1, <1>5, <1>6, <1>7 DEF AddInv

(***************************************************************************)
(* Choosing from a list in ascending order.                                *)
(***************************************************************************)
(* Every number below the size of a set is the rank of a member: ranks     *)
(* differ, and there are as many of them as members.                       *)
Rank(S, x) == Cardinality({y \in S : y < x})
LEMMA Ranks ==
  ASSUME NEW S, S \subseteq Nat, IsFiniteSet(S)
  PROVE  /\ Cardinality(S) \in Nat
         /\ \A k \in 0..(Cardinality(S) - 1) : \E x \in S : Rank(S, x) = k
<1> DEFINE n == Cardinality(S)
           f == [x \in S |-> Rank(S, x)]
<1>1. n \in Nat
  BY FS_CardinalityType
<1>2. ASSUME NEW x \in S PROVE Rank(S, x) \in 0..(n - 1)
  <2> DEFINE X == {y \in S : y < x}
  <2>1. X \in SUBSET S /\ X # S
    BY <1>2
  <2>2. IsFiniteSet(X) /\ Cardinality(X) <= n /\ Cardinality(X) # n
    <3> HIDE DEF X
    <3> QED BY <2>1, FS_Subset
  <2>3. Cardinality(X) \in Nat
    BY <2>2, FS_CardinalityType
  <2>4. Rank(S, x) = Cardinality(X)
    BY DEF Rank
  <2> HIDE DEF X, n
  <2> QED BY <1>1, <2>2, <2>3, <2>4
<1>3. ASSUME NEW x \in S, NEW y \in S, x < y PROVE Rank(S, x) < Rank(S, y)
  <2> DEFINE X == {z \in S : z < x}
             Y == {z \in S : z < y}
  <2>1. X \in SUBSET Y /\ Y \in SUBSET S /\ X # Y
    <3>1. \A z \in S : z < x => z < y
      BY <1>3
    <3>2. X \in SUBSET Y /\ Y \in SUBSET S
      BY <3>1
    <3>3. x \in Y /\ x \notin X
      BY <1>3
    <3> QED BY <3>2, <3>3
  <2>2. Rank(S, x) = Cardinality(X) /\ Rank(S, y) = Cardinality(Y)
    BY DEF Rank
  <2> HIDE DEF X, Y
  <2>3. IsFiniteSet(Y) /\ IsFiniteSet(X)
    BY <2>1, FS_Subset
  <2>4. Cardinality(X) \in Nat /\ Cardinality(Y) \in Nat
    BY <2>3, FS_CardinalityType
  <2>5. Cardinality(X) <= Cardinality(Y) /\ Cardinality(X) # Cardinality(Y)
    BY <2>1, <2>3, FS_Subset
  <2> QED BY <2>2, <2>4, <2>5
<1>4. f \in Injection(S, 0..(n - 1))
  <2>1. \A x, y \in S : x # y => Rank(S, x) # Rank(S, y)
    <3> SUFFICES ASSUME NEW x \in S, NEW y \in S, x # y
                 PROVE  Rank(S, x) # Rank(S, y)
      OBVIOUS
    <3>1. x < y \/ y < x
      OBVIOUS
    <3>2. Rank(S, x) \in Int /\ Rank(S, y) \in Int
      BY <1>1, <1>2
    <3> QED BY <1>3, <3>1, <3>2
  <2> HIDE DEF n
  <2>2. f \in [S -> 0..(n - 1)]
    BY <1>2
  <2> QED BY <2>1, <2>2 DEF Injection, IsInjective
<1>5. IsFiniteSet(0..(n - 1)) /\ Cardinality(0..(n - 1)) = n
  <2> HIDE DEF n
  <2>1. n - 1 \in Int /\ 0 \in Int
    BY <1>1
  <2> QED BY <1>1, <2>1, FS_Interval
<1>6. f \in Surjection(S, 0..(n - 1))
  <2> HIDE DEF f
  <2> QED BY <1>4, <1>5, FS_Injection
<1> QED
  BY <1>1, <1>6 DEF Surjection

(* The pick from a set, by a number, is one of its members.                *)
LEMMA PickIn ==
  ASSUME NEW S, S \subseteq Nat, IsFiniteSet(S), S # {}, NEW n \in Nat
  PROVE  PickFrom(S, n) \in S
<1>1. Cardinality(S) \in Nat /\ Cardinality(S) # 0
  BY FS_CardinalityType, FS_EmptySet
<1>2. n % Cardinality(S) \in 0..(Cardinality(S) - 1)
  BY <1>1
<1> QED
  BY <1>1, <1>2, Ranks DEF PickFrom, Rank

(* From a set of one member there is but one pick.                         *)
LEMMA PickOnly ==
  ASSUME NEW x \in Nat, NEW n \in Nat
  PROVE  PickFrom({x}, n) = x /\ Greatest({x}) = x
<1>1. PickFrom({x}, n) \in {x}
  BY PickIn, FS_Singleton
<1> QED
  BY <1>1 DEF Greatest

(* The greatest of a finite set is a member.                               *)
LEMMA GreatestIn ==
  ASSUME NEW S, S \subseteq Nat, IsFiniteSet(S), S # {}
  PROVE  Greatest(S) \in S
<1>1. Cardinality(S) \in Nat /\ Cardinality(S) # 0
  BY FS_CardinalityType, FS_EmptySet
<1>2. PICK x \in S : Rank(S, x) = Cardinality(S) - 1
  <2>1. Cardinality(S) - 1 \in 0..(Cardinality(S) - 1)
    BY <1>1
  <2> QED BY <2>1, Ranks
<1> DEFINE T == {y \in S : y < x}
<1>3. T \in SUBSET (S \ {x}) /\ IsFiniteSet(S \ {x})
  <2>1. \A y \in S : y < x => y # x
    OBVIOUS
  <2> QED BY <2>1, FS_RemoveElement
<1>4. Cardinality(S \ {x}) = Cardinality(S) - 1
  BY FS_RemoveElement
<1>5. T = S \ {x}
  <2> HIDE DEF T
  <2> QED BY <1>2, <1>3, <1>4, FS_Subset DEF Rank, T
<1>6. \A y \in S : y <= x
  BY <1>5
<1> QED
  BY <1>6 DEF Greatest

(***************************************************************************)
(* Links.                                                                  *)
(***************************************************************************)
(* The ids of some rows are those of rows that are there.                  *)
LEMMA IdsOfRows ==
  ASSUME RowsInv, NEW rows, rows \subseteq strategies
  PROVE  /\ {s.id : s \in rows} \subseteq Nat
         /\ IsFiniteSet({s.id : s \in rows})
         /\ \A i \in {s.id : s \in rows} : ById(i) \in rows
<1>1. {s.id : s \in rows} \subseteq Ids
  BY DEF RowsInv, RowType
<1>2. \A i \in {s.id : s \in rows} : ById(i) \in rows
  BY ByIdIs
<1> QED
  BY <1>1, <1>2, NumberedIds, FS_Subset

(* What an assignment chooses is there.                                    *)
LEMMA ChosenIsThere ==
  ASSUME TypeInv, RowsInv, NEW r \in DOMAIN case.requests,
         R(r).op = "assign", ~ChosenStrategy(r).refused
  PROVE  LET chosen == ChosenStrategy(r) IN
         /\ chosen.link.client = R(r).client
         /\ \E s \in Candidates(chosen.kind, held[r].group) :
              chosen.link.strategy = s.id
<1> DEFINE c == R(r).client
           kind == CHOOSE k \in held[r].missing :
                     \A l \in held[r].missing : Number(k) <= Number(l)
           rows == Candidates(kind, held[r].group)
           choice == ById(PickFrom({s.id : s \in rows}, c))
           link == IF Refused(kind, rows, choice) THEN Link(c, Null, <<>>)
                   ELSE Link(c, choice.id, IF kind = "dynamo"
                                             THEN ShardsFor(c, choice.params)
                                             ELSE <<>>)
<1>1. /\ ChosenStrategy(r).refused = Refused(kind, rows, choice)
      /\ ChosenStrategy(r).link = link /\ ChosenStrategy(r).kind = kind
  BY DEF ChosenStrategy
<1>2. rows # {} /\ rows \subseteq strategies
  BY <1>1 DEF Refused, Candidates
<1>3. c \in Nat
  <2>1. c \in Clients
    BY RequestFits DEF TypeInv, Readers
  <2> QED BY <2>1, StrategiesAssumption
<1>4. choice \in rows
  <2> HIDE DEF rows
  <2> DEFINE ids == {s.id : s \in rows}
  <2>1. ids \subseteq Nat /\ IsFiniteSet(ids) /\ ids # {}
    BY <1>2, IdsOfRows
  <2>2. PickFrom(ids, c) \in ids
    <3> HIDE DEF ids, c
    <3> QED BY <1>3, <2>1, PickIn
  <2> QED BY <1>2, <2>2, IdsOfRows
<1>5. link.client = c /\ link.strategy = choice.id
  BY <1>1 DEF Link
<1> QED
  BY <1>1, <1>4, <1>5

(* No row goes; it keeps its kind and group, and its addresses.            *)
LEMMA RowsStay ==
  ASSUME ScriptsInv, Next
  PROVE  /\ case' = case
         /\ \A s \in strategies : \E t \in strategies' :
              Same(s, t) /\ s.params.addr \subseteq t.params.addr
<1>1. case' = case
  BY DomainsKept DEF Domains, ScriptsInv, BaseInv
<1>2. ASSUME NEW f, Changes(f),
             \A s \in strategies : s.params.addr \subseteq f[s].params.addr
      PROVE  \A s \in strategies : \E t \in strategies' :
               Same(s, t) /\ s.params.addr \subseteq t.params.addr
  BY <1>2 DEF Changes
<1>3. ASSUME NEW r, CreateStrategy(r)
      PROVE  strategies \subseteq strategies'
  BY <1>3 DEF CreateStrategy
<1>4. ASSUME NEW f, Keeps(f) \/ \E r : Extends(f, r)
      PROVE  /\ Changes(f)
             /\ \A s \in strategies : s.params.addr \subseteq f[s].params.addr
  BY <1>4 DEF Keeps, Extends
<1> QED
  BY <1>1, <1>2, <1>3, <1>4, RowShapes DEF Same

(* An id stands for the same kind and group from one step to the next.     *)
IsThere(i) == \E s \in strategies : s.id = i
LEMMA IdsStay ==
  ASSUME ScriptsInv, Next, NEW i, IsThere(i)
  PROVE  /\ IsThere(i)' /\ ById(i) \in strategies /\ ById(i).id = i
         /\ ById(i)'.kind = ById(i).kind /\ ById(i)'.group = ById(i).group
<1>1. PICK s \in strategies : s.id = i
  BY DEF IsThere
<1>2. ById(i) = s
  BY <1>1, ByIdIs DEF ScriptsInv, BaseInv
<1>3. PICK t \in strategies' : Same(s, t)
  BY <1>1, RowsStay
<1>4. \A u \in strategies' : u.id = t.id => u = t
  BY <1>3, RowsNext DEF RowsInv
<1>5. ById(i)' = t
  BY <1>1, <1>3, <1>4 DEF ById, Same
<1> QED
  BY <1>1, <1>2, <1>3, <1>5 DEF IsThere, Same

(* Where links and what is kept of them change.                            *)
LEMMA LinksFrame ==
  ASSUME Next
  PROVE  \/ UNCHANGED <<links, assoc, pending>>
         \/ \E r \in Requests : \/ ReadLinks(r) \/ InsertLinks(r)
                                \/ Associate(r) \/ Lands(r)
         \/ \E c \in Clients : LinksExpire(c)
<1> DEFINE Kept == UNCHANGED <<links, assoc, pending>>
<1>1. ASSUME NEW r \in Requests, Reading(r), ~ReadLinks(r), ~InsertLinks(r)
      PROVE  Kept
  BY <1>1 DEF Reading, db, AskLinks, ServeStrategies, ServeKind, ReadKinds,
     ChooseGroup, ChooseStrategy
<1>2. ASSUME NEW r \in Requests, Adding(r) PROVE Kept
  BY <1>2 DEF Adding, db, CheckKind, PopulateKind, SeedKind, CheckSha,
     CreateStrategy
<1>3. ASSUME NEW r \in Requests, Switching(r), ~Associate(r) PROVE Kept
  BY <1>3 DEF Switching, db, Activate, ActivateByStrategyId, CheckUnused,
     Deactivate
<1>4. ASSUME NEW r \in Requests, Changing(r) PROVE Kept
  BY <1>4 DEF Changing, db, ReadStrategy, ReadRow, CheckWhiteList,
     CheckUnique, WriteStrategy, PopulateShardNames, CreateShard, WithShards
<1>5. ASSUME NEW r \in Requests, Deploying(r) PROVE Kept
  BY <1>5 DEF Deploying, db, NextTask, BeginStep, ReadHash, Perform,
     PerformFails, Mark, Crash, RunAgain
<1>6. ASSUME NEW p \in Requests, NEW i \in Ids, MemoryExpires(p, i)
      PROVE  Kept
  BY <1>6 DEF MemoryExpires, db
<1> HIDE DEF Kept
<1> QED
  BY <1>1, <1>2, <1>3, <1>4, <1>5, <1>6, Acts DEF Acting, Elsewhere, Kept

(* New links are those an assignment holds, or of the script.              *)
LEMMA LinksGrow ==
  ASSUME ScriptsInv, Next
  PROVE  /\ links \subseteq links'
         /\ \A l \in links' \ links :
              \/ \E r \in DOMAIN case.requests :
                   /\ R(r).op = "assign" /\ pc[r] = "insert"
                   /\ InsertLinks(r) /\ l \in held[r].rows
              \/ \E r \in With(case, {"associate"}) :
                   \E c \in Clients : l = Link(c, case.requests[r].id, <<>>)
<1>1. \A r \in Requests : R(r).op # "none" =>
        r \in DOMAIN case.requests /\ R(r) = case.requests[r]
  BY DEF R
<1>2. ASSUME NEW r \in Requests, InsertLinks(r)
      PROVE  /\ links' = links \cup held[r].rows
             /\ r \in DOMAIN case.requests
             /\ R(r).op = "assign" /\ pc[r] = "insert"
  BY <1>1, <1>2 DEF InsertLinks, At
<1>3. ASSUME NEW r \in Requests, Associate(r)
      PROVE  /\ links' = links \cup {Link(c, R(r).id, <<>>) : c \in Clients}
             /\ r \in With(case, {"associate"}) /\ R(r) = case.requests[r]
  BY <1>1, <1>3 DEF Associate, At, With
<1>4. \/ UNCHANGED links
      \/ \E r \in Requests : InsertLinks(r) \/ Associate(r)
  BY LinksFrame DEF ReadLinks, Lands, LinksExpire, db
<1> QED
  BY <1>2, <1>3, <1>4

(* What a request reads or chooses of links.                               *)
Reads(r) ==
  /\ pc'[r] \notin {"start", "source"} \cup Over =>
       PartOf(held'[r].ids, R(r).client)
  /\ \A l \in held'[r].rows :
       l.client = R(r).client /\ \E s \in strategies : s.id = l.strategy
  /\ pc'[r] \in {"start", "source", "ids", "group"} => held'[r].rows = {}

(* A reader knows links that are there, and all those of the beginning.    *)
LEMMA ReaderReads ==
  ASSUME TypeInv, RowsInv, LinksInv, NEW r \in DOMAIN case.requests,
         Reading(r)
  PROVE  Reads(r)
<1>1. r \in Requests /\ R(r).op \in Readers /\ R(r).client \in Clients
  BY RequestFits, Ops DEF TypeInv
<1>2. DOMAIN pc = Requests /\ DOMAIN held = Requests /\ DOMAIN held[r] = Fields
  BY <1>1 DEF TypeInv
<1>3. /\ pc[r] \notin {"start", "source"} \cup Over =>
           PartOf(held[r].ids, R(r).client)
      /\ \A l \in held[r].rows :
           l.client = R(r).client /\ \E s \in strategies : s.id = l.strategy
      /\ pc[r] \in {"start", "source", "ids", "group"} => held[r].rows = {}
  BY <1>1 DEF LinksInv
<1>4. \A ids \in assoc[R(r).client] : PartOf(ids, R(r).client)
  BY <1>1 DEF LinksInv
<1>5. CASE AskLinks(r)
  <2>1. CASE assoc[R(r).client] # {}
    <3>1. PICK ids \in assoc[R(r).client] :
            held' = [held EXCEPT ![r].ids = ids] /\ pc' = [pc EXCEPT ![r] = "ids"]
      BY <1>5, <2>1 DEF AskLinks, Hold, Goto
    <3>2. held[r].rows = {}
      BY <1>3, <1>5 DEF AskLinks
    <3> QED BY <1>1, <1>2, <1>4, <3>1, <3>2 DEF Reads, Fields
  <2>2. CASE assoc[R(r).client] = {}
    BY <1>1, <1>2, <1>3, <1>5, <2>2 DEF AskLinks, Reads, Goto
  <2> QED BY <2>1, <2>2
<1>6. CASE ReadLinks(r)
  <2>1. PartOf(StrategiesOf(R(r).client), R(r).client)
    BY DEF LinksInv, PartOf, Before, StrategiesOf, LinkedBy
  <2> QED BY <1>1, <1>2, <1>3, <1>6, <2>1
      DEF ReadLinks, Reads, Goto, Hold, Fields
<1>7. CASE ServeStrategies(r)
  BY <1>1, <1>2, <1>3, <1>7 DEF ServeStrategies, Reads, Goto, Over, At
<1>8. CASE ServeKind(r)
  BY <1>1, <1>2, <1>3, <1>8 DEF ServeKind, Reads, Goto, Over, At
<1>9. CASE ReadKinds(r)
  BY <1>1, <1>2, <1>3, <1>9
  DEF ReadKinds, Reads, Goto, Hold, Over, At, Fields
<1>10. CASE ChooseGroup(r)
  BY <1>1, <1>2, <1>3, <1>10
  DEF ChooseGroup, Reads, Goto, Hold, Over, At, Fields
<1>11. CASE ChooseStrategy(r)
  <2> DEFINE chosen == ChosenStrategy(r)
  <2>1. R(r).op = "assign" /\ pc[r] = "choose"
    BY <1>11 DEF ChooseStrategy, At
  <2>2. CASE chosen.refused
    BY <1>1, <1>2, <1>3, <1>11, <2>2 DEF ChooseStrategy, Reads, Goto, Over
  <2>3. CASE ~chosen.refused
    <3>1. /\ chosen.link.client = R(r).client
          /\ \E s \in strategies : s.id = chosen.link.strategy
      BY <2>1, <2>3, ChosenIsThere DEF Candidates
    <3>2. /\ held'[r].rows = held[r].rows \cup {chosen.link}
          /\ held'[r].ids = held[r].ids
          /\ pc'[r] \in {"insert", "choose"}
      <4> HIDE DEF chosen
      <4> QED BY <1>1, <1>2, <1>11, <2>3
          DEF ChooseStrategy, Goto, Fields, chosen
    <3> HIDE DEF chosen
    <3> QED BY <1>3, <2>1, <3>1, <3>2 DEF Reads, Over
  <2> QED BY <2>2, <2>3
<1>12. CASE InsertLinks(r)
  BY <1>1, <1>2, <1>3, <1>12
  DEF InsertLinks, Reads, Goto, Hold, Over, At, Fields
<1> QED
  BY <1>5, <1>6, <1>7, <1>8, <1>9, <1>10, <1>11, <1>12 DEF Reading

(* A part of a client's strategies stays one, as links only come.          *)
LEMMA PartsStay ==
  ASSUME ScriptsInv, Next, NEW c, NEW ids, PartOf(ids, c)
  PROVE  PartOf(ids, c)'
<1>1. case' = case /\ links \subseteq links'
  BY RowsStay, LinksGrow
<1>2. StrategiesOf(c) \subseteq StrategiesOf(c)'
  BY <1>1 DEF StrategiesOf, LinkedBy
<1>3. Before(c)' = Before(c)
  BY <1>1 DEF Before
<1> QED
  BY <1>2, <1>3 DEF PartOf

(* So what is known of a client's links is a part of them.                 *)
LEMMA LinksNext ==
  ASSUME ScriptsInv, Next
  PROVE  LinksInv'
<1>1. case' = case /\ links \subseteq links'
  BY RowsStay, LinksGrow
<1>2. TypeInv /\ RowsInv /\ LinksInv
  BY DEF ScriptsInv, BaseInv
<1>3. \A q : R(q)' = R(q)
  BY <1>1 DEF R
<1>4. \A i : IsThere(i) => IsThere(i)'
  BY IdsStay
<1>5. \A ids, c : PartOf(ids, c) => PartOf(ids, c)'
  BY PartsStay
<1>6. \A q \in Requests : R(q).op # "none" => q \in DOMAIN case.requests
  BY DEF R
<1>7. case'.links \subseteq links'
  BY <1>1, <1>2 DEF LinksInv
<1>8. ASSUME NEW l \in links' PROVE IsThere(l.strategy)'
  <2>1. CASE l \in links
    BY <1>2, <1>4, <2>1 DEF LinksInv, IsThere
  <2>2. ASSUME NEW r \in DOMAIN case.requests, R(r).op = "assign",
               l \in held[r].rows
        PROVE  IsThere(l.strategy)
    BY <1>2, <2>2, RequestFits DEF TypeInv, LinksInv, IsThere, Readers
  <2>3. ASSUME NEW r \in With(case, {"associate"}), NEW c \in Clients,
               l = Link(c, case.requests[r].id, <<>>)
        PROVE  IsThere(l.strategy)
    <3>1. \E s \in case.strategies : s.id = case.requests[r].id
      BY <1>2, CaseFits DEF TypeInv, WellFormed, With
    <3> QED BY <1>2, <2>3, <3>1 DEF RowsInv, Link, IsThere
  <2> QED BY <1>4, <2>1, <2>2, <2>3, LinksGrow
<1>9. ASSUME NEW c \in Clients, NEW ids \in assoc'[c]
      PROVE  ids # {} /\ PartOf(ids, c)
  <2>1. CASE ids \in assoc[c]
    BY <1>2, <2>1 DEF LinksInv
  <2>2. CASE UNCHANGED assoc
    BY <2>1, <2>2
  <2>3. ASSUME NEW r \in Requests, Lands(r)
        PROVE  ids # {} /\ PartOf(ids, c)
    <3>1. PICK e \in pending[r] :
            assoc' = [assoc EXCEPT ![e.client] = IF e.do = "set" THEN {e.ids}
                                                              ELSE {}]
      BY <2>3 DEF Lands
    <3>2. e.client \in Clients /\
            (e.do = "set" => e.ids # {} /\ PartOf(e.ids, e.client))
      BY <1>2 DEF LinksInv
    <3>3. CASE c = e.client
      BY <1>2, <3>1, <3>2, <3>3 DEF TypeInv
    <3>4. CASE c # e.client
      BY <1>2, <2>1, <3>1, <3>4 DEF TypeInv
    <3> QED BY <3>3, <3>4
  <2>4. ASSUME NEW d \in Clients, LinksExpire(d) PROVE ids \in assoc[c]
    BY <1>2, <2>4 DEF LinksExpire, TypeInv
  <2> QED BY <2>1, <2>2, <2>3, <2>4, LinksFrame
          DEF ReadLinks, InsertLinks, Associate
<1>10. ASSUME NEW r \in Requests, NEW e \in pending'[r]
       PROVE  e.client \in Clients /\
                (e.do = "set" => e.ids # {} /\ PartOf(e.ids, e.client))
  <2>1. CASE e \in pending[r]
    BY <1>2, <2>1 DEF LinksInv
  <2>2. ASSUME NEW q \in Requests, ReadLinks(q), e \notin pending[r]
        PROVE  /\ e.client \in Clients
               /\ e.do = "set" => e.ids # {} /\ PartOf(e.ids, e.client)
    <3>1. R(q).client \in Clients
      BY <1>2, <1>6, <2>2, RequestFits DEF ReadLinks, Readers, TypeInv
    <3>2. /\ e = SetLinks(R(q).client, StrategiesOf(R(q).client))
          /\ StrategiesOf(R(q).client) # {}
      BY <1>2, <2>2 DEF ReadLinks, Later, TypeInv
    <3>3. PartOf(StrategiesOf(R(q).client), R(q).client)
      BY <1>2 DEF LinksInv, PartOf, Before, StrategiesOf, LinkedBy
    <3> QED BY <3>1, <3>2, <3>3 DEF SetLinks
  <2>3. ASSUME NEW q \in Requests, InsertLinks(q), e \notin pending[r]
        PROVE  e.client \in Clients /\ e.do # "set"
    <3>1. R(q).client \in Clients
      BY <1>2, <1>6, <2>3, RequestFits DEF InsertLinks, At, Readers, TypeInv
    <3>2. e = DelLinks(R(q).client)
      BY <1>2, <2>3 DEF InsertLinks, Later, TypeInv
    <3> QED BY <3>1, <3>2 DEF DelLinks
  <2>4. ASSUME NEW q \in Requests, Lands(q) PROVE e \in pending[r]
    BY <1>2, <2>4 DEF Lands, TypeInv
  <2> QED BY <2>1, <2>2, <2>3, <2>4, LinksFrame DEF Associate, LinksExpire
<1>11. ASSUME NEW q \in Requests, R(q).op \in Readers
       PROVE  Reads(q)
  <2>1. CASE pc'[q] = pc[q] /\ held'[q] = held[q]
    BY <1>2, <1>11, <2>1 DEF LinksInv, Reads
  <2>2. ASSUME NEW r \in DOMAIN case.requests, Acting(r), r = q
        PROVE  Reads(q)
    <3>1. R(r).op \notin Adds \cup Writes \cup {"deploy", "step"}
      BY <1>11, <2>2 DEF Readers, Adds, Writes, Updates, ShardScripts
    <3>2. Reading(r)
      BY <1>11, <2>2, <3>1, Ops DEF Acting
    <3> QED BY <1>2, <2>2, <3>2, ReaderReads
  <2> QED BY <1>2, <2>1, <2>2, Steps DEF Moved
<1>12. ASSUME NEW q \in Requests, R(q).op \in Readers
       PROVE  /\ (pc[q] \notin {"start", "source"} \cup Over =>
                    PartOf(held[q].ids, R(q).client))'
              /\ \A l \in held'[q].rows :
                   l.client = R(q).client /\ IsThere(l.strategy)'
              /\ pc'[q] \in {"start", "source", "ids", "group"} =>
                   held'[q].rows = {}
  <2>1. Reads(q)
    BY <1>11, <1>12
  <2>2. ASSUME pc'[q] \notin {"start", "source"} \cup Over
        PROVE  PartOf(held[q].ids, R(q).client)'
    <3>1. PICK ids, c : ids = held'[q].ids /\ c = R(q).client
      OBVIOUS
    <3>2. PartOf(ids, c)'
      BY <1>5, <2>1, <2>2, <3>1 DEF Reads
    <3> QED BY <1>3, <3>1, <3>2 DEF PartOf
  <2>3. \A l \in held'[q].rows :
          l.client = R(q).client /\ IsThere(l.strategy)'
    BY <1>4, <2>1 DEF Reads, IsThere
  <2> QED BY <2>1, <2>2, <2>3 DEF Reads
<1>13. \A c \in Clients : \A ids \in assoc'[c] : ids # {} /\ PartOf(ids, c)'
  BY <1>5, <1>9
<1>14. \A r \in Requests : \A e \in pending'[r] :
         e.client \in Clients /\
           (e.do = "set" => e.ids # {} /\ PartOf(e.ids, e.client)')
  BY <1>5, <1>10
<1> QED
  BY <1>3, <1>7, <1>8, <1>12, <1>13, <1>14 DEF LinksInv, IsThere

(***************************************************************************)
(* The memory of processes.                                                *)
(***************************************************************************)
(* What a fetch adds is as the row is; what is there is not changed.       *)
LEMMA Remembered ==
  ASSUME TypeInv, RowsInv, MemoryInv, NEW r \in DOMAIN case.requests,
         NEW ids, \A i \in ids : IsThere(i), Remember(r, ids),
         NEW p \in Requests, NEW i \in Ids
  PROVE  \/ local'[p][i] = local[p][i]
         \/ /\ p = R(r).proc /\ IsThere(i)
            /\ local'[p][i] = {ById(i).params}
<1>1. R(r).proc \in Requests
  BY RequestFits DEF TypeInv
<1>2. CASE p # R(r).proc \/ i \notin ids
  BY <1>1, <1>2 DEF Remember, TypeInv
<1>3. CASE p = R(r).proc /\ i \in ids
  <2>1. local'[p][i] = {Copy(r, i)}
    BY <1>1, <1>3 DEF Remember, TypeInv
  <2>2. CASE local[p][i] = {}
    BY <1>3, <2>1, <2>2 DEF Copy
  <2>3. CASE local[p][i] # {}
    <3>1. Copy(r, i) \in local[p][i]
      BY <1>3, <2>3 DEF Copy
    <3>2. \A v, u \in local[p][i] : u = v
      BY <2>3 DEF MemoryInv
    <3> QED BY <2>1, <3>1, <3>2
  <2> QED BY <2>2, <2>3
<1> QED
  BY <1>2, <1>3

(* What a process comes to remember is what the rows say at that moment.   *)
Recalls(p, i) ==
  /\ IsThere(i) /\ local'[p][i] = {ById(i).params} /\ UNCHANGED strategies
  /\ \E q \in DOMAIN case.requests : R(q).proc = p /\ MayStart(q)

(* A process forgets a row, or remembers it as it is in the table.         *)
LEMMA MemoryMoves ==
  ASSUME ScriptsInv, Next, NEW p \in Requests, NEW i \in Ids
  PROVE  local'[p][i] \subseteq local[p][i] \/ Recalls(p, i)
<1> DEFINE Fine == local'[p][i] \subseteq local[p][i] \/ Recalls(p, i)
<1>1. TypeInv /\ RowsInv /\ MemoryInv /\ TurnsInv /\ LinksInv
  BY DEF ScriptsInv, BaseInv
<1>2. ASSUME UNCHANGED local PROVE Fine
  BY <1>2
<1>3. ASSUME NEW r \in DOMAIN case.requests, NEW ids,
             \A j \in ids : IsThere(j), Remember(r, ids), MayStart(r),
             UNCHANGED strategies
      PROVE  Fine
  <2>1. \/ local'[p][i] = local[p][i]
        \/ /\ p = R(r).proc /\ IsThere(i)
           /\ local'[p][i] = {ById(i).params}
    BY <1>1, <1>3, Remembered
  <2> QED BY <1>3, <2>1 DEF Recalls
<1>4. \A rows \in SUBSET strategies : \A j \in {s.id : s \in rows} : IsThere(j)
  BY DEF IsThere
<1>5. ASSUME NEW r \in DOMAIN case.requests, Reading(r), Moved(r) PROVE Fine
  <2>1. r \in Requests /\ R(r).op \in Readers
    BY <1>1, <1>5, RequestFits, Ops DEF TypeInv
  <2>2. R(r).client \in Clients
    BY <1>1, <2>1, RequestFits DEF TypeInv
  <2>3. ASSUME pc[r] = "ids"
        PROVE  MayStart(r) /\ \A j \in held[r].ids : IsThere(j)
    <3>1. held[r].ids \subseteq StrategiesOf(R(r).client)
      BY <1>1, <2>1, <2>3 DEF LinksInv, PartOf, Over
    <3>2. \A l \in links : IsThere(l.strategy)
      BY <1>1 DEF LinksInv, IsThere
    <3>3. MayStart(r)
      BY <1>1, <2>3 DEF TurnsInv
    <3> QED BY <3>1, <3>2, <3>3 DEF StrategiesOf, LinkedBy
  <2>4. CASE ServeStrategies(r)
    BY <1>3, <2>3, <2>4 DEF ServeStrategies, At, db
  <2>5. CASE ServeKind(r)
    <3> DEFINE ids == {j \in held[r].ids : ById(j).kind = R(r).kind}
    <3>1. UNCHANGED local \/ Remember(r, ids)
      BY <2>5 DEF ServeKind
    <3>2. pc[r] = "ids" /\ UNCHANGED strategies
      BY <2>5 DEF ServeKind, At, db
    <3>3. \A j \in ids : IsThere(j)
      BY <2>3, <3>2
    <3> HIDE DEF Fine, ids
    <3> QED BY <1>2, <1>3, <2>3, <3>1, <3>2, <3>3
  <2>6. CASE ReadKinds(r)
    BY <1>3, <2>3, <2>6 DEF ReadKinds, At, db
  <2> QED BY <1>2, <1>5, <2>4, <2>5, <2>6
          DEF Reading, AskLinks, ReadLinks, ChooseGroup, ChooseStrategy,
              InsertLinks
<1>6. \A r \in DOMAIN case.requests : Moved(r) => MayStart(r)
  BY <1>1 DEF TurnsInv, Moved
<1>7. ASSUME NEW r \in DOMAIN case.requests, Adding(r), Moved(r) PROVE Fine
  <2>1. CASE PopulateKind(r)
    BY <1>3, <1>4, <1>6, <1>7, <2>1 DEF PopulateKind, RowsOf, db
  <2> QED BY <1>2, <1>7, <2>1
          DEF Adding, CheckKind, SeedKind, CheckSha, CreateStrategy
<1>8. ASSUME NEW r, Switching(r) PROVE Fine
  BY <1>2, <1>8 DEF Switching, Associate, Activate, ActivateByStrategyId,
     CheckUnused, Deactivate
<1>9. ASSUME NEW r \in DOMAIN case.requests, NEW j, local' =
               [local EXCEPT ![R(r).proc][j] = {}]
      PROVE  Fine
  <2>1. R(r).proc \in Requests
    BY <1>1, RequestFits DEF TypeInv
  <2> QED BY <1>1, <1>9, <2>1 DEF TypeInv
<1>10. ASSUME NEW r \in DOMAIN case.requests, Changing(r), Moved(r)
       PROVE  Fine
  <2>1. r \in Requests /\ R(r).op \in Writes /\ R(r) = case.requests[r]
    BY <1>1, <1>10, RequestFits, Ops DEF TypeInv
  <2>2. r \in With(case, Writes)
    BY <2>1 DEF With
  <2>3. CASE ReadStrategy(r)
    BY <1>2, <1>3, <1>4, <1>6, <1>10, <2>3 DEF ReadStrategy, RowsOf, db
  <2>4. CASE CheckWhiteList(r)
    <3>1. IsThere(held[r].id)
      BY <2>2, <2>4 DEF CheckWhiteList, ScriptsInv, WritesInv, IsThere
    <3> QED BY <1>3, <1>6, <1>10, <2>4, <3>1 DEF CheckWhiteList, db
  <2>5. CASE WriteStrategy(r)
    BY <1>2, <1>9, <2>5 DEF WriteStrategy, Forget
  <2>6. ASSUME NEW params, WithShards(r, params), R(r).op \in ShardScripts
        PROVE  Fine
    <3>1. \E s \in case.strategies : s.id = R(r).id
      BY <1>1, <2>1, <2>6, CaseFits DEF TypeInv, WellFormed
    <3>2. IsThere(R(r).id)
      BY <1>1, <3>1 DEF RowsInv, IsThere
    <3> QED BY <1>3, <1>6, <1>10, <2>6, <3>2 DEF WithShards, db
  <2>7. CASE PopulateShardNames(r)
    BY <2>6, <2>7 DEF PopulateShardNames, At, ShardScripts
  <2>8. CASE CreateShard(r)
    BY <2>6, <2>8 DEF CreateShard, At, ShardScripts
  <2> HIDE DEF Fine
  <2> QED BY <1>2, <1>10, <2>3, <2>4, <2>5, <2>7, <2>8
          DEF Changing, ReadRow, CheckUnique
<1>11. ASSUME NEW r \in DOMAIN case.requests, Deploying(r), Moved(r)
       PROVE  Fine
  <2>1. CASE ReadHash(r)
    BY <1>3, <1>4, <1>6, <1>11, <2>1 DEF ReadHash, GroupAndShared, db
  <2>2. CASE RunAgain(r)
    <3>1. R(r).proc \in Requests
      BY <1>1, RequestFits DEF TypeInv
    <3> QED BY <1>1, <2>2, <3>1 DEF RunAgain, TypeInv
  <2> HIDE DEF Fine
  <2> QED BY <1>2, <1>11, <2>1, <2>2
          DEF Deploying, NextTask, BeginStep, Perform, PerformFails, Mark, Crash
<1>12. ASSUME Elsewhere PROVE Fine
  <2>1. ASSUME NEW q \in Requests, NEW j \in Ids, MemoryExpires(q, j)
        PROVE  Fine
    BY <1>1, <2>1 DEF MemoryExpires, TypeInv
  <2> HIDE DEF Fine
  <2> QED BY <1>2, <1>12, <2>1 DEF Elsewhere, Lands, LinksExpire
<1> HIDE DEF Fine
<1>13. Fine
  BY <1>1, <1>5, <1>7, <1>8, <1>10, <1>11, <1>12, Steps DEF Acting
<1> QED
  BY <1>13 DEF Fine

(* So what processes remember are rows that are there.                     *)
LEMMA MemoryNext ==
  ASSUME ScriptsInv, Next
  PROVE  MemoryInv'
<1>1. TypeInv /\ RowsInv /\ MemoryInv /\ case' = case
  BY RowsStay DEF ScriptsInv, BaseInv
<1>2. ASSUME NEW p \in Requests, NEW i \in Ids, local'[p][i] # {}
      PROVE  /\ \A v, u \in local'[p][i] : v \in ParamType /\ u = v
             /\ IsThere(i)
             /\ \E q \in DOMAIN case.requests : R(q).proc = p /\ MayStart(q)
  <2>1. CASE local'[p][i] \subseteq local[p][i]
    <3>1. local[p][i] # {}
      BY <1>2, <2>1
    <3> QED BY <1>1, <2>1, <3>1 DEF MemoryInv, IsThere
  <2>2. CASE Recalls(p, i)
    <3>1. ById(i) \in RowType
      BY <1>1, <2>2, ByIdIs DEF Recalls, IsThere, RowsInv
    <3> QED BY <2>2, <3>1 DEF Recalls, RowType
  <2> QED BY <2>1, <2>2, MemoryMoves
<1>3. \A i : IsThere(i) => IsThere(i)'
  BY IdsStay
<1>4. \A q \in DOMAIN case.requests : MayStart(q) => MayStart(q)'
  BY <1>1, TurnsStay
<1>5. \A q : R(q)' = R(q)
  BY <1>1 DEF R
<1> QED
  BY <1>1, <1>2, <1>3, <1>4, <1>5 DEF MemoryInv, IsThere

(* While one writes the address of a contract, who else may write the row  *)
(* has not begun, and has read it in the writer's process or not at all.   *)
LEMMA WriterIsAlone ==
  ASSUME TypeInv, TurnsInv, NEW a \in With(case, {"deploy", "step"}),
         pc[a] = "write", NEW w \in With(case, Writes), ~Ended(w), a # w,
         Place(case, a) = Place(case, w)
  PROVE  /\ ~MayStart(w)
         /\ \/ R(w).proc = R(a).proc
            \/ \A q \in DOMAIN case.requests :
                 R(q).proc = R(w).proc => ~MayStart(q)
<1>1. /\ a \in DOMAIN case.requests /\ w \in DOMAIN case.requests
      /\ a \in Requests /\ w \in Requests
  BY RequestFits DEF With, TypeInv
<1>2. MayStart(a) /\ ~Ended(a)
  BY <1>1 DEF TurnsInv, Ended, Over
<1>3. ~Follows(case, a, w)
  BY <1>1, <1>2, FirstEnded
<1>4. /\ Follows(case, w, a)
      /\ \/ case.requests[w].proc = case.requests[a].proc
         \/ \A q \in DOMAIN case.requests :
              case.requests[q].proc = case.requests[w].proc
                => Follows(case, q, a)
  BY <1>3, CaseFits DEF TypeInv, WritersApart
<1>5. \A q \in DOMAIN case.requests : R(q) = case.requests[q]
  BY RequestFits DEF TypeInv
<1>6. ASSUME NEW q \in DOMAIN case.requests, q # a, Follows(case, q, a)
      PROVE  ~MayStart(q)
  BY <1>1, <1>2, <1>6, FirstEnded
<1>7. R(w).proc # R(a).proc =>
        \A q \in DOMAIN case.requests : R(q).proc = R(w).proc => ~MayStart(q)
  BY <1>1, <1>4, <1>5, <1>6
<1> QED
  BY <1>1, <1>4, <1>6, <1>7

(* A script that may write a row reads its addresses as they are.          *)
LEMMA CopyIsFresh ==
  ASSUME ScriptsInv, NEW r \in With(case, Writes), ~Ended(r),
         NEW s \in strategies, IsAt(s, Place(case, r))
  PROVE  Copy(r, s.id) \in ParamType /\ Copy(r, s.id).addr = s.params.addr
<1>1. TypeInv /\ RowsInv /\ MemoryInv /\ FreshInv
  BY DEF ScriptsInv, BaseInv
<1>2. R(r).proc \in Requests /\ s.id \in Ids /\ s.params \in ParamType
  BY <1>1, RequestFits DEF With, TypeInv, RowsInv, RowType
<1>3. CASE local[R(r).proc][s.id] = {}
  BY <1>1, <1>2, <1>3, ByIdIs DEF Copy
<1>4. CASE local[R(r).proc][s.id] # {}
  <2>1. Copy(r, s.id) \in local[R(r).proc][s.id]
    BY <1>4 DEF Copy
  <2>2. \A v \in local[R(r).proc][s.id] : v \in ParamType
    BY <1>1, <1>2, <1>4 DEF MemoryInv
  <2>3. \A v \in local[R(r).proc][s.id] : v.addr = s.params.addr
    BY <1>1 DEF FreshInv
  <2> QED BY <2>1, <2>2, <2>3
<1> QED
  BY <1>3, <1>4

(* Writers being apart, no copy is older than a row yet to be written.     *)
LEMMA FreshNext ==
  ASSUME ScriptsInv, Next
  PROVE  FreshInv'
<1>1. TypeInv /\ RowsInv /\ TurnsInv /\ MemoryInv /\ FreshInv /\ case' = case
  BY RowsStay DEF ScriptsInv, BaseInv
<1>2. \A q : R(q)' = R(q)
  BY <1>1 DEF R
<1>3. \A q \in Requests : Ended(q) => Ended(q)'
  BY <1>1, TurnsStay
<1>4. ASSUME NEW w \in With(case, Writes), ~Ended(w)', NEW t \in strategies',
             IsAt(t, Place(case, w)), NEW v \in local'[R(w).proc][t.id]
      PROVE  v.addr = t.params.addr
  <2> DEFINE p == R(w).proc
  <2>1. /\ w \in DOMAIN case.requests /\ w \in Requests /\ p \in Requests
    BY <1>1, RequestFits DEF With, TypeInv
  <2>2. ~Ended(w)
    BY <1>3, <1>4, <2>1
  <2>3. t.id \in Ids
    BY RowsNext DEF RowsInv, RowType
  <2>4. \/ local'[p][t.id] \subseteq local[p][t.id]
        \/ Recalls(p, t.id)
    BY <2>1, <2>3, MemoryMoves
  <2> HIDE DEF p
  <2>5. ASSUME NEW s \in strategies, Same(s, t), v \in local[p][t.id]
        PROVE  v.addr = s.params.addr
    BY <1>1, <1>4, <2>2, <2>5 DEF FreshInv, Same, IsAt, p
  <2>6. ASSUME Recalls(p, t.id) PROVE v.addr = t.params.addr
    <3>1. t \in strategies /\ local'[p][t.id] = {ById(t.id).params}
      BY <2>6 DEF Recalls
    <3>2. ById(t.id) = t
      BY <1>1, <3>1, ByIdIs
    <3> QED BY <1>4, <3>1, <3>2 DEF p
  <2>7. ASSUME NEW f, Keeps(f) PROVE v.addr = t.params.addr
    <3>1. PICK s \in strategies : t = f[s]
      BY <2>7 DEF Keeps, Changes
    <3>2. Same(s, t) /\ t.params.addr = s.params.addr
      BY <2>7, <3>1 DEF Keeps, Changes
    <3> QED BY <1>4, <2>4, <2>5, <2>6, <3>2 DEF p
  <2>8. ASSUME NEW a \in With(case, Writes), WriteStrategy(a),
               NEW f, Extends(f, a)
        PROVE  v.addr = t.params.addr
    <3>1. PICK s \in strategies : t = f[s]
      BY <2>8 DEF Extends, Changes
    <3>2. Same(s, t)
      BY <2>8, <3>1 DEF Extends, Changes
    <3>3. CASE s.params.addr = t.params.addr
      BY <1>4, <2>4, <2>5, <2>6, <3>2, <3>3 DEF p
    <3>4. CASE s.params.addr # t.params.addr
      <4>1. s.id = held[a].id /\ IsAt(s, Place(case, a)) /\ Gain(a) # {}
        BY <2>8, <3>1, <3>4 DEF Extends
      <4>2. a \in With(case, {"deploy", "step"}) /\ R(a) = case.requests[a]
        BY <1>1, <4>1, RequestFits DEF Gain, With, TypeInv
      <4>3. pc[a] = "write"
        BY <2>8 DEF WriteStrategy
      <4>4. Place(case, a) = Place(case, w)
        BY <1>4, <3>2, <4>1 DEF IsAt, Same
      <4>5. R(a).proc \in Requests
        BY <1>1, RequestFits DEF With, TypeInv
      <4>6. local' = [local EXCEPT ![R(a).proc][held[a].id] = {}]
        BY <2>8, <4>2
           DEF WriteStrategy, Forget, ShardScripts, Updates, With
      <4>7. local'[R(a).proc][t.id] = {}
        BY <1>1, <2>3, <3>2, <4>1, <4>5, <4>6 DEF TypeInv, Same
      <4>8. p # R(a).proc
        BY <1>4, <4>7 DEF p
      <4>9. \A q \in DOMAIN case.requests : R(q).proc = p => ~MayStart(q)
        BY <1>1, <2>2, <4>2, <4>3, <4>4, <4>8, WriterIsAlone DEF p
      <4>10. local[p][t.id] = {}
        BY <1>1, <2>1, <2>3, <4>9 DEF MemoryInv
      <4>11. ~Recalls(p, t.id)
        BY <4>9 DEF Recalls
      <4> QED BY <1>4, <2>4, <4>10, <4>11 DEF p
    <3> QED BY <3>3, <3>4
  <2>9. ASSUME NEW a \in With(case, Adds), CreateStrategy(a)
        PROVE  v.addr = t.params.addr
    <3>1. PICK new : /\ strategies' = strategies \cup {new}
                     /\ \A s \in strategies : s.id < new.id
      BY <1>1, <2>9, RowCreated DEF ScriptsInv, BaseInv
    <3>2. UNCHANGED local
      BY <2>9 DEF CreateStrategy
    <3>3. CASE t \in strategies
      BY <1>4, <2>5, <3>2, <3>3 DEF Same, p
    <3>4. CASE t = new
      <4>1. IsThere(t.id)
        BY <1>1, <1>4, <2>1, <2>3, <3>2 DEF MemoryInv, IsThere, p
      <4>2. PICK s \in strategies : s.id = t.id
        BY <4>1 DEF IsThere
      <4>3. t.id < t.id
        BY <3>1, <3>4, <4>2
      <4>4. t.id \in Nat
        BY <2>3, NumberedIds
      <4>5. \A i \in Nat : ~(i < i)
        OBVIOUS
      <4> QED BY <4>3, <4>4, <4>5, Zenon
    <3> QED BY <3>1, <3>3, <3>4
  <2> QED BY <2>7, <2>8, <2>9, RowShapes
<1>5. With(case, Writes)' = With(case, Writes)
  BY <1>1 DEF With
<1>6. \A w : Place(case, w)' = Place(case, w)
  BY <1>1 DEF Place
<1> QED
  BY <1>2, <1>4, <1>5, <1>6 DEF FreshInv

(***************************************************************************)
(* What a script is about to write.                                        *)
(***************************************************************************)
(* A row a script looks at stays as it saw it until it has moved on.       *)
LEMMA SightStays ==
  ASSUME ScriptsInv, Next, NEW w \in With(case, Writes), ~Ended(w),
         MayStart(w), held'[w] = held[w], ~WriteStrategy(w),
         NEW s \in strategies, Sees(w, s)
  PROVE  \E t \in strategies' : Same(s, t) /\ Sees(w, t)'
<1>1. TypeInv /\ RowsInv /\ TurnsInv /\ case' = case
  BY RowsStay DEF ScriptsInv, BaseInv
<1>2. R(w)' = R(w) /\ Place(case, w)' = Place(case, w)
  BY <1>1 DEF R, Place
<1>3. Gain(w)' = Gain(w)
  BY <1>2 DEF Gain
<1>4. ASSUME NEW t \in strategies', Same(s, t), t.params.addr = s.params.addr
      PROVE  Sees(w, t)'
  BY <1>2, <1>3, <1>4 DEF Sees, IsAt, Same
<1>5. ASSUME NEW f, Changes(f), f[s].params.addr = s.params.addr
      PROVE  \E t \in strategies' : Same(s, t) /\ Sees(w, t)'
  BY <1>4, <1>5 DEF Changes
<1>6. ASSUME NEW a \in With(case, Writes), WriteStrategy(a),
             NEW f, Extends(f, a)
      PROVE  f[s].params.addr = s.params.addr
  <2>1. SUFFICES ASSUME f[s].params.addr # s.params.addr PROVE FALSE
    OBVIOUS
  <2>2. IsAt(s, Place(case, a)) /\ Gain(a) # {}
    BY <1>6, <2>1 DEF Extends
  <2>3. a \in With(case, {"deploy", "step"}) /\ pc[a] = "write"
    BY <1>1, <1>6, <2>2, RequestFits DEF Gain, With, TypeInv, WriteStrategy
  <2>4. Place(case, a) = Place(case, w)
    BY <2>2 DEF Sees, IsAt
  <2> QED BY <1>1, <1>6, <2>3, <2>4, WriterIsAlone
<1>7. ASSUME NEW r, CreateStrategy(r)
      PROVE  s \in strategies'
  BY <1>7 DEF CreateStrategy
<1> QED
  BY <1>4, <1>5, <1>6, <1>7, RowShapes DEF Same, Keeps, Extends

(* What a script writes is what it has read and one thing more.            *)
Plans(r) ==
  /\ pc'[r] \in {"hash", "perform", "read", "rows", "white", "unique",
                 "write", "mark"} /\ R(r).op \in {"deploy", "step"} =>
       held'[r].task \in Names
  /\ pc'[r] = "rows" => \E s \in strategies' : Sees(r, s)'
  /\ pc'[r] \in {"white", "unique", "write"} =>
       \E s \in strategies' : s.id = held'[r].id /\ Sees(r, s)'

(* Who is to write a row goes on by plan: it has all addresses of the row. *)
LEMMA WriterPlans ==
  ASSUME ScriptsInv, Next, NEW r \in With(case, Writes),
         Changing(r) \/ Deploying(r), Moved(r)
  PROVE  Plans(r)
<1>1. TypeInv /\ RowsInv /\ TurnsInv /\ WritesInv /\ case' = case
  BY RowsStay DEF ScriptsInv, BaseInv
<1>2. /\ r \in DOMAIN case.requests /\ r \in Requests
      /\ R(r) = case.requests[r] /\ R(r).op \in Writes
  BY <1>1, RequestFits DEF With, TypeInv
<1>3. DOMAIN pc = Requests /\ DOMAIN held = Requests /\ DOMAIN held[r] = Fields
  BY <1>1, <1>2 DEF TypeInv
<1>4. ~Ended(r)
  BY DEF Moved, Ended
<1>5. R(r)' = R(r) /\ Place(case, r)' = Place(case, r)
  BY <1>1 DEF R, Place
<1>6. R(r).op \in Updates =>
        /\ Place(case, r) = <<R(r).kind, GroupIn(R(r).kind, R(r).group)>>
        /\ RowsOf(R(r).kind, R(r).group) =
              {s \in strategies : IsAt(s, Place(case, r))}
  BY <1>2 DEF Place, RowsOf, IsAt, Updates, ShardScripts
<1>7. \A s, t \in strategies :
        IsAt(s, Place(case, r)) /\ IsAt(t, Place(case, r)) => s = t
  BY <1>1 DEF RowsInv, IsAt
<1>8. pc[r] \in {"hash", "perform", "read", "rows", "white", "unique",
                 "write", "mark"} /\ R(r).op \in {"deploy", "step"} =>
        held[r].task \in Names
  BY <1>1 DEF WritesInv
<1>9. CASE ReadStrategy(r)
  <2> DEFINE rows == RowsOf(R(r).kind, R(r).group)
             ids == {s.id : s \in rows}
             old == Copy(r, Greatest(ids))
  <2>1. R(r).op \in Updates /\ UNCHANGED strategies
    BY <1>9 DEF ReadStrategy, db
  <2>2. CASE rows = {}
    BY <1>2, <1>3, <1>9, <2>2 DEF ReadStrategy, GiveUp, Goto, Plans
  <2>3. CASE rows # {}
    <3>1. PICK s \in strategies : IsAt(s, Place(case, r)) /\ rows = {s}
      BY <1>6, <1>7, <2>1, <2>3
    <3>2. ids = {s.id}
      BY <3>1
    <3>3. s.id \in Nat
      BY <1>1, NumberedIds DEF RowsInv, RowType
    <3>4. old = Copy(r, s.id)
      <4>1. Greatest(ids) = s.id
        BY <3>2, <3>3, PickOnly
      <4> QED BY <4>1
    <3>5. old \in ParamType /\ old.addr = s.params.addr
      BY <1>4, <3>1, <3>4, CopyIsFresh
    <3> HIDE DEF old, rows
    <3>6. \/ GiveUp(r) /\ UNCHANGED held
          \/ /\ held' = [held EXCEPT ![r].params = Changed(r, old)]
             /\ pc' = [pc EXCEPT ![r] = "rows"]
             /\ pc[r] = "read" \/ R(r).op = "change"
      BY <1>9, <2>3 DEF ReadStrategy, Hold, Goto, old, rows
    <3>7. CASE GiveUp(r)
      BY <1>2, <1>3, <3>7 DEF GiveUp, Goto, Plans
    <3>8. ASSUME held' = [held EXCEPT ![r].params = Changed(r, old)],
                 pc' = [pc EXCEPT ![r] = "rows"],
                 pc[r] = "read" \/ R(r).op = "change"
          PROVE  Plans(r)
      <4>1. held'[r].params = Changed(r, old) /\ held'[r].task = held[r].task
        BY <1>2, <1>3, <3>8 DEF Fields
      <4>2. Gain(r)' = Gain(r)
        BY <1>5, <4>1 DEF Gain
      <4>3. R(r).op # "change" => R(r).op \in {"deploy", "step"}
        BY <2>1 DEF Updates
      <4>4. CASE R(r).op = "change"
        <5>1. R(r).ident \in Nat
          BY <1>1, <1>2, <4>4, CaseFits DEF TypeInv, WellFormed
        <5>2. Changed(r, old) \in ParamType /\ Changed(r, old).addr = old.addr
          BY <3>5, <4>4, <5>1 DEF Changed, ParamType
        <5>3. Gain(r) = {}
          BY <4>4 DEF Gain
        <5>4. Sees(r, s)'
          BY <1>5, <3>1, <3>5, <4>1, <4>2, <5>2, <5>3 DEF Sees, IsAt
        <5> QED BY <2>1, <3>8, <4>4, <5>4, <1>2, <1>3 DEF Plans
      <4>5. CASE R(r).op \in {"deploy", "step"}
        <5>1. held[r].task \in Names
          BY <1>8, <3>8, <4>5
        <5>2. AddressOf(held[r].task) \in Names
          BY <5>1, NumberedIds DEF AddressOf
        <5>3. Gain(r) = {AddressOf(held[r].task)}
          BY <4>5 DEF Gain
        <5>4. Changed(r, old) =
                [old EXCEPT !.addr = @ \cup {AddressOf(held[r].task)}]
          BY <4>5 DEF Changed
        <5>5. /\ Changed(r, old) \in ParamType
              /\ Changed(r, old).addr = old.addr \cup Gain(r)
          BY <3>5, <5>2, <5>3, <5>4 DEF ParamType
        <5>6. Sees(r, s)'
          BY <1>5, <3>1, <3>5, <4>1, <4>2, <5>5 DEF Sees, IsAt
        <5> QED BY <1>2, <1>3, <2>1, <3>8, <4>1, <5>1, <5>6 DEF Plans
      <4> QED BY <4>3, <4>4, <4>5
    <3> QED BY <3>6, <3>7, <3>8
  <2> QED BY <2>2, <2>3
<1>10. CASE ReadRow(r)
  <2> DEFINE rows == RowsOf(R(r).kind, R(r).group)
  <2>1. R(r).op \in Updates /\ UNCHANGED strategies /\ pc[r] = "rows"
    BY <1>10 DEF ReadRow, db
  <2>2. CASE Cardinality(rows) # 1
    BY <1>2, <1>3, <1>10, <2>2 DEF ReadRow, GiveUp, Goto, Plans
  <2>3. CASE Cardinality(rows) = 1
    <3>1. PICK s \in rows :
            /\ held' = [held EXCEPT ![r].id = s.id, ![r].active = s.active]
            /\ pc' = [pc EXCEPT ![r] = "white"]
      BY <1>10, <2>3 DEF ReadRow, Goto
    <3>2. PICK t \in strategies : Sees(r, t)
      BY <1>1, <2>1 DEF WritesInv
    <3>3. s = t
      BY <1>6, <1>7, <2>1, <3>1, <3>2 DEF Sees
    <3>4. /\ held'[r].id = s.id /\ held'[r].task = held[r].task
          /\ held'[r].params = held[r].params /\ pc'[r] = "white"
      BY <1>2, <1>3, <3>1 DEF Fields
    <3>5. Sees(r, s)'
      BY <1>5, <3>2, <3>3, <3>4 DEF Sees, IsAt, Gain
    <3> QED BY <1>8, <2>1, <3>2, <3>3, <3>4, <3>5 DEF Plans
  <2> QED BY <2>2, <2>3
<1>11. ASSUME pc[r] \in {"white", "unique"}, held' = held,
              UNCHANGED strategies,
              GiveUp(r) \/ Goto(r, "unique") \/ Goto(r, "write")
       PROVE  Plans(r)
  <2>1. PICK s \in strategies : s.id = held[r].id /\ Sees(r, s)
    BY <1>1, <1>11 DEF WritesInv
  <2>2. Sees(r, s)'
    BY <1>5, <1>11, <2>1 DEF Sees, IsAt, Gain
  <2>3. CASE GiveUp(r)
    BY <1>2, <1>3, <2>3 DEF GiveUp, Goto, Plans
  <2>4. CASE Goto(r, "unique") \/ Goto(r, "write")
    BY <1>2, <1>3, <1>8, <1>11, <2>1, <2>2, <2>4 DEF Goto, Plans
  <2> QED BY <1>11, <2>3, <2>4
<1>12. CASE CheckWhiteList(r)
  BY <1>11, <1>12 DEF CheckWhiteList, db
<1>13. CASE CheckUnique(r)
  BY <1>11, <1>13 DEF CheckUnique, db
<1>14. CASE WriteStrategy(r)
  <2>1. /\ pc'[r] \in {"mark", "done"} /\ held'[r].task = held[r].task
        /\ pc[r] = "write"
    BY <1>2, <1>3, <1>14 DEF WriteStrategy, Goto, Hold, Fields
  <2> QED BY <1>8, <2>1 DEF Plans
<1>15. ASSUME NEW params \in ParamType, WithShards(r, params),
              R(r).op \in ShardScripts, params.addr = Copy(r, R(r).id).addr
       PROVE  Plans(r)
  <2>1. PICK x \in case.strategies : x.id = R(r).id
    BY <1>1, <1>2, <1>15, CaseFits DEF TypeInv, WellFormed
  <2>2. (CHOOSE row \in case.strategies : row.id = R(r).id) = x
    BY <1>1, <2>1, CaseFits DEF TypeInv, WellFormed
  <2>3. Place(case, r) = <<x.kind, x.group>>
    BY <1>2, <1>15, <2>2 DEF Place
  <2>4. PICK s \in strategies :
          s.id = R(r).id /\ IsAt(s, Place(case, r))
    BY <1>1, <2>1, <2>3 DEF RowsInv, IsAt
  <2>5. params.addr = s.params.addr
    BY <1>4, <1>15, <2>4, CopyIsFresh
  <2>6. Gain(r)' = {}
    BY <1>5, <1>15 DEF Gain, ShardScripts
  <2>7. /\ held'[r].id = R(r).id /\ held'[r].params = params
        /\ pc'[r] = "unique" /\ UNCHANGED strategies
    BY <1>2, <1>3, <1>15 DEF WithShards, Goto, Fields, db
  <2>8. Sees(r, s)'
    BY <1>5, <1>15, <2>4, <2>5, <2>6, <2>7 DEF Sees, IsAt
  <2> QED BY <1>15, <2>4, <2>7, <2>8 DEF Plans, ShardScripts
<1>16. R(r).op \in ShardScripts => Copy(r, R(r).id) \in ParamType
  <2>1. ASSUME R(r).op \in ShardScripts
        PROVE  \E s \in strategies :
                 s.id = R(r).id /\ IsAt(s, Place(case, r))
    <3>1. PICK x \in case.strategies : x.id = R(r).id
      BY <1>1, <1>2, <2>1, CaseFits DEF TypeInv, WellFormed
    <3>2. (CHOOSE row \in case.strategies : row.id = R(r).id) = x
      BY <1>1, <3>1, CaseFits DEF TypeInv, WellFormed
    <3>3. Place(case, r) = <<x.kind, x.group>>
      BY <1>2, <2>1, <3>2 DEF Place
    <3> QED BY <1>1, <3>1, <3>3 DEF RowsInv, IsAt
  <2> QED BY <1>4, <2>1, CopyIsFresh
<1>17. CASE PopulateShardNames(r)
  <2> DEFINE old == Copy(r, R(r).id)
             params == [old EXCEPT !.bal = R(r).bal, !.log = R(r).log]
  <2>1. R(r).op = "count_shards" /\ WithShards(r, params)
    BY <1>17 DEF PopulateShardNames, At
  <2>2. R(r).bal \in Nat /\ R(r).log \in Nat
    BY <1>1, <1>2, <2>1, CaseFits DEF TypeInv, WellFormed
  <2>3. old \in ParamType
    BY <1>16, <2>1 DEF ShardScripts
  <2>4. params \in ParamType /\ params.addr = old.addr
    <3> HIDE DEF old
    <3> QED BY <2>2, <2>3 DEF ParamType
  <2> HIDE DEF params
  <2> QED BY <1>15, <2>1, <2>4 DEF ShardScripts
<1>18. CASE CreateShard(r)
  <2> DEFINE old == Copy(r, R(r).id)
             p1 == [old EXCEPT !.bal = @ + 1]
             p2 == [old EXCEPT !.log = @ + 1]
  <2>1. R(r).op = "create_shard" /\ (WithShards(r, p1) \/ WithShards(r, p2))
    BY <1>18 DEF CreateShard, At
  <2>2. old \in ParamType
    BY <1>16, <2>1 DEF ShardScripts
  <2>3. /\ p1 \in ParamType /\ p1.addr = old.addr
        /\ p2 \in ParamType /\ p2.addr = old.addr
    <3> HIDE DEF old
    <3> QED BY <2>2 DEF ParamType
  <2> HIDE DEF p1, p2
  <2> QED BY <1>15, <2>1, <2>3 DEF ShardScripts
<1>19. CASE NextTask(r)
  <2>1. CASE pc' = [pc EXCEPT ![r] = "done"]
    BY <1>2, <1>3, <2>1 DEF Plans
  <2>2. ASSUME NEW n \in DOMAIN case.order,
               held' = [held EXCEPT ![r].task = case.order[n]],
               pc' = [pc EXCEPT ![r] = "hash"]
        PROVE  Plans(r)
    <3>1. case.order[n] \in Names
      BY <1>1, CaseFits DEF TypeInv, OneStatusFile, Range
    <3> QED BY <1>2, <1>3, <2>2, <3>1 DEF Plans, Fields
  <2> QED BY <1>19, <2>1, <2>2 DEF NextTask, Goto, Hold
<1>20. CASE BeginStep(r)
  <2>1. R(r).op = "step" /\ held' = [held EXCEPT ![r].task = R(r).task]
        /\ pc' = [pc EXCEPT ![r] = "hash"]
    BY <1>20 DEF BeginStep, At, Hold, Goto
  <2>2. R(r).task \in Names
    BY <1>1, <1>2, <2>1, CaseFits DEF TypeInv, WellFormed
  <2> QED BY <1>2, <1>3, <2>1, <2>2 DEF Plans, Fields
<1>21. CASE ReadHash(r)
  <2>1. /\ held' = held /\ pc[r] = "hash"
        /\ GiveUp(r) \/ Goto(r, "perform")
    BY <1>21 DEF ReadHash
  <2> QED BY <1>2, <1>3, <1>8, <2>1 DEF Plans, GiveUp, Goto
<1>22. CASE Perform(r)
  <2>1. /\ held' = held /\ pc[r] = "perform"
        /\ pc'[r] \in {"read", "mark", "done"}
    BY <1>2, <1>3, <1>22 DEF Perform, Goto
  <2> QED BY <1>8, <2>1 DEF Plans
<1>23. CASE PerformFails(r)
  BY <1>2, <1>3, <1>23 DEF PerformFails, GiveUp, Goto, Plans
<1>24. CASE Mark(r)
  <2>1. \/ held'[r].task \in Names /\ pc'[r] = "read"
        \/ pc'[r] \in {"start", "dead", "refused"}
    BY <1>2, <1>3, <1>24, NumberedIds DEF Mark, Hold, Goto, GiveUp, Fields
  <2> QED BY <2>1 DEF Plans
<1>25. CASE Crash(r)
  BY <1>2, <1>3, <1>25 DEF Crash, Goto, Plans
<1>26. CASE RunAgain(r)
  BY <1>2, <1>3, <1>26 DEF RunAgain, Goto, Plans
<1> QED
  BY <1>9, <1>10, <1>12, <1>13, <1>14, <1>17, <1>18, <1>19, <1>20, <1>21,
     <1>22, <1>23, <1>24, <1>25, <1>26 DEF Changing, Deploying

(* The others do not take the row away from under it.                      *)
LEMMA WritesNext ==
  ASSUME ScriptsInv, Next
  PROVE  WritesInv'
<1>1. TypeInv /\ RowsInv /\ TurnsInv /\ WritesInv /\ case' = case
  BY RowsStay DEF ScriptsInv, BaseInv
<1>2. ASSUME NEW w \in With(case, Writes) PROVE Plans(w)
  <2>1. w \in DOMAIN case.requests /\ w \in Requests /\ R(w).op \in Writes
    BY <1>1, RequestFits DEF With, TypeInv
  <2>2. ASSUME pc'[w] = pc[w], held'[w] = held[w], ~WriteStrategy(w)
        PROVE  Plans(w)
    <3>1. ASSUME pc[w] \in {"rows", "white", "unique", "write"},
                 NEW s \in strategies, Sees(w, s)
          PROVE  \E t \in strategies' : Same(s, t) /\ Sees(w, t)'
      <4>1. ~Ended(w) /\ MayStart(w)
        BY <1>1, <2>1, <3>1 DEF Ended, Over, TurnsInv
      <4> QED BY <2>2, <3>1, <4>1, SightStays
    <3>2. CASE pc[w] \in {"rows", "white", "unique", "write"}
      BY <1>1, <2>2, <3>1, <3>2 DEF Plans, WritesInv, Same
    <3>3. CASE pc[w] \notin {"rows", "white", "unique", "write"}
      BY <1>1, <2>2, <3>3 DEF Plans, WritesInv
    <3> QED BY <3>2, <3>3
  <2>3. ASSUME Acting(w), Moved(w) PROVE Plans(w)
    <3>1. R(w).op \notin Readers \cup Adds
      BY <2>1 DEF Readers, Adds, Writes, Updates, ShardScripts
    <3>2. Changing(w) \/ Deploying(w)
      BY <2>1, <2>3, <3>1, Ops DEF Acting
    <3> QED BY <2>3, <3>2, WriterPlans
  <2>4. WriteStrategy(w) => Acting(w) /\ Moved(w)
    BY <1>1, <2>1, ActsMove DEF Acting, Changing
  <2>5. \/ pc'[w] = pc[w] /\ held'[w] = held[w]
        \/ Acting(w) /\ Moved(w)
    BY <1>1, <2>1, Steps DEF Moved
  <2> QED BY <2>2, <2>3, <2>4, <2>5
<1>3. With(case, Writes)' = With(case, Writes) /\ \A w : R(w)' = R(w)
  BY <1>1 DEF With, R
<1> QED
  BY <1>2, <1>3 DEF WritesInv, Plans

(***************************************************************************)
(* Addresses stay.                                                         *)
(***************************************************************************)
LEMMA ScriptsInit ==
  ASSUME Init
  PROVE  ScriptsInv
<1>1. /\ case \in Cases /\ WellFormed(case) /\ OneRowEach(case)
      /\ strategies = case.strategies /\ links = case.links
  BY CaseFits DEF Init
<1>2. /\ pc = [r \in Requests |->
                 IF r \in DOMAIN case.requests THEN "start" ELSE "done"]
      /\ held = [r \in Requests |-> Nothing]
      /\ pending = [r \in Requests |-> {}]
      /\ assoc = [c \in Clients |-> {}]
      /\ local = [p \in Requests |-> [i \in Ids |-> {}]]
      /\ tasks = case.tasks
  BY DEF Init
<1>3. \A r \in DOMAIN case.requests :
        /\ r \in Requests /\ R(r) = case.requests[r] /\ pc[r] = "start"
        /\ R(r).proc \in Requests
  BY <1>1, <1>2, RequestFits
<1>4. \A r \in Requests :
        R(r).op # "none" => r \in DOMAIN case.requests
  BY DEF R
<1>5. TypeInv
  BY <1>1, <1>2 DEF TypeInv, Nothing, Fields
<1>6. RowsInv
  BY <1>1 DEF RowsInv, WellFormed, OneRowEach
<1>7. TurnsInv
  BY <1>3 DEF TurnsInv
<1>8. AddInv
  BY <1>1, <1>3 DEF AddInv, OneRowEach, With, Place
<1>9. LinksInv
  <2>1. \A r \in Requests :
          R(r).op \in Readers => pc[r] = "start" /\ held[r].rows = {}
    BY <1>2, <1>3, <1>4 DEF Readers, Nothing
  <2> QED BY <1>1, <1>2, <2>1 DEF LinksInv, WellFormed
<1>10. MemoryInv
  BY <1>2 DEF MemoryInv
<1>11. FreshInv
  <2>1. \A s \in strategies : s.id \in Ids
    BY <1>6 DEF RowsInv, RowType
  <2> QED BY <1>2, <1>3, <2>1 DEF FreshInv, With
<1>12. WritesInv
  BY <1>3 DEF WritesInv, With
<1> QED
  BY <1>5, <1>6, <1>7, <1>8, <1>9, <1>10, <1>11, <1>12 DEF ScriptsInv, BaseInv

(* All that is said of rows, links and memories is inductive.              *)
LEMMA ScriptsNext ==
  ASSUME ScriptsInv, [Next]_vars
  PROVE  ScriptsInv'
<1>1. CASE Next
  <2>1. TypeInv' /\ TurnsInv'
    BY <1>1, TypeNext, TurnsNext DEF ScriptsInv, BaseInv
  <2>2. RowsInv' /\ AddInv' /\ LinksInv' /\ MemoryInv' /\ FreshInv' /\ WritesInv'
    BY <1>1, RowsNext, AddNext, LinksNext, MemoryNext, FreshNext, WritesNext
  <2> QED BY <2>1, <2>2 DEF ScriptsInv, BaseInv
<1>2. CASE UNCHANGED vars
  <2>1. TypeInv' /\ TurnsInv' /\ RowsInv'
    BY <1>2 DEF ScriptsInv, BaseInv, vars, db, TypeInv, TurnsInv, RowsInv,
       MayStart, Ended, R
  <2>2. AddInv' /\ LinksInv'
    BY <1>2 DEF ScriptsInv, BaseInv, vars, db, AddInv, LinksInv, R, PartOf,
       Before, StrategiesOf
  <2>3. MemoryInv' /\ FreshInv'
    BY <1>2 DEF ScriptsInv, BaseInv, vars, db, MemoryInv, FreshInv, R,
       MayStart, Ended
  <2>4. WritesInv'
    BY <1>2 DEF ScriptsInv, BaseInv, vars, db, WritesInv, R, Sees, Gain
  <2> QED BY <2>1, <2>2, <2>3, <2>4 DEF ScriptsInv, BaseInv
<1> QED
  BY <1>1, <1>2

(* AddressesStay for all cases: whatever update writes the whole of a row  *)
(* from a copy in memory (updateStrategyId after getForKind), the address  *)
(* of a contract that is in the row is in the copy.                        *)
THEOREM AddressesKept == Spec => AddressesStay
<1> DEFINE Kept == \A s \in strategies : \E t \in strategies' :
                     t.id = s.id /\ s.params.addr \subseteq t.params.addr
<1>1. Init => ScriptsInv
  BY ScriptsInit
<1>2. ScriptsInv /\ [Next]_vars => ScriptsInv'
  BY ScriptsNext
<1>3. ScriptsInv /\ [Next]_vars => [Kept]_vars
  BY RowsStay DEF Same
<1> QED
  BY <1>1, <1>2, <1>3, PTL DEF Spec, AddressesStay

(***************************************************************************)
(* The status file is true.                                                *)
(***************************************************************************)
(* What deployments write to is one row; an address that is there stays.   *)
LEMMA HasStays ==
  ASSUME ScriptsInv, Next, NEW r, NEW addr, Has(r, addr)
  PROVE  Has(r, addr)'
<1>1. PICK s \in strategies :
        IsAt(s, Place(case, r)) /\ addr \subseteq s.params.addr
  BY DEF Has
<1>2. PICK t \in strategies' : Same(s, t) /\ s.params.addr \subseteq t.params.addr
  BY <1>1, RowsStay
<1>3. Place(case, r)' = Place(case, r)
  BY RowsStay DEF Place
<1> QED
  BY <1>1, <1>2, <1>3 DEF Has, IsAt, Same

(* Of a deployment that moves; its row may be written in the step.         *)
Deployed(r) ==
  /\ pc'[r] \in {"hash", "perform"} => held'[r].task \in Range(case.order)
  /\ held'[r].task = "ST_PRIME_UUID" => Has(r, {"ST_PRIME"})
  /\ pc'[r] \in {"read", "rows", "white", "unique", "write"} =>
       held'[r].task \in WithAddress \cup {"ST_PRIME_UUID"}
  /\ pc'[r] = "mark" /\ held'[r].task \in WithAddress \cup {"ST_PRIME_UUID"}
       => \/ Has(r, {AddressOf(held'[r].task)})
          \/ Has(r, {AddressOf(held[r].task)})'

(* A deployment marks a step only after the address has been recorded.     *)
LEMMA DeploymentMoves ==
  ASSUME ScriptsInv, DeployInv, Next, NEW r \in With(case, {"deploy"}),
         Changing(r) \/ Deploying(r)
  PROVE  Deployed(r)
<1>1. TypeInv /\ RowsInv /\ WritesInv /\ case' = case
  BY RowsStay DEF ScriptsInv, BaseInv
<1>2. /\ r \in DOMAIN case.requests /\ r \in Requests /\ R(r).op = "deploy"
  BY <1>1, RequestFits DEF With, TypeInv
<1>3. DOMAIN pc = Requests /\ DOMAIN held = Requests /\ DOMAIN held[r] = Fields
  BY <1>1, <1>2 DEF TypeInv
<1>4. /\ pc[r] \in {"hash", "perform"} => held[r].task \in Range(case.order)
      /\ held[r].task = "ST_PRIME_UUID" => Has(r, {"ST_PRIME"})
      /\ pc[r] \in {"read", "rows", "white", "unique", "write"} =>
           held[r].task \in WithAddress \cup {"ST_PRIME_UUID"}
      /\ pc[r] = "mark" /\ held[r].task \in WithAddress \cup {"ST_PRIME_UUID"}
           => Has(r, {AddressOf(held[r].task)})
  BY DEF DeployInv
<1>5. "ST_PRIME_UUID" \notin Range(case.order)
  BY <1>1, CaseFits DEF TypeInv, OneStatusFile
<1>6. ASSUME held'[r].task = held[r].task,
             pc'[r] \in {"start", "done", "dead", "refused"}
      PROVE  Deployed(r)
  BY <1>4, <1>6 DEF Deployed
<1>7. ASSUME held'[r].task = held[r].task,
             pc[r] \in {"read", "rows", "white", "unique", "write"},
             pc'[r] \in {"rows", "white", "unique", "write"}
      PROVE  Deployed(r)
  BY <1>4, <1>7 DEF Deployed
<1>8. CASE ReadStrategy(r)
  <2>1. pc[r] = "read" /\ pc'[r] \in {"dead", "rows"}
        /\ held'[r].task = held[r].task
    BY <1>2, <1>3, <1>8 DEF ReadStrategy, GiveUp, Goto, Hold, Fields
  <2> QED BY <1>6, <1>7, <2>1
<1>9. CASE ReadRow(r)
  <2>1. pc[r] = "rows" /\ pc'[r] \in {"dead", "white"}
        /\ held'[r].task = held[r].task
    <3>1. pc[r] = "rows" /\ (GiveUp(r) \/ Goto(r, "white"))
      BY <1>9 DEF ReadRow
    <3>2. pc'[r] \in {"dead", "white"}
      BY <1>2, <1>3, <3>1 DEF GiveUp, Goto
    <3>3. \/ UNCHANGED held
          \/ \E id, active :
               held' = [held EXCEPT ![r].id = id, ![r].active = active]
      BY <1>9 DEF ReadRow
    <3>4. held'[r].task = held[r].task
      BY <1>2, <1>3, <3>3 DEF Fields
    <3> QED BY <3>1, <3>2, <3>4
  <2> QED BY <1>6, <1>7, <2>1
<1>10. CASE CheckWhiteList(r)
  <2>1. pc[r] = "white" /\ pc'[r] \in {"dead", "unique"}
        /\ held'[r].task = held[r].task
    BY <1>2, <1>3, <1>10 DEF CheckWhiteList, GiveUp, Goto
  <2> QED BY <1>6, <1>7, <2>1
<1>11. CASE CheckUnique(r)
  <2>1. pc[r] = "unique" /\ pc'[r] \in {"dead", "write"}
        /\ held'[r].task = held[r].task
    BY <1>2, <1>3, <1>11 DEF CheckUnique, GiveUp, Goto
  <2> QED BY <1>6, <1>7, <2>1
<1>12. CASE WriteStrategy(r)
  <2>1. pc[r] = "write" /\ Written(r) /\ pc'[r] = "mark"
        /\ held'[r].task = held[r].task
    BY <1>2, <1>3, <1>12 DEF WriteStrategy, Goto, Hold, Fields
  <2>2. r \in With(case, Writes)
    BY DEF With, Writes, Updates
  <2>3. PICK s \in strategies : s.id = held[r].id
    BY <1>1, <2>1, <2>2 DEF WritesInv
  <2>4. PICK f : /\ Changes(f) /\ IsAt(s, Place(case, r))
                 /\ f[s].params.addr = s.params.addr \cup Gain(r)
    BY <1>1, <2>1, <2>2, <2>3, RowWritten
  <2>5. f[s] \in strategies' /\ Same(s, f[s])
    BY <2>4 DEF Changes
  <2>6. Gain(r) = {AddressOf(held[r].task)}
    BY <1>2 DEF Gain
  <2>7. Place(case, r)' = Place(case, r)
    BY <1>1 DEF Place
  <2>8. AddressOf(held[r].task)' = AddressOf(held[r].task)
    BY <2>1 DEF AddressOf
  <2>9. Has(r, {AddressOf(held[r].task)})'
    BY <2>4, <2>5, <2>6, <2>7, <2>8 DEF Has, IsAt, Same
  <2> QED BY <1>4, <2>1, <2>9 DEF Deployed
<1>13. CASE NextTask(r)
  <2>1. CASE pc' = [pc EXCEPT ![r] = "done"] /\ held' = held
    BY <1>2, <1>3, <1>6, <2>1
  <2>2. ASSUME NEW n \in DOMAIN case.order,
               held' = [held EXCEPT ![r].task = case.order[n]],
               pc' = [pc EXCEPT ![r] = "hash"]
        PROVE  Deployed(r)
    <3>1. held'[r].task \in Range(case.order) /\ pc'[r] = "hash"
      BY <1>2, <1>3, <2>2 DEF Range, Fields
    <3> QED BY <1>5, <3>1 DEF Deployed
  <2> QED BY <1>13, <2>1, <2>2 DEF NextTask, Goto, Hold
<1>14. CASE ReadHash(r)
  <2>1. pc[r] = "hash" /\ pc'[r] \in {"dead", "perform"}
        /\ held'[r].task = held[r].task
    BY <1>2, <1>3, <1>14 DEF ReadHash, GiveUp, Goto
  <2> QED BY <1>4, <2>1 DEF Deployed
<1>15. CASE Perform(r)
  <2>1. /\ pc[r] = "perform" /\ held'[r].task = held[r].task
        /\ \/ pc'[r] = "read" /\ held[r].task \in WithAddress
           \/ pc'[r] = "mark" /\ held[r].task \notin WithAddress
    BY <1>2, <1>3, <1>15 DEF Perform, Goto
  <2> QED BY <1>4, <1>5, <2>1 DEF Deployed
<1>16. CASE PerformFails(r)
  <2>1. pc'[r] = "dead" /\ held'[r].task = held[r].task
    BY <1>2, <1>3, <1>16 DEF PerformFails, GiveUp, Goto
  <2> QED BY <1>6, <2>1
<1>17. CASE Mark(r)
  <2>1. CASE held[r].task = "ST_PRIME"
    <3>1. held'[r].task = "ST_PRIME_UUID" /\ pc'[r] = "read" /\ pc[r] = "mark"
      BY <1>2, <1>3, <1>17, <2>1 DEF Mark, Hold, Goto, At, Fields
    <3>2. Has(r, {"ST_PRIME"})
      BY <1>4, <2>1, <3>1 DEF WithAddress, AddressOf
    <3> QED BY <3>1, <3>2 DEF Deployed
  <2>2. CASE held[r].task # "ST_PRIME"
    <3>1. \/ Goto(r, "start") /\ UNCHANGED held
          \/ GiveUp(r) /\ UNCHANGED held
      <4>1. CASE held[r].recorded
        BY <1>17, <2>2, <4>1 DEF Mark
      <4>2. CASE ~held[r].recorded
        BY <1>17, <2>2, <4>2 DEF Mark
      <4> QED BY <4>1, <4>2
    <3>2. held' = held /\ pc'[r] \in {"start", "dead"}
      BY <1>2, <1>3, <3>1 DEF Goto, GiveUp
    <3> QED BY <1>6, <3>2
  <2> QED BY <2>1, <2>2
<1>18. CASE Crash(r)
  <2>1. pc'[r] = "dead" /\ held'[r].task = held[r].task
    BY <1>2, <1>3, <1>18 DEF Crash, Goto
  <2> QED BY <1>6, <2>1
<1>19. CASE RunAgain(r)
  <2>1. pc'[r] = "start" /\ held'[r].task = "none"
    BY <1>2, <1>3, <1>19 DEF RunAgain, Goto, Nothing
  <2> QED BY <2>1 DEF Deployed
<1> QED
  BY <1>2, <1>8, <1>9, <1>10, <1>11, <1>12, <1>13, <1>14, <1>15, <1>16, <1>17,
     <1>18, <1>19
  DEF Changing, Deploying, At, PopulateShardNames, CreateShard, BeginStep

(* Only a deployment marks a task, and only when its address is there.     *)
LEMMA TasksMarked ==
  ASSUME ScriptsInv, DeployInv, Next
  PROVE  \/ UNCHANGED tasks
         \/ \E r \in With(case, {"deploy"}) : \E task :
              /\ tasks' = [tasks EXCEPT ![task] = "SUCCESS"]
              /\ task \in WithAddress => Has(r, Recorded(task))
<1>1. TypeInv /\ RowsInv /\ WritesInv
  BY DEF ScriptsInv, BaseInv
<1>2. ASSUME NEW r \in Requests, Mark(r), tasks' # tasks
      PROVE  \E q \in With(case, {"deploy"}) : \E task :
              /\ tasks' = [tasks EXCEPT ![task] = "SUCCESS"]
              /\ task \in WithAddress => Has(q, Recorded(task))
  <2>1. /\ R(r).op = "deploy" /\ pc[r] = "mark" /\ held[r].task # "ST_PRIME"
        /\ tasks' = [tasks EXCEPT
             ![IF held[r].task = "ST_PRIME_UUID" THEN "ST_PRIME"
                                                 ELSE held[r].task] = "SUCCESS"]
    BY <1>2 DEF Mark, At
  <2>2. r \in With(case, {"deploy"}) /\ r \in With(case, Writes)
    BY <2>1 DEF R, With, Writes, Updates
  <2>4. /\ held[r].task = "ST_PRIME_UUID" => Has(r, {"ST_PRIME"})
        /\ held[r].task \in WithAddress \cup {"ST_PRIME_UUID"}
             => Has(r, {AddressOf(held[r].task)})
    BY <2>1, <2>2 DEF DeployInv
  <2>5. CASE held[r].task = "ST_PRIME_UUID"
    <3>1. PICK s \in strategies :
            IsAt(s, Place(case, r)) /\ {"ST_PRIME"} \subseteq s.params.addr
      BY <2>4, <2>5 DEF Has
    <3>2. PICK t \in strategies :
            IsAt(t, Place(case, r)) /\ {"UUID"} \subseteq t.params.addr
      BY <2>4, <2>5 DEF Has, AddressOf
    <3>3. s = t
      BY <1>1, <3>1, <3>2 DEF IsAt, RowsInv
    <3>4. Has(r, Recorded("ST_PRIME"))
      BY <3>1, <3>2, <3>3 DEF Has, Recorded
    <3>5. tasks' = [tasks EXCEPT !["ST_PRIME"] = "SUCCESS"]
      BY <2>1, <2>5
    <3> QED BY <2>2, <3>4, <3>5
  <2>6. CASE held[r].task # "ST_PRIME_UUID"
    <3>1. tasks' = [tasks EXCEPT ![held[r].task] = "SUCCESS"]
      BY <2>1, <2>6
    <3>2. held[r].task \in WithAddress => Has(r, Recorded(held[r].task))
      BY <2>1, <2>4, <2>6 DEF AddressOf, Recorded
    <3> QED BY <2>2, <3>1, <3>2
  <2> QED BY <2>5, <2>6
<1>3. ASSUME NEW r \in Requests, Acting(r), ~Mark(r) PROVE UNCHANGED tasks
  <2>1. Reading(r) => UNCHANGED tasks
    BY DEF Reading, AskLinks, ReadLinks, ServeStrategies, ServeKind,
       ReadKinds, ChooseGroup, ChooseStrategy, InsertLinks
  <2>2. Adding(r) => UNCHANGED tasks
    BY DEF Adding, CheckKind, PopulateKind, SeedKind, CheckSha, CreateStrategy
  <2>3. Switching(r) => UNCHANGED tasks
    BY DEF Switching, Associate, Activate, ActivateByStrategyId, CheckUnused,
       Deactivate
  <2>4. Changing(r) => UNCHANGED tasks
    BY DEF Changing, ReadStrategy, ReadRow, CheckWhiteList, CheckUnique,
       WriteStrategy, PopulateShardNames, CreateShard, WithShards
  <2>5. Deploying(r) => UNCHANGED tasks
    BY <1>3 DEF Deploying, NextTask, BeginStep, ReadHash, Perform,
       PerformFails, Crash, RunAgain
  <2> QED BY <1>3, <2>1, <2>2, <2>3, <2>4, <2>5 DEF Acting
<1>4. Elsewhere => UNCHANGED tasks
  BY DEF Elsewhere, Lands, MemoryExpires, LinksExpire
<1> QED
  BY <1>2, <1>3, <1>4, Acts

(* The others do not mark its steps, nor take addresses away.              *)
LEMMA DeployNext ==
  ASSUME ScriptsInv, DeployInv, Next
  PROVE  DeployInv'
<1>1. TypeInv /\ RowsInv /\ case' = case
  BY RowsStay DEF ScriptsInv, BaseInv
<1>2. \A r, addr : Has(r, addr) => Has(r, addr)'
  BY HasStays
<1>3. ASSUME NEW r \in With(case, {"deploy"}) PROVE Deployed(r)
  <2>1. r \in DOMAIN case.requests /\ r \in Requests /\ R(r).op = "deploy"
    BY <1>1, RequestFits DEF With, TypeInv
  <2>2. CASE pc'[r] = pc[r] /\ held'[r] = held[r]
    BY <2>2 DEF DeployInv, Deployed
  <2>3. ASSUME Acting(r) PROVE Deployed(r)
    <3>1. R(r).op \notin Readers \cup Adds /\ R(r).op \in Writes
      BY <2>1 DEF Readers, Adds, Writes, Updates
    <3>2. Changing(r) \/ Deploying(r)
      BY <2>1, <2>3, <3>1, Ops DEF Acting
    <3> QED BY <3>2, DeploymentMoves
  <2> QED BY <1>1, <2>1, <2>2, <2>3, Steps DEF Moved
<1>4. \A r, q \in With(case, {"deploy"}) : Place(case, r) = Place(case, q)
  BY <1>1, CaseFits DEF TypeInv, OneStatusFile
<1>5. ASSUME NEW r \in With(case, {"deploy"}),
             NEW t \in WithAddress \cap DOMAIN tasks, tasks'[t] = "SUCCESS"
      PROVE  Has(r, Recorded(t))
  <2>1. CASE tasks[t] = "SUCCESS"
    BY <2>1 DEF DeployInv
  <2>2. ASSUME NEW q \in With(case, {"deploy"}), NEW task,
               tasks' = [tasks EXCEPT ![task] = "SUCCESS"],
               task \in WithAddress => Has(q, Recorded(task))
        PROVE  Has(r, Recorded(t))
    <3>1. CASE t = task
      BY <1>4, <2>2, <3>1 DEF Has
    <3>2. CASE t # task
      BY <1>5, <2>1, <2>2, <3>2
    <3> QED BY <3>1, <3>2
  <2>3. CASE UNCHANGED tasks
    BY <1>5, <2>1, <2>3
  <2> QED BY <2>2, <2>3, TasksMarked
<1>6. DOMAIN tasks' = DOMAIN tasks
  BY <1>1, DomainsKept DEF Domains, TypeInv
<1>7. With(case, {"deploy"})' = With(case, {"deploy"})
  BY <1>1 DEF With
<1>8. ASSUME NEW r \in With(case, {"deploy"})
      PROVE  /\ pc'[r] \in {"hash", "perform"} =>
                  held'[r].task \in Range(case.order)
             /\ held'[r].task = "ST_PRIME_UUID" => Has(r, {"ST_PRIME"})'
             /\ pc'[r] \in {"read", "rows", "white", "unique", "write"} =>
                  held'[r].task \in WithAddress \cup {"ST_PRIME_UUID"}
             /\ pc'[r] = "mark" /\
                  held'[r].task \in WithAddress \cup {"ST_PRIME_UUID"}
                  => Has(r, {AddressOf(held[r].task)})'
  <2>1. Deployed(r)
    BY <1>3
  <2>2. Has(r, {AddressOf(held'[r].task)}) =>
          Has(r, {AddressOf(held[r].task)})'
    <3>1. PICK addr : addr = {AddressOf(held'[r].task)}
      OBVIOUS
    <3>2. Has(r, addr) => Has(r, addr)'
      BY <1>2
    <3>3. {AddressOf(held[r].task)}' = addr
      BY <3>1 DEF AddressOf
    <3> QED BY <3>1, <3>2, <3>3 DEF Has
  <2> QED BY <1>2, <2>1, <2>2 DEF Deployed
<1>9. \A r \in With(case, {"deploy"}) :
        \A t \in WithAddress \cap DOMAIN tasks :
          tasks'[t] = "SUCCESS" => Has(r, Recorded(t))'
  <2>1. ASSUME NEW t PROVE Recorded(t)' = Recorded(t)
    BY DEF Recorded
  <2> QED BY <1>2, <1>5
<1> QED
  BY <1>1, <1>6, <1>7, <1>8, <1>9 DEF DeployInv

(* SuccessIsRecorded for all cases: a deployment marks a task in its       *)
(* status file only after updateStrategyId has written the address, and    *)
(* nothing that comes later takes the address away.                        *)
THEOREM StatusIsTrue == Spec => []SuccessIsRecorded
<1>1. Init => ScriptsInv /\ DeployInv
  <2> SUFFICES ASSUME Init PROVE DeployInv
    BY ScriptsInit
  <2>1. TypeInv /\ case \in Cases /\ tasks = case.tasks
        /\ strategies = case.strategies
    BY ScriptsInit DEF ScriptsInv, BaseInv, Init
  <2>2. \A r \in With(case, {"deploy"}) :
          pc[r] = "start" /\ held[r].task = "none"
    BY <2>1, RequestFits DEF Init, With, Nothing
  <2>3. \A r \in With(case, {"deploy"}) :
          \A t \in WithAddress \cap DOMAIN tasks :
            tasks[t] = "SUCCESS" => Has(r, Recorded(t))
    BY <2>1, CaseFits DEF OneStatusFile, Has
  <2> QED BY <2>2, <2>3 DEF DeployInv
<1>2. ScriptsInv /\ DeployInv /\ [Next]_vars => (ScriptsInv /\ DeployInv)'
  <2>1. DeployInv /\ UNCHANGED vars => DeployInv'
    BY DEF vars, db, DeployInv, Has
  <2> QED BY <2>1, ScriptsNext, DeployNext
<1>3. ScriptsInv /\ DeployInv => SuccessIsRecorded
  <2> SUFFICES ASSUME ScriptsInv, DeployInv,
                      NEW r \in DOMAIN case.requests, R(r).op = "deploy",
                      NEW task \in WithAddress \cap DOMAIN tasks,
                      tasks[task] = "SUCCESS"
               PROVE  \E s \in RowsOf(R(r).kind, R(r).group) :
                        Recorded(task) \subseteq s.params.addr
    BY DEF SuccessIsRecorded
  <2>1. R(r) = case.requests[r] /\ r \in With(case, {"deploy"})
    BY RequestFits DEF ScriptsInv, BaseInv, TypeInv, With
  <2>2. Place(case, r) = <<R(r).kind, GroupIn(R(r).kind, R(r).group)>>
    BY <2>1 DEF Place, ShardScripts
  <2>3. Has(r, Recorded(task))
    BY <2>1 DEF DeployInv
  <2> QED BY <2>2, <2>3 DEF Has, RowsOf, IsAt
<1> QED
  BY <1>1, <1>2, <1>3, PTL DEF Spec

(***************************************************************************)
(* Groups that are active.                                                 *)
(***************************************************************************)
(* Only a script that deactivates a group ends what is active; where       *)
(* groups stay nothing is activated either.                                *)
LEMMA ActivesMove ==
  ASSUME ScriptsInv, Next
  PROVE  /\ \A s \in strategies :
              s.active /\ (\A r \in With(case, {"deactivate"}) :
                             case.requests[r].group # s.group)
              => \E t \in strategies' : Same(s, t) /\ t.active
         /\ GroupsStay(case) =>
              \A t \in strategies' :
                t.active => \E s \in strategies : Same(s, t) /\ s.active
<1> DEFINE Kept ==
             /\ \A s \in strategies :
                  s.active /\ (\A r \in With(case, {"deactivate"}) :
                                 case.requests[r].group # s.group)
                  => \E t \in strategies' : Same(s, t) /\ t.active
             /\ GroupsStay(case) =>
                  \A t \in strategies' :
                    t.active => \E s \in strategies : Same(s, t) /\ s.active
<1>1. TypeInv /\ RowsInv /\ WritesInv /\ AddInv
  BY DEF ScriptsInv, BaseInv
<1>2. ASSUME UNCHANGED strategies PROVE Kept
  BY <1>2 DEF Same
<1>3. ASSUME NEW f, Changes(f), \A s \in strategies : f[s].active = s.active
      PROVE  Kept
  BY <1>3 DEF Changes
<1>4. ASSUME NEW r \in Requests, R(r).op # "none"
      PROVE  r \in DOMAIN case.requests /\ R(r) = case.requests[r]
  BY <1>4 DEF R
<1>5. ASSUME NEW rows, SetActive(rows, TRUE), ~GroupsStay(case) PROVE Kept
  <2>1. PICK on \in BOOLEAN : on = TRUE
    OBVIOUS
  <2>2. PICK f : /\ Changes(f)
                 /\ \A s \in strategies :
                      f[s].active = IF s \in rows THEN on ELSE s.active
    <3>1. SetActive(rows, on)
      BY <1>5, <2>1
    <3> QED BY <1>1, <3>1, RowsActivated
  <2> QED BY <1>5, <2>1, <2>2 DEF Changes
<1>6. ASSUME NEW r \in Requests, Deactivate(r) PROVE Kept
  <2> DEFINE rows == {s \in strategies : s.group = R(r).group}
  <2>1. r \in With(case, {"deactivate"}) /\ R(r) = case.requests[r]
    BY <1>4, <1>6 DEF Deactivate, At, With
  <2>2. SetActive(rows, FALSE)
    BY <1>6 DEF Deactivate
  <2>3. PICK off \in BOOLEAN : off = FALSE
    OBVIOUS
  <2>4. PICK f : /\ Changes(f)
                 /\ \A s \in strategies :
                      f[s].active = IF s \in rows THEN off ELSE s.active
    <3>1. SetActive(rows, off)
      BY <2>2, <2>3
    <3> HIDE DEF rows
    <3> QED BY <1>1, <3>1, RowsActivated
  <2>5. ~GroupsStay(case)
    BY <2>1 DEF GroupsStay, With
  <2> QED BY <2>1, <2>3, <2>4, <2>5 DEF Changes
<1>7. ASSUME NEW r \in Requests, Activate(r) \/ ActivateByStrategyId(r)
      PROVE  Kept
  <2>1. ~GroupsStay(case)
    BY <1>4, <1>7
       DEF Activate, ActivateByStrategyId, At, GroupsStay, With
  <2>2. \E rows : SetActive(rows, TRUE)
    BY <1>7 DEF Activate, ActivateByStrategyId
  <2> QED BY <1>5, <2>1, <2>2
<1>8. ASSUME NEW r \in Requests, WriteStrategy(r) PROVE Kept
  <2>1. r \in With(case, Writes) /\ pc[r] = "write" /\ Written(r)
    BY <1>8 DEF WriteStrategy, Writes, Updates, ShardScripts, With, R
  <2>2. PICK f : Changes(f) /\ \A s \in strategies : f[s].active = s.active
    BY <1>1, <2>1, RowWritten
  <2> QED BY <1>3, <2>2
<1>9. ASSUME NEW r \in Requests, CreateStrategy(r) PROVE Kept
  <2>1. r \in With(case, Adds)
    BY <1>9 DEF CreateStrategy, Adds, With, R
  <2>2. PICK t : strategies' = strategies \cup {t} /\ ~t.active
    BY <1>1, <1>9, <2>1, RowCreated
  <2> QED BY <2>2 DEF Same
<1> HIDE DEF Kept
<1>10. ASSUME NEW r \in Requests, Reading(r) PROVE Kept
  BY <1>2, <1>10 DEF Reading, db, AskLinks, ReadLinks, ServeStrategies,
     ServeKind, ReadKinds, ChooseGroup, ChooseStrategy, InsertLinks
<1>11. ASSUME NEW r \in Requests, Adding(r) PROVE Kept
  BY <1>2, <1>9, <1>11 DEF Adding, db, CheckKind, PopulateKind, SeedKind,
     CheckSha
<1>12. ASSUME NEW r \in Requests, Switching(r) PROVE Kept
  BY <1>2, <1>6, <1>7, <1>12 DEF Switching, db, Associate, CheckUnused
<1>13. ASSUME NEW r \in Requests, Changing(r) PROVE Kept
  BY <1>2, <1>8, <1>13 DEF Changing, db, ReadStrategy, ReadRow,
     CheckWhiteList, CheckUnique, PopulateShardNames, CreateShard, WithShards
<1>14. ASSUME NEW r \in Requests, Deploying(r) PROVE Kept
  BY <1>2, <1>14 DEF Deploying, db, NextTask, BeginStep, ReadHash, Perform,
     PerformFails, Mark, Crash, RunAgain
<1>15. Elsewhere => Kept
  BY <1>2 DEF Elsewhere, db, Lands, MemoryExpires, LinksExpire
<1>16. Kept
  BY <1>10, <1>11, <1>12, <1>13, <1>14, <1>15, Acts DEF Acting
<1> QED
  BY <1>16 DEF Kept

(* There stays an active row without, and one with a group.                *)
LEMMA ActiveNext ==
  ASSUME ScriptsInv, ActiveInv, Next
  PROVE  ActiveInv'
<1>1. case' = case
  BY RowsStay
<1>2. PICK s \in strategies : s.active /\ s.group # Null /\
        \A r \in With(case, {"deactivate"}) :
          case.requests[r].group \notin {Null, s.group}
  BY DEF ActiveInv
<1>3. PICK z \in strategies : z.active /\ z.group = Null
  BY DEF ActiveInv
<1>4. \E t \in strategies' : Same(s, t) /\ t.active
  BY <1>2, ActivesMove
<1>5. \E t \in strategies' : Same(z, t) /\ t.active
  BY <1>2, <1>3, ActivesMove
<1>6. With(case, {"deactivate"})' = With(case, {"deactivate"})
  BY <1>1 DEF With
<1> QED
  BY <1>1, <1>2, <1>3, <1>4, <1>5, <1>6 DEF ActiveInv, Same

OnNow == {s.group : s \in {t \in strategies : t.active}}
LEMMA SteadyNext ==
  ASSUME ScriptsInv, SteadyInv, Next
  PROVE  SteadyInv' /\ (GroupsStay(case) => ActiveGroups' = ActiveGroups)
<1>1. case' = case
  BY RowsStay
<1>2. GroupsStay(case)' = GroupsStay(case) /\ FirstActive' = FirstActive
  BY <1>1 DEF GroupsStay, With, FirstActive
<1>3. ASSUME GroupsStay(case) PROVE OnNow' = OnNow
  <2>1. With(case, {"deactivate"}) = {}
    BY <1>3 DEF GroupsStay, With
  <2>2. OnNow \subseteq OnNow'
    BY <2>1, ActivesMove DEF OnNow, Same
  <2>3. OnNow' \subseteq OnNow
    BY <1>3, ActivesMove DEF OnNow, Same
  <2> QED BY <2>2, <2>3
<1>4. SteadyInv'
  BY <1>2, <1>3 DEF SteadyInv, OnNow
<1>5. OnNow' = OnNow => ActiveGroups' = ActiveGroups
  BY DEF ActiveGroups, OnNow
<1> QED
  BY <1>3, <1>4, <1>5

(* There is a group to choose: one is active all the time.                 *)
LEMMA ActiveAre ==
  ASSUME RowsInv, ActiveInv, NEW c \in Clients
  PROVE  /\ ActiveGroups # {} /\ Null \notin ActiveGroups
         /\ PickFrom(ActiveGroups, c) # Null
<1> DEFINE on == {t \in strategies : t.active}
           f == [s \in on |-> s.group]
<1>1. Null \in OnNow /\ \E g \in OnNow : g # Null
  BY DEF ActiveInv, OnNow
<1>2. ActiveGroups = OnNow \ {Null}
  BY <1>1 DEF ActiveGroups, OnNow
<1>3. OnNow \subseteq Nat
  BY DEF RowsInv, RowType, OnNow
<1>4. IsFiniteSet(OnNow)
  <2>1. on \in SUBSET strategies /\ IsFiniteSet(strategies)
    BY DEF RowsInv
  <2>2. f \in Surjection(on, OnNow)
    BY DEF Surjection, OnNow
  <2> HIDE DEF on, f
  <2>3. IsFiniteSet(on)
    BY <2>1, FS_Subset
  <2> QED BY <2>2, <2>3, FS_Surjection
<1>5. IsFiniteSet(ActiveGroups)
  BY <1>2, <1>4, FS_RemoveElement
<1>6. PickFrom(ActiveGroups, c) \in ActiveGroups
  <2>1. c \in Nat /\ ActiveGroups \subseteq Nat /\ ActiveGroups # {}
    BY <1>1, <1>2, <1>3, StrategiesAssumption
  <2> QED BY <1>5, <2>1, PickIn
<1> QED
  BY <1>1, <1>2, <1>6

(***************************************************************************)
(* Assignments.                                                            *)
(***************************************************************************)
Stands(r) == pc'[r] = pc[r] /\ held'[r] = held[r]
Begins(r) == /\ pc[r] \in {"start", "source"} /\ pc'[r] = "ids"
             /\ \/ held'[r].ids \in assoc[R(r).client]
                \/ held'[r].ids = StrategiesOf(R(r).client)
Looks(r) == /\ pc[r] = "ids" /\ pc'[r] = "group"
            /\ held'[r].ids = held[r].ids
            /\ held'[r].missing = MissingKinds(held[r].ids)
            /\ held'[r].missing # {}
Settles(r) == /\ pc[r] = "group" /\ pc'[r] = "choose"
              /\ held'[r].ids = held[r].ids
              /\ held'[r].missing = held[r].missing
              /\ held'[r].rows = held[r].rows
              /\ held'[r].group = GroupFor(R(r).client, held[r].ids)
Picks(r) ==
  /\ pc[r] = "choose" /\ held'[r].ids = held[r].ids
  /\ held'[r].group = held[r].group
  /\ \E l, kind : \E s \in Candidates(kind, held[r].group) :
       /\ l.strategy = s.id /\ held'[r].rows = held[r].rows \cup {l}
       /\ held'[r].missing = held[r].missing \ {kind}
       /\ pc'[r] = IF held[r].missing = {kind} THEN "insert" ELSE "choose"
Leaves(r) == pc'[r] \in {"source"} \cup Over

(* An assignment stands, begins, looks, settles on a group, picks or       *)
(* leaves.                                                                 *)
LEMMA AssignmentMoves ==
  ASSUME TypeInv, RowsInv, Next, NEW r \in DOMAIN case.requests,
         R(r).op = "assign"
  PROVE  \/ Stands(r) \/ Begins(r) \/ Looks(r) \/ Settles(r)
         \/ Picks(r) \/ Leaves(r)
<1>1. r \in Requests
  BY RequestFits DEF TypeInv
<1>2. DOMAIN pc = Requests /\ DOMAIN held = Requests /\ DOMAIN held[r] = Fields
  BY <1>1 DEF TypeInv
<1>3. CASE AskLinks(r)
  <2>1. CASE assoc[R(r).client] # {}
    BY <1>1, <1>2, <1>3, <2>1 DEF AskLinks, Hold, Goto, Begins, Fields
  <2>2. CASE assoc[R(r).client] = {}
    BY <1>1, <1>2, <1>3, <2>2 DEF AskLinks, Goto, Leaves
  <2> QED BY <2>1, <2>2
<1>4. CASE ReadLinks(r)
  BY <1>1, <1>2, <1>4 DEF ReadLinks, Hold, Goto, Begins, Fields
<1>5. CASE ReadKinds(r)
  BY <1>1, <1>2, <1>5 DEF ReadKinds, At, Hold, Goto, Looks, Leaves, Over, Fields
<1>6. CASE ChooseGroup(r)
  BY <1>1, <1>2, <1>6 DEF ChooseGroup, At, Hold, Goto, Settles, Fields
<1>7. CASE ChooseStrategy(r)
  <2> DEFINE chosen == ChosenStrategy(r)
  <2>1. CASE chosen.refused
    BY <1>1, <1>2, <1>7, <2>1 DEF ChooseStrategy, Goto, Leaves, Over
  <2>2. CASE ~chosen.refused
    <3>1. PICK s \in Candidates(chosen.kind, held[r].group) :
            chosen.link.strategy = s.id
      BY <2>2, ChosenIsThere
    <3> HIDE DEF chosen
    <3>2. /\ pc[r] = "choose"
          /\ held' = [held EXCEPT ![r].missing = @ \ {chosen.kind},
                                  ![r].rows = @ \cup {chosen.link}]
          /\ pc' = [pc EXCEPT ![r] = IF held[r].missing = {chosen.kind}
                                       THEN "insert" ELSE "choose"]
      BY <1>7, <2>2 DEF ChooseStrategy, At, Goto, chosen
    <3>3. /\ held'[r].missing = held[r].missing \ {chosen.kind}
          /\ held'[r].rows = held[r].rows \cup {chosen.link}
          /\ held'[r].ids = held[r].ids /\ held'[r].group = held[r].group
          /\ pc'[r] = IF held[r].missing = {chosen.kind} THEN "insert"
                                                         ELSE "choose"
      BY <1>1, <1>2, <3>2 DEF Fields
    <3>4. PICK l, kind : l = chosen.link /\ kind = chosen.kind
      OBVIOUS
    <3>5. /\ s \in Candidates(kind, held[r].group)
          /\ l.strategy = s.id /\ held'[r].rows = held[r].rows \cup {l}
          /\ held'[r].missing = held[r].missing \ {kind}
          /\ pc'[r] = IF held[r].missing = {kind} THEN "insert" ELSE "choose"
      BY <3>1, <3>3, <3>4
    <3>6. \E m, k : \E t \in Candidates(k, held[r].group) :
            /\ m.strategy = t.id /\ held'[r].rows = held[r].rows \cup {m}
            /\ held'[r].missing = held[r].missing \ {k}
            /\ pc'[r] = IF held[r].missing = {k} THEN "insert" ELSE "choose"
      BY <3>5, Zenon
    <3> QED BY <3>2, <3>3, <3>6 DEF Picks
  <2> QED BY <2>1, <2>2
<1>8. CASE InsertLinks(r)
  BY <1>1, <1>2, <1>8 DEF InsertLinks, Goto, Leaves, Over
<1>9. ASSUME Acting(r)
      PROVE  \/ Stands(r) \/ Begins(r) \/ Looks(r) \/ Settles(r)
             \/ Picks(r) \/ Leaves(r)
  <2>1. R(r).op \notin Adds \cup Writes \cup {"deploy", "step"}
    BY DEF Adds, Writes, Updates, ShardScripts
  <2>2. Reading(r)
    BY <1>1, <1>9, <2>1, Ops DEF Acting, Readers
  <2>3. ~ServeStrategies(r) /\ ~ServeKind(r)
    BY DEF ServeStrategies, ServeKind, At
  <2> QED BY <1>3, <1>4, <1>5, <1>6, <1>7, <1>8, <2>2, <2>3 DEF Reading
<1> QED
  BY <1>1, <1>9, Steps DEF Moved, Stands

(* Where new strategies of a client come from.                             *)
LEMMA NewStrategies ==
  ASSUME ScriptsInv, Next, NEW c \in Clients, NEW i \in StrategiesOf(c)',
         i \notin StrategiesOf(c)
  PROVE  \/ \E r \in DOMAIN case.requests :
              /\ Assigning(r, {"insert"}) /\ InsertLinks(r) /\ R(r).client = c
              /\ \E l \in held[r].rows : i = l.strategy
         \/ /\ With(case, {"associate"}) # {}
            /\ \E s \in strategies :
                 s.id = i /\ (ClientsFit(case) => s.kind = "shared_rmq")
<1>1. PICK l \in links' : l.client = c /\ l.strategy = i
  BY DEF StrategiesOf, LinkedBy
<1>2. l \notin links
  BY <1>1 DEF StrategiesOf, LinkedBy
<1>3. TypeInv /\ RowsInv /\ LinksInv
  BY DEF ScriptsInv, BaseInv
<1>4. ASSUME NEW r \in DOMAIN case.requests, R(r).op = "assign",
             pc[r] = "insert", InsertLinks(r), l \in held[r].rows
      PROVE  Assigning(r, {"insert"}) /\ R(r).client = c
  <2>1. l.client = R(r).client
    BY <1>3, <1>4, RequestFits DEF LinksInv, Readers, TypeInv
  <2> QED BY <1>1, <1>4, <2>1 DEF Assigning
<1>5. ASSUME NEW r \in With(case, {"associate"}), NEW d \in Clients,
             l = Link(d, case.requests[r].id, <<>>)
      PROVE  \E s \in strategies :
               s.id = i /\ (ClientsFit(case) => s.kind = "shared_rmq")
  <2>1. i = case.requests[r].id
    BY <1>1, <1>5 DEF Link
  <2>2. PICK x \in case.strategies : x.id = i
    BY <1>3, <2>1, CaseFits DEF TypeInv, WellFormed, With
  <2>3. ClientsFit(case) => x.kind = "shared_rmq"
    BY <2>1, <2>2 DEF ClientsFit
  <2> QED BY <1>3, <2>2, <2>3 DEF RowsInv
<1> QED
  BY <1>1, <1>2, <1>4, <1>5, LinksGrow

(* Two assignments of a client that come one after another are never both  *)
(* under way.                                                              *)
Past == {"source", "ids", "group", "choose", "insert"}
LEMMA AlonePast ==
  ASSUME TypeInv, TurnsInv, NEW c, OneAtATime(case, c),
         NEW r \in DOMAIN case.requests, NEW q \in DOMAIN case.requests,
         R(r).client = c, R(q).client = c,
         Assigning(r, Past), Assigning(q, Past)
  PROVE  r = q
<1>1. /\ r \in Requests /\ q \in Requests
      /\ R(r) = case.requests[r] /\ R(q) = case.requests[q]
  BY RequestFits DEF TypeInv
<1>2. r \in With(case, {"assign"}) /\ q \in With(case, {"assign"})
  BY <1>1 DEF Assigning, With
<1>3. /\ ~Ended(r) /\ ~Ended(q) /\ MayStart(r) /\ MayStart(q)
  BY DEF Assigning, Past, Ended, Over, TurnsInv
<1>4. r # q => Follows(case, r, q) \/ Follows(case, q, r)
  BY <1>1, <1>2 DEF OneAtATime
<1> QED
  BY <1>1, <1>3, <1>4, FirstEnded

(* Every id of a client is of a row.                                       *)
LEMMA LinkedAreThere ==
  ASSUME LinksInv, NEW c, NEW i \in StrategiesOf(c)
  PROVE  IsThere(i)
BY DEF LinksInv, StrategiesOf, LinkedBy, IsThere

(* A strategy that is there has a kind, and a group if its kind has.       *)
LEMMA ThereIs ==
  ASSUME RowsInv, NEW i, IsThere(i)
  PROVE  /\ ById(i) \in strategies /\ ById(i).id = i
         /\ Kind(i) \in AllKinds
         /\ Grouped(Kind(i)) <=> GroupOf(i) # Null
BY ByIdIs DEF IsThere, RowsInv, RowType, Kind, GroupOf, AllKinds

(* The groups of a client being one, it has one strategy of each kind.     *)
LEMMA ChainIsOne ==
  ASSUME RowsInv, LinksInv, GroupInv
  PROVE  OneChain
<1> SUFFICES ASSUME NEW c \in Clients, NEW i \in StrategiesOf(c),
                    NEW j \in StrategiesOf(c)
             PROVE  /\ ById(i).kind = ById(j).kind => ById(i) = ById(j)
                    /\ ById(i).group # Null /\ ById(j).group # Null =>
                         ById(i).group = ById(j).group
  BY DEF OneChain
<1>1. IsThere(i) /\ IsThere(j)
  BY LinkedAreThere
<1>2. ById(i).group # Null /\ ById(j).group # Null =>
        ById(i).group = ById(j).group
  BY DEF GroupInv, GroupOf
<1>3. ASSUME ById(i).kind = ById(j).kind PROVE ById(i) = ById(j)
  <2>1. ById(i).group = ById(j).group
    BY <1>1, <1>2, <1>3, ThereIs DEF Kind, GroupOf
  <2> QED BY <1>1, <1>3, <2>1, ThereIs DEF RowsInv
<1> QED
  BY <1>2, <1>3

(***************************************************************************)
(* One group for a client.                                                 *)
(***************************************************************************)
GroupsInv == ActiveInv /\ SteadyInv /\ GroupInv /\ GivenInv /\ TiedInv

(* A client that has a group at first has a strategy with one.             *)
LEMMA GivenGroup ==
  ASSUME RowsInv, NEW c, HasGroup(case, c)
  PROVE  \E i \in Before(c) : IsThere(i) /\ GroupOf(i) # Null
<1>1. PICK s \in case.strategies : s.id \in Before(c) /\ s.group # Null
  BY DEF HasGroup, Before
<1>2. PICK t \in strategies : t.id = s.id /\ t.group = s.group
  BY <1>1 DEF RowsInv
<1>3. ById(s.id) = t
  BY <1>2, ByIdIs
<1> QED
  BY <1>1, <1>2, <1>3 DEF IsThere, GroupOf

(* The group an assignment settles on is that of all there is of the       *)
(* client, wherever it comes from.                                         *)
LEMMA GroupChosen ==
  ASSUME ScriptsInv, GroupsInv, NEW r \in DOMAIN case.requests,
         Assigning(r, {"group"}), NEW c, c = R(r).client,
         NEW g, g = GroupFor(c, held[r].ids)
  PROVE  /\ g # Null
         /\ \A i \in StrategiesOf(c) : GroupOf(i) \in {Null, g}
         /\ \A q \in Requests :
              Assigning(q, {"choose", "insert"}) /\ R(q).client = c =>
                held[q].group = g
         /\ GroupsStay(case) /\ ~HasGroup(case, c) =>
              g = PickFrom(ActiveGroups, c)
<1>1. /\ TypeInv /\ RowsInv /\ TurnsInv /\ LinksInv /\ ActiveInv /\ GroupInv
      /\ GivenInv /\ TiedInv
  BY DEF ScriptsInv, BaseInv, GroupsInv
<1>2. r \in Requests /\ c \in Clients
  BY <1>1, RequestFits DEF TypeInv, Assigning, Readers
<1>3. PartOf(held[r].ids, c)
  BY <1>1, <1>2 DEF LinksInv, Assigning, Readers, Over
<1> DEFINE own == {i \in held[r].ids : GroupOf(i) # Null}
<1>4. g = CASE own # {} -> GroupOf(Greatest(own))
            [] own = {} /\ ActiveGroups # {} -> PickFrom(ActiveGroups, c)
            [] OTHER -> Null
  BY DEF GroupFor, GroupOf
<1>5. own \subseteq StrategiesOf(c)
  BY <1>3 DEF PartOf
<1>6. CASE own # {}
  <2>1. \A i \in own : i \in Ids
    <3>1. \A i \in own : IsThere(i)
      BY <1>1, <1>5, LinkedAreThere
    <3> QED BY <1>1, <3>1 DEF IsThere, RowsInv, RowType
  <2>2. own \subseteq Nat /\ IsFiniteSet(own)
    <3> HIDE DEF own
    <3>1. own \in SUBSET Ids
      BY <2>1
    <3> QED BY <3>1, NumberedIds, FS_Subset
  <2>3. Greatest(own) \in own
    <3> HIDE DEF own
    <3> QED BY <1>6, <2>2, GreatestIn
  <2>4. PICK j \in StrategiesOf(c) : GroupOf(j) # Null /\ g = GroupOf(j)
    <3>1. g = GroupOf(Greatest(own))
      <4> HIDE DEF own
      <4> QED BY <1>4, <1>6
    <3> QED BY <1>5, <2>3, <3>1
  <2>5. \A i \in StrategiesOf(c) : GroupOf(i) \in {Null, g}
    BY <1>1, <1>2, <2>4 DEF GroupInv
  <2>6. ASSUME NEW q \in Requests, Assigning(q, {"choose", "insert"}),
               R(q).client = c
        PROVE  held[q].group = g
    BY <1>1, <2>4, <2>6 DEF GroupInv
  <2>7. GroupsStay(case) /\ ~HasGroup(case, c) =>
          g = PickFrom(ActiveGroups, c)
    BY <1>1, <1>2, <2>4 DEF GivenInv
  <2> QED BY <2>4, <2>5, <2>6, <2>7
<1>7. CASE own = {}
  <2>1. g = PickFrom(ActiveGroups, c) /\ g # Null
    <3>1. ActiveGroups # {} /\ PickFrom(ActiveGroups, c) # Null
      BY <1>1, <1>2, ActiveAre
    <3> HIDE DEF own
    <3> QED BY <1>4, <1>7, <3>1
  <2>2. ~HasGroup(case, c)
    BY <1>1, <1>3, <1>7, GivenGroup DEF PartOf
  <2>3. CASE GroupsStay(case)
    BY <1>1, <1>2, <2>1, <2>2, <2>3 DEF GivenInv
  <2>4. CASE ~GroupsStay(case)
    <3>1. /\ Grown(held[r].ids)
          /\ held[r].ids = {} => StrategiesOf(c) = {}
      BY <1>1, <1>2, <2>4 DEF TiedInv, Assigning
    <3>2. StrategiesOf(c) = {}
      BY <1>7, <3>1 DEF Grown
    <3>3. OneAtATime(case, c)
      BY <1>1, <1>2, <2>2, <2>4, CaseFits DEF TypeInv, ClientsFit
    <3>4. ASSUME NEW q \in Requests, Assigning(q, {"choose", "insert"}),
                 R(q).client = c
          PROVE  FALSE
      <4>1. q \in DOMAIN case.requests
        BY <3>4 DEF Assigning, R
      <4>2. Assigning(q, Past) /\ Assigning(r, Past)
        BY <3>4 DEF Assigning, Past
      <4>3. q = r
        BY <1>1, <3>3, <3>4, <4>1, <4>2, AlonePast
      <4> QED BY <3>4, <4>3 DEF Assigning
    <3> QED BY <2>1, <2>4, <3>2, <3>4
  <2> QED BY <2>3, <2>4
<1> QED
  BY <1>6, <1>7

(* What holds of an assignment after a step, of what there was before it.  *)
Fits(q) ==
  LET c == R(q).client IN
  /\ held'[q].group # Null
  /\ \A i \in StrategiesOf(c) : GroupOf(i) \in {Null, held'[q].group}
  /\ \A l \in held'[q].rows :
       IsThere(l.strategy) /\ GroupOf(l.strategy) \in {Null, held'[q].group}
  /\ GroupsStay(case) /\ ~HasGroup(case, c) =>
       held'[q].group = PickFrom(ActiveGroups, c)

(* The group an assignment has settled on is that of its client.           *)
LEMMA ChosenFits ==
  ASSUME ScriptsInv, GroupsInv, Next, NEW q \in DOMAIN case.requests,
         R(q).op = "assign", pc'[q] \in {"choose", "insert"}
  PROVE  /\ Fits(q)
         /\ \/ Settles(q)
            \/ /\ Assigning(q, {"choose", "insert"})
               /\ held'[q].group = held[q].group
<1>1. /\ TypeInv /\ RowsInv /\ LinksInv /\ GroupInv /\ GivenInv
  BY DEF ScriptsInv, BaseInv, GroupsInv
<1>2. q \in Requests /\ R(q).client \in Clients
  BY <1>1, RequestFits DEF TypeInv, Readers
<1>3. /\ \A l \in held[q].rows : IsThere(l.strategy)
      /\ pc[q] = "group" => held[q].rows = {}
  BY <1>1, <1>2 DEF LinksInv, Readers, IsThere
<1>4. ASSUME pc[q] \in {"choose", "insert"}
      PROVE  /\ held[q].group # Null
             /\ \A i \in StrategiesOf(R(q).client) :
                  GroupOf(i) \in {Null, held[q].group}
             /\ \A l \in held[q].rows :
                  GroupOf(l.strategy) \in {Null, held[q].group}
             /\ GroupsStay(case) /\ ~HasGroup(case, R(q).client) =>
                  held[q].group = PickFrom(ActiveGroups, R(q).client)
  <2>1. Assigning(q, {"choose", "insert"})
    BY <1>4 DEF Assigning
  <2> QED BY <1>1, <1>2, <2>1 DEF GroupInv, GivenInv
<1>5. CASE Stands(q)
  BY <1>3, <1>4, <1>5 DEF Stands, Fits, Assigning
<1>6. CASE Settles(q)
  <2>1. Assigning(q, {"group"})
    BY <1>6 DEF Settles, Assigning
  <2>2. PICK c, g : c = R(q).client /\ g = GroupFor(c, held[q].ids)
    OBVIOUS
  <2>3. /\ g # Null
        /\ \A i \in StrategiesOf(c) : GroupOf(i) \in {Null, g}
        /\ GroupsStay(case) /\ ~HasGroup(case, c) =>
             g = PickFrom(ActiveGroups, c)
    BY <2>1, <2>2, GroupChosen
  <2>4. held'[q].group = g /\ held'[q].rows = {}
    BY <1>3, <1>6, <2>2 DEF Settles
  <2> QED BY <1>6, <2>2, <2>3, <2>4 DEF Fits
<1>7. CASE Picks(q)
  <2>1. pc[q] = "choose" /\ held'[q].group = held[q].group
    BY <1>7 DEF Picks
  <2>2. PICK l, kind : \E s \in Candidates(kind, held[q].group) :
          l.strategy = s.id /\ held'[q].rows = held[q].rows \cup {l}
    BY <1>7 DEF Picks
  <2>3. PICK s \in Candidates(kind, held[q].group) : l.strategy = s.id
    BY <2>2
  <2>4. s \in strategies /\ s.group \in {held[q].group, Null}
    BY <1>4, <2>1, <2>3 DEF Candidates
  <2>5. IsThere(l.strategy) /\ GroupOf(l.strategy) = s.group
    BY <1>1, <2>3, <2>4, ByIdIs DEF IsThere, GroupOf
  <2> QED BY <1>3, <1>4, <2>1, <2>2, <2>4, <2>5 DEF Fits, Assigning
<1>8. ~Begins(q) /\ ~Looks(q) /\ ~Leaves(q)
  BY DEF Begins, Looks, Leaves, Over
<1> QED
  BY <1>1, <1>5, <1>6, <1>7, <1>8, AssignmentMoves

(* The groups of a client stay one, and that of its number where it had    *)
(* none.                                                                   *)
LEMMA GroupNext ==
  ASSUME ScriptsInv, GroupsInv, Next
  PROVE  GroupInv' /\ GivenInv'
<1>1. /\ TypeInv /\ RowsInv /\ LinksInv /\ GroupInv /\ GivenInv
      /\ case' = case
  BY RowsStay DEF ScriptsInv, BaseInv, GroupsInv
<1>2. \A q : R(q)' = R(q)
  BY <1>1 DEF R
<1>3. \A i : IsThere(i) => GroupOf(i)' = GroupOf(i)
  BY IdsStay DEF GroupOf
<1>4. \A q \in Requests : R(q).op # "none" => q \in DOMAIN case.requests
  BY DEF R
<1> DEFINE Now(q) == R(q).op = "assign" /\ pc'[q] \in {"choose", "insert"}
<1>5. ASSUME NEW q \in Requests, Now(q)
      PROVE  /\ Fits(q)
             /\ \/ Settles(q)
                \/ /\ Assigning(q, {"choose", "insert"})
                   /\ held'[q].group = held[q].group
  BY <1>4, <1>5, ChosenFits
<1>6. ASSUME NEW r \in Requests, NEW q \in Requests, r # q
      PROVE  Stands(r) \/ Stands(q)
  BY <1>1, <1>6, Steps DEF Stands, Moved
<1>7. ASSUME NEW r \in Requests, NEW q \in Requests, Now(r), Now(q),
             R(r).client = R(q).client, Settles(r)
      PROVE  held'[q].group = held'[r].group
  <2>1. CASE q = r
    BY <2>1
  <2>2. CASE q # r
    <3>1. ~Stands(r)
      BY <1>7 DEF Settles, Stands
    <3>2. Stands(q) /\ Assigning(q, {"choose", "insert"})
      BY <1>6, <1>7, <2>2, <3>1 DEF Stands, Assigning
    <3>3. Assigning(r, {"group"}) /\ r \in DOMAIN case.requests
      BY <1>4, <1>7 DEF Settles, Assigning
    <3>4. PICK c, g : c = R(r).client /\ g = GroupFor(c, held[r].ids)
      OBVIOUS
    <3>5. held[q].group = g
      BY <1>7, <3>2, <3>3, <3>4, GroupChosen
    <3> QED BY <1>7, <3>2, <3>4, <3>5 DEF Settles, Stands
  <2> QED BY <2>1, <2>2
<1>8. ASSUME NEW r \in Requests, NEW q \in Requests, Now(r), Now(q),
             R(r).client = R(q).client
      PROVE  held'[q].group = held'[r].group
  <2>1. CASE Settles(r) \/ Settles(q)
    BY <1>7, <1>8, <2>1
  <2>2. CASE ~Settles(r) /\ ~Settles(q)
    BY <1>1, <1>5, <1>8, <2>2 DEF GroupInv
  <2> QED BY <2>1, <2>2
<1>9. ASSUME NEW c \in Clients, NEW i \in StrategiesOf(c)', NEW g,
             \A j \in StrategiesOf(c) : GroupOf(j) \in {Null, g},
             \A r \in Requests : InsertLinks(r) /\ R(r).client = c /\
               Assigning(r, {"insert"}) => held[r].group = g
      PROVE  GroupOf(i)' \in {Null, g}
  <2>1. CASE i \in StrategiesOf(c)
    <3>1. IsThere(i)
      BY <1>1, <2>1, LinkedAreThere
    <3> QED BY <1>3, <1>9, <2>1, <3>1
  <2>2. ASSUME NEW r \in DOMAIN case.requests, Assigning(r, {"insert"}),
               InsertLinks(r), R(r).client = c,
               NEW l \in held[r].rows, i = l.strategy
        PROVE  GroupOf(i)' \in {Null, g}
    <3>1. r \in Requests /\ Assigning(r, {"choose", "insert"})
      BY <1>1, <2>2, RequestFits DEF TypeInv, Assigning
    <3>2. GroupOf(i) \in {Null, held[r].group} /\ held[r].group = g
      BY <1>1, <1>9, <2>2, <3>1 DEF GroupInv
    <3>3. IsThere(i)
      BY <1>1, <2>2, <3>1 DEF LinksInv, Assigning, Readers, IsThere
    <3> QED BY <1>3, <3>2, <3>3
  <2>3. ASSUME NEW s \in strategies, s.id = i,
               ClientsFit(case) => s.kind = "shared_rmq"
        PROVE  GroupOf(i)' \in {Null, g}
    <3>1. s.kind = "shared_rmq"
      BY <1>1, <2>3, CaseFits DEF TypeInv
    <3>2. s.group = Null
      BY <1>1, <3>1 DEF RowsInv, Grouped, KindsWithoutGroup
    <3>3. ById(i) = s
      BY <1>1, <2>3, ByIdIs
    <3> QED BY <1>3, <2>3, <3>2, <3>3 DEF GroupOf, IsThere
  <2> QED BY <2>1, <2>2, <2>3, NewStrategies
<1>10. ASSUME NEW q \in Requests, Now(q), NEW r \in Requests,
              InsertLinks(r), R(r).client = R(q).client,
              Assigning(r, {"insert"})
       PROVE  held[r].group = held'[q].group
  <2>1. pc'[r] = "assigned"
    BY <1>1, <1>10 DEF InsertLinks, Goto, TypeInv
  <2>2. r # q /\ ~Stands(r)
    BY <1>10, <2>1 DEF Stands, Assigning
  <2>3. Stands(q)
    BY <1>6, <1>10, <2>2
  <2>4. Assigning(q, {"choose", "insert"}) /\ Assigning(r, {"choose", "insert"})
    BY <1>10, <2>3 DEF Stands, Assigning
  <2> QED BY <1>1, <1>10, <2>3, <2>4 DEF GroupInv, Stands
<1>11. ASSUME NEW q \in Requests, Now(q)
       PROVE  /\ held'[q].group # Null
              /\ \A i \in StrategiesOf(R(q).client)' :
                   GroupOf(i)' \in {Null, held'[q].group}
              /\ \A l \in held'[q].rows :
                   GroupOf(l.strategy)' \in {Null, held'[q].group}
  <2>1. Fits(q)
    BY <1>5, <1>11
  <2>2. PICK g : g = held'[q].group
    OBVIOUS
  <2>3. PICK c \in Clients : c = R(q).client
    BY <1>1, <1>4, <1>11, RequestFits DEF TypeInv, Readers
  <2>4. \A i \in StrategiesOf(c)' : GroupOf(i)' \in {Null, g}
    BY <1>9, <1>10, <1>11, <2>1, <2>2, <2>3 DEF Fits
  <2>5. \A l \in held'[q].rows : GroupOf(l.strategy)' \in {Null, g}
    BY <1>3, <2>1, <2>2 DEF Fits
  <2>6. StrategiesOf(R(q).client)' = StrategiesOf(c)'
    BY <1>2, <2>3 DEF StrategiesOf
  <2> QED BY <2>1, <2>2, <2>4, <2>5, <2>6 DEF Fits
<1>12. ASSUME NEW c \in Clients, NEW i \in StrategiesOf(c)',
              NEW j \in StrategiesOf(c)',
              GroupOf(i)' # Null, GroupOf(j)' # Null
       PROVE  GroupOf(i)' = GroupOf(j)'
  <2>1. ASSUME NEW r \in Requests, InsertLinks(r), R(r).client = c,
               Assigning(r, {"insert"})
        PROVE  GroupOf(i)' = GroupOf(j)'
    <3>1. PICK g : g = held[r].group
      OBVIOUS
    <3>2. Assigning(r, {"choose", "insert"})
      BY <2>1 DEF Assigning
    <3>3. \A k \in StrategiesOf(c) : GroupOf(k) \in {Null, g}
      BY <1>1, <2>1, <3>1, <3>2 DEF GroupInv
    <3>4. \A q \in Requests : InsertLinks(q) /\ R(q).client = c /\
            Assigning(q, {"insert"}) => held[q].group = g
      <4>1. \A q \in Requests : Assigning(q, {"insert"}) =>
              Assigning(q, {"choose", "insert"})
        BY DEF Assigning
      <4> QED BY <1>1, <2>1, <3>1, <3>2, <4>1 DEF GroupInv
    <3>5. GroupOf(i)' \in {Null, g} /\ GroupOf(j)' \in {Null, g}
      BY <1>9, <3>3, <3>4
    <3> QED BY <1>12, <3>5
  <2>2. ASSUME ~\E r \in Requests : InsertLinks(r) /\ R(r).client = c /\
                 Assigning(r, {"insert"})
        PROVE  GroupOf(i)' = GroupOf(j)'
    <3>1. PICK g : /\ \A k \in StrategiesOf(c) : GroupOf(k) \in {Null, g}
      BY <1>1 DEF GroupInv
    <3>2. GroupOf(i)' \in {Null, g} /\ GroupOf(j)' \in {Null, g}
      BY <1>9, <2>2, <3>1
    <3> QED BY <1>12, <3>2
  <2> QED BY <2>1, <2>2
<1>13. GroupInv'
  <2>1. \A q \in Requests : Assigning(q, {"choose", "insert"})' <=> Now(q)
    BY <1>2 DEF Assigning
  <2>2. \A c \in Clients : \A i, j \in StrategiesOf(c)' :
          GroupOf(i)' # Null /\ GroupOf(j)' # Null =>
            GroupOf(i)' = GroupOf(j)'
    BY <1>12
  <2> HIDE DEF Now
  <2> QED BY <1>2, <1>8, <1>11, <2>1, <2>2 DEF GroupInv
<1>14. GivenInv'
  <2>1. ASSUME NEW c \in Clients, GroupsStay(case), ~HasGroup(case, c)
        PROVE  /\ \A i \in StrategiesOf(c)' :
                    GroupOf(i)' \in {Null, PickFrom(ActiveGroups, c)}
               /\ \A q \in Requests : Now(q) /\ R(q).client = c =>
                    held'[q].group = PickFrom(ActiveGroups, c)
    <3>1. PICK g : g = PickFrom(ActiveGroups, c)
      OBVIOUS
    <3>2. \A j \in StrategiesOf(c) : GroupOf(j) \in {Null, g}
      BY <1>1, <2>1, <3>1 DEF GivenInv
    <3>3. \A q \in Requests : Assigning(q, {"choose", "insert"}) /\
            R(q).client = c => held[q].group = g
      BY <1>1, <2>1, <3>1 DEF GivenInv
    <3>4. \A q \in Requests : Assigning(q, {"insert"}) =>
            Assigning(q, {"choose", "insert"})
      BY DEF Assigning
    <3>5. \A i \in StrategiesOf(c)' : GroupOf(i)' \in {Null, g}
      BY <1>9, <3>2, <3>3, <3>4
    <3>6. \A q \in Requests : Now(q) /\ R(q).client = c =>
            held'[q].group = PickFrom(ActiveGroups, c)
      <4> HIDE DEF Now
      <4> QED BY <1>5, <2>1 DEF Fits
    <3> QED BY <3>1, <3>5, <3>6
  <2>2. GroupsStay(case) => ActiveGroups' = ActiveGroups
    BY SteadyNext DEF GroupsInv
  <2>3. GroupsStay(case)' = GroupsStay(case)
    BY <1>1 DEF GroupsStay, With
  <2>4. \A c : HasGroup(case, c)' = HasGroup(case, c)
    BY <1>1 DEF HasGroup
  <2>5. \A q \in Requests : Assigning(q, {"choose", "insert"})' <=> Now(q)
    BY <1>2 DEF Assigning
  <2>6. \A c : ActiveGroups' = ActiveGroups =>
          PickFrom(ActiveGroups, c)' = PickFrom(ActiveGroups, c)
    BY DEF PickFrom
  <2> HIDE DEF Now
  <2> QED BY <1>2, <2>1, <2>2, <2>3, <2>4, <2>5, <2>6 DEF GivenInv
<1> QED
  BY <1>13, <1>14

(* Where the entries of the cache and those that are on their way to it    *)
(* come from.                                                              *)
LEMMA EntriesFrom ==
  ASSUME TypeInv, Next
  PROVE  /\ \A c \in Clients : \A ids \in assoc'[c] :
              \/ ids \in assoc[c]
              \/ \E r \in Requests : \E e \in pending[r] :
                   e.client = c /\ e.do = "set" /\ e.ids = ids
         /\ \A r \in Requests : \A e \in pending'[r] :
              \/ e \in pending[r]
              \/ e.do # "set"
              \/ \E c : e = SetLinks(c, StrategiesOf(c))
<1>1. ASSUME NEW c \in Clients, NEW ids \in assoc'[c], ids \notin assoc[c]
      PROVE  \E r \in Requests : \E e \in pending[r] :
               e.client = c /\ e.do = "set" /\ e.ids = ids
  <2>1. ASSUME NEW r \in Requests, Lands(r)
        PROVE  \E e \in pending[r] :
                 e.client = c /\ e.do = "set" /\ e.ids = ids
    <3>1. PICK e \in pending[r] :
            assoc' = [assoc EXCEPT ![e.client] = IF e.do = "set" THEN {e.ids}
                                                              ELSE {}]
      BY <2>1 DEF Lands
    <3>2. e.client = c
      BY <1>1, <3>1 DEF TypeInv
    <3>3. ids \in IF e.do = "set" THEN {e.ids} ELSE {}
      BY <1>1, <3>1, <3>2 DEF TypeInv
    <3> QED BY <3>2, <3>3
  <2>2. ASSUME NEW d \in Clients, LinksExpire(d) PROVE FALSE
    BY <1>1, <2>2 DEF LinksExpire, TypeInv
  <2> QED BY <1>1, <2>1, <2>2, LinksFrame
          DEF ReadLinks, InsertLinks, Associate
<1>2. ASSUME NEW r \in Requests, NEW e \in pending'[r], e \notin pending[r],
             e.do = "set"
      PROVE  \E c : e = SetLinks(c, StrategiesOf(c))
  <2>1. ASSUME NEW q \in Requests, ReadLinks(q)
        PROVE  e = SetLinks(R(q).client, StrategiesOf(R(q).client))
    BY <1>2, <2>1 DEF ReadLinks, Later, TypeInv
  <2>2. ASSUME NEW q \in Requests, InsertLinks(q) PROVE FALSE
    <3>1. e = DelLinks(R(q).client)
      BY <1>2, <2>2 DEF InsertLinks, Later, TypeInv
    <3> QED BY <1>2, <3>1 DEF DelLinks
  <2>3. ASSUME NEW q \in Requests, Lands(q) PROVE FALSE
    BY <1>2, <2>3 DEF Lands, TypeInv
  <2> QED BY <1>2, <2>1, <2>2, <2>3, LinksFrame DEF Associate, LinksExpire
<1> QED
  BY <1>1, <1>2

(* What an assignment is about to insert for a client that has nothing is  *)
(* of every kind, so it has a group.                                       *)
LEMMA InsertedIsGrown ==
  ASSUME ScriptsInv, WholeInv, NEW r \in Requests, Assigning(r, {"insert"}),
         InsertLinks(r), held[r].ids = {}, NEW c, c = R(r).client
  PROVE  \E i \in StrategiesOf(c)' : IsThere(i) /\ GroupOf(i) # Null
<1>1. /\ TypeInv /\ RowsInv /\ LinksInv
  BY DEF ScriptsInv, BaseInv
<1>2. "dynamo" \in AllKinds
  <2>1. Kinds[1] = "dynamo" /\ 1 \in DOMAIN Kinds
    BY DEF Kinds
  <2> QED BY <2>1 DEF AllKinds, Range
<1>3. /\ held[r].missing = {}
      /\ AllKinds \subseteq KindsOf(held[r].ids) \cup held[r].missing
                    \cup {Kind(l.strategy) : l \in held[r].rows}
  BY DEF WholeInv, Assigning
<1>4. KindsOf(held[r].ids) = {}
  BY DEF KindsOf
<1>5. PICK l \in held[r].rows : Kind(l.strategy) = "dynamo"
  BY <1>2, <1>3, <1>4
<1>6. IsThere(l.strategy) /\ l.client = c
  BY <1>1, <1>5 DEF LinksInv, IsThere, Assigning, Readers
<1>7. GroupOf(l.strategy) # Null
  BY <1>1, <1>5, <1>6, ThereIs DEF Grouped, KindsWithoutGroup
<1>8. l \in links'
  BY <1>5 DEF InsertLinks
<1>9. l.strategy \in StrategiesOf(c)'
  BY <1>6, <1>8 DEF StrategiesOf, LinkedBy
<1> QED
  BY <1>6, <1>7, <1>9

UnderWay == {"ids", "group", "choose", "insert"}
LEMMA TiedNext ==
  ASSUME ScriptsInv, GroupsInv, WholeInv, Next
  PROVE  TiedInv'
<1>1. /\ TypeInv /\ RowsInv /\ TurnsInv /\ LinksInv /\ TiedInv
      /\ case' = case /\ links \subseteq links'
  BY RowsStay, LinksGrow DEF ScriptsInv, BaseInv, GroupsInv
<1>2. \A q : R(q)' = R(q)
  BY <1>1 DEF R
<1>3. \A i : IsThere(i) => IsThere(i)' /\ GroupOf(i)' = GroupOf(i)
  BY IdsStay DEF GroupOf
<1>4. LinksInv'
  BY LinksNext
<1>5. \A q \in Requests : R(q).op # "none" => q \in DOMAIN case.requests
  BY DEF R
<1>6. \A c, ids : PartOf(ids, c) /\ Grown(ids) => Grown(ids)'
  BY <1>1, <1>3, LinkedAreThere DEF Grown, PartOf
<1> DEFINE Way(r) == R(r).op = "assign" /\ pc'[r] \in UnderWay
           Tied(c) ==
             /\ Grown(StrategiesOf(c))'
             /\ \A ids \in assoc'[c] : Grown(ids)'
             /\ \A r \in Requests : \A e \in pending'[r] :
                  e.do = "set" /\ e.client = c => Grown(e.ids)'
             /\ \A r \in Requests : Way(r) /\ R(r).client = c =>
                  /\ Grown(held[r].ids)'
                  /\ held'[r].ids = {} => StrategiesOf(c)' = {}
<1>7. ASSUME NEW c \in Clients, HasGroup(case, c) PROVE Tied(c)
  <2>1. PICK i \in Before(c) : IsThere(i) /\ GroupOf(i) # Null
    BY <1>1, <1>7, GivenGroup
  <2>2. GroupOf(i)' # Null
    BY <1>3, <2>1
  <2>3. ASSUME NEW ids, PartOf(ids, c)' PROVE i \in ids /\ Grown(ids)'
    <3>1. i \in ids
      BY <1>1, <2>1, <2>3 DEF PartOf, Before
    <3> QED BY <2>2, <3>1 DEF Grown
  <2>4. i \in StrategiesOf(c)'
    BY <1>1, <2>1 DEF LinksInv, Before, StrategiesOf, LinkedBy
  <2>5. Grown(StrategiesOf(c))'
    BY <2>2, <2>4 DEF Grown
  <2>6. \A ids \in assoc'[c] : Grown(ids)'
    BY <1>4, <2>3 DEF LinksInv
  <2>7. \A r \in Requests : \A e \in pending'[r] :
          e.do = "set" /\ e.client = c => Grown(e.ids)'
    BY <1>4, <2>3 DEF LinksInv
  <2>8. ASSUME NEW r \in Requests, Way(r), R(r).client = c
        PROVE  Grown(held[r].ids)' /\ held'[r].ids # {}
    <3>1. PartOf(held[r].ids, R(r).client)'
      BY <1>2, <1>4, <2>8 DEF LinksInv, Readers, UnderWay, Over
    <3>2. PICK ids : ids = held'[r].ids
      OBVIOUS
    <3>3. PartOf(ids, c)'
      BY <1>2, <2>8, <3>1, <3>2 DEF PartOf
    <3>4. i \in ids /\ Grown(ids)'
      BY <2>3, <3>3
    <3> QED BY <3>2, <3>4 DEF Grown
  <2> QED BY <2>5, <2>6, <2>7, <2>8
<1>8. ASSUME NEW c \in Clients, ~GroupsStay(case), ~HasGroup(case, c)
      PROVE  Tied(c)
  <2>1. /\ Before(c) = {} /\ With(case, {"associate"}) = {}
        /\ OneAtATime(case, c)
    BY <1>1, <1>8, CaseFits DEF TypeInv, ClientsFit, Before
  <2>2. /\ Grown(StrategiesOf(c))
        /\ \A ids \in assoc[c] : Grown(ids)
        /\ \A r \in Requests : \A e \in pending[r] :
             e.do = "set" /\ e.client = c => Grown(e.ids)
        /\ \A r \in Requests : Assigning(r, UnderWay) /\ R(r).client = c =>
             Grown(held[r].ids) /\ (held[r].ids = {} => StrategiesOf(c) = {})
    BY <1>1, <1>8 DEF TiedInv, UnderWay
  <2>3. StrategiesOf(c) \subseteq StrategiesOf(c)'
    BY <1>1 DEF StrategiesOf, LinkedBy
  <2>4. \/ StrategiesOf(c)' = StrategiesOf(c)
        \/ \E r \in DOMAIN case.requests :
             Assigning(r, {"insert"}) /\ InsertLinks(r) /\ R(r).client = c
    BY <2>1, <2>3, NewStrategies
  <2>5. PartOf(StrategiesOf(c), c)
    BY <2>1 DEF PartOf
  <2>6. Grown(StrategiesOf(c))'
    <3>1. CASE StrategiesOf(c) # {}
      <4>1. PICK i \in StrategiesOf(c) : GroupOf(i) # Null
        BY <2>2, <3>1 DEF Grown
      <4>2. GroupOf(i)' # Null
        BY <1>1, <1>3, <4>1, LinkedAreThere
      <4> QED BY <2>3, <4>1, <4>2 DEF Grown
    <3>2. CASE StrategiesOf(c)' = StrategiesOf(c)
      <4>1. CASE StrategiesOf(c) = {}
        BY <3>2, <4>1 DEF Grown
      <4> QED BY <3>1, <4>1
    <3>3. ASSUME NEW r \in DOMAIN case.requests, StrategiesOf(c) = {},
                 Assigning(r, {"insert"}), InsertLinks(r), R(r).client = c
          PROVE  Grown(StrategiesOf(c))'
      <4>1. r \in Requests /\ PartOf(held[r].ids, c)
        BY <1>1, <3>3, RequestFits DEF TypeInv, LinksInv, Assigning, Readers,
           Over
      <4>2. held[r].ids = {}
        BY <3>3, <4>1 DEF PartOf
      <4>3. \E i \in StrategiesOf(c)' : IsThere(i) /\ GroupOf(i) # Null
        BY <3>3, <4>1, <4>2, InsertedIsGrown
      <4> QED BY <1>3, <4>3 DEF Grown
    <3> QED BY <2>4, <3>1, <3>2, <3>3
  <2>7. ASSUME NEW ids \in assoc'[c] PROVE Grown(ids)'
    <3>1. PartOf(ids, c) /\ Grown(ids)
      BY <1>1, <2>2, EntriesFrom DEF LinksInv
    <3> QED BY <1>6, <3>1
  <2>8. ASSUME NEW r \in Requests, NEW e \in pending'[r], e.do = "set",
               e.client = c
        PROVE  Grown(e.ids)'
    <3>1. CASE e \in pending[r]
      BY <1>1, <1>6, <2>2, <2>8, <3>1 DEF LinksInv
    <3>2. ASSUME NEW d, e = SetLinks(d, StrategiesOf(d))
          PROVE  Grown(e.ids)'
      <4>1. d = c /\ e.ids = StrategiesOf(c)
        BY <2>8, <3>2 DEF SetLinks
      <4>2. PICK ids : ids = StrategiesOf(c)
        OBVIOUS
      <4>3. Grown(ids)'
        BY <1>6, <2>2, <2>5, <4>2
      <4> QED BY <4>1, <4>2, <4>3
    <3> QED BY <1>1, <2>8, <3>1, <3>2, EntriesFrom
  <2>9. ASSUME NEW r \in Requests, Way(r), R(r).client = c
        PROVE  /\ Grown(held[r].ids)'
               /\ held'[r].ids = {} => StrategiesOf(c)' = {}
    <3>1. r \in DOMAIN case.requests
      BY <1>5, <2>9
    <3>2. StrategiesOf(c)' = StrategiesOf(c)
      <4> SUFFICES ASSUME NEW q \in DOMAIN case.requests,
                          Assigning(q, {"insert"}), InsertLinks(q),
                          R(q).client = c
                   PROVE  FALSE
        BY <2>4
      <4>1. q \in Requests /\ pc'[q] = "assigned"
        BY <1>1, RequestFits DEF InsertLinks, Goto, TypeInv
      <4>2. q # r
        BY <2>9, <4>1 DEF UnderWay
      <4>3. ~Stands(q)
        BY <4>1 DEF Stands, Assigning
      <4>4. Stands(r)
        BY <1>1, <4>1, <4>2, <4>3, Steps DEF Stands, Moved
      <4>5. Assigning(r, Past) /\ Assigning(q, Past)
        BY <2>9, <4>4 DEF Assigning, Past, Stands, UnderWay
      <4> QED BY <1>1, <2>1, <2>9, <3>1, <4>2, <4>5, AlonePast
    <3>3. /\ PartOf(held'[r].ids, c) /\ Grown(held'[r].ids)
          /\ held'[r].ids = {} => StrategiesOf(c) = {}
      <4>1. CASE Begins(r)
        BY <1>1, <2>2, <2>5, <2>9, <4>1 DEF Begins, LinksInv
      <4>2. CASE Stands(r) \/ Looks(r) \/ Settles(r) \/ Picks(r)
        <5>1. held'[r].ids = held[r].ids /\ Assigning(r, UnderWay)
          BY <2>9, <4>2 DEF Stands, Looks, Settles, Picks, Assigning, UnderWay
        <5>2. PartOf(held[r].ids, c)
          BY <1>1, <2>9, <5>1 DEF LinksInv, Assigning, Readers, UnderWay, Over
        <5> QED BY <2>2, <2>9, <5>1, <5>2
      <4>3. ~Leaves(r)
        BY <2>9 DEF Leaves, UnderWay, Over
      <4> QED BY <1>1, <2>9, <3>1, <4>1, <4>2, <4>3, AssignmentMoves
    <3>4. PICK ids : ids = held'[r].ids
      OBVIOUS
    <3>5. Grown(ids)'
      BY <1>6, <3>3, <3>4
    <3>6. Grown(held[r].ids)'
      BY <3>4, <3>5 DEF Grown
    <3> QED BY <3>2, <3>3, <3>6
  <2> QED BY <2>6, <2>7, <2>8, <2>9
<1>9. GroupsStay(case)' = GroupsStay(case)
  BY <1>1 DEF GroupsStay, With
<1>10. \A r \in Requests :
         Assigning(r, {"ids", "group", "choose", "insert"})' <=> Way(r)
  BY <1>2 DEF Assigning, UnderWay
<1>11. ASSUME NEW c \in Clients, ~GroupsStay(case) PROVE Tied(c)
  BY <1>7, <1>8, <1>11
<1> HIDE DEF Way
<1> QED
  BY <1>2, <1>9, <1>10, <1>11 DEF TiedInv

(***************************************************************************)
(* All kinds or none.                                                      *)
(***************************************************************************)
(* A client that has each kind once lacks what it does not have: the list  *)
(* of kinds is cut in the right places.                                    *)
LEMMA NothingIsCutOff ==
  ASSUME RowsInv, LinksInv, GroupInv, NEW c \in Clients,
         NEW ids \in SUBSET StrategiesOf(c)
  PROVE  MissingKinds(ids) = AllKinds \ KindsOf(ids)
<1> DEFINE lacks == AllKinds \ KindsOf(ids)
           again == {i \in ids : \E j \in ids :
                       j < i /\ ById(j).kind = ById(i).kind}
           later(kind) == {k \in lacks : Number(k) > Number(kind)}
<1>1. \A i \in ids : i \in Nat
  <2>1. \A i \in ids : IsThere(i)
    BY LinkedAreThere
  <2>2. \A s \in strategies : s.id \in Nat
    BY NumberedIds DEF RowsInv, RowType
  <2> QED BY <2>1, <2>2 DEF IsThere
<1>2. again = {}
  <2> SUFFICES ASSUME NEW i \in ids, NEW j \in ids, j < i,
                      ById(j).kind = ById(i).kind
               PROVE  FALSE
    OBVIOUS
  <2>1. ById(j) = ById(i)
    BY ChainIsOne DEF OneChain
  <2>2. ById(j).id = j /\ ById(i).id = i
    BY LinkedAreThere, ThereIs
  <2>3. i = j
    BY <2>1, <2>2
  <2> QED BY <1>1, <2>3
<1>3. IsFiniteSet(AllKinds)
  <2>1. AllKinds = ((({} \cup {"dynamo"}) \cup {"value_constants"})
                      \cup {"utility_constants"}) \cup {"shared_rmq"}
    BY DEF AllKinds, Range, Kinds
  <2>2. \A S, x : IsFiniteSet(S) => IsFiniteSet(S \cup {x})
    BY FS_AddElement
  <2>3. IsFiniteSet({})
    BY FS_EmptySet
  <2> QED BY <2>1, <2>2, <2>3
<1>4. MissingKinds(ids) =
        {kind \in lacks : Cardinality(again) <= Cardinality(later(kind))}
  BY DEF MissingKinds, AllKinds, KindsOf, Kind
<1>5. ASSUME NEW kind \in lacks
      PROVE  Cardinality(again) <= Cardinality(later(kind))
  <2>1. later(kind) \in SUBSET AllKinds
    OBVIOUS
  <2> HIDE DEF later, again
  <2>2. IsFiniteSet(later(kind))
    BY <1>3, <2>1, FS_Subset
  <2>3. Cardinality(later(kind)) \in Nat
    BY <2>2, FS_CardinalityType
  <2>4. Cardinality(again) = 0
    BY <1>2, FS_EmptySet
  <2> QED BY <2>3, <2>4
<1> HIDE DEF again, later
<1> QED
  BY <1>4, <1>5

(* What an assignment has still to do after a step.                        *)
Remains(r) ==
  /\ held'[r].missing \subseteq AllKinds
  /\ AllKinds \subseteq KindsOf(held'[r].ids) \cup held'[r].missing
                   \cup {Kind(l.strategy) : l \in held'[r].rows}
  /\ pc'[r] = "insert" <=> held'[r].missing = {}

(* An assignment keeps all kinds in sight until it inserts.                *)
LEMMA AssignmentPlans ==
  ASSUME ScriptsInv, GroupsInv, WholeInv, Next,
         NEW q \in DOMAIN case.requests, R(q).op = "assign",
         pc'[q] \in {"group", "choose", "insert"}
  PROVE  Remains(q) /\ held'[q].ids = held[q].ids /\
         pc[q] \in {"ids", "group", "choose", "insert"}
<1>1. /\ TypeInv /\ RowsInv /\ LinksInv /\ GroupInv
  BY DEF ScriptsInv, BaseInv, GroupsInv
<1>2. q \in Requests /\ R(q).client \in Clients
  BY <1>1, RequestFits DEF TypeInv, Readers
<1>3. ASSUME pc[q] \in {"group", "choose", "insert"}
      PROVE  /\ held[q].missing \subseteq AllKinds
             /\ AllKinds \subseteq KindsOf(held[q].ids) \cup held[q].missing
                              \cup {Kind(l.strategy) : l \in held[q].rows}
             /\ pc[q] = "insert" <=> held[q].missing = {}
  BY <1>2, <1>3 DEF WholeInv, Assigning
<1>4. CASE Stands(q)
  BY <1>3, <1>4 DEF Stands, Remains
<1>5. CASE Looks(q)
  <2>1. held[q].ids \subseteq StrategiesOf(R(q).client)
    BY <1>1, <1>2, <1>5 DEF Looks, LinksInv, Readers, PartOf, Over
  <2>2. MissingKinds(held[q].ids) = AllKinds \ KindsOf(held[q].ids)
    BY <1>1, <1>2, <2>1, NothingIsCutOff
  <2> QED BY <1>5, <2>2 DEF Looks, Remains
<1>6. CASE Settles(q)
  BY <1>3, <1>6 DEF Settles, Remains
<1>7. CASE Picks(q)
  <2>1. PICK l, kind : \E s \in Candidates(kind, held[q].group) :
          /\ l.strategy = s.id /\ held'[q].rows = held[q].rows \cup {l}
          /\ held'[q].missing = held[q].missing \ {kind}
          /\ pc'[q] = IF held[q].missing = {kind} THEN "insert" ELSE "choose"
    BY <1>7 DEF Picks
  <2>2. Kind(l.strategy) = kind
    BY <1>1, <2>1, ByIdIs DEF Candidates, Kind
  <2>3. pc[q] = "choose" /\ held'[q].ids = held[q].ids
    BY <1>7 DEF Picks
  <2>4. {Kind(k.strategy) : k \in held'[q].rows} =
          {Kind(k.strategy) : k \in held[q].rows} \cup {kind}
    BY <2>1, <2>2
  <2>5. held[q].missing # {}
    BY <1>3, <2>3
  <2>6. pc'[q] = "insert" <=> held'[q].missing = {}
    BY <2>1, <2>5
  <2>7. /\ held'[q].missing \subseteq AllKinds
        /\ AllKinds \subseteq KindsOf(held'[q].ids) \cup held'[q].missing
                         \cup {Kind(k.strategy) : k \in held'[q].rows}
    BY <1>3, <2>1, <2>3, <2>4
  <2> QED BY <2>3, <2>6, <2>7 DEF Remains
<1>8. ~Begins(q) /\ ~Leaves(q)
  BY DEF Begins, Leaves, Over
<1> QED
  BY <1>1, <1>4, <1>5, <1>6, <1>7, <1>8, AssignmentMoves
     DEF Stands, Looks, Settles, Picks

(* So what it inserts makes its client whole.                              *)
LEMMA WholeNext ==
  ASSUME ScriptsInv, GroupsInv, WholeInv, Next
  PROVE  WholeInv'
<1>1. /\ TypeInv /\ RowsInv /\ LinksInv
      /\ case' = case /\ links \subseteq links'
  BY RowsStay, LinksGrow DEF ScriptsInv, BaseInv
<1>2. \A q : R(q)' = R(q)
  BY <1>1 DEF R
<1>3. \A i : IsThere(i) => Kind(i)' = Kind(i) /\ Kind(i) \in AllKinds
  BY <1>1, IdsStay, ThereIs DEF Kind
<1>4. \A q \in Requests : R(q).op # "none" => q \in DOMAIN case.requests
  BY DEF R
<1>5. LinksInv' /\ TypeInv'
  BY LinksNext, ScriptsNext DEF ScriptsInv, BaseInv
<1>6. ASSUME NEW ids, \A i \in ids : IsThere(i)
      PROVE  KindsOf(ids)' = KindsOf(ids)
  BY <1>3, <1>6 DEF KindsOf
<1>7. ASSUME NEW q \in Requests, R(q).op = "assign",
             pc'[q] \in {"group", "choose", "insert"}
      PROVE  /\ held'[q].missing \subseteq AllKinds
             /\ AllKinds \subseteq
                  KindsOf(held[q].ids)' \cup held'[q].missing
                    \cup {Kind(l.strategy)' : l \in held'[q].rows}
             /\ pc'[q] = "insert" <=> held'[q].missing = {}
  <2>1. Remains(q) /\ held'[q].ids = held[q].ids /\
        pc[q] \in {"ids", "group", "choose", "insert"}
    BY <1>4, <1>7, AssignmentPlans
  <2>2. \A i \in held[q].ids : IsThere(i)
    BY <1>1, <1>7, <2>1, LinkedAreThere
       DEF LinksInv, Readers, PartOf, Over
  <2>3. PICK ids : ids = held[q].ids
    OBVIOUS
  <2>4. KindsOf(ids)' = KindsOf(ids)
    BY <1>6, <2>2, <2>3
  <2>5. KindsOf(held[q].ids)' = KindsOf(held'[q].ids)
    BY <2>1, <2>3, <2>4 DEF KindsOf
  <2>6. \A l \in held'[q].rows : IsThere(l.strategy)
    <3>1. CASE pc'[q] = "group"
      BY <1>2, <1>5, <1>7, <3>1 DEF LinksInv, Readers
    <3>2. CASE pc'[q] \in {"choose", "insert"}
      BY <1>4, <1>7, <3>2, ChosenFits DEF Fits
    <3> QED BY <1>7, <3>1, <3>2
  <2>7. {Kind(l.strategy)' : l \in held'[q].rows} =
          {Kind(l.strategy) : l \in held'[q].rows}
    BY <1>3, <2>6
  <2> QED BY <2>1, <2>5, <2>7 DEF Remains
<1> DEFINE Rmq == {"shared_rmq"}
<1>8. "shared_rmq" \in AllKinds
  <2>1. Kinds[4] = "shared_rmq" /\ 4 \in DOMAIN Kinds
    BY DEF Kinds
  <2> QED BY <2>1 DEF AllKinds, Range
<1>9. ASSUME NEW c \in Clients
      PROVE  KindsOf(StrategiesOf(c))' \cup Rmq \in
               {KindsOf(Before(c))' \cup Rmq, AllKinds}
  <2>1. KindsOf(StrategiesOf(c)) \cup Rmq \in
          {KindsOf(Before(c)) \cup Rmq, AllKinds}
    BY <1>9 DEF WholeInv, WholeOrNothing, KindsOf, Kind, Before, AllKinds
  <2>2. StrategiesOf(c) \subseteq StrategiesOf(c)' /\ Before(c)' = Before(c)
    BY <1>1 DEF StrategiesOf, LinkedBy, Before
  <2>3. KindsOf(Before(c))' = KindsOf(Before(c))
    <3>1. \A i \in Before(c) : IsThere(i)
      BY <1>1 DEF LinksInv, Before, LinkedBy, IsThere
    <3>2. PICK ids : ids = Before(c)
      OBVIOUS
    <3>3. KindsOf(ids)' = KindsOf(ids)
      BY <1>6, <3>1, <3>2
    <3> QED BY <2>2, <3>2, <3>3 DEF KindsOf
  <2>4. ASSUME NEW i \in StrategiesOf(c)' PROVE IsThere(i)
    <3>1. ASSUME NEW r \in DOMAIN case.requests, Assigning(r, {"insert"}),
                 NEW l \in held[r].rows, i = l.strategy
          PROVE  IsThere(i)
      BY <1>1, <3>1, RequestFits DEF TypeInv, LinksInv, Assigning, Readers,
         IsThere
    <3>2. ASSUME NEW s \in strategies, s.id = i PROVE IsThere(i)
      BY <3>2 DEF IsThere
    <3> QED BY <1>1, <3>1, <3>2, LinkedAreThere, NewStrategies
  <2>5. PICK now : now = StrategiesOf(c)'
    OBVIOUS
  <2>6. KindsOf(StrategiesOf(c))' = KindsOf(now)
    <3>1. KindsOf(now)' = KindsOf(now)
      BY <1>6, <2>4, <2>5
    <3> QED BY <2>5, <3>1 DEF KindsOf
  <2>7. KindsOf(StrategiesOf(c)) \subseteq KindsOf(now)
    BY <2>2, <2>5 DEF KindsOf
  <2>8. KindsOf(now) \subseteq AllKinds
    BY <1>3, <2>4, <2>5 DEF KindsOf
  <2>9. ASSUME NEW r \in DOMAIN case.requests, Assigning(r, {"insert"}),
               InsertLinks(r), R(r).client = c
        PROVE  AllKinds \subseteq KindsOf(now)
    <3>1. r \in Requests
      BY <1>1, RequestFits DEF TypeInv
    <3>2. AllKinds \subseteq KindsOf(held[r].ids)
                        \cup {Kind(l.strategy) : l \in held[r].rows}
      BY <2>9, <3>1 DEF WholeInv, Assigning
    <3>3. held[r].ids \subseteq now
      BY <1>1, <2>2, <2>5, <2>9, <3>1 DEF LinksInv, Assigning, Readers, PartOf,
         Over
    <3>4. \A l \in held[r].rows : l.client = c /\ l \in links'
      BY <1>1, <2>9, <3>1 DEF LinksInv, Assigning, Readers, InsertLinks
    <3>5. \A l \in held[r].rows : l.strategy \in now
      BY <2>5, <3>4 DEF StrategiesOf, LinkedBy
    <3> QED BY <3>2, <3>3, <3>5 DEF KindsOf
  <2>10. ASSUME ~\E r \in DOMAIN case.requests :
                   Assigning(r, {"insert"}) /\ InsertLinks(r) /\
                   R(r).client = c
         PROVE  KindsOf(now) \subseteq KindsOf(StrategiesOf(c)) \cup Rmq
    <3>1. ASSUME NEW i \in now, i \notin StrategiesOf(c)
          PROVE  Kind(i) = "shared_rmq"
      <4>1. PICK s \in strategies :
              s.id = i /\ (ClientsFit(case) => s.kind = "shared_rmq")
        BY <2>5, <2>10, <3>1, NewStrategies
      <4> QED BY <1>1, <4>1, CaseFits, ByIdIs DEF TypeInv, Kind
    <3> QED BY <3>1 DEF KindsOf
  <2>11. CASE AllKinds \subseteq KindsOf(now)
    BY <1>8, <2>6, <2>8, <2>11
  <2>12. CASE KindsOf(now) \subseteq KindsOf(StrategiesOf(c)) \cup Rmq
    <3>1. KindsOf(now) \cup Rmq = KindsOf(StrategiesOf(c)) \cup Rmq
      BY <2>7, <2>12
    <3> QED BY <2>1, <2>3, <2>6, <3>1
  <2> QED BY <2>9, <2>10, <2>11, <2>12
<1>10. WholeOrNothing'
  BY <1>9 DEF WholeOrNothing, KindsOf, Kind, Before, AllKinds
<1> QED
  BY <1>2, <1>7, <1>10 DEF WholeInv, Assigning

(***************************************************************************)
(* One chain, and whole.                                                   *)
(***************************************************************************)
ClientsInv == ScriptsInv /\ GroupsInv /\ WholeInv

(* The invariant holds at first,                                           *)
LEMMA ClientsInit ==
  ASSUME Init
  PROVE  ClientsInv
<1>1. /\ case \in Cases /\ ClientsFit(case)
      /\ strategies = case.strategies /\ links = case.links
  BY CaseFits DEF Init
<1>2. ScriptsInv
  BY ScriptsInit
<1>3. RowsInv /\ LinksInv
  BY <1>2 DEF ScriptsInv, BaseInv
<1>4. \A r \in Requests :
        ~Assigning(r, {"ids", "group", "choose", "insert"})
  BY DEF Init, Assigning
<1>5. \A r, where : where \subseteq {"ids", "group", "choose", "insert"} /\
        Assigning(r, where) =>
          Assigning(r, {"ids", "group", "choose", "insert"})
  BY DEF Assigning
<1>6. \A c : StrategiesOf(c) = Before(c)
  BY <1>1 DEF StrategiesOf, Before
<1>7. ASSUME NEW c \in Clients, NEW i \in StrategiesOf(c)
      PROVE  /\ ById(i) \in case.strategies /\ ById(i).id = i
             /\ i \in LinkedBy(case.links, c)
  BY <1>1, <1>3, <1>6, LinkedAreThere, ThereIs DEF Before
<1>8. ActiveInv
  BY <1>1 DEF ActiveInv, ClientsFit
<1>9. SteadyInv
  BY <1>1 DEF SteadyInv, FirstActive
<1>10. GroupInv
  <2>1. ASSUME NEW c \in Clients, NEW i \in StrategiesOf(c),
               NEW j \in StrategiesOf(c),
               GroupOf(i) # Null, GroupOf(j) # Null
        PROVE  GroupOf(i) = GroupOf(j)
    BY <1>1, <1>7, <2>1 DEF ClientsFit, GroupOf
  <2>2. \A r \in Requests : ~Assigning(r, {"choose", "insert"})
    BY <1>4, <1>5
  <2> QED BY <2>1, <2>2 DEF GroupInv
<1>11. \A c \in Clients : \A i \in StrategiesOf(c) :
         ~HasGroup(case, c) => GroupOf(i) = Null
  BY <1>7 DEF HasGroup, GroupOf
<1>12. GivenInv
  <2>1. \A r \in Requests : ~Assigning(r, {"choose", "insert"})
    BY <1>4, <1>5
  <2> QED BY <1>11, <2>1 DEF GivenInv
<1>13. TiedInv
  <2>1. ASSUME NEW c \in Clients, ~GroupsStay(case)
        PROVE  Grown(StrategiesOf(c))
    <3>1. CASE HasGroup(case, c)
      <4>1. PICK i \in Before(c) : GroupOf(i) # Null
        BY <1>3, <3>1, GivenGroup
      <4> QED BY <1>6, <4>1 DEF Grown
    <3>2. CASE ~HasGroup(case, c)
      BY <1>1, <1>6, <2>1, <3>2 DEF ClientsFit, Before, Grown
    <3> QED BY <3>1, <3>2
  <2>2. /\ \A c \in Clients : assoc[c] = {}
        /\ \A r \in Requests : pending[r] = {}
    BY DEF Init
  <2> QED BY <1>4, <2>1, <2>2 DEF TiedInv
<1>14. WholeInv
  <2>1. WholeOrNothing
    BY <1>6 DEF WholeOrNothing, Before
  <2>2. \A r \in Requests :
          /\ ~Assigning(r, {"group", "choose", "insert"})
          /\ ~Assigning(r, {"insert"}) /\ ~Assigning(r, {"group", "choose"})
    BY <1>4, <1>5
  <2> QED BY <2>1, <2>2 DEF WholeInv
<1> QED
  BY <1>2, <1>8, <1>9, <1>10, <1>12, <1>13, <1>14 DEF ClientsInv, GroupsInv

(* and is kept by every step.                                              *)
LEMMA ClientsNext ==
  ASSUME ClientsInv, [Next]_vars
  PROVE  ClientsInv'
<1>1. ScriptsInv /\ GroupsInv /\ WholeInv
  BY DEF ClientsInv
<1>2. ScriptsInv'
  BY <1>1, ScriptsNext
<1>3. CASE Next
  <2>1. ActiveInv' /\ SteadyInv'
    BY <1>1, <1>3, ActiveNext, SteadyNext DEF GroupsInv
  <2>2. GroupInv' /\ GivenInv'
    BY <1>1, <1>3, GroupNext
  <2>3. TiedInv' /\ WholeInv'
    BY <1>1, <1>3, TiedNext, WholeNext
  <2> QED BY <1>2, <2>1, <2>2, <2>3 DEF ClientsInv, GroupsInv
<1>4. CASE UNCHANGED vars
  <2>1. ActiveInv' /\ SteadyInv'
    BY <1>1, <1>4 DEF GroupsInv, ActiveInv, SteadyInv, FirstActive, vars, db
  <2>2. GroupInv' /\ GivenInv'
    <3>1. ActiveGroups' = ActiveGroups
      BY <1>4 DEF ActiveGroups, vars, db
    <3>2. \A c : PickFrom(ActiveGroups, c)' = PickFrom(ActiveGroups, c)
      BY <3>1 DEF PickFrom
    <3>3. /\ GroupsStay(case)' = GroupsStay(case)
          /\ \A c : HasGroup(case, c)' = HasGroup(case, c)
      BY <1>4 DEF GroupsStay, With, HasGroup, vars
    <3>4. /\ held' = held
          /\ \A c : StrategiesOf(c)' = StrategiesOf(c)
          /\ \A i : GroupOf(i)' = GroupOf(i)
          /\ \A r : R(r)' = R(r)
          /\ \A r, where : Assigning(r, where)' = Assigning(r, where)
      BY <1>4 DEF StrategiesOf, GroupOf, ById, R, Assigning, vars, db
    <3>5. \A r : StrategiesOf(R(r).client)' = StrategiesOf(R(r).client)
      BY <1>4 DEF StrategiesOf, R, vars, db
    <3>6. \A r \in Requests : \A l \in held[r].rows :
            GroupOf(l.strategy)' = GroupOf(l.strategy)
      BY <3>4
    <3>7. GroupInv'
      BY <1>1, <3>4, <3>5, <3>6 DEF GroupsInv, GroupInv
    <3>8. GivenInv'
      BY <1>1, <3>2, <3>3, <3>4 DEF GroupsInv, GivenInv
    <3> QED BY <3>7, <3>8
  <2>3. TiedInv'
    BY <1>1, <1>4 DEF GroupsInv, TiedInv, Grown, GroupOf, ById,
       StrategiesOf, Assigning, R, vars, db
  <2>4. WholeInv'
    BY <1>1, <1>4 DEF WholeInv, WholeOrNothing, KindsOf, Kind, ById,
       StrategiesOf, Assigning, R, vars, db
  <2> QED BY <1>2, <2>1, <2>2, <2>3, <2>4 DEF ClientsInv, GroupsInv
<1> QED
  BY <1>3, <1>4

(* OneChain for all cases: whatever assignments of a client overlap        *)
(* (perform of assign_strategies, after links that may be old) and         *)
(* whichever group each settles on, the client gets one strategy of each   *)
(* kind, and those with a group are of one chain.                          *)
THEOREM ClientsHaveOneChain == Spec => []OneChain
<1>1. Init => ClientsInv
  BY ClientsInit
<1>2. ClientsInv /\ [Next]_vars => ClientsInv'
  BY ClientsNext
<1>3. ClientsInv => OneChain
  BY ChainIsOne DEF ClientsInv, ScriptsInv, BaseInv, GroupsInv
<1> QED
  BY <1>1, <1>2, <1>3, PTL DEF Spec

(* WholeOrNothing for all cases: the links of all kinds a client lacks are *)
(* inserted at once (_associateStrategies), when each has been chosen, so  *)
(* that no client is left with some.                                       *)
THEOREM ClientsAreWhole == Spec => []WholeOrNothing
<1>1. Init => ClientsInv
  BY ClientsInit
<1>2. ClientsInv /\ [Next]_vars => ClientsInv'
  BY ClientsNext
<1>3. ClientsInv => WholeOrNothing
  BY DEF ClientsInv, WholeInv
<1> QED
  BY <1>1, <1>2, <1>3, PTL DEF Spec
=============================================================================
