------------------------- MODULE MCConfigStrategies -------------------------
(* Small instances of ConfigStrategies for TLC.                            *)
EXTENDS ConfigStrategies, TLC

Params(ident, n, addr) ==
  [ident |-> ident, bal |-> n, log |-> n, addr |-> addr]
Row(id, kind, group, active, p) ==
  [id |-> id, kind |-> kind, group |-> group, active |-> active, params |-> p]

(* Two groups and what they share.                                         *)
Shared(on) ==
  {Row(1, "value_constants", Null, on, Params(1, 0, {})),
   Row(2, "shared_rmq", Null, on, Params(1, 0, {}))}
Group(g, first, on, addr) ==
  {Row(first, "dynamo", g, on, Params(g, 2, {})),
   Row(first + 1, "utility_constants", g, on, Params(g, 0, addr))}
Both(on1, on2) ==
  Shared(TRUE) \cup Group(1, 3, on1, {}) \cup Group(2, 5, on2, {})

Ask(op, p, after) == [op |-> op, proc |-> p, after |-> after]
Assign(c, after) == Ask("assign", 1, after) @@ [client |-> c]
Get(c) == Ask("get", 1, Null) @@ [client |-> c]
Associated(i) == Ask("associate", 2, Null) @@ [id |-> i]
OfGroup(op, p, g, after) == Ask(op, p, after) @@ [group |-> g]
OfKind(op, p, kind, g, after) == OfGroup(op, p, g, after) @@ [kind |-> kind]
Add(op, kind, g, params) ==
  OfKind(op, 2, kind, g, Null) @@ [params |-> params]
Change(p, kind, g, ident) ==
  OfKind("change", p, kind, g, Null) @@ [ident |-> ident]
GetKind(c, kind) == Ask("get_kind", 1, Null) @@ [client |-> c, kind |-> kind]
CountShards(p, id, n) ==
  Ask("count_shards", p, Null) @@ [id |-> id, bal |-> n, log |-> n]
NewShard(p, id) == Ask("create_shard", p, Null) @@ [id |-> id]
Deploy == OfKind("deploy", 1, "utility_constants", 2, Null)
StepOf(task, after) ==
  OfKind("step", 3, "utility_constants", 2, after) @@ [task |-> task]

Pending == [t \in {"REGISTRAR", "ST_PRIME", "FINALIZE"} |-> "PENDING"]
Case(rows, ls, requests) ==
  [strategies |-> rows, links |-> ls, requests |-> requests,
   tasks |-> Pending, order |-> <<"REGISTRAR", "ST_PRIME", "FINALIZE">>,
   faults |-> 0]

(* A client with strategies of its group but not of every kind.            *)
Partial(c) == {Link(c, 3, <<2, 2>>), Link(c, 1, <<>>)}
GroupOne(c) == Partial(c) \cup {Link(c, 4, <<>>)}

(* Assignments of one client side by side, with readers and the script.    *)
AssignCases ==
  {Case(Both(TRUE, TRUE), ls, <<Assign(1, Null), Assign(1, Null), third>>) :
     ls \in {{}, Partial(1)},
     third \in {Get(1), GetKind(1, "dynamo"), Associated(2)}} \cup
  {Case(Both(TRUE, TRUE), GroupOne(1),
     <<Assign(1, Null), Get(1), Associated(2)>>)}

(* Groups come and go while clients are assigned one after another.        *)
GroupCases ==
  {Case(Both(on, TRUE), ls, <<Assign(1, Null),
     OfGroup(op, 2, 1, Null), OfGroup("activate", 3, 2, 2), Assign(1, 1)>>) :
     on \in BOOLEAN, ls \in {{}, Partial(1)},
     op \in {"deactivate", "activate"}}

(* New strategies, some of which are those of another group.               *)
AddCases ==
  {Case(Both(TRUE, TRUE) \ Group(2, 5, TRUE, {}), {},
     <<Assign(1, Null), Add(op, "dynamo", 2, Params(i, 1, {})),
       Ask("activate_one", 3, 2) @@ [id |-> 5], Assign(2, 2)>>) :
     op \in {"add", "populate", "seed"}, i \in {1, 2}} \cup
  {Case(Both(TRUE, TRUE), {},
     <<Assign(1, Null), shards, Change(3, kind, Null, 2),
       Change(4, kind, Null, 3)>>) :
     kind \in {"shared_rmq", "value_constants"},
     shards \in {CountShards(2, 3, 3), NewShard(2, 3)}}

(* Contracts are deployed and deployments die.                             *)
DeployCases ==
  {[Case(Shared(TRUE) \cup Group(1, 3, TRUE, {}) \cup Group(2, 5, on, addr),
     {}, <<Deploy, OfGroup("activate", 2, 2, 1), Assign(1, Null)>>)
     EXCEPT !.faults = 2] : on \in BOOLEAN, addr \in {{}, {"REGISTRAR"}}} \cup
  {[Case(Shared(TRUE) \cup Group(1, 3, TRUE, {}) \cup Group(2, 5, FALSE, {}),
     {}, <<Deploy, StepOf("ST_PRIME", 1), OfGroup("activate", 2, 2, 1)>>)
     EXCEPT !.faults = 1, !.order = <<"REGISTRAR">>]}

AllCases == AssignCases \cup GroupCases \cup AddCases \cup DeployCases
=============================================================================
