-------------------------- MODULE MCEconomyRecords --------------------------
(* Small instances of TransferRequests, and EconomyRecords in it, for TLC.  *)
EXTENDS TransferRequests

Kind(id, name, cur, value, kind, com) ==
  [id |-> id, name |-> name, kind |-> kind, cur |-> cur,
   usd |-> IF cur = USD THEN value ELSE Null,
   bt |-> IF cur = BT THEN value ELSE Null, com |-> com]
User(id, name) == [id |-> id, type |-> "user", name |-> name, salt |-> 1]
Token == [id |-> 1, symbol |-> 1, factor |-> 1, reserve |-> 7, holder |-> 8]
Change(op, id, name, cur, amount, arb, com, arbCom) ==
  [op |-> op, id |-> id, name |-> name, kind |-> "user_to_user", cur |-> cur,
   amount |-> amount, arb |-> arb, com |-> com, arbCom |-> arbCom,
   mayDie |-> FALSE]
Reads(op, of) == [op |-> op, of |-> of, mayDie |-> FALSE]
Edits(of, name) ==
  [op |-> "edit_user", of |-> of, name |-> name, mayDie |-> TRUE]
Generate(name, from) ==
  [op |-> "generate", name |-> name, from |-> from, mayDie |-> FALSE]
Lists(op, by, asc) ==
  [op |-> op, by |-> by, asc |-> asc, limit |-> 1, mayDie |-> FALSE]
Setup(symbol) == [op |-> "setup", symbol |-> symbol, mayDie |-> TRUE]
TokenEdit(factor) ==
  [op |-> "edit_token", symbol |-> 1, factor |-> factor, mayDie |-> FALSE]

Case(ks, us, ts, requests) ==
  [kinds |-> ks, addresses |-> us, tokens |-> ts, requests |-> requests,
   sequential |-> FALSE, faults |-> 0, ages |-> Bys]

Clap == Kind(1, 1, BT, 1, "user_to_user", 2)
Vote == Kind(2, 3, USD, 2, "user_to_company", Null)

(* Two edits of a kind and what reads it.                                  *)
KindCases ==
  {Case({Clap}, {}, {},
     <<Change("edit_kind", 1, Null, USD, 2, False, Null, Null),
       Change("edit_kind", 1, 2, Null, a, arb, com, arbCom), reader>>) :
     a \in {Null, 2}, arb \in {Null, True}, com \in {Null, 1},
     arbCom \in {Null, True}, reader \in {Reads("kind_by_name", 1)}} \cup
  {Case({Clap}, {}, {},
     <<Change("edit_kind", 1, 2, Null, Null, Null, Null, Null),
       Change("add_kind", Null, 1, BT, 1, Null, Null, Null),
       Reads(op, 1)>>) : op \in {"kind_by_name", "kind_by_id", "stats"}}

(* A list of kinds or users while rows are added and changed.              *)
ListCases ==
  {Case({Clap, Vote}, {}, {},
     <<Lists("list_kinds", by, asc),
       Change("add_kind", Null, 2, BT, 1, Null, Null, Null),
       Change("edit_kind", 2, name, Null, Null, Null, Null, Null)>>) :
     by \in {"name", "id"}, asc \in BOOLEAN, name \in {2, 3}} \cup
  {Case({}, {User(1, 2), User(2, 1)}, {},
     <<Lists("list_users", by, asc), Generate(1, "start"), Edits(1, 3)>>) :
     by \in {"name", "id"}, asc \in BOOLEAN}

UserCases ==
  {Case({}, {User(1, 1)}, {Token},
     <<Edits(1, 2), Reads("fetch_user", 1), Edits(1, 3)>>),
   [Case({}, {}, {Token},
     <<Generate(1, "wait"), Generate(2, "wait"), Reads("dummy_users", 1)>>)
     EXCEPT !.faults = 1]}

TokenCases ==
  {[Case({}, {}, {}, <<Setup(1), Setup(2), Setup(3)>>) EXCEPT
      !.sequential = TRUE, !.faults = 2],
   Case({}, {}, {Token},
     <<TokenEdit(2), Reads("get_token", 1), TokenEdit(3)>>),
   Case({}, {}, {Token}, <<Setup(2), Reads("get_token", 1), Setup(1)>>)}

(* Transfers while their kind is edited; 1 and 2 are users, 3 the reserve. *)
Company == [User(3, Null) EXCEPT !.type = "reserve"]
Economy == {User(1, 1), User(2, 2), Company}
Ours == [Token EXCEPT !.reserve = 3]
Asks(by, of, from, to, amount, com) ==
  [op |-> "execute", mayDie |-> FALSE,
   ask |-> {[by |-> by, of |-> of, from |-> from, to |-> to, amount |-> amount,
             com |-> com, queued |-> FALSE]}]
Simulates == [op |-> "simulate", symbol |-> 1, mayDie |-> FALSE]
Idle == [op |-> "none", mayDie |-> FALSE]
Gift == Kind(2, 3, USD, Null, "company_to_user", Null)
Fee == Kind(3, 2, USD, 2, "user_to_company", Null)

Transfers(ks, requests) ==
  [Case(ks, Economy, {Ours}, requests) EXCEPT
     !.ages = {"name", "kind", "count"}]

TransferCases ==
  {Transfers({Clap},
     <<Asks(by, 1, 1, to, amount, com),
       Change("edit_kind", 1, Null, Null, 2 - arb, arb, com, 2 - com),
       Idle>>) :
     by \in {"name", "kind"}, to \in {2, 3}, amount \in {Null, 1},
     com \in {Null, 1}, arb \in {True, False}} \cup
  {Transfers({k},
     <<Asks("name", k.name, from, to, amount, Null),
       Change("edit_kind", k.id, Null, BT, 1, False, Null, Null), Idle>>) :
     k \in {[Gift EXCEPT !.id = 1], [Fee EXCEPT !.id = 1]}, from \in {Null, 1}, to \in {Null, 1},
     amount \in {Null, 1}} \cup
  {Transfers({Clap, Gift, Fee},
     <<Simulates, Change("edit_kind", 1, Null, Null, Null, True, Null, True),
       Idle>>),
   Transfers({}, <<Simulates, Idle, Idle>>),
   Transfers({},
     <<[Asks("none", Null, Null, 1, 2, Null) EXCEPT !.op = "stp_transfer"],
       [Asks("none", Null, Null, 3, 2, Null) EXCEPT !.op = "stp_transfer"],
       [Asks("none", Null, Null, 1, 3, Null) EXCEPT !.op = "stp_transfer"]>>)}

AllCases ==
  KindCases \cup ListCases \cup UserCases \cup TokenCases \cup TransferCases
=============================================================================
