-------------------------- MODULE TransferRequests --------------------------
(***************************************************************************)
(* The requests of EconomyRecords with the transfers of tokens between     *)
(* them: what a transfer is asked for, what the API checks before it is    *)
(* accepted and what the consumer checks, against records that may have    *)
(* changed since, before it pays.  The queue, the log and the nonce of an  *)
(* accepted transfer are in TransactionLifecycle.                          *)
(*                                                                         *)
(* Both ends read the token, the kind and the users through the caches, in *)
(* the same order.  Users, kinds and tokens are all active.                *)
(***************************************************************************)
EXTENDS EconomyRecords

CONSTANT Balances   \* token balances a sender may turn out to have

(* A request asks for one transfer.                                        *)
ASSUME AsksAssumption ==
  \A c \in Cases : \A r \in Requests :
    c.requests[r].op \in {"execute", "stp_transfer"} =>
      \E a \in c.requests[r].ask :
        /\ c.requests[r].ask = {a}
        /\ DOMAIN a = {"by", "of", "from", "to", "queued", "amount", "com"}
        /\ c.requests[r].op = "execute" => a.by \in {"name", "kind"}

VARIABLES
  ask,   \* request -> {} or what it asks: by, of, from, to, amount, com
  got,   \* request -> the rows of the token and of the kind it was checked by
  paid   \* the transfers handed to pay

transferVars == <<ask, got, paid>>
allVars == <<vars, transferVars>>

Nothing == [token |-> {}, kind |-> {}]
TransferInit ==
  /\ Init
  /\ ask = [r \in Requests |-> IF R(r).op \in {"execute", "stp_transfer"}
                             THEN R(r).ask ELSE {}]
  /\ got = [r \in Requests |-> Nothing]
  /\ paid = {}

Refuse(r) == Goto(r, "done")
ReserveOf(r) == CHOOSE i \in {t.reserve : t \in got[r].token} : TRUE

(* The company's end of a transfer is the reserve when it is not given.    *)
Parties(k, a, reserve) ==
  [from |-> IF k.kind = "company_to_user" /\ a.from = Null THEN reserve
            ELSE a.from,
   to |-> IF k.kind = "user_to_company" /\ a.to = Null THEN reserve
          ELSE a.to]

Completed(a, p) == [a EXCEPT !.from = p.from, !.to = p.to]

KeepToken(r) == got' = [got EXCEPT ![r].token = read[r]]

(***************************************************************************)
(* A simulated transfer: any kind of a page, any two users.                *)
(***************************************************************************)
SimulateToken(r) ==
  /\ R(r).op = "simulate" /\ ask[r] = {} /\ UNCHANGED transferVars
  /\ LET key == Key("symbol", R(r).symbol) IN
     \/ FromCache(r, "start", key, "sender", "sender_source")
     \/ FromSource(r, "sender_source", key, "sender", "done")

SimulateKinds(r) ==
  /\ R(r).op = "simulate" /\ ask[r] = {}
  /\ \/ /\ FromCache(r, "sender", Key("count", 1), "pick", "count")
        /\ KeepToken(r)
     \/ /\ FromSource(r, "count", Key("count", 1), "pick", "done")
        /\ UNCHANGED got
  /\ UNCHANGED <<ask, paid>>

(* When no sender has enough the last one tried is sent as it is: without  *)
(* an amount, and with the commission of a kind tried before.              *)
DummyCommission == 1
DummyAmount == 1
SimulatedAsk(k, u, v, reserve, enough, tried) ==
  LET ours == [from |-> IF k.kind = "company_to_user" THEN Null ELSE u.id,
               to |-> IF k.kind = "user_to_company" THEN Null ELSE v.id]
      p == Parties(k, ours, reserve)
  IN  [by |-> "name", of |-> k.name,
       from |-> p.from, to |-> p.to, queued |-> FALSE,
       amount |-> IF ArbitraryAmount(k) /\ enough THEN DummyAmount ELSE Null,
       com |-> IF \E t \in {k} \cup tried : BetweenUsers(t) /\ t.com = Null
                 THEN DummyCommission ELSE Null]

Users == {a \in addresses : a.type = "user"}
Simulate(r) ==
  /\ At(r, "simulate", "pick") /\ ask[r] = {}
  /\ LET nothing == (\E n \in read[r] : n.count = 0) \/ kinds = {} IN
     IF nothing \/ Cardinality(Users) < 2
       THEN Refuse(r) /\ UNCHANGED ask
       ELSE /\ \E k \in kinds, u \in Users, v \in Users, enough \in BOOLEAN,
                  tried \in SUBSET kinds :
                 /\ u # v /\ (k.kind = "company_to_user" => enough)
                 /\ ask' = [ask EXCEPT ![r] =
                      {SimulatedAsk(k, u, v, ReserveOf(r), enough, tried)}]
            /\ Goto(r, "start")
  /\ UNCHANGED <<case, rows, cache, read, mine, walk, pending, faults, got,
                 paid>>

(***************************************************************************)
(* The records a transfer is checked by, at the API and in the consumer.   *)
(***************************************************************************)
FetchToken(r) ==
  /\ ask[r] # {} /\ UNCHANGED transferVars
  /\ \/ FromCache(r, "start", Key("token", 1), "symbol", "token_source")
     \/ FromSource(r, "token_source", Key("token", 1), "symbol", "done")

FetchSecureToken(r) ==
  /\ ask[r] # {} /\ UNCHANGED transferVars
  /\ pc[r] \in {"symbol", "symbol_source"}
  /\ \E t \in read[r] :
       LET key == Key("symbol", t.symbol) IN
       \/ FromCache(r, "symbol", key, "secured", "symbol_source")
       \/ FromSource(r, "symbol_source", key, "secured", "done")

ReadKind(r, key) ==
  \/ FromCache(r, "secured", key, "kind", "kind_source") /\ KeepToken(r)
  \/ FromSource(r, "kind_source", key, "kind", "done") /\ UNCHANGED got

FetchKind(r) ==
  /\ pc[r] \in {"secured", "kind_source"} /\ R(r).op # "stp_transfer"
  /\ UNCHANGED <<ask, paid>>
  /\ \E a \in ask[r] : ~a.queued /\ ReadKind(r, Key(a.by, a.of))

(* The consumer has the id only.                                           *)
ValidateAction(r) ==
  /\ pc[r] \in {"secured", "kind_source"} /\ UNCHANGED <<ask, paid>>
  /\ \E a \in ask[r] : a.queued /\ ReadKind(r, Key("kind", a.of))

(* A transfer of ST' comes from the reserve and goes elsewhere; what is    *)
(* made of it is in StpTransfers.                                          *)
StpBelow == 3
ValidStp(a) == a.amount > 0 /\ a.amount < StpBelow /\ a.from # a.to
FromReserve(a, t) == [a EXCEPT !.from = t.reserve]

AdmitStp(r) ==
  /\ At(r, "stp_transfer", "secured")
  /\ ask' = [ask EXCEPT ![r] =
       {[a EXCEPT !.queued = ValidStp(a)] :
          a \in {FromReserve(a, t) : a \in ask[r], t \in read[r]}}]
  /\ Goto(r, "done")
  /\ UNCHANGED <<case, rows, cache, read, mine, walk, pending, faults, got,
                 paid>>

(* _validateOptionallyMandatoryParams.  The consumer does not look at the  *)
(* size of the amount again, nor for a commission of the company's.        *)
GivesWhatIsOpen(k, a) ==
  /\ ArbitraryAmount(k) <=> a.amount # Null
  /\ BetweenUsers(k) => (k.com = Null <=> a.com # Null)
ValidAsk(k, a) ==
  /\ InBounds(a.amount) /\ GivesWhatIsOpen(k, a)
  /\ ~BetweenUsers(k) => a.com = Null

(* Fault seeded to test the properties: what the API has accepted is not   *)
(* looked at again.                                                        *)
TrustsTheAPI(r) ==
  /\ pc[r] = "kind" /\ ask[r] # {}
  /\ \E k \in read[r], a \in ask[r] :
       Goto(r, IF a.queued \/ ValidAsk(k, a) THEN "users" ELSE "done")
  /\ got' = [got EXCEPT ![r].kind = read[r]]
  /\ UNCHANGED <<case, rows, cache, read, mine, walk, pending, faults, ask,
                 paid>>

CheckParams(r) ==
  /\ pc[r] = "kind" /\ ask[r] # {}
  /\ \E k \in read[r], a \in ask[r] :
       Goto(r, IF IF a.queued THEN GivesWhatIsOpen(k, a) ELSE ValidAsk(k, a)
                 THEN "users" ELSE "done")
  /\ got' = [got EXCEPT ![r].kind = read[r]]
  /\ UNCHANGED <<case, rows, cache, read, mine, walk, pending, faults, ask,
                 paid>>

EndsGiven(k, p) ==
  /\ p.from # p.to
  /\ k.kind = "user_to_company" => p.from # Null
  /\ k.kind = "company_to_user" => p.to # Null
(* Who may be whom.                                                        *)
RightParties(k, p, reserve) ==
  /\ p.from # p.to
  /\ (p.from = reserve) <=> (k.kind = "company_to_user")
  /\ (p.to = reserve) <=> (k.kind = "user_to_company")

(* One read of the cache for all three, one of the table for the missing.  *)
UserRecords(ids) ==
  UNION {IF cache[Key("user", i)] # {} THEN UNION cache[Key("user", i)]
         ELSE UserById(i) : i \in ids}
MissingUsers(ids) ==
  {a \in addresses : a.id \in ids /\ cache[Key("user", a.id)] = {}}
SetMissing(ids) == {Set(Key("user", u.id), {u}) : u \in MissingUsers(ids)}
Known(p, reserve) == {p.from, p.to, reserve} \cap Ids
RecordOf(i, users) == {u \in users : u.id = i}

Admits(k, p, reserve, users) ==
  /\ EndsGiven(k, p) /\ {p.from, p.to} \subseteq {u.id : u \in users}
  /\ RightParties(k, p, reserve)

CheckUsers(r) ==
  /\ pc[r] = "users" /\ pending[r] = {}
  /\ \E k \in got[r].kind, a \in ask[r], t \in got[r].token :
       LET p == Parties(k, a, t.reserve)
           users == UserRecords(Known(p, t.reserve))
       IN  /\ IF EndsGiven(k, p) THEN Later(r, SetMissing(Known(p, t.reserve)))
                                 ELSE UNCHANGED pending
           /\ Goto(r, IF Admits(k, p, t.reserve, users)
                        THEN "agreed" ELSE "done")
           /\ read' = [read EXCEPT ![r] = RecordOf(p.from, users)]
           /\ ask' = [ask EXCEPT ![r] = {Completed(a, p)}]
  /\ UNCHANGED <<case, rows, cache, mine, walk, faults, got,
                 paid>>

(* What the sender needs, when a US dollar is an OST; a unit of commission *)
(* is the amount again.                                                    *)
Required(k, a, t) ==
  LET given == IF a.amount # Null THEN a.amount ELSE Price(k)
      amount == IF k.cur = USD THEN given * t.factor ELSE given
  IN  amount * (1 + IF a.com # Null THEN a.com ELSE k.com)

(* A balance that is not had, as that of a user without an address, is 0.  *)
Accept(r) ==
  /\ pc[r] = "agreed"
  /\ \E k \in got[r].kind, a \in ask[r], t \in got[r].token,
        had \in Balances \cup {0} :
       /\ (\E u \in read[r] : u.salt = Null) => had = 0
       /\ ~a.queued
       /\ IF Required(k, a, t) > had
            THEN Refuse(r) /\ UNCHANGED ask
            ELSE /\ ask' = [ask EXCEPT ![r] =
                              {[a EXCEPT !.queued = TRUE, !.of = k.id]}]
                 /\ Goto(r, "start")
  /\ UNCHANGED <<case, rows, cache, read, mine, walk, pending, faults, got,
                 paid>>

(* The amount is the caller's or the kind's, the commission goes to the    *)
(* reserve.                                                                *)
Pay(r) ==
  /\ pc[r] = "agreed"
  /\ \E k \in got[r].kind, a \in ask[r] :
       LET amount == IF ArbitraryAmount(k) THEN a.amount ELSE Price(k)
           com == IF k.com = Null THEN a.com ELSE k.com
       IN  /\ a.queued
           /\ paid' = paid \cup
                {[kind |-> k, from |-> a.from, to |-> a.to,
                  reserve |-> ReserveOf(r), amount |-> amount,
                  com |-> IF BetweenUsers(k) THEN com ELSE Null]}
  /\ Goto(r, "done")
  /\ UNCHANGED <<case, rows, cache, read, mine, walk, pending, faults, ask,
                 got>>

(***************************************************************************)
(* The specification.                                                      *)
(***************************************************************************)
TransferStep(r) ==
  \/ SimulateToken(r) \/ SimulateKinds(r) \/ Simulate(r)
  \/ FetchToken(r) \/ FetchSecureToken(r) \/ FetchKind(r) \/ ValidateAction(r)
  \/ AdmitStp(r)
  \/ CheckParams(r) \/ CheckUsers(r) \/ Accept(r) \/ Pay(r)

TransferNext ==
  \/ Next /\ UNCHANGED transferVars
  \/ \E r \in Requests : TransferStep(r)

(* Queries are answered, effects land, and an entry's time runs out.       *)
RequestsFairness ==
  /\ \A r \in Requests :
       /\ WF_allVars(Step(r) /\ UNCHANGED transferVars)
       /\ WF_allVars(TransferStep(r))
       /\ WF_allVars(SetLands(r) /\ UNCHANGED transferVars)
       /\ WF_allVars(DelLands(r) /\ UNCHANGED transferVars)
       /\ WF_allVars(NameLands(r) /\ UNCHANGED transferVars)
  /\ \A by \in Bys, of \in Ids :
       WF_allVars(Expire(by, of) /\ UNCHANGED transferVars)

RequestsSpec == TransferInit /\ [][TransferNext]_allVars /\ RequestsFairness

(***************************************************************************)
(* Properties.                                                             *)
(***************************************************************************)
(* However a kind was edited between the checks of the API, which saw one  *)
(* cached copy of it, and those of the consumer, which see another: a      *)
(* transfer that is paid has an amount, a commission exactly when it is    *)
(* between users, and the reserve at the company's end and no other.       *)
TransfersAreWhole ==
  \A p \in paid :
    /\ p.amount # Null
    /\ (p.com # Null) <=> BetweenUsers(p.kind)
    /\ RightParties(p.kind, p, p.reserve)
=============================================================================
