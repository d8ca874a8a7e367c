------------------------------ MODULE Airdrop ------------------------------
(***************************************************************************)
(* Airdrops of a client's token: the request and its validation            *)
(* (app/services/airdrop_management, lib/allocate_airdrop/                 *)
(* start_airdrop.js), the distribution by a consumer                       *)
(* (executables/rmq_subscribers/start_airdrop.js,                          *)
(* lib/airdrop_management/distribute_tokens) and the users' approvals of   *)
(* the airdrop contract that follow it.  Several airdrops of one client    *)
(* may be under way.                                                       *)
(***************************************************************************)
EXTENDS Integers, FiniteSets, Sequences

CONSTANTS
  Airdrops,  \* the airdrops a client asks for
  Cases      \* bound: the clients, with what may go wrong

(* A case: the ids of the client's active users; those that have the       *)
(* airdrop_grant property; the tokens of the reserve; the airdrops, each   *)
(* with the users it is for (list and user_ids, {} for none given), the    *)
(* amount for each and whether it comes from the kit; how many rows a page *)
(* has (2000 in the code), from how many users on the property is written  *)
(* (1000), how many approvals a batch has (20); bounds: failures by kind,  *)
(* and deaths of consumers.                                                *)
VARIABLES
  case,
  status,     \* per airdrop: client_airdrops.status, "none" before
  critical,   \* per airdrop: status of its critical_chain_interaction_log
  pc,         \* per airdrop: what is done next for it
  offset,     \* per airdrop: offset of the page read next
  detail,     \* per airdrop and user: client_airdrop_details.status
  granting,   \* per airdrop: users whose property is not written yet
  granted,    \* users with the airdrop_grant property
  reserve,    \* tokens of the reserve
  budget,     \* per airdrop: tokens moved to the airdrop budget holder
  approval,   \* per airdrop: the job that has its users approve
  turn,       \* per airdrop: offset of that job
  approved,   \* users with the property bt_contract_approved
  overlapped, \* pairs of airdrops that were under way together
  failures, deaths

rows == <<status, critical>>
tokens == <<reserve, budget>>
users == <<approval, turn, approved>>
faults == <<failures, deaths>>
vars == <<case, rows, pc, offset, detail, granting, granted, tokens, users,
          overlapped, faults>>

Lists == {"all", "never", "ever"}
A(a) == case.airdrops[a]
Kinds == {"call", "cache", "exception", "publish", "config"}

ASSUME CasesAssumption ==
  \A c \in Cases :
    /\ c.users \subseteq Nat /\ IsFiniteSet(c.users)
    /\ c.granted \subseteq c.users
    /\ c.reserve \in Nat /\ c.page \in Nat \ {0} /\ c.flush \in Nat \ {0}
    /\ c.batch \in Nat \ {0} /\ DOMAIN c.airdrops = Airdrops
    /\ \A a \in Airdrops :
         /\ c.airdrops[a].list \in Lists /\ c.airdrops[a].uuids \subseteq Nat
         /\ c.airdrops[a].amount \in Nat /\ c.airdrops[a].kit \in BOOLEAN
    /\ c.may \subseteq Kinds /\ c.failures \in Nat /\ c.deaths \in Nat

Init ==
  /\ case \in Cases
  /\ status = [a \in Airdrops |-> "none"]
  /\ critical = [a \in Airdrops |-> "none"]
  /\ pc = [a \in Airdrops |-> "none"]
  /\ offset = [a \in Airdrops |-> 0]
  /\ detail = [a \in Airdrops |-> [u \in case.users |-> "none"]]
  /\ granting = [a \in Airdrops |-> {}]
  /\ granted = case.granted
  /\ reserve = case.reserve
  /\ budget = [a \in Airdrops |-> 0]
  /\ approval = [a \in Airdrops |-> "none"]
  /\ turn = [a \in Airdrops |-> 0]
  /\ approved = {}
  /\ overlapped = {}
  /\ failures = <<>> /\ deaths = 0

At(a, l) == pc[a] = l
Goto(a, l) == pc' = [pc EXCEPT ![a] = l]
MayFail(k) ==
  /\ k \in case.may /\ Len(failures) < case.failures
  /\ failures' = Append(failures, k)

(***************************************************************************)
(* The request.                                                            *)
(***************************************************************************)
(* Fault seeded to test the properties: earlier airdrops do not count.     *)
FilteredAgain(a) == {u \in case.users : A(a).uuids # {} => u \in A(a).uuids}

(* getFilteredActiveUsersCount and ...ByLimitAndOffset.                    *)
Filtered(a) ==
  {u \in case.users :
     /\ A(a).uuids # {} => u \in A(a).uuids
     /\ A(a).list = "never" => u \notin granted
     /\ A(a).list = "ever" => u \in granted}

Cost(a) == A(a).amount * Cardinality(Filtered(a))

(* validateUserIds: every user is one of the client.                       *)
ValidUserIds(a) == A(a).uuids \subseteq case.users

(* validateReserveBalance.                                                 *)
ValidReserveBalance(a) == Filtered(a) # {} /\ Cost(a) <= reserve

Valid(a) == A(a).amount > 0 /\ ValidUserIds(a) /\ ValidReserveBalance(a)

(* kit_drop validates and has the router insert a row and a message.       *)
KitDrop(a) ==
  /\ At(a, "none") /\ A(a).kit
  /\ IF Valid(a)
       THEN Goto(a, "requested") /\ critical' = [critical EXCEPT ![a] = "queued"]
       ELSE Goto(a, "refused") /\ UNCHANGED critical
  /\ UNCHANGED <<case, status, offset, detail, granting, granted, tokens,
                 users, overlapped, faults>>

(* The API, or the consumer of the kit's message: the validations of       *)
(* start_airdrop.js.  validateIncompleteRequests builds a query and does   *)
(* not fire it: it refuses nothing.                                        *)
Validate(a) ==
  /\ At(a, IF A(a).kit THEN "requested" ELSE "none")
  /\ IF Valid(a)
       THEN Goto(a, "valid") /\ UNCHANGED critical
       ELSE /\ Goto(a, "refused")
            /\ critical' = [critical EXCEPT ![a] =
                              IF @ = "none" THEN @ ELSE "failed"]
  /\ UNCHANGED <<case, status, offset, detail, granting, granted, tokens,
                 users, overlapped, faults>>

UnderWay(a) == status[a] \in {"incomplete", "processing"}

(* insertDb.  A publication that fails is logged.                          *)
InsertDb(a) ==
  /\ At(a, "valid")
  /\ status' = [status EXCEPT ![a] = "incomplete"]
  /\ overlapped' = overlapped \cup {{a, b} : b \in {c \in Airdrops : UnderWay(c)}}
  /\ \/ Goto(a, "queued") /\ UNCHANGED failures
     \/ MayFail("publish") /\ Goto(a, "lost")
  /\ UNCHANGED <<case, critical, offset, detail, granting, granted, tokens,
                 users, deaths>>

(***************************************************************************)
(* The distribution.                                                       *)
(***************************************************************************)
(* _setClientAirdropObj: an airdrop that is not incomplete is left alone.  *)
Start(a) ==
  /\ At(a, "queued")
  /\ IF status[a] = "incomplete"
       THEN /\ status' = [status EXCEPT ![a] = "processing"]
            /\ critical' = [critical EXCEPT ![a] =
                              IF @ = "none" THEN @ ELSE "pending"]
            /\ Goto(a, "check")
       ELSE Goto(a, "end") /\ UNCHANGED rows
  /\ UNCHANGED <<case, offset, detail, granting, granted, tokens, users,
                 overlapped, faults>>

(* The configuration is not found: nobody handles the rejection, and the   *)
(* message is not acknowledged.                                            *)
NoConfig(a) ==
  /\ At(a, "queued")
  /\ MayFail("config")
  /\ Goto(a, "hung")
  /\ UNCHANGED <<case, rows, offset, detail, granting, granted, tokens, users,
                 overlapped, deaths>>

(* _updateFailedStatusClientAirdropObj.                                    *)
Failed(a) ==
  /\ Goto(a, "end")
  /\ status' = [status EXCEPT ![a] = "failed"]
  /\ critical' = [critical EXCEPT ![a] = IF @ = "none" THEN @ ELSE "failed"]

(* perform: a result that is rejected is returned, an exception marks the  *)
(* critical row alone.                                                     *)
Exception(a) ==
  /\ Goto(a, "end")
  /\ \/ MayFail("cache") /\ UNCHANGED critical
     \/ /\ MayFail("exception")
        /\ critical' = [critical EXCEPT ![a] = IF @ = "none" THEN @ ELSE "failed"]
  /\ UNCHANGED status

(* Either failure inside to_addresses and allocate_token is a response.    *)
CallFails(a) == (MayFail("call") \/ MayFail("cache") \/ MayFail("exception"))
                /\ Failed(a)

(* _checkReserveAddressBalance.                                            *)
ChecksReserve(a) ==
  /\ At(a, "check")
  /\ \/ /\ ValidReserveBalance(a)
        /\ Goto(a, "details") /\ UNCHANGED <<rows, failures>>
     \/ ~ValidReserveBalance(a) /\ Failed(a) /\ UNCHANGED failures
     \/ CallFails(a)
  /\ offset' = [offset EXCEPT ![a] = 0]
  /\ UNCHANGED <<case, detail, granting, granted, tokens, users, overlapped,
                 deaths>>

(* A page of a query ordered by id: who has that many before him.          *)
Page(S, from, size) ==
  {u \in S : Cardinality({v \in S : v < u}) \in from .. from + size - 1}

Turns(a, S, next) ==
  IF Cardinality(S) < case.page
    THEN Goto(a, next) /\ offset' = [offset EXCEPT ![a] = 0]
    ELSE UNCHANGED pc /\ offset' = [offset EXCEPT ![a] = @ + case.page]

(* _createAirdropDetails, page by page; the pages move when another        *)
(* airdrop writes the property.                                            *)
CreatesDetails(a) ==
  /\ At(a, "details")
  /\ LET page == Page(Filtered(a), offset[a], case.page) IN
       \/ /\ detail' = [detail EXCEPT ![a] = [u \in case.users |->
                          IF u \in page THEN "incomplete" ELSE @[u]]]
          /\ Turns(a, page, "transfer")
          /\ UNCHANGED <<rows, failures>>
       \/ CallFails(a) /\ UNCHANGED <<detail, offset>>
  /\ UNCHANGED <<case, granting, granted, tokens, users, overlapped, deaths>>

Entered(a) == {u \in case.users : detail[a][u] # "none"}

(* Fault seeded to test the properties: the amount of one user is moved.   *)
AmountOfOne(a) == A(a).amount

(* getTotalTransferAmount.                                                 *)
TotalTransferAmount(a) == A(a).amount * Cardinality(Entered(a))

(* The ST' of the reserve is refilled and its tokens are moved.            *)
StartsTokenTransfer(a) ==
  /\ At(a, "transfer")
  /\ LET total == TotalTransferAmount(a) IN
       \/ /\ total <= reserve
          /\ reserve' = reserve - total
          /\ budget' = [budget EXCEPT ![a] = total]
          /\ Goto(a, "approve") /\ UNCHANGED <<rows, failures>>
       \/ total > reserve /\ Failed(a) /\ UNCHANGED <<tokens, failures>>
       \/ MayFail("call") /\ Failed(a) /\ UNCHANGED tokens
       \/ Exception(a) /\ UNCHANGED tokens
  /\ UNCHANGED <<case, offset, detail, granting, granted, users, overlapped,
                 deaths>>

(* The budget holder approves the airdrop contract.                        *)
StartsContractApprove(a) ==
  /\ At(a, "approve")
  /\ \/ Goto(a, "allocate") /\ UNCHANGED <<rows, failures>>
     \/ MayFail("call") /\ Failed(a)
     \/ Exception(a)
  /\ UNCHANGED <<case, offset, detail, granting, granted, tokens, users,
                 overlapped, deaths>>

Pending(a) == {u \in case.users : detail[a][u] = "incomplete"}

(* The page is taken from the records that are still pending, although the *)
(* offset counts those that were.                                          *)
Allocates(a) ==
  /\ At(a, "allocate")
  /\ LET page == Page(Pending(a), offset[a], case.page)
         unset == granting[a] \cup (page \ granted)
         last == Cardinality(page) < case.page
     IN \/ /\ detail' = [detail EXCEPT ![a] = [u \in case.users |->
                           IF u \in page THEN "complete" ELSE @[u]]]
           /\ Turns(a, page, "complete")
           /\ IF last \/ Cardinality(unset) >= case.flush
                THEN /\ granted' = granted \cup unset
                     /\ granting' = [granting EXCEPT ![a] = {}]
                ELSE /\ granting' = [granting EXCEPT ![a] = unset]
                     /\ UNCHANGED granted
           /\ UNCHANGED <<rows, failures>>
        \/ /\ MayFail("call") /\ Failed(a) /\ page # {}
           /\ detail' = [detail EXCEPT ![a] = [u \in case.users |->
                           IF u \in page THEN "failed" ELSE @[u]]]
           /\ UNCHANGED <<offset, granting, granted>>
        \/ /\ (MayFail("cache") \/ MayFail("exception")) /\ Failed(a)
           /\ UNCHANGED <<detail, offset, granting, granted>>
  /\ UNCHANGED <<case, tokens, users, overlapped, deaths>>

(* _markCompleteStatus, the first and the second row.                      *)
MarksComplete(a) ==
  /\ At(a, "complete")
  /\ \/ /\ status' = [status EXCEPT ![a] = "complete"]
        /\ Goto(a, "processed") /\ UNCHANGED <<critical, failures>>
     \/ Exception(a)
  /\ UNCHANGED <<case, offset, detail, granting, granted, tokens, users,
                 overlapped, deaths>>

MarksProcessed(a) ==
  /\ At(a, "processed")
  /\ \/ /\ critical' = [critical EXCEPT ![a] =
                          IF @ = "none" THEN @ ELSE "processed"]
        /\ Goto(a, "reserve") /\ UNCHANGED <<status, failures>>
     \/ Exception(a)
  /\ UNCHANGED <<case, offset, detail, granting, granted, tokens, users,
                 overlapped, deaths>>

(* approveReserveForAirdropContract, whose response nobody reads, and      *)
(* enqueueUserApprovalJob.                                                 *)
ApprovesReserve(a) ==
  /\ At(a, "reserve")
  /\ \/ /\ Goto(a, "end") /\ approval' = [approval EXCEPT ![a] = "queued"]
        /\ UNCHANGED <<rows, failures>>
     \/ /\ MayFail("publish") /\ Goto(a, "end")
        /\ UNCHANGED <<rows, approval>>
     \/ Exception(a) /\ UNCHANGED approval
  /\ UNCHANGED <<case, offset, detail, granting, granted, tokens, turn,
                 approved, overlapped, deaths>>

(* The consumer dies: the message is delivered again.                      *)
Running == {"check", "details", "transfer", "approve", "allocate", "complete",
            "processed", "reserve", "hung"}
Dies(a) ==
  /\ pc[a] \in Running /\ deaths < case.deaths
  /\ deaths' = deaths + 1
  /\ Goto(a, "queued")
  /\ granting' = [granting EXCEPT ![a] = {}]
  /\ UNCHANGED <<case, rows, offset, detail, granted, tokens, users,
                 overlapped, failures>>

(* user_airdrop_contract_approve reads the airdrop, the token and the      *)
(* reserve.                                                                *)
ReadsRecords(a) ==
  /\ approval[a] = "queued"
  /\ \/ approval' = [approval EXCEPT ![a] = "approving"] /\ UNCHANGED failures
     \/ approval' = [approval EXCEPT ![a] = "done"] /\ MayFail("exception")
  /\ UNCHANGED <<case, rows, pc, offset, detail, granting, granted, tokens,
                 turn, approved, overlapped, deaths>>

(* Fault seeded to test the properties: the batch is the first one always. *)
ApprovesForEver(a) ==
  /\ approval[a] = "approving"
  /\ LET page == Page(Entered(a), 0, case.batch)
     IN /\ approved' = approved \cup {u \in page : detail[a][u] = "complete"}
        /\ approval' = [approval EXCEPT ![a] = IF page = {} THEN "done" ELSE @]
  /\ UNCHANGED <<case, rows, pc, offset, detail, granting, granted, tokens,
                 turn, overlapped, faults>>

(* The property is written for each user whose approval the chain took.    *)
Approve(us) == approved' = approved \cup us

(* Batch by batch, the users that were allotted and have not approved get  *)
(* gas and approve; a call that fails for a user leaves that user out.     *)
ApprovesUsers(a) ==
  /\ approval[a] = "approving"
  /\ LET page == Page(Entered(a), turn[a], case.batch)
         todo == {u \in page : detail[a][u] = "complete"} \ approved
     IN \E out \in {{}} \cup {{u} : u \in todo} :
          /\ IF out = {} THEN UNCHANGED failures ELSE MayFail("call")
          /\ Approve(todo \ out)
          /\ approval' = [approval EXCEPT ![a] =
                            IF page = {} THEN "done" ELSE @]
          /\ turn' = [turn EXCEPT ![a] = @ + Cardinality(page)]
  /\ UNCHANGED <<case, rows, pc, offset, detail, granting, granted, tokens,
                 overlapped, deaths>>

Distributes(a) ==
  \/ Start(a) \/ ChecksReserve(a) \/ CreatesDetails(a)
  \/ StartsTokenTransfer(a) \/ StartsContractApprove(a) \/ Allocates(a)
  \/ MarksComplete(a) \/ MarksProcessed(a) \/ ApprovesReserve(a)

Approval(a) == ReadsRecords(a) \/ ApprovesUsers(a)

Next ==
  \E a \in Airdrops :
    \/ KitDrop(a) \/ Validate(a) \/ InsertDb(a) \/ Distributes(a)
    \/ NoConfig(a) \/ Dies(a) \/ Approval(a)

Spec == Init /\ [][Next]_vars

(* Fairness: requests being served and messages delivered come to an end.  *)
Fairness ==
  \A a \in Airdrops : WF_vars(Distributes(a)) /\ WF_vars(Approval(a))
FairSpec == Spec /\ Fairness

(***************************************************************************)
(* Properties.                                                             *)
(***************************************************************************)
Allotted(a) == {u \in case.users : detail[a][u] = "complete"}

(* What is allotted to users is covered by the tokens moved for this very  *)
(* airdrop, whatever other airdrops of the client do at the time; and these*)
(* are moved once, also when the message is delivered again after a death. *)
AllotmentsBacked ==
  \A a \in Airdrops :
    /\ A(a).amount * Cardinality(Allotted(a)) <= budget[a]
    /\ budget[a] \in {0, TotalTransferAmount(a)}

(* A user is allotted by two airdrops for those never airdropped only if   *)
(* these were under way together, or one had a failure or a death between  *)
(* the allotment and the property.                                         *)
NeverMeansOnce ==
  \A a, b \in Airdrops :
    a # b /\ A(a).list = "never" /\ A(b).list = "never"
      /\ Allotted(a) \cap Allotted(b) # {}
    => {a, b} \in overlapped \/ failures # <<>> \/ deaths > 0

(* What the consumer begins, it ends, unless it has no configuration; and  *)
(* the users' approvals follow a complete airdrop.                         *)
ServedInTheEnd ==
  \A a \in Airdrops :
    /\ At(a, "queued") ~> (At(a, "end") \/ At(a, "hung"))
    /\ approval[a] = "queued" ~> approval[a] = "done"
=============================================================================
