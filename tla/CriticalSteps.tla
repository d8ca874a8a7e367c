--------------------------- MODULE CriticalSteps ---------------------------
(***************************************************************************)
(* Setting up the economy of a token: the on-boarding steps (propose,      *)
(* deploy airdrop, set operations, set workers, price oracle, accepted     *)
(* margin) and the stake-and-mint steps (transfer to the staker, approve,  *)
(* stake for branded token and ST prime, their settlement), up to the row  *)
(* that asks for the airdrop.  Every step has a row in                     *)
(* critical_chain_interaction_logs and a message; a consumer does the step *)
(* and calls a router, which inserts the rows of the next steps            *)
(* (lib/on_boarding, lib/stake_and_mint, lib/allocate_airdrop/router.js,   *)
(* executables/rmq_subscribers/factory.js).                                *)
(*                                                                         *)
(* Many updates and insertions are not awaited: they are in inflight until *)
(* the database has them, in any order, or until their process dies.       *)
(***************************************************************************)
EXTENDS Naturals, FiniteSets

CONSTANT Cases  \* bound: the requests, each with what may go wrong with it

Step == {"propose", "deploy", "setops", "worker", "oracle", "margin",
         "transfer", "approve", "bt", "stp", "airdrop"}
Claim == {"btClaim", "stpClaim"}
Job == (Step \ {"setops", "airdrop"}) \cup Claim
Effectful == (Step \ {"airdrop"}) \cup Claim
Status == {"none", "queued", "pending", "processed", "failed"}

VARIABLES
  case,      \* the request that is served, see CasesAssumption
  btStake,   \* ost_to_stake_to_mint_bt is more than 0
  row,       \* per step: the status of its row, "none" before the insertion
  queue,     \* per message kind: how many wait to be delivered
  pc,        \* per job: what its consumer does next
  inflight,  \* writes nobody waits for: <<job, step, status>>
  effects,   \* how often each step took effect outside the database
  minting,   \* per stake: stakes whose end the intercomm has to report
  overtaken, \* the airdrop was asked for while a status was in flight
  crashes, lost

faultVars == <<crashes, lost>>
vars == <<case, btStake, row, queue, pc, inflight, effects, minting,
          overtaken, faultVars>>

(* A request is an on-boarding or a stake and mint of its own ("mint");    *)
(* asks for what has bt_to_mint or st_prime_to_mint above 0 and for an     *)
(* airdrop if it has airdrop_params; exceeds: the amount transferred is    *)
(* more than st_prime_to_mint.  Bounds: so many deaths of the consumers of *)
(* these jobs, so many messages not published, and the steps whose status  *)
(* may reach the database late when nobody waits for it.                   *)
ValidRequest(c) ==
  /\ c.flow \in {"onBoarding", "mint"}
  /\ c.asks \subseteq {"bt", "stp", "airdrop"}
  /\ c.asks \cap {"bt", "stp"} # {}
  /\ c.flow = "mint" => "airdrop" \notin c.asks

ASSUME CasesAssumption ==
  \A c \in Cases :
    /\ ValidRequest(c)
    /\ c.exceeds \in BOOLEAN /\ ("stp" \notin c.asks => c.exceeds)
    /\ c.mortal \subseteq Job /\ c.slow \subseteq Step
    /\ c.crashes \in Nat /\ c.losses \in Nat

(***************************************************************************)
(* Rows and messages.                                                      *)
(***************************************************************************)
Parent == IF case.flow = "onBoarding" THEN "propose" ELSE "transfer"
Children == {s \in Step \ {Parent} : row[s] # "none"}
StakeOf(j) == IF j \in {"bt", "btClaim"} THEN "bt" ELSE "stp"

(* The unique key (parent_id, activity_type): insertRecord rejects with    *)
(* ER_DUP_ENTRY when the step has a row already.                           *)
Insertable(s) == row[s] = "none"

Written(s, st) == row' = [row EXCEPT ![s] = st]
At(j, l) == pc[j] = l
Goto(j, l) == pc' = [pc EXCEPT ![j] = l]

(* An update that is not awaited, and an insertion that is not.            *)
LaterWrite(j, s, st) ==
  IF s \in case.slow
    THEN inflight' = inflight \cup {<<j, s, st>>} /\ UNCHANGED row
    ELSE Written(s, st) /\ UNCHANGED inflight

LaterInsert(j, S) == inflight' = inflight \cup {<<j, s, "queued">> : s \in S}

Took(j) == effects' = [effects EXCEPT ![j] = @ + 1]

(* A row is inserted as queued and its message is published; a publication *)
(* that fails is logged, the row stays.                                    *)
QueueJob(s) ==
  /\ Insertable(s)
  /\ Written(s, "queued")
  /\ \/ /\ queue' = [queue EXCEPT ![s] = @ + 1]
        /\ UNCHANGED lost
     \/ /\ Cardinality(lost) < case.losses
        /\ lost' = lost \cup {s}
        /\ UNCHANGED queue

Init ==
  /\ case \in Cases
  /\ btStake = FALSE
  /\ row = [s \in Step |-> "none"]
  /\ queue = [m \in Step \cup Claim |-> 0]
  /\ pc = [j \in Job |-> "idle"]
  /\ inflight = {}
  /\ effects = [s \in Effectful |-> 0]
  /\ minting = [s \in {"bt", "stp"} |-> 0]
  /\ overtaken = FALSE
  /\ crashes = 0
  /\ lost = {}

(* The API call: the row of the first step has no parent.                  *)
StartOnBoarding ==
  /\ case.flow = "onBoarding"
  /\ QueueJob("propose")
  /\ UNCHANGED <<case, btStake, pc, inflight, effects, minting,
                 overtaken, crashes>>

StartStakeAndMint ==
  /\ case.flow = "mint"
  /\ QueueJob("transfer")
  /\ UNCHANGED <<case, btStake, pc, inflight, effects, minting,
                 overtaken, crashes>>

(* A consumer of factory.js is given the message of a job and reads the    *)
(* rows of the step and of its parent.  It compares no status.             *)
Deliver(j, next) ==
  /\ At(j, "idle") /\ queue[j] > 0
  /\ queue' = [queue EXCEPT ![j] = @ - 1]
  /\ Goto(j, next)
  /\ UNCHANGED <<case, effects, minting, overtaken, faultVars>>

(* Fault seeded to test the properties: the message of a failed step is    *)
(* requeued.                                                               *)
FailLaterRequeued(j) ==
  /\ LaterWrite(j, j, "failed")
  /\ Goto(j, "idle")
  /\ queue' = [queue EXCEPT ![j] = @ + 1]
  /\ UNCHANGED <<case, btStake, effects, minting, overtaken, faultVars>>

(* perform's catch: the row becomes failed and the message is acknowledged *)
(* like any other.                                                         *)
FailLater(j) ==
  /\ LaterWrite(j, j, "failed")
  /\ Goto(j, "idle")
  /\ UNCHANGED <<case, btStake, queue, effects, minting,
                 overtaken, faultVars>>

FailNow(j, s) ==
  /\ Written(s, "failed")
  /\ Goto(j, "idle")
  /\ UNCHANGED <<case, btStake, queue, inflight, effects, minting,
                 overtaken, faultVars>>

(***************************************************************************)
(* Propose: register the token, then queue the two branches.               *)
(***************************************************************************)
ProposeBegins ==
  /\ Deliver("propose", "propose")
  /\ UNCHANGED <<btStake, row, inflight>>

ProposeSends ==
  /\ At("propose", "propose")
  /\ Took("propose")
  /\ LaterWrite("propose", "propose", "pending")
  /\ Goto("propose", "status")
  /\ UNCHANGED <<case, btStake, queue, minting, overtaken,
                 faultVars>>

(* Every poll before writes pending, to the same effect as the first one.  *)
ProposeRegistered ==
  /\ At("propose", "status")
  /\ LaterWrite("propose", "propose", "processed")
  /\ Goto("propose", "deploy")
  /\ UNCHANGED <<case, btStake, queue, effects, minting,
                 overtaken, faultVars>>

ProposeQueuesDeploy ==
  /\ At("propose", "deploy")
  /\ QueueJob("deploy")
  /\ Goto("propose", "transfer")
  /\ UNCHANGED <<case, btStake, inflight, effects, minting, overtaken,
                 crashes>>

ProposeQueuesTransfer ==
  /\ At("propose", "transfer")
  /\ QueueJob("transfer")
  /\ Goto("propose", "idle")
  /\ UNCHANGED <<case, btStake, inflight, effects, minting, overtaken,
                 crashes>>

(* The proposal fails, is not registered within 25 polls, the token cannot *)
(* be edited, or a step has been queued before.                            *)
ProposeFails ==
  /\ \/ pc["propose"] \in {"propose", "status"}
     \/ At("propose", "deploy")
     \/ At("propose", "transfer") /\ ~Insertable("transfer")
  /\ FailLater("propose")

(***************************************************************************)
(* Deploy airdrop.  The row is processed as soon as the contract is there; *)
(* what is left of the step (the token's record, the registration, the     *)
(* operations address and the next rows) comes after.                      *)
(***************************************************************************)
DeployBegins ==
  /\ Deliver("deploy", "contract")
  /\ LaterWrite("deploy", "deploy", "pending")
  /\ UNCHANGED btStake

DeployContract ==
  /\ At("deploy", "contract")
  /\ Took("deploy")
  /\ LaterWrite("deploy", "deploy", "processed")
  /\ Goto("deploy", "setops")
  /\ UNCHANGED <<case, btStake, queue, minting, overtaken,
                 faultVars>>

InsertSetops ==
  /\ At("deploy", "setops")
  /\ Insertable("setops")
  /\ Written("setops", "pending")
  /\ Goto("deploy", "sendSetops")
  /\ UNCHANGED <<case, btStake, queue, inflight, effects, minting,
                 overtaken, faultVars>>

SendSetops ==
  /\ At("deploy", "sendSetops")
  /\ Took("setops")
  /\ LaterWrite("deploy", "setops", "processed")
  /\ Goto("deploy", "worker")
  /\ UNCHANGED <<case, btStake, queue, minting, overtaken,
                 faultVars>>

(* Without the addresses, the contract, the token's record or the setops   *)
(* row and its transaction the deploy row fails; the setops row stays.     *)
DeployFails ==
  /\ \/ pc["deploy"] \in {"contract", "sendSetops"}
     \/ At("deploy", "setops")
  /\ FailLater("deploy")

(* The router queues the three steps one after the other; its first error  *)
(* ends it, and the answer is not looked at.                               *)
AfterDeploy == [worker |-> "oracle", oracle |-> "margin", margin |-> "idle"]

DeployQueues ==
  \E s \in DOMAIN AfterDeploy :
    /\ At("deploy", s)
    /\ \/ QueueJob(s) /\ Goto("deploy", AfterDeploy[s])
       \/ ~Insertable(s) /\ Goto("deploy", "idle") /\ UNCHANGED <<row, queue, lost>>
    /\ UNCHANGED <<case, btStake, inflight, effects, minting,
                   overtaken, crashes>>

(***************************************************************************)
(* Set workers, price oracle and accepted margin.                          *)
(***************************************************************************)
SetWorkersBegins ==
  /\ Deliver("worker", "send")
  /\ LaterWrite("worker", "worker", "pending")
  /\ UNCHANGED btStake

(* Delivered again after its workers were set, it may find none to set.    *)
SetWorkersNothingToSet ==
  /\ Deliver("worker", "idle")
  /\ effects["worker"] > 0
  /\ Written("worker", "failed")
  /\ UNCHANGED <<btStake, inflight>>

(* One worker that was set is enough; its row becomes active and gets a    *)
(* process.                                                                *)
SetWorkers ==
  /\ At("worker", "send")
  /\ Took("worker")
  /\ LaterWrite("worker", "worker", "processed")
  /\ Goto("worker", "check")
  /\ UNCHANGED <<case, btStake, queue, minting, overtaken,
                 faultVars>>

SetPriceOracleBegins ==
  /\ Deliver("oracle", "send")
  /\ LaterWrite("oracle", "oracle", "pending")
  /\ UNCHANGED btStake

SetPriceOracle ==
  /\ At("oracle", "send")
  /\ Took("oracle")
  /\ Written("oracle", "processed")
  /\ Goto("oracle", "check")
  /\ UNCHANGED <<case, btStake, queue, inflight, minting, overtaken,
                 faultVars>>

SetAcceptedMarginBegins ==
  /\ Deliver("margin", "send")
  /\ LaterWrite("margin", "margin", "pending")
  /\ UNCHANGED btStake

SetAcceptedMargin ==
  /\ At("margin", "send")
  /\ Took("margin")
  /\ Written("margin", "processed")
  /\ Goto("margin", "check")
  /\ UNCHANGED <<case, btStake, queue, inflight, minting, overtaken,
                 faultVars>>

SetFails == \E s \in DOMAIN AfterDeploy : At(s, "send") /\ FailNow(s, s)

(***************************************************************************)
(* Stake and mint.                                                         *)
(***************************************************************************)
VerifyBegins ==
  /\ Deliver("transfer", "receipt")
  /\ LaterWrite("transfer", "transfer", "pending")
  /\ UNCHANGED btStake

(* The receipt is there and is the right one: what exceeds st_prime_to_mint*)
(* is left for the branded token.                                          *)
VerifyReceipt ==
  /\ At("transfer", "receipt")
  /\ Took("transfer")
  /\ Written("transfer", "processed")
  /\ Goto("transfer", "amounts")
  /\ UNCHANGED <<case, btStake, queue, inflight, minting, overtaken,
                 faultVars>>

VerifySavesAmounts ==
  /\ At("transfer", "amounts")
  /\ btStake' = case.exceeds
  /\ Goto("transfer", "router")
  /\ UNCHANGED <<case, row, queue, inflight, effects, minting,
                 overtaken, faultVars>>

(* The router does not wait for the next row: an error is nobody's.        *)
VerifyQueuesApprove ==
  /\ At("transfer", "router")
  /\ LaterInsert("transfer", {"approve"})
  /\ Goto("transfer", "idle")
  /\ UNCHANGED <<case, btStake, row, queue, effects, minting,
                 overtaken, faultVars>>

(* No receipt in 24 attempts, or one of another sender or receiver.        *)
VerifyFails == At("transfer", "receipt") /\ FailNow("transfer", "transfer")

ApproveBegins ==
  /\ Deliver("approve", "approve")
  /\ LaterWrite("approve", "approve", "pending")
  /\ UNCHANGED btStake

Approve ==
  /\ At("approve", "approve")
  /\ Took("approve")
  /\ Written("approve", "processed")
  /\ Goto("approve", "router")
  /\ UNCHANGED <<case, btStake, queue, inflight, minting, overtaken,
                 faultVars>>

ApproveQueuesStakes ==
  /\ At("approve", "router")
  /\ LaterInsert("approve", case.asks \cap {"bt", "stp"})
  /\ Goto("approve", "idle")
  /\ UNCHANGED <<case, btStake, row, queue, effects, minting,
                 overtaken, faultVars>>

(* Fault seeded to test the properties: a receipt of a failed approval is  *)
(* taken for a good one.                                                   *)
ApproveFailsUnseen ==
  /\ At("approve", "approve")
  /\ Written("approve", "processed")
  /\ Goto("approve", "router")
  /\ UNCHANGED <<case, btStake, queue, inflight, effects, minting, overtaken,
                 faultVars>>

ApproveFails == At("approve", "approve") /\ FailNow("approve", "approve")

(* The amount to stake for the branded token must not be 0.                *)
StakeBegins ==
  \E s \in {"bt", "stp"} :
    /\ Deliver(s, "stake")
    /\ s = "stp" \/ btStake
    /\ LaterWrite(s, s, "pending")
    /\ UNCHANGED btStake

StakeRefused ==
  /\ Deliver("bt", "idle")
  /\ ~btStake
  /\ Written("bt", "failed")
  /\ UNCHANGED <<btStake, inflight>>

(* The row stays pending: the intercomm ends it.                           *)
InitiateStakeAndMint ==
  \E s \in {"bt", "stp"} :
    /\ At(s, "stake")
    /\ Took(s)
    /\ minting' = [minting EXCEPT ![s] = @ + 1]
    /\ Goto(s, "idle")
    /\ UNCHANGED <<case, btStake, row, queue, inflight, overtaken,
                   faultVars>>

StakeFails == \E s \in {"bt", "stp"} : At(s, "stake") /\ FailNow(s, s)

(* The intercomm of the platform reports claim_token_on_uc_done.           *)
Minted ==
  \E j \in Claim :
    /\ minting[StakeOf(j)] > 0
    /\ minting' = [minting EXCEPT ![StakeOf(j)] = @ - 1]
    /\ queue' = [queue EXCEPT ![j] = @ + 1]
    /\ UNCHANGED <<case, btStake, row, pc, inflight, effects,
                   overtaken, faultVars>>

(* intercomm_status: a failure marks the row, a success of the branded     *)
(* token is first added to the balance of the reserve.                     *)
ClaimFailed ==
  \E j \in Claim :
    /\ minting[StakeOf(j)] > 0
    /\ minting' = [minting EXCEPT ![StakeOf(j)] = @ - 1]
    /\ Written(StakeOf(j), "failed")
    /\ UNCHANGED <<case, btStake, queue, pc, inflight, effects,
                   overtaken, faultVars>>

ClaimBegins ==
  \E j \in Claim :
    /\ Deliver(j, "settle")
    /\ UNCHANGED <<btStake, row, inflight>>

(* The balance could not be updated: the error is returned, the row stays. *)
SettleFails ==
  /\ At("btClaim", "settle")
  /\ Goto("btClaim", "idle")
  /\ UNCHANGED <<case, btStake, row, queue, inflight, effects, minting,
                 overtaken, faultVars>>

Settle ==
  \E j \in Claim :
    /\ At(j, "settle")
    /\ Took(j)
    /\ Goto(j, "processed")
    /\ UNCHANGED <<case, btStake, row, queue, inflight, minting,
                   overtaken, faultVars>>

(* Then the router of the airdrop is asked, for a stake of its own too.    *)
ClaimProcessed ==
  \E j \in Claim :
    /\ At(j, "processed")
    /\ Written(StakeOf(j), "processed")
    /\ Goto(j, "check")
    /\ UNCHANGED <<case, btStake, queue, inflight, effects, minting,
                   overtaken, faultVars>>

(***************************************************************************)
(* The router of the airdrop, called by the last step of every branch.     *)
(***************************************************************************)
Overtaking ==
  \E w \in inflight : w[3] # "queued" /\ row[w[2]] # "processed"

(* Fault seeded to test the properties: the check expects every kind of    *)
(* step.                                                                   *)
AllProcessedOfAll == \A s \in Step \ {"airdrop"} : row[s] = "processed"

AllProcessed == \A s \in Children : row[s] = "processed"

(* Only the parameters of an on-boarding have an airdrop in them.          *)
CheckSteps ==
  \E j \in DOMAIN AfterDeploy \cup Claim :
    /\ At(j, "check")
    /\ Goto(j, IF AllProcessed /\ "airdrop" \in case.asks THEN "airdrop" ELSE "idle")
    /\ overtaken' = (overtaken \/ Overtaking)
    /\ UNCHANGED <<case, btStake, row, queue, inflight, effects,
                   minting, faultVars>>

(* A duplicate is an error of its own: the step of its caller stays done.  *)
AllocateAirdrop ==
  \E j \in DOMAIN AfterDeploy \cup Claim :
    /\ At(j, "airdrop")
    /\ \/ QueueJob("airdrop")
       \/ ~Insertable("airdrop") /\ UNCHANGED <<row, queue, lost>>
    /\ Goto(j, "idle")
    /\ UNCHANGED <<case, btStake, inflight, effects, minting,
                   overtaken, crashes>>

(***************************************************************************)
(* Writes that nobody waits for, and the death of a consumer: RabbitMQ     *)
(* delivers its message again; its writes and insertions that are still in *)
(* flight are gone.                                                        *)
(***************************************************************************)
Land(w) ==
  /\ w \in inflight
  /\ inflight' = inflight \ {w}
  /\ IF w[3] # "queued"
       THEN Written(w[2], w[3]) /\ UNCHANGED <<queue, lost>>
       ELSE \/ QueueJob(w[2])
            \/ ~Insertable(w[2]) /\ UNCHANGED <<row, queue, lost>>
  /\ UNCHANGED <<case, btStake, pc, effects, minting, overtaken,
                 crashes>>

Crash(j) ==
  /\ j \in case.mortal /\ crashes < case.crashes
  /\ ~At(j, "idle") \/ \E w \in inflight : w[1] = j
  /\ crashes' = crashes + 1
  /\ queue' = [queue EXCEPT ![j] = @ + IF At(j, "idle") THEN 0 ELSE 1]
  /\ Goto(j, "idle")
  /\ inflight' = {w \in inflight : w[1] # j}
  /\ UNCHANGED <<case, btStake, row, effects, minting, overtaken, lost>>

ProposeStep ==
  \/ StartOnBoarding \/ ProposeBegins \/ ProposeSends \/ ProposeRegistered
  \/ ProposeQueuesDeploy \/ ProposeQueuesTransfer
  \/ ProposeFails

DeployStep ==
  \/ DeployBegins \/ DeployContract \/ InsertSetops \/ SendSetops
  \/ DeployFails \/ DeployQueues

SetStep ==
  \/ SetWorkersBegins \/ SetWorkersNothingToSet \/ SetWorkers
  \/ SetPriceOracleBegins \/ SetPriceOracle
  \/ SetAcceptedMarginBegins \/ SetAcceptedMargin \/ SetFails

StakeStep ==
  \/ StartStakeAndMint \/ VerifyBegins \/ VerifyReceipt
  \/ VerifySavesAmounts \/ VerifyQueuesApprove \/ VerifyFails
  \/ ApproveBegins \/ Approve \/ ApproveQueuesStakes \/ ApproveFails
  \/ StakeBegins \/ StakeRefused \/ InitiateStakeAndMint \/ StakeFails

ClaimStep ==
  \/ Minted \/ ClaimFailed \/ ClaimBegins \/ SettleFails \/ Settle
  \/ ClaimProcessed

AirdropStep == CheckSteps \/ AllocateAirdrop

Next ==
  \/ ProposeStep \/ DeployStep \/ SetStep \/ StakeStep \/ ClaimStep
  \/ AirdropStep
  \/ \E w \in inflight : Land(w)
  \/ \E j \in Job : Crash(j)

Spec == Init /\ [][Next]_vars

(***************************************************************************)
(* Properties.                                                             *)
(***************************************************************************)
(* What a step builds on.                                                  *)
Builds(f, s) ==
  CASE s = "propose" -> {}
    [] s = "deploy" -> {"propose"}
    [] s = "setops" -> {"propose", "deploy"}
    [] s \in DOMAIN AfterDeploy -> {"propose", "deploy", "setops"}
    [] s = "transfer" -> IF f = "onBoarding" THEN {"propose"} ELSE {}
    [] s = "approve" -> {"transfer"}
    [] s \in {"bt", "stp"} -> {"transfer", "approve"}
    [] s \in Claim -> {"transfer", "approve", StakeOf(s)}

Order == INSTANCE StepOrder WITH
  Flows <- {"onBoarding", "mint"},
  Steps <- Effectful,
  Needs <- [f \in {"onBoarding", "mint"} |-> [s \in Effectful |-> Builds(f, s)]],
  flow <- case.flow,
  effective <- {s \in Effectful : effects[s] > 0}

(* Whatever is lost, delayed, delivered again or dies: a step takes effect *)
(* only after those it builds on (the routers' current_step and status).   *)
StepsInOrder == Order!Spec

(* A step takes effect once more only because a consumer died: publishing, *)
(* redelivery and the three routers that race for one row never repeat it  *)
(* (the keys of critical_chain_interaction_logs, factory.js).  The airdrop *)
(* is asked for once in any case, though up to five steps may find at the  *)
(* same time that they were the last (allocate_airdrop/router.js).         *)
RepeatNeedsCrash ==
  /\ \A s \in Effectful : effects[s] <= 1 + crashes
  /\ queue["airdrop"] <= 1

(* Then nothing moves any more but by another start.                       *)
Quiet ==
  /\ inflight = {}
  /\ \A j \in Job : At(j, "idle") /\ queue[j] = 0
  /\ \A s \in DOMAIN minting : minting[s] = 0

Complete ==
  /\ row[Parent] = "processed"
  /\ \A s \in Step \ {"airdrop", Parent} :
       row[s] = "processed" \/ s \in {"bt", "stp"} \ case.asks

(* When all is quiet nothing is forgotten.  No row is left queued, unless  *)
(* its message was never published; and when all steps are done the airdrop*)
(* asked for has been queued: the last step did find that it was the last. *)
(* Only a status that was still in flight when the others were checked     *)
(* hides that (set_workers.js:213, deploy_airdrop.js:378), or a consumer   *)
(* that died with its last word in flight.                                 *)
NothingForgotten ==
  Quiet /\ crashes = 0 =>
    /\ \A s \in Step \ {"airdrop"} : row[s] = "queued" => s \in lost
    /\ Complete /\ "airdrop" \in case.asks /\ ~overtaken
         => row["airdrop"] # "none"
=============================================================================
