------------------------ MODULE CriticalSteps_proofs ------------------------
(* Theorems about CriticalSteps, for any requests, deaths of consumers and *)
(* messages not published: steps come in order, seldom twice, none is lost.*)
EXTENDS CriticalSteps, TLAPS

Label == Step \cup Claim \cup
         {"idle", "status", "contract", "sendSetops", "send", "check",
          "receipt", "amounts", "router", "stake", "settle", "processed"}

TypeInv ==
  /\ case.flow \in {"onBoarding", "mint"}
  /\ queue \in [Step \cup Claim -> Nat]
  /\ pc \in [Job -> Label]
  /\ effects \in [Effectful -> Nat]
  /\ minting \in [{"bt", "stp"} -> Nat]

Begun(j) == queue[j] > 0 \/ pc[j] # "idle"
Done(s) == effects[s] > 0

(* A job that waits for its consumer, or is with it, builds on steps that  *)
(* are done.                                                               *)
BegunInv ==
  /\ Begun("deploy") => Done("propose")
  /\ \A s \in {"worker", "oracle", "margin"} :
       Begun(s) => Done("propose") /\ Done("deploy") /\ Done("setops")
  /\ Begun("transfer") /\ case.flow = "onBoarding" => Done("propose")
  /\ Begun("approve") => Done("transfer")
  /\ \A s \in {"bt", "stp"} : Begun(s) => Done("transfer") /\ Done("approve")
  /\ \A j \in Claim : Begun(j) =>
       Done("transfer") /\ Done("approve") /\ Done(StakeOf(j))

(* What a consumer has done by where it is.                                *)
PassedInv ==
  /\ pc["propose"] \in {"status", "deploy", "transfer"} => Done("propose")
  /\ pc["deploy"] \notin {"idle", "contract"} => Done("deploy")
  /\ pc["deploy"] \in {"worker", "oracle", "margin"} => Done("setops")
  /\ pc["transfer"] \in {"amounts", "router"} => Done("transfer")
  /\ pc["approve"] = "router" => Done("approve")

(* The rows nobody waits for are of steps that may be queued; a stake is   *)
(* minted for once it is made.                                             *)
FlightInv ==
  /\ \A w \in inflight : w[3] = "queued" =>
       /\ w[2] \in {"approve", "bt", "stp"} /\ Done("transfer")
       /\ w[2] # "approve" => Done("approve")
  /\ \A s \in {"bt", "stp"} : minting[s] > 0 =>
       Done("transfer") /\ Done("approve") /\ Done(s)

OrderInv == TypeInv /\ BegunInv /\ PassedInv /\ FlightInv

LEMMA OrderInvInit == Init => OrderInv
BY CasesAssumption
   DEF Init, OrderInv, TypeInv, BegunInv, PassedInv, FlightInv, Begun, Done,
       ValidRequest, Job, Step, Claim, Effectful, Label, StakeOf

LEMMA ProposeKeeps == OrderInv /\ ProposeStep => OrderInv'
<1> SUFFICES ASSUME OrderInv, ProposeStep PROVE OrderInv'
  OBVIOUS
<1> USE DEF OrderInv, TypeInv, BegunInv, PassedInv, FlightInv, Begun, Done,
            Job, Step, Claim, Effectful, Label, StakeOf, At, Goto, QueueJob,
            Deliver, Took, LaterWrite, Written
<1>1. CASE StartOnBoarding
  BY <1>1 DEF StartOnBoarding
<1>2. CASE ProposeBegins
  BY <1>2 DEF ProposeBegins
<1>3. CASE ProposeSends
  BY <1>3 DEF ProposeSends
<1>4. CASE ProposeRegistered
  BY <1>4 DEF ProposeRegistered
<1>5. CASE ProposeQueuesDeploy
  BY <1>5 DEF ProposeQueuesDeploy
<1>6. CASE ProposeQueuesTransfer
  BY <1>6 DEF ProposeQueuesTransfer
<1>7. CASE ProposeFails
  BY <1>7 DEF ProposeFails, FailLater
<1>. QED BY <1>1, <1>2, <1>3, <1>4, <1>5, <1>6, <1>7 DEF ProposeStep

LEMMA DeployKeeps == OrderInv /\ DeployStep => OrderInv'
<1> SUFFICES ASSUME OrderInv, DeployStep PROVE OrderInv'
  OBVIOUS
<1> USE DEF OrderInv, TypeInv, BegunInv, PassedInv, FlightInv, Begun, Done,
            Job, Step, Claim, Effectful, Label, StakeOf, At, Goto, QueueJob,
            Deliver, Took, LaterWrite, Written
<1>1. CASE DeployBegins
  BY <1>1 DEF DeployBegins
<1>2. CASE DeployContract
  BY <1>2 DEF DeployContract
<1>3. CASE InsertSetops
  BY <1>3 DEF InsertSetops
<1>4. CASE SendSetops
  BY <1>4 DEF SendSetops
<1>5. CASE DeployFails
  BY <1>5 DEF DeployFails, FailLater
<1>6. CASE DeployQueues
  BY <1>6 DEF DeployQueues, AfterDeploy
<1>. QED BY <1>1, <1>2, <1>3, <1>4, <1>5, <1>6 DEF DeployStep

LEMMA SetKeeps == OrderInv /\ SetStep => OrderInv'
<1> SUFFICES ASSUME OrderInv, SetStep PROVE OrderInv'
  OBVIOUS
<1> USE DEF OrderInv, TypeInv, BegunInv, PassedInv, FlightInv, Begun, Done,
            Job, Step, Claim, Effectful, Label, StakeOf, At, Goto, QueueJob,
            Deliver, Took, LaterWrite, Written
<1>1. CASE SetWorkersBegins
  BY <1>1 DEF SetWorkersBegins
<1>2. CASE SetWorkersNothingToSet
  BY <1>2 DEF SetWorkersNothingToSet
<1>3. CASE SetWorkers
  BY <1>3 DEF SetWorkers
<1>4. CASE SetPriceOracleBegins
  BY <1>4 DEF SetPriceOracleBegins
<1>5. CASE SetPriceOracle
  BY <1>5 DEF SetPriceOracle
<1>6. CASE SetAcceptedMarginBegins
  BY <1>6 DEF SetAcceptedMarginBegins
<1>7. CASE SetAcceptedMargin
  BY <1>7 DEF SetAcceptedMargin
<1>8. CASE SetFails
  BY <1>8 DEF SetFails, FailNow, AfterDeploy
<1>. QED BY <1>1, <1>2, <1>3, <1>4, <1>5, <1>6, <1>7, <1>8 DEF SetStep

LEMMA StakeKeeps == OrderInv /\ StakeStep => OrderInv'
<1> SUFFICES ASSUME OrderInv, StakeStep PROVE OrderInv'
  OBVIOUS
<1> USE DEF OrderInv, TypeInv, BegunInv, PassedInv, FlightInv, Begun, Done,
            Job, Step, Claim, Effectful, Label, StakeOf, At, Goto, QueueJob,
            Deliver, Took, LaterWrite, Written
<1>1. CASE StartStakeAndMint
  BY <1>1 DEF StartStakeAndMint
<1>2. CASE VerifyBegins
  BY <1>2 DEF VerifyBegins
<1>3. CASE VerifyReceipt
  BY <1>3 DEF VerifyReceipt
<1>4. CASE VerifySavesAmounts
  BY <1>4 DEF VerifySavesAmounts
<1>5. CASE VerifyQueuesApprove
  BY <1>5 DEF VerifyQueuesApprove, LaterInsert
<1>6. CASE VerifyFails
  BY <1>6 DEF VerifyFails, FailNow
<1>7. CASE ApproveBegins
  BY <1>7 DEF ApproveBegins
<1>8. CASE Approve
  BY <1>8 DEF Approve
<1>9. CASE ApproveQueuesStakes
  BY <1>9 DEF ApproveQueuesStakes, LaterInsert
<1>10. CASE ApproveFails
  BY <1>10 DEF ApproveFails, FailNow
<1>11. CASE StakeBegins
  BY <1>11 DEF StakeBegins
<1>12. CASE StakeRefused
  BY <1>12 DEF StakeRefused
<1>13. CASE InitiateStakeAndMint
  BY <1>13 DEF InitiateStakeAndMint
<1>14. CASE StakeFails
  BY <1>14 DEF StakeFails, FailNow
<1>. QED BY <1>1, <1>2, <1>3, <1>4, <1>5, <1>6, <1>7, <1>8, <1>9, <1>10,
     <1>11, <1>12, <1>13, <1>14 DEF StakeStep

LEMMA ClaimKeeps == OrderInv /\ ClaimStep => OrderInv'
<1> SUFFICES ASSUME OrderInv, ClaimStep PROVE OrderInv'
  OBVIOUS
<1> USE DEF OrderInv, TypeInv, BegunInv, PassedInv, FlightInv, Begun, Done,
            Job, Step, Claim, Effectful, Label, StakeOf, At, Goto, QueueJob,
            Deliver, Took, LaterWrite, Written
<1>1. CASE Minted
  BY <1>1 DEF Minted
<1>2. CASE ClaimFailed
  BY <1>2 DEF ClaimFailed
<1>3. CASE ClaimBegins
  BY <1>3 DEF ClaimBegins
<1>4. CASE SettleFails
  BY <1>4 DEF SettleFails
<1>5. CASE Settle
  BY <1>5 DEF Settle
<1>6. CASE ClaimProcessed
  BY <1>6 DEF ClaimProcessed
<1>. QED BY <1>1, <1>2, <1>3, <1>4, <1>5, <1>6 DEF ClaimStep

LEMMA AirdropKeeps == OrderInv /\ AirdropStep => OrderInv'
<1> SUFFICES ASSUME OrderInv, AirdropStep PROVE OrderInv'
  OBVIOUS
<1> USE DEF OrderInv, TypeInv, BegunInv, PassedInv, FlightInv, Begun, Done,
            Job, Step, Claim, Effectful, Label, StakeOf, At, Goto, QueueJob,
            Deliver, Took, LaterWrite, Written
<1>1. CASE CheckSteps
  BY <1>1 DEF CheckSteps, AfterDeploy
<1>2. CASE AllocateAirdrop
  BY <1>2 DEF AllocateAirdrop, AfterDeploy
<1>. QED BY <1>1, <1>2 DEF AirdropStep

LEMMA LandKeeps ==
  ASSUME OrderInv, NEW w \in inflight, Land(w) PROVE OrderInv'
<1> USE DEF OrderInv, TypeInv, BegunInv, PassedInv, FlightInv, Begun, Done,
            Job, Step, Claim, Effectful, Label, StakeOf, At, Goto, QueueJob,
            Written
<1>. QED BY DEF Land

LEMMA CrashKeeps ==
  ASSUME OrderInv, NEW j \in Job, Crash(j) PROVE OrderInv'
<1> USE DEF OrderInv, TypeInv, BegunInv, PassedInv, FlightInv, Begun, Done,
            Job, Step, Claim, Effectful, Label, StakeOf, At, Goto
<1>. QED BY DEF Crash

LEMMA OrderInvStep == OrderInv /\ [Next]_vars => OrderInv'
<1> SUFFICES ASSUME OrderInv, [Next]_vars PROVE OrderInv'
  OBVIOUS
<1>1. CASE UNCHANGED vars
  BY <1>1 DEF vars, OrderInv, TypeInv, BegunInv, PassedInv, FlightInv, Begun,
     Done
<1>. QED BY <1>1, ProposeKeeps, DeployKeeps, SetKeeps, StakeKeeps, ClaimKeeps,
     AirdropKeeps, LandKeeps, CrashKeeps DEF Next

-----------------------------------------------------------------------------
(* The effects of a step of Next: none, or that of a step of the request   *)
(* whose predecessors are done.                                            *)
Effective == {s \in Effectful : effects[s] > 0}

LEMMA AnEffect ==
  ASSUME OrderInv, NEW s \in Effectful, Took(s), UNCHANGED case,
         Builds(case.flow, s) \subseteq Effective
  PROVE  Order!Next
<1>1. Effective' = Effective \cup {s}
  BY DEF Effective, Took, OrderInv, TypeInv
<1>2. Order!Effect(s)
  BY <1>1 DEF Order!Effect, Effective, OrderInv, TypeInv
<1>. QED BY <1>2 DEF Order!Next

LEMMA NoEffect ==
  ASSUME UNCHANGED <<case, effects>>
  PROVE  UNCHANGED <<case.flow, Effective>>
BY DEF Effective

LEMMA BuildsAre ==
  ASSUME OrderInv
  PROVE  /\ Builds(case.flow, "propose") = {}
         /\ Builds(case.flow, "deploy") = {"propose"}
         /\ Builds(case.flow, "setops") = {"propose", "deploy"}
         /\ \A s \in {"worker", "oracle", "margin"} :
              Builds(case.flow, s) = {"propose", "deploy", "setops"}
         /\ Builds(case.flow, "transfer") =
              IF case.flow = "onBoarding" THEN {"propose"} ELSE {}
         /\ Builds(case.flow, "approve") = {"transfer"}
         /\ \A s \in {"bt", "stp"} :
              Builds(case.flow, s) = {"transfer", "approve"}
         /\ \A j \in Claim :
              Builds(case.flow, j) = {"transfer", "approve", StakeOf(j)}
BY DEF Builds, AfterDeploy, Claim

LEMMA StepImplements ==
  ASSUME OrderInv, Next
  PROVE  Order!Next \/ UNCHANGED <<case.flow, Effective>>
<1> USE BuildsAre DEF Effective, Effectful, Step, Claim, OrderInv, TypeInv,
                      BegunInv, PassedInv, FlightInv, Begun, Done, At
<1>1. CASE ProposeStep
  <2>1. CASE ProposeSends
    <3>1. Took("propose") /\ UNCHANGED case
      BY <2>1 DEF ProposeSends
    <3>. QED BY <3>1, AnEffect
  <2>2. CASE ~ProposeSends
    <3>1. UNCHANGED <<case, effects>>
      BY <1>1, <2>2 DEF ProposeStep, StartOnBoarding, ProposeBegins, Deliver,
         ProposeRegistered, ProposeQueuesDeploy, ProposeQueuesTransfer,
         ProposeFails, FailLater
    <3>. QED BY <3>1, NoEffect
  <2>. QED BY <2>1, <2>2
<1>2. CASE DeployStep
  <2>1. CASE DeployContract
    <3>1. Took("deploy") /\ UNCHANGED case /\ Done("propose")
      BY <2>1 DEF DeployContract, Job
    <3>. QED BY <3>1, AnEffect
  <2>2. CASE SendSetops
    <3>1. /\ Took("setops") /\ UNCHANGED case
          /\ Done("propose") /\ Done("deploy")
      BY <2>2 DEF SendSetops, Job
    <3>. QED BY <3>1, AnEffect
  <2>3. CASE ~DeployContract /\ ~SendSetops
    <3>1. UNCHANGED <<case, effects>>
      BY <1>2, <2>3 DEF DeployStep, DeployBegins, Deliver, InsertSetops,
         DeployFails, FailLater, DeployQueues
    <3>. QED BY <3>1, NoEffect
  <2>. QED BY <2>1, <2>2, <2>3
<1>3. CASE SetStep
  <2>1. ASSUME NEW s \in {"worker", "oracle", "margin"}, Took(s),
               UNCHANGED case, At(s, "send")
        PROVE  Order!Next
    <3>1. Done("propose") /\ Done("deploy") /\ Done("setops")
      BY <2>1
    <3>. QED BY <2>1, <3>1, AnEffect
  <2>2. CASE SetWorkers \/ SetPriceOracle \/ SetAcceptedMargin
    BY <2>1, <2>2 DEF SetWorkers, SetPriceOracle, SetAcceptedMargin
  <2>3. CASE ~(SetWorkers \/ SetPriceOracle \/ SetAcceptedMargin)
    <3>1. UNCHANGED <<case, effects>>
      BY <1>3, <2>3 DEF SetStep, SetWorkersBegins, SetWorkersNothingToSet,
         SetPriceOracleBegins, SetAcceptedMarginBegins, SetFails, FailNow,
         Deliver
    <3>. QED BY <3>1, NoEffect
  <2>. QED BY <2>2, <2>3
<1>4. CASE StakeStep
  <2>1. CASE VerifyReceipt
    <3>1. /\ Took("transfer") /\ UNCHANGED case
          /\ case.flow = "onBoarding" => Done("propose")
      BY <2>1 DEF VerifyReceipt, Job
    <3>. QED BY <3>1, AnEffect
  <2>2. CASE Approve
    <3>1. Took("approve") /\ UNCHANGED case /\ Done("transfer")
      BY <2>2 DEF Approve, Job
    <3>. QED BY <3>1, AnEffect
  <2>3. CASE InitiateStakeAndMint
    <3>1. PICK s \in {"bt", "stp"} :
            /\ Took(s) /\ UNCHANGED case
            /\ Done("transfer") /\ Done("approve")
      BY <2>3 DEF InitiateStakeAndMint, Job
    <3>. QED BY <3>1, AnEffect
  <2>4. CASE ~VerifyReceipt /\ ~Approve /\ ~InitiateStakeAndMint
    <3>1. UNCHANGED <<case, effects>>
      BY <1>4, <2>4 DEF StakeStep, StartStakeAndMint, VerifyBegins,
         VerifySavesAmounts, VerifyQueuesApprove, VerifyFails, ApproveBegins,
         ApproveQueuesStakes, ApproveFails, StakeBegins, StakeRefused,
         StakeFails, FailNow, Deliver
    <3>. QED BY <3>1, NoEffect
  <2>. QED BY <2>1, <2>2, <2>3, <2>4
<1>5. CASE ClaimStep
  <2>1. CASE Settle
    <3>1. PICK j \in Claim :
            /\ Took(j) /\ UNCHANGED case /\ Done("transfer")
            /\ Done("approve") /\ Done(StakeOf(j))
      BY <2>1 DEF Settle, Job
    <3>2. StakeOf(j) \in Effectful
      BY DEF StakeOf
    <3>. QED BY <3>1, <3>2, AnEffect
  <2>2. CASE ~Settle
    <3>1. UNCHANGED <<case, effects>>
      BY <1>5, <2>2 DEF ClaimStep, Minted, ClaimFailed, ClaimBegins, Deliver,
         SettleFails, ClaimProcessed
    <3>. QED BY <3>1, NoEffect
  <2>. QED BY <2>1, <2>2
<1>6. CASE \/ AirdropStep \/ \E w \in inflight : Land(w)
           \/ \E j \in Job : Crash(j)
  <2>1. UNCHANGED <<case, effects>>
    BY <1>6 DEF AirdropStep, CheckSteps, AllocateAirdrop, Land, Crash
  <2>. QED BY <2>1, NoEffect
<1>. QED BY <1>1, <1>2, <1>3, <1>4, <1>5, <1>6 DEF Next

LEMMA InitImplements == Init => Order!Init
BY CasesAssumption DEF Init, Order!Init, ValidRequest

(* Whatever is lost, late, delivered again or dies, a step of an           *)
(* on-boarding takes effect only after those it builds on: every behaviour *)
(* of the routers and consumers is one of StepOrder.                       *)
THEOREM ImplementsStepOrder == Spec => StepsInOrder
<1>1. Init => OrderInv
  BY OrderInvInit
<1>2. OrderInv /\ [Next]_vars => OrderInv'
  BY OrderInvStep
<1>3. Init => Order!Init
  BY InitImplements
<1>4. OrderInv /\ [Next]_vars
        => [Order!Next]_<<case.flow, {s \in Effectful : effects[s] > 0}>>
  <2>1. ASSUME OrderInv, Next
        PROVE  [Order!Next]_<<case.flow, {s \in Effectful : effects[s] > 0}>>
    BY <2>1, StepImplements DEF Effective
  <2>2. ASSUME UNCHANGED vars
        PROVE  UNCHANGED <<case.flow, {s \in Effectful : effects[s] > 0}>>
    BY <2>2 DEF vars
  <2>. QED BY <2>1, <2>2
<1>. QED BY <1>1, <1>2, <1>3, <1>4, PTL DEF Spec, StepsInOrder, Order!Spec

-----------------------------------------------------------------------------
(* Steps that are done again.  How often a job has taken effect, waits for *)
(* its consumer or is with one that has yet to do it: but for a consumer   *)
(* that died after the effect, no more than once, and not before its row.  *)
Before(j) ==
  CASE j = "propose" -> "propose"
    [] j = "deploy" -> "contract"
    [] j \in {"worker", "oracle", "margin"} -> "send"
    [] j = "transfer" -> "receipt"
    [] j = "approve" -> "approve"
    [] j \in {"bt", "stp"} -> "stake"
    [] j \in Claim -> "settle"

Ahead(j) == queue[j] + (IF pc[j] = Before(j) THEN 1 ELSE 0)
Often(s) == IF row[s] = "none" THEN 0 ELSE 1 + crashes
Single == {"propose", "deploy", "worker", "oracle", "margin", "transfer",
           "approve"}
ClaimOf(s) == IF s = "bt" THEN "btClaim" ELSE "stpClaim"

(* A stake that is made goes on in the claims of what it has minted.       *)
OftenInv ==
  /\ OrderInv
  /\ row \in [Step -> Status] /\ crashes \in Nat
  /\ \A w \in inflight :
       w[2] \in Step /\ w[3] \in Status \ {"none"}
  /\ \A j \in Single :
       /\ Ahead(j) + effects[j] <= Often(j)
       /\ row[j] = "none" => pc[j] = "idle"
  /\ \A s \in {"bt", "stp"} :
       /\ effects[s] + Ahead(s) <= Often(s)
       /\ row[s] = "none" => pc[s] = "idle" /\ pc[ClaimOf(s)] = "idle"
       /\ Ahead(s) + minting[s] + Ahead(ClaimOf(s)) + effects[ClaimOf(s)]
            <= Often(s)
  /\ effects["setops"] + (IF pc["deploy"] = "sendSetops" THEN 1 ELSE 0)
       <= IF row["setops"] = "none" THEN 0 ELSE 1
  /\ queue["airdrop"] <= IF row["airdrop"] = "none" THEN 0 ELSE 1

LEMMA OftenInvInit == Init => OftenInv
<1> SUFFICES ASSUME Init PROVE OftenInv
  OBVIOUS
<1>1. OrderInv
  BY OrderInvInit
<1>. QED BY <1>1 DEF Init, OftenInv, Ahead, Before, Often, Single, ClaimOf,
     Step, Claim, Job, Effectful, Status

LEMMA OftenInvSafe == OftenInv => RepeatNeedsCrash
<1> SUFFICES ASSUME OftenInv PROVE RepeatNeedsCrash
  OBVIOUS
<1>1. ASSUME NEW s \in Effectful PROVE effects[s] <= 1 + crashes
  <2>1. CASE s \in Single
    BY <2>1 DEF OftenInv, OrderInv, TypeInv, Ahead, Often, Single, Step, Claim
  <2>2. CASE s \in {"bt", "stp"}
    BY <2>2 DEF OftenInv, OrderInv, TypeInv, Ahead, Often, Step, Claim
  <2>3. CASE s \in Claim
    <3>1. PICK t \in {"bt", "stp"} : s = ClaimOf(t)
      BY <2>3 DEF Claim, ClaimOf
    <3>. QED BY <2>3, <3>1 DEF OftenInv, OrderInv, TypeInv, Ahead, Often,
         Step, Claim, ClaimOf
  <2>4. CASE s = "setops"
    BY <2>4 DEF OftenInv, OrderInv, TypeInv, Effectful, Step
  <2>. QED BY <2>1, <2>2, <2>3, <2>4 DEF Effectful, Step, Single
<1>2. queue["airdrop"] <= 1
  BY DEF OftenInv, OrderInv, TypeInv, Step
<1>. QED BY <1>1, <1>2 DEF RepeatNeedsCrash

LEMMA ProposeOnce == OftenInv /\ ProposeStep => OftenInv'
<1> SUFFICES ASSUME OftenInv, ProposeStep PROVE OftenInv'
  OBVIOUS
<1>0. OrderInv'
  BY ProposeKeeps DEF OftenInv
<1> USE DEF OftenInv, OrderInv, TypeInv, Ahead, Before, Often, Single, ClaimOf,
            Job, Step, Claim, Effectful, Status, Label, StakeOf, At, Goto,
            QueueJob, Insertable, Deliver, Took, LaterWrite, Written, faultVars
<1>1. CASE StartOnBoarding
  BY <1>0, <1>1 DEF StartOnBoarding
<1>2. CASE ProposeBegins
  BY <1>0, <1>2 DEF ProposeBegins
<1>3. CASE ProposeSends
  BY <1>0, <1>3 DEF ProposeSends
<1>4. CASE ProposeRegistered
  BY <1>0, <1>4 DEF ProposeRegistered
<1>5. CASE ProposeQueuesDeploy
  BY <1>0, <1>5 DEF ProposeQueuesDeploy
<1>6. CASE ProposeQueuesTransfer
  BY <1>0, <1>6 DEF ProposeQueuesTransfer
<1>7. CASE ProposeFails
  BY <1>0, <1>7 DEF ProposeFails, FailLater
<1>. QED BY <1>1, <1>2, <1>3, <1>4, <1>5, <1>6, <1>7 DEF ProposeStep

LEMMA DeployOnce == OftenInv /\ DeployStep => OftenInv'
<1> SUFFICES ASSUME OftenInv, DeployStep PROVE OftenInv'
  OBVIOUS
<1>0. OrderInv'
  BY DeployKeeps DEF OftenInv
<1> USE DEF OftenInv, OrderInv, TypeInv, Ahead, Before, Often, Single, ClaimOf,
            Job, Step, Claim, Effectful, Status, Label, StakeOf, At, Goto,
            QueueJob, Insertable, Deliver, Took, LaterWrite, Written, faultVars
<1>1. CASE DeployBegins
  BY <1>0, <1>1 DEF DeployBegins
<1>2. CASE DeployContract
  BY <1>0, <1>2 DEF DeployContract
<1>3. CASE InsertSetops
  BY <1>0, <1>3 DEF InsertSetops
<1>4. CASE SendSetops
  BY <1>0, <1>4 DEF SendSetops
<1>5. CASE DeployFails
  BY <1>0, <1>5 DEF DeployFails, FailLater
<1>6. CASE DeployQueues
  <2>1. PICK s \in {"worker", "oracle", "margin"} :
          /\ At("deploy", s)
          /\ \/ QueueJob(s) /\ Goto("deploy", AfterDeploy[s])
             \/ /\ ~Insertable(s) /\ Goto("deploy", "idle")
                /\ UNCHANGED <<row, queue, lost>>
          /\ UNCHANGED <<case, inflight, effects, minting, crashes>>
    BY <1>6 DEF DeployQueues, AfterDeploy
  <2>2. AfterDeploy[s] \in {"oracle", "margin", "idle"}
    BY DEF AfterDeploy
  <2>3. CASE ~QueueJob(s)
    BY <1>0, <2>1, <2>2, <2>3
  <2>4. CASE s = "worker" /\ QueueJob("worker")
    BY <1>0, <2>1, <2>2, <2>4
  <2>5. CASE s = "oracle" /\ QueueJob("oracle")
    BY <1>0, <2>1, <2>2, <2>5
  <2>6. CASE s = "margin" /\ QueueJob("margin")
    BY <1>0, <2>1, <2>2, <2>6
  <2>. QED BY <2>3, <2>4, <2>5, <2>6
<1>. QED BY <1>1, <1>2, <1>3, <1>4, <1>5, <1>6 DEF DeployStep

LEMMA SetOnce == OftenInv /\ SetStep => OftenInv'
<1> SUFFICES ASSUME OftenInv, SetStep PROVE OftenInv'
  OBVIOUS
<1>0. OrderInv'
  BY SetKeeps DEF OftenInv
<1> USE DEF OftenInv, OrderInv, TypeInv, Ahead, Before, Often, Single, ClaimOf,
            Job, Step, Claim, Effectful, Status, Label, StakeOf, At, Goto,
            QueueJob, Insertable, Deliver, Took, LaterWrite, Written, faultVars
<1>1. CASE SetWorkersBegins
  BY <1>0, <1>1 DEF SetWorkersBegins
<1>2. CASE SetWorkersNothingToSet
  BY <1>0, <1>2 DEF SetWorkersNothingToSet
<1>3. CASE SetWorkers
  BY <1>0, <1>3 DEF SetWorkers
<1>4. CASE SetPriceOracleBegins
  BY <1>0, <1>4 DEF SetPriceOracleBegins
<1>5. CASE SetPriceOracle
  BY <1>0, <1>5 DEF SetPriceOracle
<1>6. CASE SetAcceptedMarginBegins
  BY <1>0, <1>6 DEF SetAcceptedMarginBegins
<1>7. CASE SetAcceptedMargin
  BY <1>0, <1>7 DEF SetAcceptedMargin
<1>8. CASE SetFails
  BY <1>0, <1>8 DEF SetFails, FailNow, AfterDeploy
<1>. QED BY <1>1, <1>2, <1>3, <1>4, <1>5, <1>6, <1>7, <1>8 DEF SetStep

LEMMA StakeOnce == OftenInv /\ StakeStep => OftenInv'
<1> SUFFICES ASSUME OftenInv, StakeStep PROVE OftenInv'
  OBVIOUS
<1>0. OrderInv'
  BY StakeKeeps DEF OftenInv
<1> USE DEF OftenInv, OrderInv, TypeInv, Ahead, Before, Often, Single, ClaimOf,
            Job, Step, Claim, Effectful, Status, Label, StakeOf, At, Goto,
            QueueJob, Insertable, Deliver, Took, LaterWrite, Written, faultVars
<1>1. CASE StartStakeAndMint
  BY <1>0, <1>1 DEF StartStakeAndMint
<1>2. CASE VerifyBegins
  BY <1>0, <1>2 DEF VerifyBegins
<1>3. CASE VerifyReceipt
  BY <1>0, <1>3 DEF VerifyReceipt
<1>4. CASE VerifySavesAmounts
  BY <1>0, <1>4 DEF VerifySavesAmounts
<1>5. CASE VerifyQueuesApprove
  BY <1>0, <1>5 DEF VerifyQueuesApprove, LaterInsert
<1>6. CASE VerifyFails
  BY <1>0, <1>6 DEF VerifyFails, FailNow
<1>7. CASE ApproveBegins
  BY <1>0, <1>7 DEF ApproveBegins
<1>8. CASE Approve
  BY <1>0, <1>8 DEF Approve
<1>9. CASE ApproveQueuesStakes
  BY <1>0, <1>9 DEF ApproveQueuesStakes, LaterInsert
<1>10. CASE ApproveFails
  BY <1>0, <1>10 DEF ApproveFails, FailNow
<1>11. CASE StakeBegins
  BY <1>0, <1>11 DEF StakeBegins
<1>12. CASE StakeRefused
  BY <1>0, <1>12 DEF StakeRefused
<1>13. CASE InitiateStakeAndMint
  BY <1>0, <1>13 DEF InitiateStakeAndMint
<1>14. CASE StakeFails
  BY <1>0, <1>14 DEF StakeFails, FailNow
<1>. QED BY <1>1, <1>2, <1>3, <1>4, <1>5, <1>6, <1>7, <1>8, <1>9, <1>10,
     <1>11, <1>12, <1>13, <1>14 DEF StakeStep

LEMMA ClaimOnce == OftenInv /\ ClaimStep => OftenInv'
<1> SUFFICES ASSUME OftenInv, ClaimStep PROVE OftenInv'
  OBVIOUS
<1>0. OrderInv'
  BY ClaimKeeps DEF OftenInv
<1> USE DEF OftenInv, OrderInv, TypeInv, Ahead, Before, Often, Single, ClaimOf,
            Job, Step, Claim, Effectful, Status, Label, StakeOf, At, Goto,
            QueueJob, Insertable, Deliver, Took, LaterWrite, Written, faultVars
<1>1. CASE Minted
  BY <1>0, <1>1 DEF Minted
<1>2. CASE ClaimFailed
  BY <1>0, <1>2 DEF ClaimFailed
<1>3. CASE ClaimBegins
  BY <1>0, <1>3 DEF ClaimBegins
<1>4. CASE SettleFails
  BY <1>0, <1>4 DEF SettleFails
<1>5. CASE Settle
  BY <1>0, <1>5 DEF Settle
<1>6. CASE ClaimProcessed
  BY <1>0, <1>6 DEF ClaimProcessed
<1>. QED BY <1>1, <1>2, <1>3, <1>4, <1>5, <1>6 DEF ClaimStep

LEMMA AirdropOnce == OftenInv /\ AirdropStep => OftenInv'
<1> SUFFICES ASSUME OftenInv, AirdropStep PROVE OftenInv'
  OBVIOUS
<1>0. OrderInv'
  BY AirdropKeeps DEF OftenInv
<1> USE DEF OftenInv, OrderInv, TypeInv, Ahead, Before, Often, Single, ClaimOf,
            Job, Step, Claim, Effectful, Status, Label, StakeOf, At, Goto,
            QueueJob, Insertable, Deliver, Took, LaterWrite, Written, faultVars
<1>1. CASE CheckSteps
  BY <1>0, <1>1 DEF CheckSteps, AfterDeploy
<1>2. CASE AllocateAirdrop
  BY <1>0, <1>2 DEF AllocateAirdrop, AfterDeploy
<1>. QED BY <1>1, <1>2 DEF AirdropStep

LEMMA LandOnce ==
  ASSUME OftenInv, NEW w \in inflight, Land(w) PROVE OftenInv'
<1>0. OrderInv'
  BY LandKeeps DEF OftenInv
<1> USE DEF OftenInv, OrderInv, TypeInv, Ahead, Before, Often, Single, ClaimOf,
            Job, Step, Claim, Effectful, Status, Label, StakeOf, At, Goto,
            QueueJob, Insertable, Deliver, Took, LaterWrite, Written, faultVars
<1>1. CASE w[3] # "queued"
  BY <1>0, <1>1 DEF Land
<1>2. CASE w[3] = "queued"
  <2>1. w[2] \in {"approve", "bt", "stp"}
    BY <1>2 DEF FlightInv
  <2>2. CASE w[2] = "approve"
    BY <1>0, <1>2, <2>2 DEF Land
  <2>3. CASE w[2] = "bt"
    BY <1>0, <1>2, <2>3 DEF Land
  <2>4. CASE w[2] = "stp"
    BY <1>0, <1>2, <2>4 DEF Land
  <2>. QED BY <2>1, <2>2, <2>3, <2>4
<1>. QED BY <1>1, <1>2

LEMMA CrashOnce ==
  ASSUME OftenInv, NEW j \in Job, Crash(j) PROVE OftenInv'
<1>0. OrderInv'
  BY CrashKeeps DEF OftenInv
<1>1. /\ UNCHANGED <<row, effects, minting>> /\ crashes' = crashes + 1
      /\ pc' = [pc EXCEPT ![j] = "idle"] /\ inflight' \subseteq inflight
      /\ queue' = [queue EXCEPT ![j] = @ + IF pc[j] = "idle" THEN 0 ELSE 1]
  BY DEF Crash, At, Goto
<1>2. queue["airdrop"]' = queue["airdrop"] /\ queue[j]' <= queue[j] + 1
  BY <1>1 DEF OftenInv, OrderInv, TypeInv, Job, Step, Claim
<1>3. \A k \in Job : Before(k) # "idle"
  BY DEF Before, Job, Step, Claim
<1>4. \A k \in Job : Ahead(k) \in Nat /\ Ahead(k)' \in Nat
  BY <1>0 DEF Ahead, OftenInv, OrderInv, TypeInv, Job
<1>5. \A k \in Job \ {j} : Ahead(k)' = Ahead(k)
  BY <1>1 DEF Ahead, OftenInv, OrderInv, TypeInv, Job
<1>6. /\ Ahead(j)' <= Ahead(j) + 1
      /\ pc[j] = "idle" => Ahead(j)' = Ahead(j)
  BY <1>1, <1>3 DEF Ahead, OftenInv, OrderInv, TypeInv, Job
<1>7. ASSUME NEW k \in Single
      PROVE  /\ (Ahead(k) + effects[k] <= Often(k))'
             /\ (row[k] = "none" => pc[k] = "idle")'
  <2>1. k \in Job /\ effects[k] \in Nat
    BY DEF Single, Job, Step, OftenInv, OrderInv, TypeInv, Effectful
  <2>. QED BY <1>1, <1>4, <1>5, <1>6, <2>1
       DEF OftenInv, OrderInv, TypeInv, Often
<1>8. ASSUME NEW s \in {"bt", "stp"}
      PROVE  /\ (effects[s] + Ahead(s) <= Often(s))'
             /\ (row[s] = "none"
                   => pc[s] = "idle" /\ pc[ClaimOf(s)] = "idle")'
             /\ (Ahead(s) + minting[s] + Ahead(ClaimOf(s))
                   + effects[ClaimOf(s)] <= Often(s))'
  <2> DEFINE c == ClaimOf(s)
  <2>1. /\ s \in Job /\ c \in Job /\ s # c /\ effects[s] \in Nat
        /\ effects[c] \in Nat /\ minting[s] \in Nat
    BY DEF ClaimOf, Job, Step, Claim, OftenInv, OrderInv, TypeInv, Effectful
  <2>2. /\ effects[s] + Ahead(s) <= Often(s)
        /\ row[s] = "none" => pc[s] = "idle" /\ pc[c] = "idle"
        /\ Ahead(s) + minting[s] + Ahead(c) + effects[c] <= Often(s)
    BY DEF OftenInv
  <2>. HIDE DEF c
  <2>3. c' = c
    BY DEF c, ClaimOf
  <2>4. /\ (effects[s] + Ahead(s) <= Often(s))'
        /\ (row[s] = "none" => pc[s] = "idle" /\ pc[c] = "idle")'
        /\ (Ahead(s) + minting[s] + Ahead(c) + effects[c] <= Often(s))'
    BY <1>1, <1>4, <1>5, <1>6, <2>1, <2>2, <2>3
       DEF OftenInv, OrderInv, TypeInv, Often
  <2>. QED BY <2>4 DEF c
<1>9. (effects["setops"] + (IF pc["deploy"] = "sendSetops" THEN 1 ELSE 0)
        <= IF row["setops"] = "none" THEN 0 ELSE 1)'
  BY <1>1 DEF OftenInv, OrderInv, TypeInv, Job, Step, Effectful
<1>. QED BY <1>0, <1>1, <1>2, <1>7, <1>8, <1>9 DEF OftenInv, OrderInv, TypeInv

LEMMA OftenInvStep == OftenInv /\ [Next]_vars => OftenInv'
<1> SUFFICES ASSUME OftenInv, [Next]_vars PROVE OftenInv'
  OBVIOUS
<1>1. CASE UNCHANGED vars
  <2>1. OrderInv'
    BY <1>1, OrderInvStep DEF OftenInv
  <2>. QED BY <1>1, <2>1 DEF vars, faultVars, OftenInv, Ahead, Often
<1>. QED BY <1>1, ProposeOnce, DeployOnce, SetOnce, StakeOnce, ClaimOnce,
     AirdropOnce, LandOnce, CrashOnce DEF Next

(* A step takes effect more than once only if a consumer died: messages    *)
(* that are not published, statuses that are late and routers that race    *)
(* for the row of a next step repeat nothing, and the airdrop is asked for *)
(* once in any case.                                                       *)
THEOREM RepeatsNeedCrashes == Spec => []RepeatNeedsCrash
<1>1. Init => OftenInv
  BY OftenInvInit
<1>2. OftenInv /\ [Next]_vars => OftenInv'
  BY OftenInvStep
<1>3. OftenInv => RepeatNeedsCrash
  BY OftenInvSafe
<1>. QED BY <1>1, <1>2, <1>3, PTL DEF Spec

-----------------------------------------------------------------------------
(* What is forgotten while no consumer dies.  The row of a step is not     *)
(* there, nor on its way, as long as the step it follows has yet to ask    *)
(* for it.                                                                 *)
Fresh(s) == row[s] = "none" /\ \A w \in inflight : w[2] # s
Yet(j, L) == row[j] = "none" \/ queue[j] > 0 \/ pc[j] \in L

BeforeDeploy == Yet("propose", {"propose", "status", "deploy"})
BeforeSetops == Yet("deploy", {"contract", "setops"})
BeforeWorker == Yet("deploy", {"contract", "setops", "sendSetops", "worker"})
BeforeApprove == Yet("transfer", {"receipt", "amounts", "router"})
BeforeStakes == Yet("approve", {"approve", "router"})

FreshInv ==
  /\ ValidRequest(case)
  /\ BeforeDeploy => Fresh("deploy")
  /\ BeforeSetops => Fresh("setops")
  /\ BeforeWorker => Fresh("worker")
  /\ BeforeApprove => Fresh("approve")
  /\ \A s \in {"bt", "stp"} :
       BeforeStakes \/ s \notin case.asks => Fresh(s)

(* A step that begins no other step, and writes for one that has begun.    *)
LEMMA FreshFrame ==
  ASSUME FreshInv, UNCHANGED case,
         \A s \in Step : Fresh(s) => Fresh(s)',
         BeforeDeploy' => BeforeDeploy, BeforeSetops' => BeforeSetops,
         BeforeWorker' => BeforeWorker, BeforeApprove' => BeforeApprove,
         BeforeStakes' => BeforeStakes
  PROVE  FreshInv'
BY DEF FreshInv, Step

LEMMA ProposeFresh ==
  ASSUME OftenInv, FreshInv, crashes = 0, ProposeStep PROVE FreshInv'
<1> USE DEF OftenInv, OrderInv, TypeInv, BegunInv, PassedInv, FlightInv, Begun,
            Done, FreshInv, Fresh, Yet, BeforeDeploy, BeforeSetops, BeforeWorker,
            BeforeApprove, BeforeStakes, Ahead, Before, Often,
            Single, ClaimOf, Job, Step, Claim, Effectful, Status, StakeOf, At,
            Goto, QueueJob, Insertable, Deliver, Took, LaterWrite, Written,
            faultVars
<1>1. CASE StartOnBoarding
  <2>1. QueueJob("propose") /\ UNCHANGED <<case, pc, inflight>>
    BY <1>1 DEF StartOnBoarding
  <2>2. \A s \in Step : s # "propose" /\ Fresh(s) => Fresh(s)'
    BY <2>1
  <2>3. BeforeDeploy /\ ~Fresh("propose")'
    BY <2>1
  <2>4. \A k \in {"deploy", "transfer", "approve"} :
          UNCHANGED <<row[k], queue[k], pc[k]>>
    BY <2>1
  <2>5. UNCHANGED <<BeforeSetops, BeforeWorker, BeforeApprove, BeforeStakes>>
    BY <2>4
  <2>. HIDE DEF Fresh, BeforeDeploy, BeforeSetops, BeforeWorker,
                BeforeApprove, BeforeStakes
  <2>. QED BY <2>1, <2>2, <2>3, <2>5
<1>2. CASE ProposeBegins
  BY <1>2 DEF ProposeBegins
<1>3. CASE ProposeSends
  BY <1>3 DEF ProposeSends
<1>4. CASE ProposeRegistered
  BY <1>4 DEF ProposeRegistered
<1>5. CASE ProposeQueuesDeploy
  BY <1>5 DEF ProposeQueuesDeploy
<1>6. CASE ProposeQueuesTransfer
  BY <1>6 DEF ProposeQueuesTransfer
<1>7. CASE ProposeFails
  BY <1>7 DEF ProposeFails, FailLater
<1>. QED BY <1>1, <1>2, <1>3, <1>4, <1>5, <1>6, <1>7 DEF ProposeStep

LEMMA DeployFresh ==
  ASSUME OftenInv, FreshInv, crashes = 0, DeployStep PROVE FreshInv'
<1> USE DEF OftenInv, OrderInv, TypeInv, BegunInv, PassedInv, FlightInv, Begun,
            Done, FreshInv, Fresh, Yet, BeforeDeploy, BeforeSetops, BeforeWorker,
            BeforeApprove, BeforeStakes, Ahead, Before, Often,
            Single, ClaimOf, Job, Step, Claim, Effectful, Status, StakeOf, At,
            Goto, QueueJob, Insertable, Deliver, Took, LaterWrite, Written,
            faultVars
<1>1. CASE DeployBegins
  <2>1. row["deploy"] # "none" /\ BeforeSetops /\ BeforeWorker
    BY <1>1 DEF DeployBegins
  <2>2. \A s \in Step : Fresh(s) => Fresh(s)'
    BY <1>1, <2>1 DEF DeployBegins
  <2>3. /\ BeforeDeploy' => BeforeDeploy
        /\ BeforeApprove' => BeforeApprove
        /\ BeforeStakes' => BeforeStakes
    BY <1>1, <2>1 DEF DeployBegins
  <2>4. UNCHANGED case
    BY <1>1 DEF DeployBegins
  <2>. HIDE DEF FreshInv, Fresh, BeforeDeploy, BeforeSetops, BeforeWorker,
                BeforeApprove, BeforeStakes
  <2>. QED BY <2>1, <2>2, <2>3, <2>4, FreshFrame
<1>2. CASE DeployContract
  BY <1>2 DEF DeployContract
<1>3. CASE InsertSetops
  BY <1>3 DEF InsertSetops
<1>4. CASE SendSetops
  <2>1. row["setops"] # "none" /\ row["deploy"] # "none" /\ queue["deploy"] = 0
    BY <1>4 DEF SendSetops
  <2>2. \A s \in Step : Fresh(s) => Fresh(s)'
    BY <1>4, <2>1 DEF SendSetops
  <2>3. /\ BeforeDeploy' => BeforeDeploy
        /\ ~BeforeSetops' /\ BeforeWorker
        /\ BeforeApprove' => BeforeApprove
        /\ BeforeStakes' => BeforeStakes
    BY <1>4, <2>1 DEF SendSetops
  <2>4. UNCHANGED case
    BY <1>4 DEF SendSetops
  <2>. HIDE DEF FreshInv, Fresh, BeforeDeploy, BeforeSetops, BeforeWorker,
                BeforeApprove, BeforeStakes
  <2>. QED BY <2>1, <2>2, <2>3, <2>4, FreshFrame
<1>5. CASE DeployFails
  BY <1>5 DEF DeployFails, FailLater
<1>6. CASE DeployQueues
  <2>1. PICK s \in {"worker", "oracle", "margin"} :
          /\ At("deploy", s)
          /\ \/ QueueJob(s) /\ Goto("deploy", AfterDeploy[s])
             \/ ~Insertable(s) /\ Goto("deploy", "idle") /\ UNCHANGED <<row, queue>>
          /\ UNCHANGED <<case, inflight>>
    BY <1>6 DEF DeployQueues, AfterDeploy
  <2>2. AfterDeploy[s] \in {"oracle", "margin", "idle"}
    BY DEF AfterDeploy
  <2>3. row["deploy"] # "none" /\ queue["deploy"] = 0
    BY <2>1
  <2>4. ~BeforeSetops' /\ ~BeforeWorker'
    BY <2>1, <2>2, <2>3
  <2>5. /\ BeforeDeploy' => BeforeDeploy
        /\ BeforeApprove' => BeforeApprove
        /\ BeforeStakes' => BeforeStakes
    BY <2>1, <2>2, <2>3
  <2>6. \A r \in Step : r # s /\ Fresh(r) => Fresh(r)'
    BY <2>1
  <2>. HIDE DEF Fresh, BeforeDeploy, BeforeSetops, BeforeWorker,
                BeforeApprove, BeforeStakes
  <2>. QED BY <2>1, <2>4, <2>5, <2>6
<1>. QED BY <1>1, <1>2, <1>3, <1>4, <1>5, <1>6 DEF DeployStep

LEMMA SetFresh ==
  ASSUME OftenInv, FreshInv, crashes = 0, SetStep PROVE FreshInv'
<1> USE DEF OftenInv, OrderInv, TypeInv, BegunInv, PassedInv, FlightInv, Begun,
            Done, FreshInv, Fresh, Yet, BeforeDeploy, BeforeSetops, BeforeWorker,
            BeforeApprove, BeforeStakes, Ahead, Before, Often,
            Single, ClaimOf, Job, Step, Claim, Effectful, Status, StakeOf, At,
            Goto, QueueJob, Insertable, Deliver, Took, LaterWrite, Written,
            faultVars
<1>1. CASE SetWorkersBegins
  BY <1>1 DEF SetWorkersBegins
<1>2. CASE SetWorkersNothingToSet
  BY <1>2 DEF SetWorkersNothingToSet
<1>3. CASE SetWorkers
  BY <1>3 DEF SetWorkers
<1>4. CASE SetPriceOracleBegins
  BY <1>4 DEF SetPriceOracleBegins
<1>5. CASE SetPriceOracle
  BY <1>5 DEF SetPriceOracle
<1>6. CASE SetAcceptedMarginBegins
  BY <1>6 DEF SetAcceptedMarginBegins
<1>7. CASE SetAcceptedMargin
  BY <1>7 DEF SetAcceptedMargin
<1>8. CASE SetFails
  <2>1. PICK s \in {"worker", "oracle", "margin"} : At(s, "send") /\ FailNow(s, s)
    BY <1>8 DEF SetFails, AfterDeploy
  <2>2. row[s] # "none" /\ UNCHANGED case
    BY <2>1 DEF FailNow
  <2>3. \A r \in Step : Fresh(r) => Fresh(r)'
    BY <2>1, <2>2 DEF FailNow
  <2>4. UNCHANGED <<BeforeDeploy, BeforeSetops, BeforeWorker, BeforeApprove,
                    BeforeStakes>>
    BY <2>1, <2>2 DEF FailNow
  <2>. HIDE DEF FreshInv, Fresh, BeforeDeploy, BeforeSetops, BeforeWorker,
                BeforeApprove, BeforeStakes
  <2>. QED BY <2>2, <2>3, <2>4, FreshFrame
<1>. QED BY <1>1, <1>2, <1>3, <1>4, <1>5, <1>6, <1>7, <1>8 DEF SetStep

LEMMA StakeFresh ==
  ASSUME OftenInv, FreshInv, crashes = 0, StakeStep PROVE FreshInv'
<1> USE DEF OftenInv, OrderInv, TypeInv, BegunInv, PassedInv, FlightInv, Begun,
            Done, FreshInv, Fresh, Yet, BeforeDeploy, BeforeSetops, BeforeWorker,
            BeforeApprove, BeforeStakes, Ahead, Before, Often,
            Single, ClaimOf, Job, Step, Claim, Effectful, Status, StakeOf, At,
            Goto, QueueJob, Insertable, Deliver, Took, LaterWrite, Written,
            faultVars
<1>1. CASE StartStakeAndMint
  <2>1. QueueJob("transfer") /\ UNCHANGED <<case, pc, inflight>>
    BY <1>1 DEF StartStakeAndMint
  <2>2. \A s \in Step : s # "transfer" /\ Fresh(s) => Fresh(s)'
    BY <2>1
  <2>3. BeforeApprove /\ ~Fresh("transfer")'
    BY <2>1
  <2>4. \A k \in {"propose", "deploy", "approve"} :
          UNCHANGED <<row[k], queue[k], pc[k]>>
    BY <2>1
  <2>5. UNCHANGED <<BeforeDeploy, BeforeSetops, BeforeWorker, BeforeStakes>>
    BY <2>4
  <2>. HIDE DEF Fresh, BeforeDeploy, BeforeSetops, BeforeWorker,
                BeforeApprove, BeforeStakes
  <2>. QED BY <2>1, <2>2, <2>3, <2>5
<1>2. CASE VerifyBegins
  <2>1. row["transfer"] # "none" /\ BeforeApprove /\ UNCHANGED case
    BY <1>2 DEF VerifyBegins
  <2>2. \A s \in Step : Fresh(s) => Fresh(s)'
    BY <1>2, <2>1 DEF VerifyBegins
  <2>3. /\ BeforeDeploy' => BeforeDeploy
        /\ BeforeSetops' => BeforeSetops
        /\ BeforeWorker' => BeforeWorker
        /\ BeforeStakes' => BeforeStakes
    BY <1>2, <2>1 DEF VerifyBegins
  <2>. HIDE DEF FreshInv, Fresh, BeforeDeploy, BeforeSetops, BeforeWorker,
                BeforeApprove, BeforeStakes
  <2>. QED BY <2>1, <2>2, <2>3, FreshFrame
<1>3. CASE VerifyReceipt
  BY <1>3 DEF VerifyReceipt
<1>4. CASE VerifySavesAmounts
  BY <1>4 DEF VerifySavesAmounts
<1>5. CASE VerifyQueuesApprove
  <2>0. /\ pc["transfer"] = "router" /\ effects["transfer"] > 0
        /\ Ahead("transfer") + effects["transfer"] <= Often("transfer")
    BY <1>5 DEF VerifyQueuesApprove
  <2>1. row["transfer"] # "none" /\ queue["transfer"] = 0 /\ UNCHANGED case
    <3>1. UNCHANGED case
      BY <1>5 DEF VerifyQueuesApprove
    <3>2. row["transfer"] # "none"
      BY <2>0
    <3>3. queue["transfer"] \in Nat /\ effects["transfer"] \in Nat
      OBVIOUS
    <3>4. queue["transfer"] + effects["transfer"] <= 1
      BY <2>0, <3>3
    <3>. QED BY <2>0, <3>1, <3>2, <3>3, <3>4
  <2>2. ~BeforeApprove'
    BY <1>5, <2>1 DEF VerifyQueuesApprove
  <2>3. \A s \in Step : s # "approve" /\ Fresh(s) => Fresh(s)'
    BY <1>5 DEF VerifyQueuesApprove, LaterInsert
  <2>4. UNCHANGED <<BeforeDeploy, BeforeSetops, BeforeWorker, BeforeStakes>>
    BY <1>5 DEF VerifyQueuesApprove
  <2>. HIDE DEF Fresh, BeforeDeploy, BeforeSetops, BeforeWorker,
                BeforeApprove, BeforeStakes
  <2>. QED BY <2>1, <2>2, <2>3, <2>4
<1>6. CASE VerifyFails
  BY <1>6 DEF VerifyFails, FailNow
<1>7. CASE ApproveBegins
  <2>1. row["approve"] # "none" /\ BeforeStakes /\ UNCHANGED case
    BY <1>7 DEF ApproveBegins
  <2>2. \A s \in Step : Fresh(s) => Fresh(s)'
    BY <1>7, <2>1 DEF ApproveBegins
  <2>3. /\ BeforeDeploy' => BeforeDeploy
        /\ BeforeSetops' => BeforeSetops
        /\ BeforeWorker' => BeforeWorker
        /\ BeforeApprove' => BeforeApprove
    BY <1>7, <2>1 DEF ApproveBegins
  <2>. HIDE DEF FreshInv, Fresh, BeforeDeploy, BeforeSetops, BeforeWorker,
                BeforeApprove, BeforeStakes
  <2>. QED BY <2>1, <2>2, <2>3, FreshFrame
<1>8. CASE Approve
  BY <1>8 DEF Approve
<1>9. CASE ApproveQueuesStakes
  BY <1>9 DEF ApproveQueuesStakes, LaterInsert
<1>10. CASE ApproveFails
  BY <1>10 DEF ApproveFails, FailNow
<1>11. CASE StakeBegins
  BY <1>11 DEF StakeBegins
<1>12. CASE StakeRefused
  BY <1>12 DEF StakeRefused
<1>13. CASE InitiateStakeAndMint
  <2>1. PICK s \in {"bt", "stp"} :
          Goto(s, "idle") /\ UNCHANGED <<case, row, inflight, queue>>
    BY <1>13, ZenonT(30) DEF InitiateStakeAndMint
  <2>2. \A r \in Step : Fresh(r) => Fresh(r)'
    BY <2>1
  <2>3. \A j \in {"propose", "deploy", "transfer", "approve"} : UNCHANGED pc[j]
    BY <2>1
  <2>4. UNCHANGED <<BeforeDeploy, BeforeSetops, BeforeWorker, BeforeApprove,
                    BeforeStakes>>
    BY <2>1, <2>3
  <2>. HIDE DEF FreshInv, Fresh, BeforeDeploy, BeforeSetops, BeforeWorker,
                BeforeApprove, BeforeStakes
  <2>. QED BY <2>1, <2>2, <2>4, FreshFrame
<1>14. CASE StakeFails
  BY <1>14 DEF StakeFails, FailNow
<1>. QED BY <1>1, <1>2, <1>3, <1>4, <1>5, <1>6, <1>7, <1>8, <1>9, <1>10,
     <1>11, <1>12, <1>13, <1>14 DEF StakeStep

LEMMA ClaimFresh ==
  ASSUME OftenInv, FreshInv, crashes = 0, ClaimStep PROVE FreshInv'
<1> USE DEF OftenInv, OrderInv, TypeInv, BegunInv, PassedInv, FlightInv, Begun,
            Done, FreshInv, Fresh, Yet, BeforeDeploy, BeforeSetops, BeforeWorker,
            BeforeApprove, BeforeStakes, Ahead, Before, Often,
            Single, ClaimOf, Job, Step, Claim, Effectful, Status, StakeOf, At,
            Goto, QueueJob, Insertable, Deliver, Took, LaterWrite, Written,
            faultVars
<1>1. CASE Minted
  BY <1>1 DEF Minted
<1>2. CASE ClaimFailed
  BY <1>2 DEF ClaimFailed
<1>3. CASE ClaimBegins
  BY <1>3 DEF ClaimBegins
<1>4. CASE SettleFails
  BY <1>4 DEF SettleFails
<1>5. CASE Settle
  BY <1>5 DEF Settle
<1>6. CASE ClaimProcessed
  BY <1>6 DEF ClaimProcessed
<1>. QED BY <1>1, <1>2, <1>3, <1>4, <1>5, <1>6 DEF ClaimStep

LEMMA AirdropFresh ==
  ASSUME OftenInv, FreshInv, crashes = 0, AirdropStep PROVE FreshInv'
<1> USE DEF OftenInv, OrderInv, TypeInv, BegunInv, PassedInv, FlightInv, Begun,
            Done, FreshInv, Fresh, Yet, BeforeDeploy, BeforeSetops, BeforeWorker,
            BeforeApprove, BeforeStakes, Ahead, Before, Often,
            Single, ClaimOf, Job, Step, Claim, Effectful, Status, StakeOf, At,
            Goto, QueueJob, Insertable, Deliver, Took, LaterWrite, Written,
            faultVars
<1>1. CASE CheckSteps
  BY <1>1 DEF CheckSteps, AfterDeploy
<1>2. CASE AllocateAirdrop
  <2>1. PICK j \in {"worker", "oracle", "margin"} \cup Claim :
          /\ Goto(j, "idle") /\ UNCHANGED <<case, inflight>>
          /\ QueueJob("airdrop") \/ UNCHANGED <<row, queue>>
    <3>. HIDE DEF Goto, QueueJob, FreshInv, OftenInv
    <3>. QED BY <1>2 DEF AllocateAirdrop, AfterDeploy
  <2>2. \A s \in Step : s # "airdrop" => UNCHANGED row[s]
    BY <2>1
  <2>3. \A s \in Step : s # "airdrop" /\ Fresh(s) => Fresh(s)'
    BY <2>1, <2>2
  <2>4. \A k \in {"propose", "deploy", "transfer", "approve"} :
          UNCHANGED <<row[k], queue[k], pc[k]>>
    BY <2>1, <2>2
  <2>5. UNCHANGED <<BeforeDeploy, BeforeSetops, BeforeWorker, BeforeApprove,
                    BeforeStakes>>
    BY <2>4
  <2>. HIDE DEF Fresh, BeforeDeploy, BeforeSetops, BeforeWorker,
                BeforeApprove, BeforeStakes
  <2>. QED BY <2>1, <2>3, <2>5
<1>. QED BY <1>1, <1>2 DEF AirdropStep

LEMMA LandFresh ==
  ASSUME OftenInv, FreshInv, NEW w \in inflight, Land(w) PROVE FreshInv'
<1>1. /\ UNCHANGED <<case, pc>> /\ inflight' \subseteq inflight
      /\ w[2] \in Step /\ w[3] \in Status \ {"none"}
  BY DEF Land, OftenInv
<1>2. /\ row' = row \/ row' = [row EXCEPT ![w[2]] = w[3]]
      /\ \/ UNCHANGED queue
         \/ row[w[2]] = "none" /\ queue' = [queue EXCEPT ![w[2]] = @ + 1]
  BY DEF Land, Written, QueueJob, Insertable
<1>3. \A s \in Step : Fresh(s) => Fresh(s)'
  BY <1>1, <1>2 DEF Fresh, OftenInv
<1>4. ASSUME NEW j \in {"propose", "deploy", "transfer", "approve"}, NEW L,
             Yet(j, L)'
      PROVE  Yet(j, L)
  BY <1>1, <1>2, <1>4 DEF Yet, OftenInv, OrderInv, TypeInv, Step, Status
<1>. QED BY <1>1, <1>3, <1>4, FreshFrame
     DEF BeforeDeploy, BeforeSetops, BeforeWorker, BeforeApprove, BeforeStakes

(* A row that is queued: its message is lost, or waits, or its consumer    *)
(* has written the next status, or is about to (only to propose it writes  *)
(* none before it has sent).                                               *)
Awaited(s) ==
  \/ s \in lost
  \/ queue[s] > 0
  \/ s = "propose" /\ pc["propose"] = "propose"
  \/ \E w \in inflight : w[2] = s /\ w[3] # "queued"

AwaitedInv ==
  /\ row["setops"] # "queued"
  /\ \A s \in Step \ {"airdrop"} : row[s] = "queued" => Awaited(s)

LEMMA LaterAnswers ==
  ASSUME OftenInv, AwaitedInv, NEW j, NEW s \in Step,
         NEW st \in Status \ {"none", "queued"}, LaterWrite(j, s, st),
         UNCHANGED lost,
         \A r \in Step \ {s} : queue[r] > 0 => queue[r]' > 0,
         s # "propose" /\ pc["propose"] = "propose" => pc["propose"]' = "propose"
  PROVE  AwaitedInv'
<1>1. CASE s \in case.slow
  <2>1. /\ inflight' = inflight \cup {<<j, s, st>>} /\ UNCHANGED row
        /\ <<j, s, st>>[2] = s /\ <<j, s, st>>[3] # "queued"
    BY <1>1 DEF LaterWrite
  <2>2. Awaited(s)'
    BY <2>1 DEF Awaited
  <2>3. ASSUME NEW r \in Step \ {s}, Awaited(r) PROVE Awaited(r)'
    BY <2>1, <2>3 DEF Awaited
  <2>. QED BY <2>1, <2>2, <2>3 DEF AwaitedInv
<1>2. CASE s \notin case.slow
  <2>1. row' = [row EXCEPT ![s] = st] /\ UNCHANGED inflight
    BY <1>2 DEF LaterWrite, Written
  <2>2. \A r \in Step : row[r]' = IF r = s THEN st ELSE row[r]
    BY <2>1 DEF OftenInv
  <2>3. ASSUME NEW r \in Step \ {s}, Awaited(r) PROVE Awaited(r)'
    BY <2>1, <2>3 DEF Awaited
  <2>. QED BY <2>2, <2>3 DEF AwaitedInv, Step
<1>. QED BY <1>1, <1>2

LEMMA DeliveryAnswers ==
  ASSUME OftenInv, AwaitedInv, NEW j \in Job \ ({"propose"} \cup Claim), NEW l,
         Deliver(j, l), LaterWrite(j, j, "pending")
  PROVE  AwaitedInv'
<1>1. /\ j \in Step \ {"propose"} /\ UNCHANGED lost
      /\ \A r \in Step \ {j} : queue[r]' = queue[r]
      /\ pc["propose"]' = pc["propose"]
  BY DEF Deliver, OftenInv, OrderInv, TypeInv, Job, Step, Claim, Goto, faultVars
<1>. QED BY <1>1, LaterAnswers DEF Status

LEMMA ProposeAwaited ==
  ASSUME OftenInv, AwaitedInv, ProposeStep PROVE AwaitedInv'
<1> USE DEF OftenInv, OrderInv, TypeInv, AwaitedInv, Awaited, Job, Step, Claim,
            StakeOf, At, Goto, QueueJob, Insertable, Deliver, LaterWrite,
            Written, faultVars
<1>1. CASE StartOnBoarding
  BY <1>1 DEF StartOnBoarding
<1>2. CASE ProposeBegins
  BY <1>2 DEF ProposeBegins
<1>3. CASE ProposeSends
  <2>1. LaterWrite("propose", "propose", "pending") /\ UNCHANGED <<lost, queue>>
    BY <1>3 DEF ProposeSends
  <2>. HIDE DEF OftenInv, AwaitedInv, LaterWrite
  <2>. QED BY <2>1, LaterAnswers DEF Status
<1>4. CASE ProposeRegistered
  BY <1>4 DEF ProposeRegistered
<1>5. CASE ProposeQueuesDeploy
  BY <1>5 DEF ProposeQueuesDeploy
<1>6. CASE ProposeQueuesTransfer
  BY <1>6 DEF ProposeQueuesTransfer
<1>7. CASE ProposeFails
  <2>1. LaterWrite("propose", "propose", "failed") /\ UNCHANGED <<lost, queue>>
    BY <1>7 DEF ProposeFails, FailLater
  <2>. HIDE DEF OftenInv, AwaitedInv, LaterWrite
  <2>. QED BY <2>1, LaterAnswers DEF Status
<1>. QED BY <1>1, <1>2, <1>3, <1>4, <1>5, <1>6, <1>7 DEF ProposeStep

LEMMA DeployAwaited ==
  ASSUME OftenInv, AwaitedInv, DeployStep PROVE AwaitedInv'
<1> USE DEF OftenInv, OrderInv, TypeInv, AwaitedInv, Awaited, Job, Step, Claim,
            StakeOf, At, Goto, QueueJob, Insertable, Deliver, LaterWrite,
            Written, faultVars
<1>1. CASE DeployBegins
  <2>. HIDE DEF OftenInv, AwaitedInv, LaterWrite, Deliver
  <2>. QED BY <1>1, DeliveryAnswers DEF DeployBegins
<1>2. CASE DeployContract
  BY <1>2 DEF DeployContract
<1>3. CASE InsertSetops
  BY <1>3 DEF InsertSetops
<1>4. CASE SendSetops
  BY <1>4 DEF SendSetops
<1>5. CASE DeployFails
  BY <1>5 DEF DeployFails, FailLater
<1>6. CASE DeployQueues
  BY <1>6 DEF DeployQueues, AfterDeploy
<1>. QED BY <1>1, <1>2, <1>3, <1>4, <1>5, <1>6 DEF DeployStep

LEMMA SetAwaited ==
  ASSUME OftenInv, AwaitedInv, SetStep PROVE AwaitedInv'
<1> USE DEF OftenInv, OrderInv, TypeInv, AwaitedInv, Awaited, Job, Step, Claim,
            StakeOf, At, Goto, QueueJob, Insertable, Deliver, LaterWrite,
            Written, faultVars
<1>1. CASE SetWorkersBegins
  <2>. HIDE DEF OftenInv, AwaitedInv, LaterWrite, Deliver
  <2>. QED BY <1>1, DeliveryAnswers DEF SetWorkersBegins
<1>2. CASE SetWorkersNothingToSet
  BY <1>2 DEF SetWorkersNothingToSet
<1>3. CASE SetWorkers
  BY <1>3 DEF SetWorkers
<1>4. CASE SetPriceOracleBegins
  <2>. HIDE DEF OftenInv, AwaitedInv, LaterWrite, Deliver
  <2>. QED BY <1>4, DeliveryAnswers DEF SetPriceOracleBegins
<1>5. CASE SetPriceOracle
  BY <1>5 DEF SetPriceOracle
<1>6. CASE SetAcceptedMarginBegins
  <2>. HIDE DEF OftenInv, AwaitedInv, LaterWrite, Deliver
  <2>. QED BY <1>6, DeliveryAnswers DEF SetAcceptedMarginBegins
<1>7. CASE SetAcceptedMargin
  BY <1>7 DEF SetAcceptedMargin
<1>8. CASE SetFails
  BY <1>8 DEF SetFails, FailNow, AfterDeploy
<1>. QED BY <1>1, <1>2, <1>3, <1>4, <1>5, <1>6, <1>7, <1>8 DEF SetStep

LEMMA StakeAwaited ==
  ASSUME OftenInv, AwaitedInv, StakeStep PROVE AwaitedInv'
<1> USE DEF OftenInv, OrderInv, TypeInv, AwaitedInv, Awaited, Job, Step, Claim,
            StakeOf, At, Goto, QueueJob, Insertable, Deliver, LaterWrite,
            Written, faultVars
<1>1. CASE StartStakeAndMint
  BY <1>1 DEF StartStakeAndMint
<1>2. CASE VerifyBegins
  <2>. HIDE DEF OftenInv, AwaitedInv, LaterWrite, Deliver
  <2>. QED BY <1>2, DeliveryAnswers DEF VerifyBegins
<1>3. CASE VerifyReceipt
  BY <1>3 DEF VerifyReceipt
<1>4. CASE VerifySavesAmounts
  BY <1>4 DEF VerifySavesAmounts
<1>5. CASE VerifyQueuesApprove
  BY <1>5 DEF VerifyQueuesApprove, LaterInsert
<1>6. CASE VerifyFails
  BY <1>6 DEF VerifyFails, FailNow
<1>7. CASE ApproveBegins
  <2>. HIDE DEF OftenInv, AwaitedInv, LaterWrite, Deliver
  <2>. QED BY <1>7, DeliveryAnswers DEF ApproveBegins
<1>8. CASE Approve
  BY <1>8 DEF Approve
<1>9. CASE ApproveQueuesStakes
  BY <1>9 DEF ApproveQueuesStakes, LaterInsert
<1>10. CASE ApproveFails
  BY <1>10 DEF ApproveFails, FailNow
<1>11. CASE StakeBegins
  <2>. HIDE DEF OftenInv, AwaitedInv, LaterWrite, Deliver
  <2>. QED BY <1>11, DeliveryAnswers DEF StakeBegins
<1>12. CASE StakeRefused
  BY <1>12 DEF StakeRefused
<1>13. CASE InitiateStakeAndMint
  BY <1>13 DEF InitiateStakeAndMint
<1>14. CASE StakeFails
  BY <1>14 DEF StakeFails, FailNow
<1>. QED BY <1>1, <1>2, <1>3, <1>4, <1>5, <1>6, <1>7, <1>8, <1>9, <1>10,
     <1>11, <1>12, <1>13, <1>14 DEF StakeStep

LEMMA ClaimAwaited ==
  ASSUME OftenInv, AwaitedInv, ClaimStep PROVE AwaitedInv'
<1> USE DEF OftenInv, OrderInv, TypeInv, AwaitedInv, Awaited, Job, Step, Claim,
            StakeOf, At, Goto, QueueJob, Insertable, Deliver, LaterWrite,
            Written, faultVars
<1>1. CASE Minted
  BY <1>1 DEF Minted
<1>2. CASE ClaimFailed
  BY <1>2 DEF ClaimFailed
<1>3. CASE ClaimBegins
  BY <1>3 DEF ClaimBegins
<1>4. CASE SettleFails
  BY <1>4 DEF SettleFails
<1>5. CASE Settle
  BY <1>5 DEF Settle
<1>6. CASE ClaimProcessed
  BY <1>6 DEF ClaimProcessed
<1>. QED BY <1>1, <1>2, <1>3, <1>4, <1>5, <1>6 DEF ClaimStep

LEMMA AirdropAwaited ==
  ASSUME OftenInv, AwaitedInv, AirdropStep PROVE AwaitedInv'
<1> USE DEF OftenInv, OrderInv, TypeInv, AwaitedInv, Awaited, Job, Step, Claim,
            StakeOf, At, Goto, QueueJob, Insertable, Deliver, LaterWrite,
            Written, faultVars
<1>1. CASE CheckSteps
  BY <1>1 DEF CheckSteps, AfterDeploy
<1>2. CASE AllocateAirdrop
  BY <1>2 DEF AllocateAirdrop, AfterDeploy
<1>. QED BY <1>1, <1>2 DEF AirdropStep

LEMMA LandAwaited ==
  ASSUME OftenInv, AwaitedInv, NEW w \in inflight, Land(w) PROVE AwaitedInv'
<1> USE DEF OftenInv, OrderInv, TypeInv, AwaitedInv, Awaited, Written
<1>1. CASE w[3] # "queued"
  <2>1. /\ inflight' = inflight \ {w} /\ UNCHANGED <<pc, queue, lost>>
        /\ row' = [row EXCEPT ![w[2]] = w[3]] /\ w[2] \in Step
    BY <1>1 DEF Land
  <2>2. \A r \in Step : row[r]' = IF r = w[2] THEN w[3] ELSE row[r]
    BY <2>1
  <2>3. ASSUME NEW r \in Step, r # w[2], Awaited(r) PROVE Awaited(r)'
    BY <2>1, <2>3
  <2>. HIDE DEF Awaited
  <2>. QED BY <1>1, <2>2, <2>3 DEF Step
<1>2. CASE w[3] = "queued"
  <2>1. w[2] \in {"approve", "bt", "stp"}
    BY <1>2 DEF FlightInv
  <2>2. CASE QueueJob(w[2])
    BY <1>2, <2>1, <2>2 DEF Land, QueueJob, Insertable, Step
  <2>3. CASE ~QueueJob(w[2])
    BY <1>2, <2>3 DEF Land
  <2>. QED BY <2>2, <2>3
<1>. QED BY <1>1, <1>2

(* The last of the steps to be done finds that it was.  Settled: a row is  *)
(* processed, or will be when the write for it arrives.                    *)
Settled(s) ==
  row[s] = "processed" \/ \E w \in inflight : w[2] = s /\ w[3] = "processed"
Optional == {"bt", "stp"} \ case.asks
AllSettled == \A s \in Step \ {"airdrop"} : Settled(s) \/ s \in Optional
Checkers == {"worker", "oracle", "margin"} \cup Claim
Last(j) == pc[j] \in {"check", "airdrop"}

LastInv ==
  /\ "airdrop" \in case.asks /\ ~overtaken /\ row["airdrop"] = "none"
  /\ AllSettled
  => \E j \in Checkers : Last(j)

(* A step that settles nothing, and of which no checker is done.           *)
LEMMA LastFrame ==
  ASSUME LastInv, UNCHANGED <<case, overtaken>>,
         row["airdrop"]' = "none" => row["airdrop"] = "none",
         \A s \in Step \ {"airdrop"} : Settled(s)' => Settled(s),
         \A j \in Checkers : Last(j) => Last(j)'
  PROVE  LastInv'
BY DEF LastInv, AllSettled, Optional


LEMMA ProposeLast ==
  ASSUME OftenInv, FreshInv, LastInv, ProposeStep PROVE LastInv'
<1> USE DEF OftenInv, OrderInv, TypeInv, Job, Step, Claim, StakeOf, Checkers,
            At, Goto, QueueJob, Insertable, Deliver, LaterWrite, Written,
            faultVars, Settled, Last, LastInv, AllSettled, Optional
<1>1. CASE StartOnBoarding
  BY <1>1 DEF StartOnBoarding
<1>2. CASE ProposeBegins
  BY <1>2 DEF ProposeBegins
<1>3. CASE ProposeSends
  BY <1>3 DEF ProposeSends
<1>4. CASE ProposeRegistered
  <2>1. Fresh("deploy")
    BY <1>4 DEF ProposeRegistered, FreshInv, BeforeDeploy, Yet
  <2>2. ~Settled("deploy")'
    BY <1>4, <2>1 DEF ProposeRegistered, Settled, Fresh, LaterWrite, Written
  <2>. QED BY <2>2 DEF LastInv, AllSettled
<1>5. CASE ProposeQueuesDeploy
  BY <1>5 DEF ProposeQueuesDeploy
<1>6. CASE ProposeQueuesTransfer
  BY <1>6 DEF ProposeQueuesTransfer
<1>7. CASE ProposeFails
  BY <1>7 DEF ProposeFails, FailLater
<1>. QED BY <1>1, <1>2, <1>3, <1>4, <1>5, <1>6, <1>7 DEF ProposeStep

LEMMA DeployLast ==
  ASSUME OftenInv, FreshInv, LastInv, DeployStep PROVE LastInv'
<1> USE DEF OftenInv, OrderInv, TypeInv, Job, Step, Claim, StakeOf, Checkers,
            At, Goto, QueueJob, Insertable, Deliver, LaterWrite, Written,
            faultVars, Settled, Last, LastInv, AllSettled, Optional
<1>1. CASE DeployBegins
  BY <1>1 DEF DeployBegins
<1>2. CASE DeployContract
  <2>1. Fresh("setops")
    BY <1>2 DEF DeployContract, FreshInv, BeforeSetops, Yet
  <2>2. ~Settled("setops")'
    BY <1>2, <2>1 DEF DeployContract, Settled, Fresh, LaterWrite, Written
  <2>. QED BY <2>2 DEF LastInv, AllSettled
<1>3. CASE InsertSetops
  BY <1>3 DEF InsertSetops
<1>4. CASE SendSetops
  <2>1. Fresh("worker")
    BY <1>4 DEF SendSetops, FreshInv, BeforeWorker, Yet
  <2>2. ~Settled("worker")'
    BY <1>4, <2>1 DEF SendSetops, Settled, Fresh, LaterWrite, Written
  <2>. QED BY <2>2 DEF LastInv, AllSettled
<1>5. CASE DeployFails
  BY <1>5 DEF DeployFails, FailLater
<1>6. CASE DeployQueues
  BY <1>6 DEF DeployQueues, AfterDeploy
<1>. QED BY <1>1, <1>2, <1>3, <1>4, <1>5, <1>6 DEF DeployStep

LEMMA SetLast ==
  ASSUME OftenInv, FreshInv, LastInv, SetStep PROVE LastInv'
<1> USE DEF OftenInv, OrderInv, TypeInv, Job, Step, Claim, StakeOf, Checkers,
            At, Goto, QueueJob, Insertable, Deliver, LaterWrite, Written,
            faultVars, Settled, Last, LastInv, AllSettled, Optional
<1>1. CASE SetWorkersBegins
  BY <1>1 DEF SetWorkersBegins
<1>2. CASE SetWorkersNothingToSet
  BY <1>2 DEF SetWorkersNothingToSet
<1>3. CASE SetWorkers
  BY <1>3 DEF SetWorkers
<1>4. CASE SetPriceOracleBegins
  BY <1>4 DEF SetPriceOracleBegins
<1>5. CASE SetPriceOracle
  BY <1>5 DEF SetPriceOracle
<1>6. CASE SetAcceptedMarginBegins
  BY <1>6 DEF SetAcceptedMarginBegins
<1>7. CASE SetAcceptedMargin
  BY <1>7 DEF SetAcceptedMargin
<1>8. CASE SetFails
  BY <1>8 DEF SetFails, FailNow, AfterDeploy
<1>. QED BY <1>1, <1>2, <1>3, <1>4, <1>5, <1>6, <1>7, <1>8 DEF SetStep

LEMMA StakeLast ==
  ASSUME OftenInv, FreshInv, LastInv, StakeStep PROVE LastInv'
<1> USE DEF OftenInv, OrderInv, TypeInv, Job, Step, Claim, StakeOf, Checkers,
            At, Goto, QueueJob, Insertable, Deliver, LaterWrite, Written,
            faultVars, Settled, Last, LastInv, AllSettled, Optional
<1>1. CASE StartStakeAndMint
  BY <1>1 DEF StartStakeAndMint
<1>2. CASE VerifyBegins
  BY <1>2 DEF VerifyBegins
<1>3. CASE VerifyReceipt
  <2>1. Fresh("approve")
    BY <1>3 DEF VerifyReceipt, FreshInv, BeforeApprove, Yet
  <2>2. ~Settled("approve")'
    BY <1>3, <2>1 DEF VerifyReceipt, Settled, Fresh, LaterWrite, Written
  <2>. QED BY <2>2 DEF LastInv, AllSettled
<1>4. CASE VerifySavesAmounts
  BY <1>4 DEF VerifySavesAmounts
<1>5. CASE VerifyQueuesApprove
  BY <1>5 DEF VerifyQueuesApprove, LaterInsert
<1>6. CASE VerifyFails
  BY <1>6 DEF VerifyFails, FailNow
<1>7. CASE ApproveBegins
  BY <1>7 DEF ApproveBegins
<1>8. CASE Approve
  <2>1. PICK s \in {"bt", "stp"} : s \in case.asks /\ Fresh(s)
    BY <1>8 DEF Approve, FreshInv, BeforeStakes, Yet, ValidRequest
  <2>2. ~Settled(s)' /\ case' = case
    BY <1>8, <2>1 DEF Approve, Fresh
  <2>. QED BY <2>1, <2>2
<1>9. CASE ApproveQueuesStakes
  BY <1>9 DEF ApproveQueuesStakes, LaterInsert
<1>10. CASE ApproveFails
  BY <1>10 DEF ApproveFails, FailNow
<1>11. CASE StakeBegins
  BY <1>11 DEF StakeBegins
<1>12. CASE StakeRefused
  BY <1>12 DEF StakeRefused
<1>13. CASE InitiateStakeAndMint
  BY <1>13 DEF InitiateStakeAndMint
<1>14. CASE StakeFails
  BY <1>14 DEF StakeFails, FailNow
<1>. QED BY <1>1, <1>2, <1>3, <1>4, <1>5, <1>6, <1>7, <1>8, <1>9, <1>10,
     <1>11, <1>12, <1>13, <1>14 DEF StakeStep

LEMMA ClaimLast ==
  ASSUME OftenInv, FreshInv, LastInv, ClaimStep PROVE LastInv'
<1> USE DEF OftenInv, OrderInv, TypeInv, Job, Step, Claim, StakeOf, Checkers,
            At, Goto, QueueJob, Insertable, Deliver, LaterWrite, Written,
            faultVars, Settled, Last, LastInv, AllSettled, Optional
<1>1. CASE Minted
  BY <1>1 DEF Minted
<1>2. CASE ClaimFailed
  BY <1>2 DEF ClaimFailed
<1>3. CASE ClaimBegins
  BY <1>3 DEF ClaimBegins
<1>4. CASE SettleFails
  BY <1>4 DEF SettleFails
<1>5. CASE Settle
  BY <1>5 DEF Settle
<1>6. CASE ClaimProcessed
  BY <1>6 DEF ClaimProcessed
<1>. QED BY <1>1, <1>2, <1>3, <1>4, <1>5, <1>6 DEF ClaimStep

(* A checker that finds a step which is not processed, though all are      *)
(* settled, was overtaken by the status of that step.                      *)
LEMMA CheckLast ==
  ASSUME OftenInv, FreshInv, LastInv, CheckSteps PROVE LastInv'
<1>1. PICK j \in Checkers :
        /\ pc[j] = "check"
        /\ Goto(j, IF AllProcessed /\ "airdrop" \in case.asks
                     THEN "airdrop" ELSE "idle")
        /\ overtaken' = (overtaken \/ Overtaking)
        /\ UNCHANGED <<case, row, inflight>>
  BY DEF CheckSteps, AfterDeploy, Checkers, At
<1>2. SUFFICES ASSUME "airdrop" \in case.asks, ~overtaken', AllSettled,
                      row["airdrop"] = "none"
               PROVE  AllProcessed
  <2>1. AllSettled' => AllSettled
    BY <1>1 DEF AllSettled, Settled, Optional
  <2>2. AllProcessed /\ "airdrop" \in case.asks => Last(j)'
    BY <1>1 DEF Goto, Last, OftenInv, OrderInv, TypeInv, Checkers, Job, Step
  <2>. QED BY <1>1, <2>1, <2>2 DEF LastInv
<1>3. case.flow = "onBoarding"
  BY <1>2 DEF FreshInv, ValidRequest
<1>4. SUFFICES ASSUME NEW s \in Step \ {"propose"}, row[s] # "none",
                      row[s] # "processed"
               PROVE  FALSE
  BY <1>3 DEF AllProcessed, Children, Parent
<1>5. s # "airdrop" /\ s \notin Optional
  BY <1>2, <1>4 DEF Optional, FreshInv, Fresh
<1>6. PICK w \in inflight : w[2] = s /\ w[3] = "processed"
  BY <1>2, <1>4, <1>5 DEF AllSettled, Settled
<1>7. Overtaking
  BY <1>4, <1>6 DEF Overtaking
<1>. QED BY <1>1, <1>2, <1>7

LEMMA AllocateLast ==
  ASSUME OftenInv, LastInv, AllocateAirdrop PROVE LastInv'
<1>1. row["airdrop"]' # "none"
  BY DEF AllocateAirdrop, QueueJob, Insertable, Written, OftenInv, Step
<1>. QED BY <1>1 DEF LastInv

LEMMA LandLast ==
  ASSUME OftenInv, LastInv, NEW w \in inflight, Land(w) PROVE LastInv'
<1>1. /\ UNCHANGED <<case, pc, overtaken>> /\ inflight' = inflight \ {w}
      /\ row' = row \/ row' = [row EXCEPT ![w[2]] = w[3]]
      /\ w[2] \in Step /\ w[3] \in Status \ {"none"}
  BY DEF Land, QueueJob, Written, OftenInv
<1>2. \A s \in Step : Settled(s)' => Settled(s)
  BY <1>1 DEF Settled, OftenInv
<1>3. row["airdrop"]' = "none" => row["airdrop"] = "none"
  BY <1>1 DEF OftenInv, Step
<1>4. \A j \in Checkers : Last(j) => Last(j)'
  BY <1>1 DEF Last
<1>. QED BY <1>1, <1>2, <1>3, <1>4, LastFrame

ForgetInv ==
  OftenInv /\ (crashes = 0 => FreshInv /\ AwaitedInv /\ LastInv)

LEMMA ForgetInvInit == Init => ForgetInv
<1> SUFFICES ASSUME Init PROVE ForgetInv
  OBVIOUS
<1>1. OftenInv
  BY OftenInvInit
<1>2. FreshInv
  BY CasesAssumption DEF Init, FreshInv, Fresh, Step
<1>3. AwaitedInv
  BY DEF Init, AwaitedInv, Step
<1>4. ~AllSettled
  BY DEF Init, AllSettled, Settled, Optional, Step
<1>. QED BY <1>1, <1>2, <1>3, <1>4 DEF ForgetInv, LastInv

LEMMA ForgetInvStep == ForgetInv /\ [Next]_vars => ForgetInv'
<1> SUFFICES ASSUME ForgetInv, [Next]_vars PROVE ForgetInv'
  OBVIOUS
<1>1. OftenInv /\ OftenInv'
  BY OftenInvStep DEF ForgetInv
<1>2. SUFFICES ASSUME crashes' = 0 PROVE (FreshInv /\ AwaitedInv /\ LastInv)'
  BY <1>1 DEF ForgetInv
<1>3. CASE UNCHANGED vars
  BY <1>2, <1>3 DEF vars, faultVars, ForgetInv, FreshInv, Fresh, Yet,
     BeforeDeploy, BeforeSetops, BeforeWorker, BeforeApprove, BeforeStakes,
     AwaitedInv, Awaited, LastInv, AllSettled, Settled, Optional, Last
<1>4. CASE Next
  <2>1. crashes \in Nat /\ ~\E j \in Job : Crash(j)
    BY <1>1, <1>2 DEF OftenInv, Crash
  <2>2. crashes = 0
    <3>1. CASE \E w \in inflight : Land(w)
      BY <1>2, <3>1 DEF Land
    <3>2. CASE ProposeStep
      BY <1>2, <3>2 DEF ProposeStep, StartOnBoarding, ProposeBegins, Deliver,
         ProposeSends, ProposeRegistered, ProposeQueuesDeploy,
         ProposeQueuesTransfer, ProposeFails, FailLater, faultVars
    <3>3. CASE DeployStep
      BY <1>2, <3>3 DEF DeployStep, DeployBegins, Deliver, DeployContract,
         InsertSetops, SendSetops, DeployFails, DeployQueues, FailLater,
         faultVars
    <3>4. CASE SetStep
      BY <1>2, <3>4 DEF SetStep, SetWorkersBegins, SetWorkersNothingToSet,
         SetWorkers, SetPriceOracleBegins, SetPriceOracle,
         SetAcceptedMarginBegins, SetAcceptedMargin, SetFails, FailNow,
         Deliver, faultVars
    <3>5. CASE StakeStep
      BY <1>2, <3>5 DEF StakeStep, StartStakeAndMint, VerifyBegins,
         VerifyReceipt, VerifySavesAmounts, VerifyQueuesApprove, VerifyFails,
         ApproveBegins, Approve, ApproveQueuesStakes, ApproveFails,
         StakeBegins, StakeRefused, InitiateStakeAndMint, StakeFails, FailNow,
         Deliver, faultVars
    <3>6. CASE ClaimStep \/ AirdropStep
      BY <1>2, <3>6 DEF ClaimStep, Minted, ClaimFailed, ClaimBegins, Deliver,
         SettleFails, Settle, ClaimProcessed, AirdropStep, CheckSteps,
         AllocateAirdrop, faultVars
    <3>. QED BY <1>4, <2>1, <3>1, <3>2, <3>3, <3>4, <3>5, <3>6 DEF Next
  <2>3. FreshInv /\ AwaitedInv /\ LastInv
    BY <2>2 DEF ForgetInv
  <2>4. FreshInv'
    BY <1>1, <1>4, <2>1, <2>2, <2>3, ProposeFresh, DeployFresh, SetFresh,
       StakeFresh, ClaimFresh, AirdropFresh, LandFresh DEF Next
  <2>5. AwaitedInv'
    BY <1>1, <1>4, <2>1, <2>3, ProposeAwaited, DeployAwaited, SetAwaited,
       StakeAwaited, ClaimAwaited, AirdropAwaited, LandAwaited DEF Next
  <2>6. LastInv'
    BY <1>1, <1>4, <2>1, <2>3, ProposeLast, DeployLast, SetLast, StakeLast,
       ClaimLast, CheckLast, AllocateLast, LandLast DEF Next, AirdropStep
  <2>. QED BY <2>4, <2>5, <2>6
<1>. QED BY <1>3, <1>4

LEMMA ForgetInvSafe == ForgetInv => NothingForgotten
<1> SUFFICES ASSUME ForgetInv, Quiet, crashes = 0
             PROVE  /\ \A s \in Step \ {"airdrop"} : row[s] = "queued" => s \in lost
                    /\ Complete /\ "airdrop" \in case.asks /\ ~overtaken
                         => row["airdrop"] # "none"
  BY DEF NothingForgotten
<1>0. FreshInv /\ AwaitedInv /\ LastInv /\ OftenInv
  BY DEF ForgetInv
<1>1. ASSUME NEW s \in Step \ {"airdrop"}, row[s] = "queued" PROVE s \in lost
  <2>1. Awaited(s)
    BY <1>0, <1>1 DEF AwaitedInv
  <2>2. inflight = {} /\ \A j \in Job : pc[j] = "idle" /\ queue[j] = 0
    BY DEF Quiet, At
  <2>3. CASE s = "setops"
    BY <1>0, <1>1, <2>3 DEF AwaitedInv
  <2>4. CASE s # "setops"
    BY <2>1, <2>2, <2>4 DEF Awaited, Job, Step
  <2>. QED BY <2>3, <2>4
<1>2. ASSUME Complete, "airdrop" \in case.asks, ~overtaken
      PROVE  row["airdrop"] # "none"
  <2>1. Parent \in Step
    BY DEF Parent, Step
  <2>2. AllSettled
    BY <1>2, <2>1 DEF Complete, AllSettled, Settled, Optional
  <2>3. ~\E j \in Checkers : Last(j)
    BY DEF Quiet, At, Checkers, Last, Job, Step
  <2>. QED BY <1>0, <1>2, <2>2, <2>3 DEF LastInv
<1>. QED BY <1>1, <1>2

(* As long as no consumer dies, nothing is forgotten when all is quiet: a  *)
(* row that is still queued is one whose message was never published, and  *)
(* when every step is done the airdrop was asked for, unless a status was  *)
(* in flight as a checker looked.                                          *)
THEOREM NoStepForgotten == Spec => []NothingForgotten
<1>1. Init => ForgetInv
  BY ForgetInvInit
<1>2. ForgetInv /\ [Next]_vars => ForgetInv'
  BY ForgetInvStep
<1>3. ForgetInv => NothingForgotten
  BY ForgetInvSafe
<1>. QED BY <1>1, <1>2, <1>3, PTL DEF Spec
=============================================================================
