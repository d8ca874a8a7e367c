--------------------------- MODULE Airdrop_proofs ---------------------------
(* What is allotted to users is backed by tokens moved for it, and who was *)
(* never airdropped is so once: proofs for any airdrops of a client.       *)
EXTENDS Airdrop, FiniteSetTheorems, TLAPS

(* Where an airdrop is before its row, before and after its tokens.        *)
Early == {"none", "requested", "refused", "valid"}
Before == {"check", "details", "transfer"}
After == {"approve", "allocate", "complete", "processed", "reserve"}
Label == Early \cup Before \cup After \cup {"queued", "lost", "hung", "end"}
Working == Before \cup {"approve", "allocate", "complete"}

TypeInv ==
  /\ case \in Cases
  /\ pc \in [Airdrops -> Label]
  /\ status \in
       [Airdrops -> {"none", "incomplete", "processing", "complete", "failed"}]
  /\ detail \in
       [Airdrops -> [case.users -> {"none", "incomplete", "complete", "failed"}]]
  /\ granting \in [Airdrops -> SUBSET case.users]
  /\ DOMAIN budget = Airdrops
  /\ failures \in Seq(Kinds) /\ deaths \in Nat

(* An airdrop is begun once, as its row is incomplete once; its tokens are *)
(* moved when everybody it is for has a record.                            *)
Unmoved(a) == budget[a] = 0 /\ \A u \in case.users : detail[a][u] # "complete"
Local(a) ==
  /\ pc[a] \in Early <=> status[a] = "none"
  /\ status[a] \in {"none", "incomplete"} => Entered(a) = {} /\ budget[a] = 0
  /\ pc[a] \in Before => Unmoved(a)
  /\ pc[a] \in Working => status[a] = "processing"
  /\ pc[a] \in {"processed", "reserve"} => status[a] = "complete"
  /\ pc[a] \in After => budget[a] = TotalTransferAmount(a)
  /\ Unmoved(a) \/ budget[a] = TotalTransferAmount(a)

(* While nothing fails and nobody dies: an airdrop that is over has given  *)
(* the property to everybody it has allotted to.                           *)
Calm == failures = <<>> /\ deaths = 0
Steady(a) ==
  /\ pc[a] = "queued" => status[a] = "incomplete"
  /\ Allotted(a) \subseteq granted \cup granting[a]
  /\ granting[a] # {} => pc[a] = "allocate"

(* Of two that were not under way together one was over when the other was *)
(* entered, and whom it has allotted to are not among those of the other.  *)
First(a, b) == ~UnderWay(a) /\ Allotted(a) \cap Entered(b) = {}
Apart(a, b) ==
  /\ A(a).list = "never" /\ A(b).list = "never"
  /\ status[a] # "none" /\ status[b] # "none" /\ {a, b} \notin overlapped
  => First(a, b) \/ First(b, a)

AirdropInv ==
  /\ TypeInv
  /\ \A a \in Airdrops : Local(a)
  /\ Calm =>
       /\ \A a \in Airdrops : Steady(a)
       /\ \A a, b \in Airdrops : a # b => Apart(a, b)

-----------------------------------------------------------------------------
LEMMA UsersFinite == TypeInv => IsFiniteSet(case.users)
BY CasesAssumption DEF TypeInv

(* What a step of airdrop a leaves of another, and of what all share.      *)
Same(b) ==
  /\ pc'[b] = pc[b] /\ status'[b] = status[b] /\ detail'[b] = detail[b]
  /\ granting'[b] = granting[b] /\ budget'[b] = budget[b]
Frame(a) ==
  /\ case' = case
  /\ \A b \in Airdrops \ {a} : Same(b)
  /\ granted \subseteq granted' /\ overlapped \subseteq overlapped'
  /\ Calm' => Calm

(* What it does to its own: it is over for good; whom it enters has not    *)
(* the property; and it is entered among those under way.                  *)
Over(a) == status[a] # "none" /\ ~UnderWay(a)
Own(a) ==
  /\ Over(a) => status'[a] = status[a] /\ detail'[a] = detail[a]
  /\ \A u \in Entered(a)' \ Entered(a) : A(a).list = "never" => u \notin granted
  /\ status[a] = "none" /\ status'[a] # "none" =>
       \A c \in Airdrops : UnderWay(c) => {a, c} \in overlapped'

Good(a) ==
  /\ TypeInv' /\ Frame(a) /\ Local(a)'
  /\ Calm' /\ Steady(a) => Steady(a)' /\ Own(a)

LEMMA LocalSame ==
  ASSUME NEW b \in Airdrops, case' = case, Same(b), Local(b)
  PROVE  Local(b)'
BY DEF Same, Local, Unmoved, Entered, TotalTransferAmount, A

LEMMA SteadySame ==
  ASSUME NEW b \in Airdrops, case' = case, Same(b), Steady(b),
         granted \subseteq granted'
  PROVE  Steady(b)'
BY DEF Same, Steady, Allotted

(* A step of this kind keeps the invariant.                                *)
LEMMA GoodKeeps ==
  ASSUME AirdropInv, NEW a \in Airdrops, Good(a)
  PROVE  AirdropInv'
<1> USE DEF Good, Frame
<1>1. \A b \in Airdrops : Local(b)'
  BY LocalSame DEF AirdropInv
<1>2. SUFFICES ASSUME Calm'
               PROVE  /\ \A b \in Airdrops : Steady(b)'
                      /\ \A b, c \in Airdrops : b # c => Apart(b, c)'
  BY <1>1 DEF AirdropInv
<1>3. Calm
  BY <1>2
<1>4. \A b \in Airdrops : Steady(b) /\ Local(b)
  BY <1>3 DEF AirdropInv
<1>5. \A b \in Airdrops : Steady(b)'
  BY <1>2, <1>4, SteadySame
<1>6. Own(a)
  BY <1>2, <1>4
<1>7. \A b \in Airdrops \ {a} :
        A(b).list = "never" /\ A(a).list = "never"
          /\ status'[a] # "none" /\ status'[b] # "none"
          /\ {a, b} \notin overlapped'
        => First(a, b)' \/ First(b, a)'
  <2> SUFFICES ASSUME NEW b \in Airdrops \ {a},
                      A(b).list = "never", A(a).list = "never",
                      status'[a] # "none", status'[b] # "none",
                      {a, b} \notin overlapped'
               PROVE  First(a, b)' \/ First(b, a)'
    OBVIOUS
  <2>1. Same(b) /\ status[b] # "none" /\ {a, b} \notin overlapped
    BY DEF Same
  <2>2. /\ Entered(b)' = Entered(b) /\ Allotted(b)' = Allotted(b)
        /\ UnderWay(b)' = UnderWay(b)
    BY <2>1 DEF Same, Entered, Allotted, UnderWay
  <2>3. ~UnderWay(b) => Allotted(b) \subseteq granted
    BY <1>4, <2>1 DEF Steady, UnderWay, Over, Working, Before, AirdropInv, Local, Early
  <2>4. Allotted(a)' \subseteq Entered(a)'
    BY DEF Allotted, Entered
  <2>5. First(b, a) => First(b, a)'
    <3> SUFFICES ASSUME First(b, a) PROVE First(b, a)'
      OBVIOUS
    <3>1. Allotted(b) \cap (Entered(a)' \ Entered(a)) = {}
      BY <1>6, <2>3 DEF Own, First
    <3> QED
      BY <3>1, <2>2 DEF First
  <2>6. CASE status[a] = "none"
    <3>1. ~UnderWay(b)
      BY <1>6, <2>6 DEF Own
    <3>2. Entered(a) = {}
      BY <1>4, <2>6 DEF Local
    <3> QED
      BY <3>1, <3>2, <2>5 DEF First
  <2>7. CASE status[a] # "none"
    <3>1. First(a, b) \/ First(b, a)
      BY <1>3, <2>1, <2>7 DEF AirdropInv, Apart
    <3>2. First(a, b) => First(a, b)'
      <4> SUFFICES ASSUME First(a, b) PROVE First(a, b)'
        OBVIOUS
      <4>1. status'[a] = status[a] /\ detail'[a] = detail[a]
        BY <1>6, <2>7 DEF Own, Over, First
      <4> QED
        BY <4>1, <2>2 DEF First, UnderWay, Allotted
    <3> QED
      BY <2>5, <3>1, <3>2
  <2> QED
    BY <2>6, <2>7
<1>8. ASSUME NEW b \in Airdrops, NEW c \in Airdrops, b # c
      PROVE  Apart(b, c)'
  <2>1. CASE b # a /\ c # a
    <3>1. Same(b) /\ Same(c)
      BY <2>1
    <3>2. Apart(b, c)
      BY <1>3, <1>8 DEF AirdropInv
    <3> QED
      BY <3>1, <3>2
      DEF Same, Apart, First, UnderWay, Allotted, Entered, A
  <2>2. {b, c} = {c, b}
    OBVIOUS
  <2>3. CASE b = a
    BY <1>7, <1>8, <2>3 DEF Apart, A
  <2>4. CASE c = a
    BY <1>7, <1>8, <2>2, <2>4 DEF Apart, A
  <2> QED
    BY <2>1, <2>3, <2>4
<1> QED
  BY <1>5, <1>8

-----------------------------------------------------------------------------
LEMMA AirdropInit == Init => AirdropInv
<1> SUFFICES ASSUME Init PROVE AirdropInv
  OBVIOUS
<1>1. TypeInv
  BY DEF Init, TypeInv, Label, Early
<1>2. ASSUME NEW a \in Airdrops PROVE Local(a) /\ Steady(a)
  BY DEF Init, Local, Steady, Unmoved, Entered, Allotted, Early, Before, After,
         Working
<1>3. \A a, b \in Airdrops : Apart(a, b)
  BY DEF Init, Apart
<1> QED
  BY <1>1, <1>2, <1>3 DEF AirdropInv

-----------------------------------------------------------------------------
(* A failure is one; a page is of those it is taken from.                  *)
LEMMA FailureIsOne ==
  ASSUME TypeInv, NEW k, MayFail(k)
  PROVE  failures' \in Seq(Kinds) /\ failures' # <<>>
BY CasesAssumption DEF MayFail, TypeInv

LEMMA PageWithin ==
  ASSUME NEW S, NEW n, NEW m
  PROVE  Page(S, n, m) \subseteq S
BY DEF Page

(* Where an airdrop goes, by the labels.                                   *)
Went(a, l) == pc' = [pc EXCEPT ![a] = l]
Kept == UNCHANGED <<case, detail, granting, granted, budget, overlapped>>

(* A failure ends the airdrop, whose row is failed or left.                *)
Fails(a) ==
  /\ \E k \in Kinds : MayFail(k)
  /\ Went(a, "end") /\ UNCHANGED deaths
  /\ status' = status \/ status' = [status EXCEPT ![a] = "failed"]

LEMMA FailsTypes ==
  ASSUME TypeInv, NEW a \in Airdrops, Fails(a)
  PROVE  /\ pc' \in [Airdrops -> Label] /\ pc'[a] = "end"
         /\ \A b \in Airdrops \ {a} : pc'[b] = pc[b] /\ status'[b] = status[b]
         /\ status' \in [Airdrops ->
              {"none", "incomplete", "processing", "complete", "failed"}]
         /\ status'[a] \in {status[a], "failed"}
         /\ failures' \in Seq(Kinds) /\ deaths' \in Nat /\ ~Calm'
BY FailureIsOne DEF Fails, Went, TypeInv, Label, Calm

LEMMA FailsGood ==
  ASSUME AirdropInv, NEW a \in Airdrops, Fails(a), Kept,
         pc[a] \in Before \cup After
  PROVE  Good(a)
<1>1. TypeInv /\ Local(a)
  BY DEF AirdropInv
<1>2. TypeInv' /\ ~Calm'
  BY <1>1, FailsTypes DEF TypeInv, Kept
<1>3. Frame(a)
  BY <1>1, <1>2, FailsTypes DEF Frame, Same, Kept
<1>4. Local(a)'
  <2>1. pc'[a] = "end" /\ status'[a] \in {status[a], "failed"}
    BY <1>1, FailsTypes
  <2>2. /\ Unmoved(a)' = Unmoved(a) /\ Entered(a)' = Entered(a)
        /\ TotalTransferAmount(a)' = TotalTransferAmount(a)
        /\ budget'[a] = budget[a]
    BY DEF Kept, Unmoved, Entered, TotalTransferAmount, A
  <2>3. status[a] \notin {"none", "incomplete"}
    BY <1>1 DEF Local, Before, After, Early, Working
  <2> QED
    BY <1>1, <2>1, <2>2, <2>3 DEF Local, Early, Before, After, Working
<1> QED
  BY <1>2, <1>3, <1>4 DEF Good

(* A step that leaves the records of users and the tokens alone, and takes *)
(* the airdrop from one label and status to others.                        *)
Takes(a, from, to, st) ==
  /\ pc[a] = from /\ Went(a, to)
  /\ \/ status' = [status EXCEPT ![a] = st]
     \/ status' = status /\ status[a] = st
  /\ UNCHANGED <<failures, deaths>>
Ways ==
  {<<"none", "requested", "none">>, <<"none", "refused", "none">>,
   <<"none", "valid", "none">>, <<"requested", "valid", "none">>,
   <<"requested", "refused", "none">>, <<"queued", "check", "processing">>,
   <<"check", "details", "processing">>, <<"check", "end", "failed">>,
   <<"transfer", "end", "failed">>, <<"approve", "allocate", "processing">>,
   <<"complete", "processed", "complete">>,
   <<"processed", "reserve", "complete">>, <<"reserve", "end", "complete">>}

LEMMA TakesGood ==
  ASSUME AirdropInv, NEW a \in Airdrops, Kept,
         NEW w \in Ways, Takes(a, w[1], w[2], w[3]),
         pc[a] = "queued" => status[a] = "incomplete"
  PROVE  Good(a)
<1>1. TypeInv /\ Local(a)
  BY DEF AirdropInv
<1>2. /\ pc[a] = w[1] /\ pc'[a] = w[2] /\ status'[a] = w[3]
      /\ \A b \in Airdrops \ {a} : pc'[b] = pc[b] /\ status'[b] = status[b]
  BY <1>1 DEF Takes, Went, TypeInv
<1>3. TypeInv'
  BY <1>1 DEF Takes, Went, Ways, Kept, TypeInv, Label, Early, Before, After
<1>4. Frame(a)
  BY <1>2 DEF Frame, Same, Kept, Takes, Calm
<1>5. /\ Unmoved(a)' = Unmoved(a) /\ Entered(a)' = Entered(a)
      /\ Allotted(a)' = Allotted(a)
      /\ TotalTransferAmount(a)' = TotalTransferAmount(a)
      /\ budget'[a] = budget[a]
  BY DEF Kept, Unmoved, Entered, Allotted, TotalTransferAmount, A
<1>6. Local(a)'
  BY <1>1, <1>2, <1>5
  DEF Local, Ways, Early, Before, After, Unmoved, Entered, Working
<1>7. ASSUME Steady(a) PROVE Steady(a)' /\ Own(a)
  <2>1. Steady(a)'
    BY <1>1, <1>2, <1>5, <1>7
    DEF Steady, Kept, Ways, Working, Before, Local, Early
  <2>2. Own(a)
    BY <1>1, <1>2, <1>5, <1>7
    DEF Own, Over, UnderWay, Kept, Ways, Working, Before, Local, Early, Steady
  <2> QED
    BY <2>1, <2>2
<1> QED
  BY <1>3, <1>4, <1>6, <1>7 DEF Good

(* A step that is none for the airdrop's records.                          *)
LEMMA IdleGood ==
  ASSUME AirdropInv, NEW a \in Airdrops, Kept,
         UNCHANGED <<pc, status, deaths>>, failures' \in Seq(Kinds),
         failures' = <<>> => failures = <<>>
  PROVE  Good(a)
<1>1. TypeInv /\ Local(a)
  BY DEF AirdropInv
<1>2. TypeInv'
  BY <1>1 DEF TypeInv, Kept
<1>3. Same(a)
  BY DEF Same, Kept
<1>4. Frame(a)
  BY DEF Frame, Same, Kept, Calm
<1>5. Local(a)'
  BY <1>1, <1>3, LocalSame DEF Kept
<1>6. Steady(a) => Steady(a)'
  BY <1>3, SteadySame DEF Kept
<1>7. Own(a)
  BY DEF Own, Entered, Kept
<1> QED
  BY <1>2, <1>4, <1>5, <1>6, <1>7 DEF Good

-----------------------------------------------------------------------------
(* The request.                                                            *)
LEMMA KitDropGood ==
  ASSUME AirdropInv, NEW a \in Airdrops, KitDrop(a) PROVE Good(a)
<1>1. Local(a) /\ status[a] = "none"
  BY DEF AirdropInv, Local, KitDrop, At, Early
<1>2. Kept /\ UNCHANGED <<failures, deaths, status>> /\ pc[a] = "none"
  BY DEF KitDrop, Kept, tokens, faults, At
<1>3. Went(a, "requested") \/ Went(a, "refused")
  BY DEF KitDrop, Goto, Went
<1>4. CASE Went(a, "requested")
  <2> DEFINE w == <<"none", "requested", "none">>
  <2>1. w \in Ways /\ Takes(a, w[1], w[2], w[3])
    BY <1>1, <1>2, <1>4 DEF Ways, Takes
  <2> QED
    BY <1>2, <2>1, TakesGood
<1>5. CASE Went(a, "refused")
  <2> DEFINE w == <<"none", "refused", "none">>
  <2>1. w \in Ways /\ Takes(a, w[1], w[2], w[3])
    BY <1>1, <1>2, <1>5 DEF Ways, Takes
  <2> QED
    BY <1>2, <2>1, TakesGood
<1> QED
  BY <1>3, <1>4, <1>5

LEMMA ValidateGood ==
  ASSUME AirdropInv, NEW a \in Airdrops, Validate(a) PROVE Good(a)
<1>1. pc[a] \in {"none", "requested"}
  BY DEF Validate, At
<1>2. status[a] = "none"
  BY <1>1 DEF AirdropInv, Local, Early
<1>3. Kept /\ UNCHANGED <<failures, deaths, status>>
  BY DEF Validate, Kept, tokens, faults
<1>4. Went(a, "valid") \/ Went(a, "refused")
  BY DEF Validate, Goto, Went
<1>5. PICK l \in {"valid", "refused"} : Went(a, l)
  BY <1>4
<1> DEFINE w == <<pc[a], l, "none">>
<1>6. w \in Ways /\ Takes(a, w[1], w[2], w[3])
  BY <1>1, <1>2, <1>3, <1>5 DEF Ways, Takes
<1> HIDE DEF w
<1>7. pc[a] # "queued"
  BY <1>1
<1> QED
  BY <1>3, <1>6, <1>7, TakesGood

LEMMA InsertDbGood ==
  ASSUME AirdropInv, NEW a \in Airdrops, InsertDb(a) PROVE Good(a)
<1>1. TypeInv /\ Local(a)
  BY DEF AirdropInv
<1>2. pc[a] = "valid" /\ status[a] = "none"
  BY <1>1 DEF InsertDb, At, Local, Early
<1>3. /\ status' = [status EXCEPT ![a] = "incomplete"]
      /\ overlapped' =
           overlapped \cup {{a, b} : b \in {c \in Airdrops : UnderWay(c)}}
      /\ UNCHANGED <<case, detail, granting, granted, budget, deaths>>
  BY DEF InsertDb, tokens
<1>4. \/ pc' = [pc EXCEPT ![a] = "queued"] /\ failures' = failures
      \/ pc' = [pc EXCEPT ![a] = "lost"] /\ MayFail("publish")
  BY DEF InsertDb, Goto
<1>5. failures' \in Seq(Kinds) /\ (failures' = <<>> => failures = <<>>)
  BY <1>1, <1>4, FailureIsOne DEF TypeInv
<1>6. /\ pc'[a] \in {"queued", "lost"} /\ status'[a] = "incomplete"
      /\ \A b \in Airdrops \ {a} : pc'[b] = pc[b] /\ status'[b] = status[b]
      /\ pc' \in [Airdrops -> Label]
  BY <1>1, <1>3, <1>4 DEF TypeInv, Label
<1>7. TypeInv'
  BY <1>1, <1>3, <1>5, <1>6 DEF TypeInv
<1>8. Frame(a)
  BY <1>3, <1>5, <1>6 DEF Frame, Same, Calm
<1>9. /\ Unmoved(a)' = Unmoved(a) /\ Entered(a)' = Entered(a)
      /\ Allotted(a)' = Allotted(a)
      /\ TotalTransferAmount(a)' = TotalTransferAmount(a)
      /\ budget'[a] = budget[a]
  BY <1>3 DEF Unmoved, Entered, Allotted, TotalTransferAmount, A
<1>10. Local(a)'
  BY <1>1, <1>2, <1>6, <1>9 DEF Local, Early, Before, After, Working
<1>11. ASSUME Steady(a) PROVE Steady(a)' /\ Own(a)
  <2>1. Steady(a)'
    BY <1>2, <1>3, <1>6, <1>9, <1>11 DEF Steady
  <2>2. Own(a)
    BY <1>2, <1>3, <1>9 DEF Own, Over
  <2> QED
    BY <2>1, <2>2
<1> QED
  BY <1>7, <1>8, <1>10, <1>11 DEF Good

-----------------------------------------------------------------------------
(* The distribution.                                                       *)
LEMMA StartGood ==
  ASSUME AirdropInv, NEW a \in Airdrops, Start(a) PROVE Good(a)
<1>1. TypeInv /\ Local(a) /\ pc[a] = "queued"
  BY DEF AirdropInv, Start, At
<1>2. Kept /\ UNCHANGED <<failures, deaths>>
  BY DEF Start, Kept, tokens, faults, rows
<1>3. CASE status[a] = "incomplete"
  <2> DEFINE w == <<"queued", "check", "processing">>
  <2>1. Went(a, "check") /\ status' = [status EXCEPT ![a] = "processing"]
    BY <1>3 DEF Start, Goto, Went
  <2>2. w \in Ways /\ Takes(a, w[1], w[2], w[3])
    BY <1>1, <1>2, <2>1 DEF Ways, Takes
  <2> QED
    BY <1>2, <1>3, <2>2, TakesGood
<1>4. CASE status[a] # "incomplete"
  <2>1. pc' = [pc EXCEPT ![a] = "end"] /\ status' = status
    BY <1>4 DEF Start, Goto, rows
  <2>2. /\ pc'[a] = "end" /\ pc' \in [Airdrops -> Label]
        /\ \A b \in Airdrops \ {a} : pc'[b] = pc[b]
    BY <1>1, <2>1 DEF TypeInv, Label
  <2>3. TypeInv' /\ Frame(a)
    BY <1>1, <1>2, <2>1, <2>2 DEF TypeInv, Kept, Frame, Same, Calm
  <2>4. Local(a)'
    BY <1>1, <1>2, <2>1, <2>2, <1>4
    DEF Local, Kept, Early, Before, After, Working, Unmoved, Entered,
        TotalTransferAmount, A
  <2> QED
    BY <1>1, <1>4, <2>3, <2>4 DEF Good, Steady
<1> QED
  BY <1>3, <1>4

LEMMA NoConfigGood ==
  ASSUME AirdropInv, NEW a \in Airdrops, NoConfig(a) PROVE Good(a)
<1>1. TypeInv /\ Local(a) /\ pc[a] = "queued"
  BY DEF AirdropInv, NoConfig, At
<1>2. /\ Kept /\ UNCHANGED <<status, deaths>> /\ MayFail("config")
      /\ pc' = [pc EXCEPT ![a] = "hung"]
  BY DEF NoConfig, Kept, tokens, rows, Goto
<1>3. /\ pc'[a] = "hung" /\ pc' \in [Airdrops -> Label]
      /\ \A b \in Airdrops \ {a} : pc'[b] = pc[b]
  BY <1>1, <1>2 DEF TypeInv, Label
<1>4. failures' \in Seq(Kinds) /\ ~Calm'
  BY <1>1, <1>2, FailureIsOne DEF Calm
<1>5. TypeInv' /\ Frame(a)
  BY <1>1, <1>2, <1>3, <1>4 DEF TypeInv, Kept, Frame, Same
<1>6. Local(a)'
  BY <1>1, <1>2, <1>3
  DEF Local, Kept, Early, Before, After, Working, Unmoved, Entered,
      TotalTransferAmount, A
<1> QED
  BY <1>4, <1>5, <1>6 DEF Good

LEMMA CallFailsFails ==
  ASSUME NEW a, CallFails(a), UNCHANGED deaths
  PROVE  Fails(a)
BY DEF CallFails, Failed, Goto, Fails, Went, Kinds

LEMMA ExceptionFails ==
  ASSUME NEW a, Exception(a), UNCHANGED deaths
  PROVE  Fails(a)
BY DEF Exception, Goto, Fails, Went, Kinds

LEMMA CallFailed ==
  ASSUME NEW a, MayFail("call"), Failed(a), UNCHANGED deaths
  PROVE  Fails(a)
BY DEF Failed, Goto, Fails, Went, Kinds

LEMMA ChecksReserveGood ==
  ASSUME AirdropInv, NEW a \in Airdrops, ChecksReserve(a) PROVE Good(a)
<1>1. Local(a) /\ pc[a] = "check" /\ status[a] = "processing"
  BY DEF AirdropInv, ChecksReserve, At, Local, Working, Before
<1>2. Kept /\ UNCHANGED deaths
  BY DEF ChecksReserve, Kept, tokens
<1>3. CASE Went(a, "details") /\ UNCHANGED <<status, failures>>
  <2> DEFINE w == <<"check", "details", "processing">>
  <2>1. w \in Ways /\ Takes(a, w[1], w[2], w[3])
    BY <1>1, <1>2, <1>3 DEF Ways, Takes
  <2> QED
    BY <1>1, <1>2, <2>1, TakesGood
<1>4. CASE Failed(a) /\ UNCHANGED failures
  <2> DEFINE w == <<"check", "end", "failed">>
  <2>1. w \in Ways /\ Takes(a, w[1], w[2], w[3])
    BY <1>1, <1>2, <1>4 DEF Ways, Takes, Failed, Goto, Went
  <2> QED
    BY <1>1, <1>2, <2>1, TakesGood
<1>5. CASE CallFails(a)
  BY <1>1, <1>2, <1>5, CallFailsFails, FailsGood DEF Before
<1> QED
  BY <1>3, <1>4, <1>5 DEF ChecksReserve, Goto, Went, rows

LEMMA StartsContractApproveGood ==
  ASSUME AirdropInv, NEW a \in Airdrops, StartsContractApprove(a)
  PROVE  Good(a)
<1>1. Local(a) /\ pc[a] = "approve" /\ status[a] = "processing"
  BY DEF AirdropInv, StartsContractApprove, At, Local, Working
<1>2. Kept /\ UNCHANGED deaths
  BY DEF StartsContractApprove, Kept, tokens
<1>3. CASE Went(a, "allocate") /\ UNCHANGED <<status, failures>>
  <2> DEFINE w == <<"approve", "allocate", "processing">>
  <2>1. w \in Ways /\ Takes(a, w[1], w[2], w[3])
    BY <1>1, <1>2, <1>3 DEF Ways, Takes
  <2> QED
    BY <1>1, <1>2, <2>1, TakesGood
<1>4. CASE (MayFail("call") /\ Failed(a)) \/ Exception(a)
  BY <1>1, <1>2, <1>4, CallFailed, ExceptionFails, FailsGood DEF After
<1> QED
  BY <1>3, <1>4 DEF StartsContractApprove, Goto, Went, rows

LEMMA MarksCompleteGood ==
  ASSUME AirdropInv, NEW a \in Airdrops, MarksComplete(a) PROVE Good(a)
<1>1. Local(a) /\ pc[a] = "complete"
  BY DEF AirdropInv, MarksComplete, At
<1>2. Kept /\ UNCHANGED deaths
  BY DEF MarksComplete, Kept, tokens
<1>3. CASE /\ Went(a, "processed") /\ UNCHANGED failures
           /\ status' = [status EXCEPT ![a] = "complete"]
  <2> DEFINE w == <<"complete", "processed", "complete">>
  <2>1. w \in Ways /\ Takes(a, w[1], w[2], w[3])
    BY <1>1, <1>2, <1>3 DEF Ways, Takes
  <2> QED
    BY <1>1, <1>2, <2>1, TakesGood
<1>4. CASE Exception(a)
  BY <1>1, <1>2, <1>4, ExceptionFails, FailsGood DEF After
<1> QED
  BY <1>3, <1>4 DEF MarksComplete, Goto, Went

LEMMA MarksProcessedGood ==
  ASSUME AirdropInv, NEW a \in Airdrops, MarksProcessed(a) PROVE Good(a)
<1>1. Local(a) /\ pc[a] = "processed" /\ status[a] = "complete"
  BY DEF AirdropInv, MarksProcessed, At, Local
<1>2. Kept /\ UNCHANGED deaths
  BY DEF MarksProcessed, Kept, tokens
<1>3. CASE Went(a, "reserve") /\ UNCHANGED <<status, failures>>
  <2> DEFINE w == <<"processed", "reserve", "complete">>
  <2>1. w \in Ways /\ Takes(a, w[1], w[2], w[3])
    BY <1>1, <1>2, <1>3 DEF Ways, Takes
  <2> QED
    BY <1>1, <1>2, <2>1, TakesGood
<1>4. CASE Exception(a)
  BY <1>1, <1>2, <1>4, ExceptionFails, FailsGood DEF After
<1> QED
  BY <1>3, <1>4 DEF MarksProcessed, Goto, Went

LEMMA ApprovesReserveGood ==
  ASSUME AirdropInv, NEW a \in Airdrops, ApprovesReserve(a) PROVE Good(a)
<1>1. Local(a) /\ pc[a] = "reserve" /\ status[a] = "complete"
  BY DEF AirdropInv, ApprovesReserve, At, Local
<1>2. Kept /\ UNCHANGED deaths
  BY DEF ApprovesReserve, Kept, tokens
<1>3. CASE Went(a, "end") /\ UNCHANGED <<status, failures>>
  <2> DEFINE w == <<"reserve", "end", "complete">>
  <2>1. w \in Ways /\ Takes(a, w[1], w[2], w[3])
    BY <1>1, <1>2, <1>3 DEF Ways, Takes
  <2> QED
    BY <1>1, <1>2, <2>1, TakesGood
<1>4. CASE MayFail("publish") /\ Went(a, "end") /\ UNCHANGED status
  <2>1. Fails(a)
    BY <1>2, <1>4 DEF Fails, Kinds
  <2> QED
    BY <1>1, <1>2, <2>1, FailsGood DEF After
<1>5. CASE Exception(a)
  BY <1>1, <1>2, <1>5, ExceptionFails, FailsGood DEF After
<1> QED
  BY <1>3, <1>4, <1>5 DEF ApprovesReserve, Goto, Went, rows

(* A step that moves an airdrop among those it works on.                   *)
LEMMA TurnsGo ==
  ASSUME TypeInv, NEW a \in Airdrops, NEW S, NEW next \in Label,
         Turns(a, S, next)
  PROVE  /\ pc' \in [Airdrops -> Label] /\ pc'[a] \in {pc[a], next}
         /\ Cardinality(S) < case.page => pc'[a] = next
         /\ \A b \in Airdrops \ {a} : pc'[b] = pc[b]
BY DEF Turns, Goto, TypeInv

LEMMA CreatesDetailsGood ==
  ASSUME AirdropInv, NEW a \in Airdrops, CreatesDetails(a) PROVE Good(a)
<1>1. TypeInv /\ Local(a) /\ pc[a] = "details" /\ status[a] = "processing"
  BY DEF AirdropInv, CreatesDetails, At, Local, Working, Before
<1>2. UNCHANGED <<case, granting, granted, budget, overlapped, deaths>>
  BY DEF CreatesDetails, tokens
<1> DEFINE page == Page(Filtered(a), offset[a], case.page)
<1>3. CASE CallFails(a) /\ UNCHANGED detail
  BY <1>1, <1>2, <1>3, CallFailsFails, FailsGood DEF Before, Kept
<1>4. CASE /\ detail' = [detail EXCEPT ![a] = [u \in case.users |->
                           IF u \in page THEN "incomplete" ELSE @[u]]]
           /\ Turns(a, page, "transfer")
           /\ UNCHANGED <<status, failures>>
  <2>1. /\ pc' \in [Airdrops -> Label] /\ pc'[a] \in {"details", "transfer"}
        /\ \A b \in Airdrops \ {a} : pc'[b] = pc[b]
    BY <1>1, <1>4, TurnsGo DEF Label, Before
  <2>2. page \subseteq Filtered(a)
    BY PageWithin
  <2> HIDE DEF page
  <2>3. /\ \A u \in case.users : detail'[a][u] =
             IF u \in page THEN "incomplete" ELSE detail[a][u]
        /\ \A b \in Airdrops \ {a} : detail'[b] = detail[b]
    BY <1>1, <1>4 DEF TypeInv
  <2>4. TypeInv'
    BY <1>1, <1>2, <1>4, <2>1 DEF TypeInv
  <2>5. Frame(a)
    BY <1>2, <1>4, <2>1, <2>3 DEF Frame, Same, Calm
  <2>6. Unmoved(a)'
    BY <1>1, <1>2, <2>3 DEF Local, Before, Unmoved
  <2>7. Local(a)'
    BY <1>1, <1>4, <2>1, <2>6 DEF Local, Early, Before, After, Working
  <2>8. ASSUME Steady(a) PROVE Steady(a)' /\ Own(a)
    <3>1. Steady(a)'
      BY <1>1, <1>2, <2>1, <2>6, <2>8 DEF Steady, Allotted, Unmoved
    <3>2. Entered(a)' \ Entered(a) \subseteq Filtered(a)
      BY <1>2, <2>2, <2>3 DEF Entered
    <3>3. Own(a)
      BY <1>1, <3>2 DEF Own, Over, UnderWay, Filtered
    <3> QED
      BY <3>1, <3>3
  <2> QED
    BY <2>4, <2>5, <2>7, <2>8 DEF Good
<1> QED
  BY <1>3, <1>4 DEF CreatesDetails, rows

LEMMA StartsTokenTransferGood ==
  ASSUME AirdropInv, NEW a \in Airdrops, StartsTokenTransfer(a) PROVE Good(a)
<1>1. TypeInv /\ Local(a) /\ pc[a] = "transfer" /\ status[a] = "processing"
  BY DEF AirdropInv, StartsTokenTransfer, At, Local, Working, Before
<1>2. UNCHANGED <<case, detail, granting, granted, overlapped, deaths>>
  BY DEF StartsTokenTransfer
<1>3. CASE /\ budget' = [budget EXCEPT ![a] = TotalTransferAmount(a)]
           /\ pc' = [pc EXCEPT ![a] = "approve"]
           /\ UNCHANGED <<status, failures>>
  <2>1. /\ pc' \in [Airdrops -> Label] /\ pc'[a] = "approve"
        /\ \A b \in Airdrops \ {a} : pc'[b] = pc[b] /\ budget'[b] = budget[b]
        /\ budget'[a] = TotalTransferAmount(a) /\ DOMAIN budget' = Airdrops
    BY <1>1, <1>3 DEF TypeInv, Label, After
  <2>2. TypeInv'
    BY <1>1, <1>2, <1>3, <2>1 DEF TypeInv
  <2>3. Frame(a)
    BY <1>2, <1>3, <2>1 DEF Frame, Same, Calm
  <2>4. /\ TotalTransferAmount(a)' = TotalTransferAmount(a)
        /\ Allotted(a)' = Allotted(a) /\ Entered(a)' = Entered(a)
    BY <1>2 DEF TotalTransferAmount, Entered, Allotted, A
  <2>5. Local(a)'
    BY <1>1, <1>3, <2>1, <2>4 DEF Local, Early, Before, After, Working
  <2>6. Steady(a) => Steady(a)'
    BY <1>1, <1>2, <2>1, <2>4 DEF Steady
  <2>7. Own(a)
    BY <1>1, <1>2, <1>3, <2>4 DEF Own, Over, UnderWay
  <2> QED
    BY <2>2, <2>3, <2>5, <2>6, <2>7 DEF Good
<1>4. CASE Failed(a) /\ UNCHANGED <<budget, failures>>
  <2> DEFINE w == <<"transfer", "end", "failed">>
  <2>1. w \in Ways /\ Takes(a, w[1], w[2], w[3])
    BY <1>1, <1>2, <1>4 DEF Ways, Takes, Failed, Goto, Went
  <2> QED
    BY <1>1, <1>2, <1>4, <2>1, TakesGood DEF Kept
<1>5. CASE /\ (MayFail("call") /\ Failed(a)) \/ Exception(a)
           /\ UNCHANGED budget
  BY <1>1, <1>2, <1>5, CallFailed, ExceptionFails, FailsGood DEF Before, Kept
<1> QED
  BY <1>3, <1>4, <1>5 DEF StartsTokenTransfer, Goto, rows, tokens

LEMMA AllocatesGood ==
  ASSUME AirdropInv, NEW a \in Airdrops, Allocates(a) PROVE Good(a)
<1>1. TypeInv /\ Local(a) /\ pc[a] = "allocate" /\ status[a] = "processing"
  BY DEF AirdropInv, Allocates, At, Local, Working
<1>2. UNCHANGED <<case, budget, overlapped, deaths>>
  BY DEF Allocates, tokens
<1> DEFINE page == Page(Pending(a), offset[a], case.page)
           unset == granting[a] \cup (page \ granted)
           last == Cardinality(page) < case.page
<1>3. page \subseteq Pending(a)
  BY PageWithin
<1>4. Pending(a) \subseteq case.users
  BY DEF Pending
<1>5. CASE (MayFail("cache") \/ MayFail("exception")) /\ Failed(a)
           /\ UNCHANGED <<detail, granting, granted>>
  BY <1>1, <1>2, <1>5, CallFailsFails, FailsGood DEF CallFails, After, Kept
<1>6. ASSUME NEW st \in {"complete", "failed"},
             detail' = [detail EXCEPT ![a] = [u \in case.users |->
                          IF u \in page THEN st ELSE @[u]]]
      PROVE  /\ \A u \in case.users :
                  detail'[a][u] = IF u \in page THEN st ELSE detail[a][u]
             /\ \A b \in Airdrops \ {a} : detail'[b] = detail[b]
             /\ detail' \in [Airdrops ->
                  [case.users -> {"none", "incomplete", "complete", "failed"}]]
             /\ Entered(a)' = Entered(a)
             /\ TotalTransferAmount(a)' = TotalTransferAmount(a)
  <2> HIDE DEF page
  <2>1. /\ \A u \in case.users :
             detail'[a][u] = IF u \in page THEN st ELSE detail[a][u]
        /\ \A b \in Airdrops \ {a} : detail'[b] = detail[b]
        /\ detail' \in [Airdrops ->
             [case.users -> {"none", "incomplete", "complete", "failed"}]]
    BY <1>1, <1>6 DEF TypeInv
  <2>2. Entered(a)' = Entered(a)
    BY <1>2, <1>3, <2>1 DEF Entered, Pending
  <2> QED
    BY <1>2, <2>1, <2>2 DEF TotalTransferAmount, A
<1>7. CASE /\ MayFail("call") /\ Failed(a)
           /\ detail' = [detail EXCEPT ![a] = [u \in case.users |->
                           IF u \in page THEN "failed" ELSE @[u]]]
           /\ UNCHANGED <<granting, granted>>
  <2>1. Fails(a)
    BY <1>2, <1>7, CallFailed
  <2>2. TypeInv' /\ ~Calm'
    BY <1>1, <1>2, <1>6, <1>7, <2>1, FailsTypes DEF TypeInv
  <2>3. Frame(a)
    BY <1>1, <1>2, <1>6, <1>7, <2>1, <2>2, FailsTypes DEF Frame, Same
  <2>4. pc'[a] = "end" /\ status'[a] \in {"processing", "failed"}
    BY <1>1, <2>1, FailsTypes
  <2>5. budget'[a] = TotalTransferAmount(a)'
    BY <1>1, <1>2, <1>6, <1>7 DEF Local, After
  <2>6. Local(a)'
    BY <2>4, <2>5 DEF Local, Early, Before, After, Working
  <2> QED
    BY <2>2, <2>3, <2>6 DEF Good
<1>8. CASE /\ detail' = [detail EXCEPT ![a] = [u \in case.users |->
                           IF u \in page THEN "complete" ELSE @[u]]]
           /\ Turns(a, page, "complete")
           /\ IF last \/ Cardinality(unset) >= case.flush
                THEN /\ granted' = granted \cup unset
                     /\ granting' = [granting EXCEPT ![a] = {}]
                ELSE /\ granting' = [granting EXCEPT ![a] = unset]
                     /\ UNCHANGED granted
           /\ UNCHANGED <<status, failures>>
  <2>1. /\ pc' \in [Airdrops -> Label] /\ pc'[a] \in {"allocate", "complete"}
        /\ last => pc'[a] = "complete"
        /\ \A b \in Airdrops \ {a} : pc'[b] = pc[b]
    BY <1>1, <1>8, TurnsGo DEF Label, After
  <2>2. unset \subseteq case.users
    BY <1>1, <1>3, <1>4 DEF TypeInv
  <2>3. /\ granting' \in [Airdrops -> SUBSET case.users]
        /\ \A b \in Airdrops \ {a} : granting'[b] = granting[b]
        /\ granted \subseteq granted'
        /\ granted \cup unset \subseteq granted' \cup granting'[a]
        /\ last => granting'[a] = {}
    <3> HIDE DEF unset, last
    <3> QED
      BY <1>1, <1>8, <2>2 DEF TypeInv
  <2>4. pc'[a] = "complete" => last
    BY <1>1, <1>8 DEF Turns
  <2>5. TypeInv'
    BY <1>1, <1>2, <1>6, <1>8, <2>1, <2>3 DEF TypeInv
  <2>6. Frame(a)
    BY <1>2, <1>6, <1>8, <2>1, <2>3 DEF Frame, Same, Calm
  <2>7. budget'[a] = TotalTransferAmount(a)'
    BY <1>1, <1>2, <1>6, <1>8 DEF Local, After
  <2>8. Local(a)'
    BY <1>1, <1>8, <2>1, <2>7 DEF Local, Early, Before, After, Working
  <2>9. ASSUME Steady(a) PROVE Steady(a)' /\ Own(a)
    <3>1. Allotted(a)' \subseteq Allotted(a) \cup page
      BY <1>2, <1>6, <1>8 DEF Allotted
    <3>2. Allotted(a)' \subseteq granted' \cup granting'[a]
      BY <2>3, <2>9, <3>1 DEF Steady
    <3>3. Steady(a)'
      BY <2>1, <2>3, <2>4, <3>2 DEF Steady
    <3>4. Own(a)
      BY <1>1, <1>6, <1>8 DEF Own, Over, UnderWay
    <3> QED
      BY <3>3, <3>4
  <2> QED
    BY <2>5, <2>6, <2>8, <2>9 DEF Good
<1> QED
  BY <1>5, <1>7, <1>8 DEF Allocates, rows

LEMMA DiesGood ==
  ASSUME AirdropInv, NEW a \in Airdrops, Dies(a) PROVE Good(a)
<1>1. TypeInv /\ Local(a) /\ pc[a] \in Running
  BY DEF AirdropInv, Dies
<1>2. /\ UNCHANGED <<case, status, detail, budget, granted, overlapped, failures>>
      /\ pc' = [pc EXCEPT ![a] = "queued"] /\ deaths' = deaths + 1
      /\ granting' = [granting EXCEPT ![a] = {}]
  BY DEF Dies, rows, tokens, Goto
<1>3. /\ pc'[a] = "queued" /\ pc' \in [Airdrops -> Label]
      /\ \A b \in Airdrops \ {a} :
           pc'[b] = pc[b] /\ granting'[b] = granting[b]
      /\ granting' \in [Airdrops -> SUBSET case.users]
      /\ deaths' \in Nat /\ deaths' # 0
  BY <1>1, <1>2 DEF TypeInv, Label
<1>4. TypeInv' /\ Frame(a) /\ ~Calm'
  BY <1>1, <1>2, <1>3 DEF TypeInv, Frame, Same, Calm
<1>5. Local(a)'
  BY <1>1, <1>2, <1>3
  DEF Local, Running, Early, Before, After, Working, Unmoved, Entered,
      TotalTransferAmount, A
<1> QED
  BY <1>4, <1>5 DEF Good

(* The users' approvals.                                                   *)
LEMMA ApprovalGood ==
  ASSUME AirdropInv, NEW a \in Airdrops, Approval(a) PROVE Good(a)
<1>1. TypeInv
  BY DEF AirdropInv
<1>2. Kept /\ UNCHANGED <<pc, status, deaths>>
  BY DEF Approval, ReadsRecords, ApprovesUsers, Kept, rows, tokens
<1>3. failures' = failures \/ \E k \in Kinds : MayFail(k)
  BY DEF Approval, ReadsRecords, ApprovesUsers, Kinds
<1>4. failures' \in Seq(Kinds) /\ (failures' = <<>> => failures = <<>>)
  BY <1>1, <1>3, FailureIsOne DEF TypeInv
<1> QED
  BY <1>2, <1>4, IdleGood

-----------------------------------------------------------------------------
LEMMA AirdropStep == AirdropInv /\ [Next]_vars => AirdropInv'
<1> SUFFICES ASSUME AirdropInv, [Next]_vars PROVE AirdropInv'
  OBVIOUS
<1>1. CASE UNCHANGED vars
  <2>1. /\ UNCHANGED <<case, pc, status, detail, granting, granted, budget>>
        /\ UNCHANGED <<overlapped, failures, deaths>>
    BY <1>1 DEF vars, rows, tokens, faults
  <2>2. TypeInv'
    BY <2>1 DEF AirdropInv, TypeInv
  <2>3. ASSUME NEW a \in Airdrops
        PROVE  Local(a)' /\ (Calm => Steady(a)')
    BY <2>1, LocalSame, SteadySame DEF AirdropInv, Same
  <2>4. ASSUME NEW a \in Airdrops, NEW b \in Airdrops, Apart(a, b)
        PROVE  Apart(a, b)'
    BY <2>1, <2>4 DEF Apart, First, UnderWay, Allotted, Entered, A
  <2>5. Calm' = Calm
    BY <2>1 DEF Calm
  <2> QED
    BY <2>2, <2>3, <2>4, <2>5 DEF AirdropInv
<1>2. ASSUME NEW a \in Airdrops,
             \/ KitDrop(a) \/ Validate(a) \/ InsertDb(a) \/ Distributes(a)
             \/ NoConfig(a) \/ Dies(a) \/ Approval(a)
      PROVE  Good(a)
  BY <1>2, KitDropGood, ValidateGood, InsertDbGood, StartGood, NoConfigGood,
     ChecksReserveGood, CreatesDetailsGood, StartsTokenTransferGood,
     StartsContractApproveGood, AllocatesGood, MarksCompleteGood,
     MarksProcessedGood, ApprovesReserveGood, DiesGood, ApprovalGood
  DEF Distributes
<1> QED
  BY <1>1, <1>2, GoodKeeps DEF Next

LEMMA AirdropInvariant == Spec => []AirdropInv
BY AirdropInit, AirdropStep, PTL DEF Spec

-----------------------------------------------------------------------------
LEMMA TimesKeepsOrder ==
  ASSUME NEW n \in Nat, NEW x \in Nat, NEW y \in Nat, x <= y
  PROVE  n * x <= n * y
<1>1. PICK d \in Nat : y = x + d
  <2>1. y - x \in Nat /\ y = x + (y - x)
    OBVIOUS
  <2> QED
    BY <2>1
<1>2. n * y = n * x + n * d
  BY <1>1
<1>3. n * d \in Nat /\ n * x \in Nat
  OBVIOUS
<1> QED
  BY <1>2, <1>3

(* What is allotted to users is covered by the tokens moved for this very  *)
(* airdrop, and these are moved once (AllotmentsBacked): for any number of *)
(* airdrops, failures of any kind, and deaths of consumers.                *)
THEOREM AllotmentsAreBacked == Spec => []AllotmentsBacked
<1>1. ASSUME AirdropInv, NEW a \in Airdrops
      PROVE  /\ A(a).amount * Cardinality(Allotted(a)) <= budget[a]
             /\ budget[a] \in {0, TotalTransferAmount(a)}
  <2>1. TypeInv /\ Local(a)
    BY <1>1 DEF AirdropInv
  <2>2. A(a).amount \in Nat
    BY <2>1, CasesAssumption DEF TypeInv, A
  <2>3. CASE Unmoved(a)
    <3>1. Allotted(a) = {}
      BY <2>3 DEF Unmoved, Allotted
    <3> QED
      BY <2>2, <2>3, <3>1, FS_EmptySet DEF Unmoved
  <2>4. CASE budget[a] = TotalTransferAmount(a)
    <3>1. IsFiniteSet(Entered(a)) /\ Allotted(a) \subseteq Entered(a)
      BY <2>1, UsersFinite, FS_Subset DEF Entered, Allotted
    <3>2. /\ Cardinality(Allotted(a)) <= Cardinality(Entered(a))
          /\ Cardinality(Allotted(a)) \in Nat /\ Cardinality(Entered(a)) \in Nat
      BY <3>1, FS_Subset, FS_CardinalityType
    <3> QED
      BY <2>2, <2>4, <3>2, TimesKeepsOrder DEF TotalTransferAmount
  <2> QED
    BY <2>1, <2>3, <2>4 DEF Local
<1>2. AirdropInv => AllotmentsBacked
  BY <1>1 DEF AllotmentsBacked
<1> QED
  BY <1>2, AirdropInvariant, PTL

(* A user is allotted by two airdrops for those never airdropped only if   *)
(* these were under way together, or something failed or died              *)
(* (NeverMeansOnce): for any number of airdrops and any sizes of pages and *)
(* batches.                                                                *)
THEOREM NeverAirdroppedOnce == Spec => []NeverMeansOnce
<1>1. ASSUME AirdropInv, NEW a \in Airdrops, NEW b \in Airdrops, a # b,
             A(a).list = "never", A(b).list = "never",
             Allotted(a) \cap Allotted(b) # {}
      PROVE  {a, b} \in overlapped \/ failures # <<>> \/ deaths > 0
  <2>1. SUFFICES ASSUME Calm, {a, b} \notin overlapped PROVE FALSE
    BY <1>1 DEF Calm, AirdropInv, TypeInv
  <2>2. Allotted(a) \subseteq Entered(a) /\ Allotted(b) \subseteq Entered(b)
    BY DEF Allotted, Entered
  <2>3. status[a] # "none" /\ status[b] # "none"
    BY <1>1, <2>2 DEF AirdropInv, Local
  <2> QED
    BY <1>1, <2>1, <2>2, <2>3 DEF AirdropInv, Apart, First
<1>2. AirdropInv => NeverMeansOnce
  BY <1>1 DEF NeverMeansOnce
<1> QED
  BY <1>2, AirdropInvariant, PTL
=============================================================================
