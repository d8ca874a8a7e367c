------------------------ MODULE BlockScanner_proofs ------------------------
(* Theorems about BlockScanner, for any chain, workers and failures: no    *)
(* payment is settled twice, no block skipped, no transfer misunderstood,  *)
(* and balances are what was delivered.                                    *)
EXTENDS BlockScanner, FiniteSetTheorems, FunctionTheorems, SequenceTheorems,
        WellFoundedInduction, TLAPS

Fields == {"pc", "msg", "lock", "known", "unknown", "clients"}

TypeInv ==
  /\ DOMAIN job = Procs
  /\ \A p \in Procs : DOMAIN job[p] = Fields
  /\ \A p \in Procs : job[p].known \subseteq Own
  /\ DOMAIN meta = Own
  /\ \A t \in Own : DOMAIN meta[t] = {"status", "lock"}
  /\ prefix \in [Procs -> Nat]
  /\ paid \in [Own -> Nat]
  /\ deaths \in Nat

(* The lock of a job is an id its process alone gives out.                 *)
JobLocks ==
  \A p \in Procs :
    IF job[p].pc = "idle" THEN job[p].lock = NoLock
    ELSE \E k \in Nat : job[p].lock = <<k, DropZeros[p]>>

(* A row that is not mined has neither been locked nor paid for; a lock is *)
(* one that some process has given out.                                    *)
RowLocks ==
  \A t \in Own :
    /\ meta[t].status # "mined" => paid[t] = 0 /\ meta[t].lock = NoLock
    /\ meta[t].lock # NoLock =>
         \E p \in Procs, k \in Nat :
           k < prefix[p] /\ meta[t].lock = <<k, DropZeros[p]>>

(* Until a job settles its payments nobody has settled them.               *)
NotYetPaid ==
  \A p \in Procs :
    /\ job[p].pc \in {"locked", "decoded"} =>
         \A t \in LockedBy(job[p].lock) : paid[t] = 0
    /\ job[p].pc = "decoded" => job[p].known = LockedBy(job[p].lock)

PayInv ==
  /\ TypeInv
  /\ deaths = 0 /\ ~SharedLockIds =>
       JobLocks /\ RowLocks /\ NotYetPaid /\ \A t \in Own : paid[t] <= 1

-----------------------------------------------------------------------------
LEMMA PayInvSafe == PayInv => PaidTwiceNeedsDeath
BY DEF PayInv, TypeInv, PaidTwiceNeedsDeath

LEMMA NoLockIsNone == \A k, d : NoLock # <<k, d>>
BY DEF NoLock

LEMMA PayInvInit == Init => PayInv
<1> SUFFICES ASSUME Init PROVE PayInv
  OBVIOUS
<1>1. TypeInv
  BY DEF Init, TypeInv, Idle, Fields
<1>2. JobLocks
  BY DEF Init, JobLocks, Idle
<1>3. RowLocks
  BY DEF Init, RowLocks
<1>4. NotYetPaid
  BY DEF Init, NotYetPaid, Idle
<1>5. \A t \in Own : paid[t] <= 1
  BY DEF Init
<1>. QED BY <1>1, <1>2, <1>3, <1>4, <1>5 DEF PayInv

LEMMA CaseSame ==
  ASSUME UNCHANGED case
  PROVE  Own' = Own /\ Procs' = Procs /\ SharedLockIds' = SharedLockIds
BY DEF Own, Txs, Procs, SharedLockIds

(* What the delegator does, and a row that is written late.                *)
LEMMA AsidePays ==
  ASSUME PayInv, UNCHANGED <<case, job, meta, paid, prefix, deaths>>
  PROVE  PayInv'
<1>1. Own' = Own /\ Procs' = Procs /\ SharedLockIds' = SharedLockIds
  BY CaseSame
<1>2. TypeInv'
  BY <1>1 DEF PayInv, TypeInv
<1>3. JobLocks => JobLocks'
  BY <1>1 DEF JobLocks
<1>4. RowLocks => RowLocks'
  BY <1>1 DEF RowLocks
<1>5. NotYetPaid => NotYetPaid'
  BY <1>1 DEF NotYetPaid, LockedBy
<1>. QED BY <1>1, <1>2, <1>3, <1>4, <1>5 DEF PayInv

LEMMA RowSubmittedPays ==
  ASSUME PayInv, NEW t \in Own, RowSubmitted(t) PROVE PayInv'
<1>1. /\ UNCHANGED <<case, job, paid, prefix, deaths>>
      /\ meta' = [meta EXCEPT ![t].status = "submitted"]
      /\ meta[t].status = "processing"
  BY DEF RowSubmitted, wvars
<1>2. Own' = Own /\ Procs' = Procs /\ SharedLockIds' = SharedLockIds
  BY <1>1, CaseSame
<1>3. /\ DOMAIN meta' = Own
      /\ \A u \in Own : DOMAIN meta'[u] = {"status", "lock"}
      /\ \A u \in Own : meta'[u].lock = meta[u].lock
      /\ \A u \in Own : meta'[u].status # "mined" <=> meta[u].status # "mined"
  BY <1>1 DEF PayInv, TypeInv
<1>4. TypeInv'
  BY <1>1, <1>2, <1>3 DEF PayInv, TypeInv
<1>5. ASSUME deaths = 0, ~SharedLockIds
      PROVE  (JobLocks /\ RowLocks /\ NotYetPaid
               /\ \A u \in Own : paid[u] <= 1)'
  BY <1>1, <1>2, <1>3, <1>5 DEF PayInv, JobLocks, RowLocks, NotYetPaid,
     LockedBy
<1>. QED BY <1>1, <1>2, <1>4, <1>5 DEF PayInv

-----------------------------------------------------------------------------
(* Two jobs have two locks, if no two processes give out the same ids.     *)
LEMMA TwoLocks ==
  ASSUME JobLocks, ~SharedLockIds, NEW p \in Procs, NEW q \in Procs, p # q,
         job[q].pc # "idle", job[q].lock = job[p].lock
  PROVE  FALSE
<1>1. PICK k \in Nat : job[q].lock = <<k, DropZeros[q]>>
  BY DEF JobLocks
<1>2. job[p].pc # "idle"
  BY <1>1, NoLockIsNone DEF JobLocks
<1>3. PICK n \in Nat : job[p].lock = <<n, DropZeros[p]>>
  BY <1>2 DEF JobLocks
<1>4. <<k, DropZeros[q]>>[2] = <<n, DropZeros[p]>>[2]
  BY <1>1, <1>3
<1>. QED BY <1>4 DEF SharedLockIds

(* A step of the job of p.                                                 *)
LEMMA JobStep ==
  ASSUME PayInv, UNCHANGED case, NEW p \in Procs,
         DOMAIN job' = Procs, DOMAIN job'[p] = Fields,
         \A q \in Procs \ {p} : job'[q] = job[q],
         job'[p].known \subseteq Own,
         DOMAIN meta' = Own,
         \A t \in Own : DOMAIN meta'[t] = {"status", "lock"},
         prefix' \in [Procs -> Nat], paid' \in [Own -> Nat], deaths' \in Nat
  PROVE  TypeInv'
BY CaseSame DEF PayInv, TypeInv

(* No row has the lock a process gives out next.                           *)
LEMMA FreshLock ==
  ASSUME PayInv, deaths = 0, ~SharedLockIds, NEW p \in Procs, NEW t \in Own
  PROVE  meta[t].lock # <<prefix[p], DropZeros[p]>>
<1> SUFFICES ASSUME meta[t].lock = <<prefix[p], DropZeros[p]>> PROVE FALSE
  OBVIOUS
<1>1. meta[t].lock # NoLock
  BY NoLockIsNone
<1>2. PICK q \in Procs, k \in Nat :
        k < prefix[q] /\ meta[t].lock = <<k, DropZeros[q]>>
  BY <1>1 DEF PayInv, RowLocks
<1>3. <<k, DropZeros[q]>> = <<prefix[p], DropZeros[p]>>
  BY <1>2
<1>4. k = prefix[p] /\ DropZeros[q] = DropZeros[p]
  BY <1>3
<1>5. q = p
  BY <1>4 DEF SharedLockIds
<1>6. prefix[p] \in Nat
  BY DEF PayInv, TypeInv
<1>. QED BY <1>2, <1>4, <1>5, <1>6

(* What a delivery does to the rows: those it acquires, if any, are locked.*)
LEMMA RowsOfDelivery ==
  ASSUME PayInv, NEW p \in Procs, NEW msg,
         LocksRows(p, msg) \/ UNCHANGED meta
  PROVE  \E A \in {Acquired(p, msg), {}} :
           /\ LocksRows(p, msg) => A = Acquired(p, msg)
           /\ DOMAIN meta' = Own
           /\ \A t \in Own : meta'[t] = IF t \in A
                THEN [status |-> "mined", lock |-> LockId(p)] ELSE meta[t]
BY DEF LocksRows, PayInv, TypeInv

(* A delivery whose job begins, or does not because the lock failed.       *)
LEMMA DeliveredPays ==
  ASSUME PayInv, NEW p \in Procs, NEW msg, Delivered(p, msg),
         LocksRows(p, msg) \/ UNCHANGED meta,
         DOMAIN job' = Procs, DOMAIN job'[p] = Fields,
         \A q \in Procs \ {p} : job'[q] = job[q],
         job'[p].known \subseteq Own,
         \/ UNCHANGED job
         \/ /\ LocksRows(p, msg)
            /\ job'[p].pc = "locked" /\ job'[p].lock = LockId(p)
  PROVE  PayInv'
<1> DEFINE l == <<prefix[p], DropZeros[p]>>
<1>1. /\ UNCHANGED <<case, paid, deaths>> /\ job[p].pc = "idle"
      /\ prefix' = [prefix EXCEPT ![p] = @ + 1]
      /\ LockId(p) = l
  BY DEF Delivered, LockId, scanned
<1>2. Own' = Own /\ Procs' = Procs /\ SharedLockIds' = SharedLockIds
  BY <1>1, CaseSame
<1>3. PICK A \in {Acquired(p, msg), {}} :
        /\ DOMAIN meta' = Own
        /\ \A t \in Own : meta'[t] = IF t \in A
             THEN [status |-> "mined", lock |-> l] ELSE meta[t]
  BY <1>1, RowsOfDelivery
<1>4. prefix[p] \in Nat /\ prefix' \in [Procs -> Nat]
      /\ \A q \in Procs : prefix'[q] >= prefix[q]
      /\ prefix'[p] = prefix[p] + 1
  BY <1>1 DEF PayInv, TypeInv
<1>5. TypeInv'
  <2>1. /\ DOMAIN meta' = Own
        /\ \A t \in Own : DOMAIN meta'[t] = {"status", "lock"}
    BY <1>3 DEF PayInv, TypeInv
  <2>. QED BY <1>1, <1>4, <2>1, JobStep DEF PayInv, TypeInv
<1>6. ASSUME deaths = 0, ~SharedLockIds
      PROVE  (JobLocks /\ RowLocks /\ NotYetPaid
               /\ \A t \in Own : paid[t] <= 1)'
  <2>1. JobLocks /\ RowLocks /\ NotYetPaid /\ \A t \in Own : paid[t] <= 1
    BY <1>6 DEF PayInv
  <2>2. job'[p] = job[p] \/ (job'[p].pc = "locked" /\ job'[p].lock = l)
    BY <1>1
  <2>3. JobLocks'
    BY <1>2, <1>4, <2>1, <2>2 DEF JobLocks
  <2>4. ASSUME NEW q \in Procs, job[q].pc # "idle" PROVE job[q].lock # l
    <3>1. PICK k \in Nat : job[q].lock = <<k, DropZeros[q]>>
      BY <2>1, <2>4 DEF JobLocks
    <3>2. p # q
      BY <1>1, <2>4
    <3>. QED BY <1>6, <3>1, <3>2 DEF SharedLockIds
  <2>5. ASSUME NEW t \in Own PROVE meta[t].lock # l
    BY <1>6, FreshLock
  <2>6. ASSUME NEW t \in Own
        PROVE  IF t \in A
                 THEN /\ meta'[t].status = "mined" /\ meta'[t].lock = l
                      /\ paid[t] = 0 /\ meta[t].lock = NoLock
                 ELSE meta'[t] = meta[t]
    <3>. HIDE DEF l
    <3>1. t \in Acquired(p, msg) => meta[t].status = "submitted"
                                     /\ meta[t].lock = NoLock
      BY DEF Acquired
    <3>2. meta[t].status = "submitted" => paid[t] = 0
      BY <2>1 DEF RowLocks
    <3>3. t \in A => t \in Acquired(p, msg)
      OBVIOUS
    <3>. QED BY <1>3, <3>1, <3>2, <3>3
  <2>7. RowLocks'
    <3>1. ASSUME NEW t \in Own, meta'[t].lock # NoLock
          PROVE  \E q \in Procs, k \in Nat :
                   k < prefix'[q] /\ meta'[t].lock = <<k, DropZeros[q]>>
      <4>1. CASE t \in A
        <5>1. prefix[p] < prefix'[p] /\ meta'[t].lock = <<prefix[p], DropZeros[p]>>
          BY <1>4, <2>6, <4>1
        <5>. QED BY <1>4, <5>1
      <4>2. CASE t \notin A
        <5>1. PICK q \in Procs, k \in Nat :
                k < prefix[q] /\ meta[t].lock = <<k, DropZeros[q]>>
          BY <2>1, <2>6, <3>1, <4>2 DEF RowLocks
        <5>2. k < prefix'[q]
          BY <1>4, <5>1 DEF PayInv, TypeInv
        <5>. QED BY <2>6, <4>2, <5>1, <5>2
      <4>. QED BY <4>1, <4>2
    <3>2. ASSUME NEW t \in Own, meta'[t].status # "mined"
          PROVE  paid'[t] = 0 /\ meta'[t].lock = NoLock
      BY <1>1, <2>1, <2>6, <3>2 DEF RowLocks
    <3>. QED BY <1>2, <3>1, <3>2 DEF RowLocks
  <2>. HIDE DEF l
  <2>8. NotYetPaid'
    <3>1. ASSUME NEW q \in Procs, job'[q].pc \in {"locked", "decoded"},
                 NEW t \in Own, meta'[t].lock = job'[q].lock
          PROVE  paid'[t] = 0
      <4>1. CASE q = p
        BY <1>1, <2>2, <2>5, <2>6, <3>1, <4>1
      <4>2. CASE q # p
        BY <1>1, <2>1, <2>4, <2>6, <3>1, <4>2 DEF NotYetPaid, LockedBy
      <4>. QED BY <4>1, <4>2
    <3>2. ASSUME NEW q \in Procs, job'[q].pc = "decoded"
          PROVE  job'[q].known = {t \in Own : meta'[t].lock = job'[q].lock}
      <4>1. q # p /\ job'[q] = job[q]
        BY <1>1, <2>2, <3>2
      <4>2. job[q].known = {t \in Own : meta[t].lock = job[q].lock}
        BY <2>1, <3>2, <4>1 DEF NotYetPaid, LockedBy
      <4>3. job[q].lock # l /\ job[q].lock # NoLock
        <5>1. job[q].pc # "idle"
          BY <3>2, <4>1
        <5>2. PICK k \in Nat : job[q].lock = <<k, DropZeros[q]>>
          BY <2>1, <5>1 DEF JobLocks
        <5>. QED BY <2>4, <5>1, <5>2, NoLockIsNone
      <4>4. \A t \in Own : meta'[t].lock = job[q].lock
                             <=> meta[t].lock = job[q].lock
        BY <2>5, <2>6, <4>3
      <4>. QED BY <4>1, <4>2, <4>4
    <3>. QED BY <1>2, <3>1, <3>2 DEF NotYetPaid, LockedBy
  <2>. QED BY <1>1, <1>2, <2>1, <2>3, <2>7, <2>8
<1>. QED BY <1>1, <1>2, <1>5, <1>6 DEF PayInv

LEMMA AcquiresLockPays ==
  ASSUME PayInv, NEW p \in Procs, NEW msg,
         AcquiresLock(p, msg) \/ LockFails(p, msg)
  PROVE  PayInv'
<1>1. CASE AcquiresLock(p, msg)
  <2>1. /\ Delivered(p, msg) /\ LocksRows(p, msg)
        /\ job' = [job EXCEPT ![p] = [Idle EXCEPT !.pc = "locked", !.msg = msg,
                                                  !.lock = LockId(p)]]
    BY <1>1 DEF AcquiresLock
  <2>2. /\ DOMAIN job' = Procs /\ DOMAIN job'[p] = Fields
        /\ \A q \in Procs \ {p} : job'[q] = job[q]
        /\ job'[p].pc = "locked" /\ job'[p].lock = LockId(p)
        /\ job'[p].known = {}
    BY <2>1 DEF PayInv, TypeInv, Idle, Fields
  <2>. QED BY <2>1, <2>2, DeliveredPays
<1>2. CASE LockFails(p, msg)
  <2>1. /\ Delivered(p, msg) /\ (LocksRows(p, msg) \/ UNCHANGED meta)
        /\ UNCHANGED job
    BY <1>2 DEF LockFails
  <2>. QED BY <2>1, DeliveredPays DEF PayInv, TypeInv
<1>. QED BY <1>1, <1>2

(* A job goes on, or gives up, once its payments are settled or never will *)
(* be.                                                                     *)
LEMMA OnwardPays ==
  ASSUME PayInv, NEW p \in Procs,
         UNCHANGED <<case, meta, paid, prefix, deaths>>,
         DOMAIN job' = Procs, DOMAIN job'[p] = Fields,
         \A q \in Procs \ {p} : job'[q] = job[q],
         job[p].pc # "idle", job'[p].pc \notin {"idle", "locked", "decoded"},
         job'[p].lock = job[p].lock, job'[p].known = job[p].known
  PROVE  PayInv'
<1>1. Own' = Own /\ Procs' = Procs /\ SharedLockIds' = SharedLockIds
  BY CaseSame
<1>2. TypeInv'
  BY JobStep DEF PayInv, TypeInv
<1>3. ASSUME deaths = 0, ~SharedLockIds
      PROVE  (JobLocks /\ RowLocks /\ NotYetPaid
               /\ \A t \in Own : paid[t] <= 1)'
  <2>1. JobLocks /\ RowLocks /\ NotYetPaid /\ \A t \in Own : paid[t] <= 1
    BY <1>3 DEF PayInv
  <2>2. JobLocks' /\ RowLocks'
    BY <1>1, <2>1 DEF JobLocks, RowLocks
  <2>3. NotYetPaid'
    BY <1>1, <2>1 DEF NotYetPaid, LockedBy
  <2>. QED BY <1>1, <2>1, <2>2, <2>3
<1>. QED BY <1>1, <1>2, <1>3 DEF PayInv

LEMMA GoesOn ==
  ASSUME PayInv, NEW p \in Procs, NEW l, Goto(p, l)
  PROVE  /\ DOMAIN job' = Procs /\ DOMAIN job'[p] = Fields
         /\ \A q \in Procs \ {p} : job'[q] = job[q]
         /\ job'[p].lock = job[p].lock /\ job'[p].known = job[p].known
         /\ job'[p].pc = l
BY DEF PayInv, TypeInv, Goto, Fields

LEMMA TurnsOrStays ==
  ASSUME PayInv, NEW p \in Procs, NEW l, NEW ts, NEW c
  PROVE  /\ Turns(p, l, ts) =>
              /\ DOMAIN job' = Procs /\ DOMAIN job'[p] = Fields
              /\ \A q \in Procs \ {p} : job'[q] = job[q]
              /\ job'[p].lock = job[p].lock /\ job'[p].known = job[p].known
              /\ job'[p].msg = job[p].msg /\ job'[p].unknown = job[p].unknown
              /\ job'[p].pc = l /\ job'[p].clients = {t.client : t \in ts}
         /\ Without(p, c) =>
              /\ DOMAIN job' = Procs /\ DOMAIN job'[p] = Fields
              /\ \A q \in Procs \ {p} : job'[q] = job[q]
              /\ job'[p].lock = job[p].lock /\ job'[p].known = job[p].known
              /\ job'[p].msg = job[p].msg /\ job'[p].unknown = job[p].unknown
              /\ job'[p].pc = job[p].pc
              /\ job'[p].clients = job[p].clients \ {c}
<1>1. DOMAIN job = Procs /\ DOMAIN job[p] = Fields
  BY DEF PayInv, TypeInv
<1>2. ASSUME Turns(p, l, ts)
      PROVE  /\ DOMAIN job' = Procs /\ DOMAIN job'[p] = Fields
             /\ \A q \in Procs \ {p} : job'[q] = job[q]
             /\ job'[p].lock = job[p].lock /\ job'[p].known = job[p].known
             /\ job'[p].msg = job[p].msg /\ job'[p].unknown = job[p].unknown
             /\ job'[p].pc = l /\ job'[p].clients = {t.client : t \in ts}
  BY <1>1, <1>2 DEF Turns, Fields
<1>3. ASSUME Without(p, c)
      PROVE  /\ DOMAIN job' = Procs /\ DOMAIN job'[p] = Fields
             /\ \A q \in Procs \ {p} : job'[q] = job[q]
             /\ job'[p].lock = job[p].lock /\ job'[p].known = job[p].known
             /\ job'[p].msg = job[p].msg /\ job'[p].unknown = job[p].unknown
             /\ job'[p].pc = job[p].pc
             /\ job'[p].clients = job[p].clients \ {c}
  BY <1>1, <1>3 DEF Without, Fields
<1>. QED BY <1>2, <1>3

LEMMA ReceiptsPays ==
  ASSUME PayInv, NEW p \in Procs, Receipts(p) PROVE PayInv'
<1>1. /\ UNCHANGED <<case, meta, paid, prefix, deaths>>
      /\ job[p].pc = "locked"
  BY DEF Receipts, scanned, dbvars
<1>2. CASE Goto(p, "release")
  BY <1>1, <1>2, GoesOn, OnwardPays
<1>3. CASE ~Goto(p, "release")
  <2>1. /\ job' = [job EXCEPT ![p].pc = "decoded",
                             ![p].known = Recognised(p),
                             ![p].unknown = InBatch(p) \ Recognised(p)]
    BY <1>3 DEF Receipts, GivesUp
  <2>2. /\ DOMAIN job' = Procs /\ DOMAIN job'[p] = Fields
        /\ \A q \in Procs \ {p} : job'[q] = job[q]
        /\ job'[p].pc = "decoded" /\ job'[p].lock = job[p].lock
        /\ job'[p].known = LockedBy(job[p].lock)
    BY <2>1 DEF PayInv, TypeInv, Fields, Recognised
  <2>3. Own' = Own /\ Procs' = Procs /\ SharedLockIds' = SharedLockIds
    BY <1>1, CaseSame
  <2>4. job'[p].known \subseteq Own
    BY <2>2 DEF LockedBy
  <2>5. TypeInv'
    BY <1>1, <2>2, <2>4, JobStep DEF PayInv, TypeInv
  <2>6. ASSUME deaths = 0, ~SharedLockIds
        PROVE  (JobLocks /\ RowLocks /\ NotYetPaid
                 /\ \A t \in Own : paid[t] <= 1)'
    <3>1. JobLocks /\ RowLocks /\ NotYetPaid /\ \A t \in Own : paid[t] <= 1
      BY <2>6 DEF PayInv
    <3>2. JobLocks' /\ RowLocks'
      BY <1>1, <2>2, <2>3, <3>1 DEF JobLocks, RowLocks
    <3>3. NotYetPaid'
      BY <1>1, <2>2, <2>3, <3>1 DEF NotYetPaid, LockedBy
    <3>. QED BY <1>1, <2>3, <3>1, <3>2, <3>3
  <2>. QED BY <1>1, <2>3, <2>5, <2>6 DEF PayInv
<1>. QED BY <1>2, <1>3

(* The payments of the rows a job has locked are settled for the first     *)
(* time, and no other job has locked them.                                 *)
LEMMA PaysPays ==
  ASSUME PayInv, NEW p \in Procs, Pays(p) PROVE PayInv'
<1>1. UNCHANGED <<case, meta, prefix, deaths>> /\ job[p].pc = "decoded"
  BY DEF Pays, scanned
<1>2. /\ DOMAIN job' = Procs /\ DOMAIN job'[p] = Fields
      /\ \A q \in Procs \ {p} : job'[q] = job[q]
      /\ job'[p].pc \in {"inserting", "settling", "release"}
      /\ job'[p].lock = job[p].lock /\ job'[p].known = job[p].known
  <2>1. CASE Goto(p, "release")
    BY <2>1, GoesOn
  <2>2. CASE ~Goto(p, "release")
    <3>1. PICK l, ts : l \in {"inserting", "settling"} /\ Turns(p, l, ts)
      BY <2>2 DEF Pays, GivesUp
    <3>. QED BY <3>1, TurnsOrStays
  <2>. QED BY <2>1, <2>2
<1>3. CASE UNCHANGED paid
  BY <1>1, <1>2, <1>3, OnwardPays
<1>4. CASE ~UNCHANGED paid
  <2>1. paid' = [t \in Own |->
          paid[t] + IF t \in job[p].known /\ t.kind = "token" THEN 1 ELSE 0]
    BY <1>4 DEF Pays
  <2>2. Own' = Own /\ Procs' = Procs /\ SharedLockIds' = SharedLockIds
    BY <1>1, CaseSame
  <2>3. paid' \in [Own -> Nat]
    BY <2>1 DEF PayInv, TypeInv
  <2>4. \A t \in Own \ job[p].known : paid'[t] = paid[t]
    BY <2>1 DEF PayInv, TypeInv
  <2>5. \A t \in Own : paid'[t] \in {paid[t], paid[t] + 1}
    BY <2>1 DEF PayInv, TypeInv
  <2>6. TypeInv'
    BY <1>1, <1>2, <2>3, JobStep DEF PayInv, TypeInv
  <2>7. ASSUME deaths = 0, ~SharedLockIds
        PROVE  (JobLocks /\ RowLocks /\ NotYetPaid
                 /\ \A t \in Own : paid[t] <= 1)'
    <3>1. JobLocks /\ RowLocks /\ NotYetPaid /\ \A t \in Own : paid[t] <= 1
      BY <2>7 DEF PayInv
    <3>2. JobLocks'
      BY <1>1, <1>2, <2>2, <3>1 DEF JobLocks
    <3>3. ASSUME NEW t \in job[p].known
          PROVE  t \in Own /\ meta[t].lock = job[p].lock /\ paid[t] = 0
      BY <1>1, <3>1 DEF NotYetPaid, LockedBy
    <3>4. job[p].lock # NoLock
      BY <1>1, <3>1, NoLockIsNone DEF JobLocks
    <3>5. RowLocks'
      BY <1>1, <1>2, <2>2, <2>4, <3>1, <3>3, <3>4 DEF RowLocks
    <3>6. ASSUME NEW q \in Procs, job'[q].pc \in {"locked", "decoded"}
          PROVE  /\ \A t \in LockedBy(job[q].lock) : paid'[t] = 0
                 /\ job'[q] = job[q]
      <4>1. q # p /\ job'[q] = job[q]
        BY <1>2, <3>6
      <4>2. ASSUME NEW t \in Own, meta[t].lock = job[q].lock
            PROVE  t \notin job[p].known
        BY <1>1, <2>7, <3>1, <3>3, <3>6, <4>1, <4>2, TwoLocks
      <4>. QED BY <2>4, <3>1, <3>6, <4>1, <4>2 DEF NotYetPaid, LockedBy
    <3>7. NotYetPaid'
      BY <1>1, <2>2, <3>1, <3>6 DEF NotYetPaid, LockedBy
    <3>8. \A t \in Own : paid'[t] <= 1
      <4> TAKE t \in Own
      <4>1. CASE t \in job[p].known
        BY <2>5, <3>3, <4>1
      <4>2. CASE t \notin job[p].known
        BY <2>4, <3>1, <4>2
      <4>. QED BY <4>1, <4>2
    <3>. QED BY <2>2, <3>2, <3>5, <3>7, <3>8
  <2>. QED BY <1>1, <2>2, <2>6, <2>7 DEF PayInv
<1>. QED BY <1>3, <1>4

(* A step of an insertion or a settlement: the next one, or the last.      *)
LEMMA LaterJob ==
  ASSUME NEW p \in Procs, NEW c, InsertsData(p, c) \/ SettlesBalances(p, c)
  PROVE  \/ \E ts : Turns(p, "settling", ts)
         \/ Without(p, c)
         \/ Goto(p, "release")
BY DEF InsertsData, SettlesBalances, GivesUp

LEMMA LaterPays ==
  ASSUME PayInv, NEW p \in Procs, NEW c,
         InsertsData(p, c) \/ SettlesBalances(p, c) \/ UpdatesLogs(p)
  PROVE  PayInv'
<1>1. /\ UNCHANGED <<case, meta, paid, prefix, deaths>>
      /\ job[p].pc \in {"inserting", "settling"}
  BY DEF InsertsData, SettlesBalances, UpdatesLogs, scanned
<1>2. CASE Goto(p, "release")
  BY <1>1, <1>2, GoesOn, OnwardPays
<1>3. CASE ~Goto(p, "release")
  <2>1. (\E ts : Turns(p, "settling", ts)) \/ Without(p, c)
    BY <1>3, LaterJob DEF UpdatesLogs
  <2>2. /\ DOMAIN job' = Procs /\ DOMAIN job'[p] = Fields
        /\ \A q \in Procs \ {p} : job'[q] = job[q]
        /\ job'[p].pc \in {"inserting", "settling"}
        /\ job'[p].lock = job[p].lock /\ job'[p].known = job[p].known
    BY <1>1, <2>1, TurnsOrStays
  <2>. QED BY <1>1, <2>2, OnwardPays
<1>. QED BY <1>2, <1>3

LEMMA ReleasesLockPays ==
  ASSUME PayInv, NEW p \in Procs, ReleasesLock(p) PROVE PayInv'
<1>1. /\ UNCHANGED <<case, paid, prefix, deaths>> /\ job[p].pc = "release"
      /\ meta' = [t \in Own |-> IF meta[t].lock = job[p].lock
                                 THEN [meta[t] EXCEPT !.lock = NoLock]
                                 ELSE meta[t]]
      /\ job' = [job EXCEPT ![p] = Idle]
  BY DEF ReleasesLock, scanned
<1>2. Own' = Own /\ Procs' = Procs /\ SharedLockIds' = SharedLockIds
  BY <1>1, CaseSame
<1>3. /\ DOMAIN job' = Procs /\ DOMAIN job'[p] = Fields
      /\ \A q \in Procs \ {p} : job'[q] = job[q]
      /\ job'[p].pc = "idle" /\ job'[p].lock = NoLock /\ job'[p].known = {}
  BY <1>1 DEF PayInv, TypeInv, Idle, Fields
<1>4. /\ DOMAIN meta' = Own
      /\ \A t \in Own : /\ DOMAIN meta'[t] = {"status", "lock"}
                         /\ meta'[t].status = meta[t].status
                         /\ meta'[t].lock = IF meta[t].lock = job[p].lock
                              THEN NoLock ELSE meta[t].lock
  BY <1>1 DEF PayInv, TypeInv
<1>5. TypeInv'
  BY <1>1, <1>3, <1>4, JobStep DEF PayInv, TypeInv
<1>6. ASSUME deaths = 0, ~SharedLockIds
      PROVE  (JobLocks /\ RowLocks /\ NotYetPaid
               /\ \A t \in Own : paid[t] <= 1)'
  <2>1. JobLocks /\ RowLocks /\ NotYetPaid /\ \A t \in Own : paid[t] <= 1
    BY <1>6 DEF PayInv
  <2>2. JobLocks' /\ RowLocks'
    BY <1>1, <1>2, <1>3, <1>4, <2>1 DEF JobLocks, RowLocks
  <2>3. ASSUME NEW q \in Procs, job'[q].pc \in {"locked", "decoded"}
        PROVE  /\ job'[q] = job[q]
               /\ \A t \in Own : meta'[t].lock = job[q].lock
                                  <=> meta[t].lock = job[q].lock
    <3>1. q # p /\ job'[q] = job[q]
      BY <1>3, <2>3
    <3>2. job[q].lock # NoLock
      BY <2>1, <2>3, <3>1, NoLockIsNone DEF JobLocks
    <3>3. job[q].lock # job[p].lock
      BY <1>6, <2>1, <2>3, <3>1, TwoLocks
    <3>. QED BY <1>4, <3>1, <3>2, <3>3
  <2>4. NotYetPaid'
    BY <1>1, <1>2, <2>1, <2>3 DEF NotYetPaid, LockedBy
  <2>. QED BY <1>1, <1>2, <2>1, <2>2, <2>4
<1>. QED BY <1>1, <1>2, <1>5, <1>6 DEF PayInv

(* A lock that is not released stays with the rows, and no job has it.     *)
LEMMA ReleaseFailsPays ==
  ASSUME PayInv, NEW p \in Procs, ReleaseFails(p) PROVE PayInv'
<1>1. /\ UNCHANGED <<case, meta, paid, prefix, deaths>>
      /\ job' = [job EXCEPT ![p] = Idle]
  BY DEF ReleaseFails, scanned, dbvars
<1>2. Own' = Own /\ Procs' = Procs /\ SharedLockIds' = SharedLockIds
  BY <1>1, CaseSame
<1>3. /\ DOMAIN job' = Procs /\ DOMAIN job'[p] = Fields
      /\ \A q \in Procs \ {p} : job'[q] = job[q]
      /\ job'[p].pc = "idle" /\ job'[p].lock = NoLock /\ job'[p].known = {}
  BY <1>1 DEF PayInv, TypeInv, Idle, Fields
<1>4. TypeInv'
  BY <1>1, <1>3, JobStep DEF PayInv, TypeInv
<1>5. JobLocks => JobLocks'
  BY <1>2, <1>3 DEF JobLocks
<1>6. RowLocks => RowLocks'
  BY <1>1, <1>2 DEF RowLocks
<1>7. NotYetPaid => NotYetPaid'
  BY <1>1, <1>2, <1>3 DEF NotYetPaid, LockedBy
<1>. QED BY <1>1, <1>2, <1>4, <1>5, <1>6, <1>7 DEF PayInv

(* A death ends what is claimed.                                           *)
LEMMA WorkerDiesPays ==
  ASSUME PayInv, NEW p \in Procs, WorkerDies(p) PROVE PayInv'
<1>1. /\ UNCHANGED <<case, meta, paid>> /\ deaths' = deaths + 1
      /\ job' = [job EXCEPT ![p] = Idle] /\ prefix' = [prefix EXCEPT ![p] = 1]
  BY DEF WorkerDies, scanned, dbvars
<1>2. /\ DOMAIN job' = Procs /\ DOMAIN job'[p] = Fields
      /\ job'[p].known = {} /\ \A q \in Procs \ {p} : job'[q] = job[q]
  BY <1>1 DEF PayInv, TypeInv, Idle, Fields
<1>3. TypeInv'
  BY <1>1, <1>2, JobStep DEF PayInv, TypeInv
<1>4. deaths' # 0
  BY <1>1 DEF PayInv, TypeInv
<1>. QED BY <1>3, <1>4 DEF PayInv

-----------------------------------------------------------------------------
LEMMA PayInvStep == PayInv /\ [Next]_vars => PayInv'
<1> SUFFICES ASSUME PayInv, [Next]_vars PROVE PayInv'
  OBVIOUS
<1>1. CASE DelegatorWorks \/ DelegatorFails \/ UNCHANGED vars
  <2>1. UNCHANGED platform
    BY <1>1 DEF DelegatorWorks, DelegatorFails, Begins, Publishes, WritesFile,
       Exits, Restarts, PicksBlock, NoBlock, PublishFails, GetsSignal, Dies,
       vars, platform
  <2>. QED BY <2>1, AsidePays DEF platform, wvars, dbvars
<1>2. ASSUME NEW p \in Procs, WorkerWorks(p) PROVE PayInv'
  BY <1>2, AcquiresLockPays, ReceiptsPays, PaysPays, LaterPays,
     ReleasesLockPays, ReleaseFailsPays DEF WorkerWorks
<1>. QED BY <1>1, <1>2, WorkerDiesPays, RowSubmittedPays DEF Next

(* Whatever fails, is delivered twice, or comes late: while no worker dies *)
(* and no two have the same lock ids, no payment is settled twice.         *)
THEOREM LocksKeepPaymentsApart == Spec => []PaidTwiceNeedsDeath
<1>1. Init => PayInv
  BY PayInvInit
<1>2. PayInv /\ [Next]_vars => PayInv'
  BY PayInvStep
<1>3. PayInv => PaidTwiceNeedsDeath
  BY PayInvSafe
<1>. QED BY <1>1, <1>2, <1>3, PTL DEF Spec

-----------------------------------------------------------------------------
(* How a block is cut.  The batch a transaction is in is the quotient of   *)
(* its place by the size of a batch, rounded up.                           *)
LEMMA Quotient ==
  ASSUME NEW m \in Nat, NEW d \in Nat \ {0}
  PROVE  /\ m \div d \in Nat
         /\ d * (m \div d) <= m
         /\ m < d * (m \div d) + d
OBVIOUS

LEMMA Monotone ==
  ASSUME NEW c \in Nat, NEW x \in Int, NEW y \in Int, x <= y
  PROVE  c * x <= c * y
OBVIOUS

LEMMA MinOfTwo ==
  ASSUME NEW x \in Int, NEW y \in Int
  PROVE  Min({x, y}) = IF x <= y THEN x ELSE y
BY DEF Min

LEMMA ClampIsSize ==
  ASSUME case \in Cases, NEW n \in Nat, NEW d \in Nat \ {0}
  PROVE  \E a, b \in Nat \ {0} : Clamp(n, d) = <<a, b>>
<1>1. /\ case.min \in Nat \ {0} /\ case.max \in Nat /\ case.max >= case.min
  BY CasesAssumption
<1>2. case.min * d \in Nat /\ case.min * d >= d
  BY <1>1, Monotone
<1>3. CASE n > case.max * d
  BY <1>1, <1>3 DEF Clamp
<1>4. CASE ~(n > case.max * d) /\ n < case.min * d
  BY <1>1, <1>4 DEF Clamp
<1>5. CASE ~(n > case.max * d) /\ ~(n < case.min * d)
  <2>1. n # 0
    BY <1>2, <1>5
  <2>. QED BY <1>5, <2>1 DEF Clamp
<1>. QED BY <1>3, <1>4, <1>5

(* The place j is in the batch number k that begins after (k-1) * a / b.   *)
LEMMA BatchOf ==
  ASSUME NEW a \in Nat \ {0}, NEW b \in Nat \ {0}, NEW n \in Nat,
         NEW j \in 1 .. n
  PROVE  \E k \in 1 .. ((n * b + a - 1) \div a) :
           ((k - 1) * a) \div b < j /\ j <= (k * a) \div b
<1> DEFINE k == (j * b + a - 1) \div a
           number == (n * b + a - 1) \div a
<1>1. /\ j * b \in Nat /\ n * b \in Nat /\ j * b <= n * b /\ j * b >= 1
  <2>1. b * j <= b * n /\ b * 1 <= b * j
    BY Monotone
  <2>. QED BY <2>1
<1>2. k \in Nat /\ a * k <= j * b + a - 1 /\ j * b + a - 1 < a * k + a
  <2>1. j * b + a - 1 \in Nat
    BY <1>1
  <2>. QED BY <2>1, Quotient
<1>3. number \in Nat /\ n * b + a - 1 < a * number + a
  <2>1. n * b + a - 1 \in Nat
    BY <1>1
  <2>. QED BY <2>1, Quotient
<1>. HIDE DEF k, number
<1>4. k \in 1 .. number
  <2>1. k # 0
    BY <1>1, <1>2
  <2>2. ASSUME k > number PROVE FALSE
    <3>1. a * number <= a * (k - 1) /\ a * (k - 1) = a * k - a
      BY <1>2, <1>3, <2>2, Monotone
    <3>. QED BY <1>1, <1>2, <1>3, <3>1
  <2>. QED BY <1>2, <1>3, <2>1, <2>2
<1>5. j <= (k * a) \div b
  <2> DEFINE q == (k * a) \div b
  <2>1. q \in Nat /\ b * q <= k * a /\ k * a < b * q + b
    BY <1>2, Quotient
  <2>. HIDE DEF q
  <2>2. ASSUME q < j PROVE FALSE
    <3>1. b * (q + 1) <= b * j /\ b * (q + 1) = b * q + b
      BY <2>1, <2>2, Monotone
    <3>. QED BY <1>1, <1>2, <2>1, <3>1
  <2>3. j <= q
    BY <2>1, <2>2
  <2>. QED BY <2>3 DEF q
<1>6. ((k - 1) * a) \div b < j
  <2> DEFINE q == ((k - 1) * a) \div b
  <2>0. (k - 1) * a \in Nat /\ (k - 1) * a = a * k - a
    BY <1>2, <1>4
  <2>1. q \in Nat /\ b * q <= (k - 1) * a
    BY <2>0, Quotient
  <2>. HIDE DEF q
  <2>2. ASSUME q >= j PROVE FALSE
    <3>1. b * j <= b * q
      BY <2>1, <2>2, Monotone
    <3>. QED BY <1>1, <1>2, <2>0, <2>1, <3>1
  <2>3. q < j
    BY <2>1, <2>2
  <2>. QED BY <2>3 DEF q
<1>. QED BY <1>4, <1>5, <1>6 DEF number

LEMMA InSlice ==
  ASSUME NEW S, NEW txs \in Seq(S), NEW low \in 0 .. Len(txs),
         NEW high \in 0 .. Len(txs), NEW j \in 1 .. Len(txs), low < j, j <= high
  PROVE  txs[j] \in ToSet(SubSeq(txs, low + 1, high))
<1> DEFINE slice == SubSeq(txs, low + 1, high)
<1>1. \A i \in low + 1 .. high : txs[i] \in S
  OBVIOUS
<1>2. /\ slice \in Seq(S) /\ Len(slice) = high - low
      /\ \A i \in 1 .. high - low : slice[i] = txs[low + i]
  <2>1. /\ slice \in Seq(S)
        /\ Len(slice) = IF low + 1 <= high THEN high - (low + 1) + 1 ELSE 0
        /\ \A i \in 1 .. high - (low + 1) + 1 : slice[i] = txs[low + 1 + i - 1]
    BY <1>1, SubSeqProperties
  <2>. HIDE DEF slice
  <2>. QED BY <2>1
<1>. HIDE DEF slice
<1>3. j - low \in 1 .. high - low /\ low + (j - low) = j
  OBVIOUS
<1>4. DOMAIN slice = 1 .. high - low
  BY <1>2
<1>5. slice[j - low] = txs[j] /\ j - low \in DOMAIN slice
  BY <1>2, <1>3, <1>4
<1>. QED BY <1>5 DEF slice, ToSet

LEMMA BatchesCover ==
  ASSUME case \in Cases, NEW S, NEW txs \in Seq(S), NEW d \in Nat \ {0}
  PROVE  /\ Batches(txs, d) \in Seq(Seq(S))
         /\ \A t \in ToSet(txs) : \E k \in DOMAIN Batches(txs, d) :
              t \in ToSet(Batches(txs, d)[k])
<1> DEFINE n == Len(txs)
<1>0. n \in Nat /\ txs \in [1 .. n -> S]
  OBVIOUS
<1>. HIDE DEF n
<1>1. PICK a \in Nat \ {0}, b \in Nat \ {0} : Clamp(n, d) = <<a, b>>
  BY <1>0, ClampIsSize
<1> DEFINE number == (n * b + a - 1) \div a
           cut(k) == Min({n, (k * a) \div b})
<1>2. Batches(txs, d) = [k \in 1 .. number |-> SubSeq(txs, cut(k - 1) + 1, cut(k))]
  BY <1>1 DEF Batches, n
<1>3. number \in Nat
  <2>1. n * b + a - 1 \in Nat
    BY <1>0
  <2>. QED BY <2>1, Quotient
<1>4. ASSUME NEW k \in Nat
      PROVE  /\ cut(k) \in 0 .. n
             /\ cut(k) = IF n <= (k * a) \div b THEN n ELSE (k * a) \div b
  <2>1. (k * a) \div b \in Nat
    BY Quotient
  <2>. QED BY <1>0, <2>1, MinOfTwo
<1>5. ASSUME NEW k \in 1 .. number
      PROVE  SubSeq(txs, cut(k - 1) + 1, cut(k)) \in Seq(S)
  <2>1. k \in Nat /\ k - 1 \in Nat
    BY <1>3
  <2>. HIDE DEF cut, number
  <2>2. cut(k) \in 0 .. n /\ cut(k - 1) \in 0 .. n
    BY <1>4, <2>1
  <2>. QED BY <1>0, <2>2 DEF n
<1>6. Batches(txs, d) \in Seq(Seq(S))
  <2>. HIDE DEF number, cut
  <2>. QED BY <1>2, <1>3, <1>5
<1>7. ASSUME NEW t \in ToSet(txs)
      PROVE  \E k \in DOMAIN Batches(txs, d) : t \in ToSet(Batches(txs, d)[k])
  <2>1. PICK j \in 1 .. n : t = txs[j]
    BY <1>0 DEF ToSet
  <2>2. PICK k \in 1 .. number : ((k - 1) * a) \div b < j /\ j <= (k * a) \div b
    BY <1>0, BatchOf
  <2>3. /\ k \in Nat /\ k - 1 \in Nat
        /\ (k * a) \div b \in Nat /\ ((k - 1) * a) \div b \in Nat
    BY <1>3, Quotient
  <2>4. /\ cut(k) \in 0 .. n /\ cut(k - 1) \in 0 .. n
        /\ cut(k - 1) < j /\ j <= cut(k)
    <3>1. cut(k) = (IF n <= (k * a) \div b THEN n ELSE (k * a) \div b)
      BY <1>4, <2>3
    <3>2. cut(k - 1) = (IF n <= ((k - 1) * a) \div b THEN n
                       ELSE ((k - 1) * a) \div b)
      BY <1>4, <2>3
    <3>3. cut(k) \in 0 .. n /\ cut(k - 1) \in 0 .. n
      BY <1>4, <2>3
    <3>. HIDE DEF cut
    <3>. QED BY <1>0, <2>2, <2>3, <3>1, <3>2, <3>3
  <2>. HIDE DEF number, cut
  <2>5. t \in ToSet(SubSeq(txs, cut(k - 1) + 1, cut(k)))
    BY <1>0, <2>1, <2>4, InSlice DEF n
  <2>. QED BY <1>2, <2>5
<1>. QED BY <1>6, <1>7

-----------------------------------------------------------------------------
(* Why no transaction is skipped.  One that was delivered or waits stays   *)
(* so; the blocks counted in the file or by the delegator are such, and    *)
(* the block being published is but for the batches not yet published.     *)
Covered(t) == handed[t] > 0 \/ Waiting(t)

Counted == {n \in {last, file} : n # Damaged}

SkipInv ==
  /\ case \in Cases /\ IsABag(queue) /\ handed \in [Txs -> Nat]
  /\ parts \in Seq(Seq(Txs))
  /\ last \in 0 .. Len(case.blocks)
  /\ file \in 0 .. Len(case.blocks) \cup {Damaged}
  /\ \A n \in Counted : \A b \in 1 .. n : \A t \in ToSet(case.blocks[b]) : Covered(t)
  /\ dpc = "publishing" =>
       /\ last < Len(case.blocks)
       /\ \A t \in ToSet(case.blocks[last + 1]) :
            Covered(t) \/ \E i \in DOMAIN parts : t \in ToSet(parts[i])

LEMMA BlocksAreTxs ==
  ASSUME case \in Cases
  PROVE  /\ case.blocks \in Seq(Seq(Txs))
         /\ \A b \in 1 .. Len(case.blocks) :
              case.blocks[b] \in Seq(Txs) /\ ToSet(case.blocks[b]) \subseteq Txs
<1>1. case.blocks \in Seq(Seq(Txs))
  BY CasesAssumption DEF Txs
<1>. QED BY <1>1 DEF ToSet

LEMMA SkipInvInit == Init => SkipInv
<1> SUFFICES ASSUME Init PROVE SkipInv
  OBVIOUS
<1>1. case \in Cases /\ Len(case.blocks) \in Nat
  BY BlocksAreTxs DEF Init
<1>2. IsABag(queue)
  BY DEF Init, IsABag, EmptyBag, SetToBag
<1>. QED BY <1>1, <1>2 DEF Init, SkipInv, Counted, Damaged

LEMMA Added ==
  ASSUME IsABag(queue), NEW msg, queue' = queue (+) SetToBag({msg})
  PROVE  IsABag(queue') /\ BagToSet(queue') = BagToSet(queue) \cup {msg}
BY DEF IsABag, SetToBag, BagToSet, (+)

LEMMA Removed ==
  ASSUME IsABag(queue), NEW msg, queue' = queue (-) SetToBag({msg})
  PROVE  IsABag(queue') /\ BagToSet(queue) \subseteq BagToSet(queue') \cup {msg}
BY DEF IsABag, SetToBag, BagToSet, (-)

(* Nothing a worker does takes a transaction back; the delegator's file    *)
(* and block are not the workers'.                                         *)
LEMMA StaysCovered ==
  ASSUME SkipInv, UNCHANGED case, handed' \in [Txs -> Nat],
         \/ UNCHANGED <<queue, handed>>
         \/ UNCHANGED handed /\ \E msg : queue' = queue (+) SetToBag({msg})
         \/ \E p \in Procs, msg \in BagToSet(queue) : Delivered(p, msg)
  PROVE  IsABag(queue') /\ \A t \in Txs : Covered(t) => Covered(t)'
<1>1. CASE UNCHANGED <<queue, handed>>
  BY <1>1 DEF SkipInv, Covered, Waiting, BagToSet
<1>2. ASSUME UNCHANGED handed, NEW msg, queue' = queue (+) SetToBag({msg})
      PROVE  IsABag(queue') /\ \A t \in Txs : Covered(t) => Covered(t)'
  BY <1>2, Added DEF SkipInv, Covered, Waiting
<1>3. ASSUME NEW p \in Procs, NEW msg \in BagToSet(queue), Delivered(p, msg)
      PROVE  IsABag(queue') /\ \A t \in Txs : Covered(t) => Covered(t)'
  <2>1. IsABag(queue') /\ BagToSet(queue) \subseteq BagToSet(queue') \cup {msg}
    BY <1>3, Removed DEF Delivered, SkipInv
  <2>2. \A t \in Txs : /\ handed'[t] >= handed[t]
                       /\ t \in ToSet(msg.txs) => handed'[t] > 0
    <3>1. handed' = [t \in Txs |-> handed[t] + IF t \in ToSet(msg.txs) THEN 1 ELSE 0]
      BY <1>3 DEF Delivered
    <3>2. \A t \in Txs : handed[t] \in Nat
      BY DEF SkipInv
    <3>. QED BY <3>1, <3>2
  <2>3. ASSUME NEW t \in Txs, Covered(t) PROVE Covered(t)'
    <3>1. CASE handed[t] > 0
      BY <2>2, <3>1 DEF Covered, SkipInv
    <3>2. CASE Waiting(t)
      BY <2>1, <2>2, <3>2 DEF Covered, Waiting
    <3>. QED BY <2>3, <3>1, <3>2 DEF Covered
  <2>. QED BY <2>1, <2>3
<1>. QED BY <1>1, <1>2, <1>3

LEMMA WorkersSkipNothing ==
  ASSUME SkipInv, UNCHANGED scanned, handed' \in [Txs -> Nat],
         \/ UNCHANGED <<queue, handed>>
         \/ UNCHANGED handed /\ \E msg : queue' = queue (+) SetToBag({msg})
         \/ \E p \in Procs, msg \in BagToSet(queue) : Delivered(p, msg)
  PROVE  SkipInv'
<1>1. UNCHANGED <<case, dpc, file, last, parts>> /\ Txs' = Txs
  BY DEF scanned, dvars, Txs
<1>2. IsABag(queue') /\ \A t \in Txs : Covered(t) => Covered(t)'
  BY <1>1, StaysCovered
<1>3. \A b \in 1 .. Len(case.blocks) : ToSet(case.blocks[b]) \subseteq Txs
  BY BlocksAreTxs DEF SkipInv
<1>4. \A n \in Counted : n \in 0 .. Len(case.blocks)
  BY DEF SkipInv, Counted
<1>5. \A n \in Counted' : \A b \in 1 .. n : \A t \in ToSet(case'.blocks[b]) : Covered(t)'
  <2>1. Counted' = Counted
    BY <1>1 DEF Counted
  <2>2. ASSUME NEW n \in Counted, NEW b \in 1 .. n, NEW t \in ToSet(case.blocks[b])
        PROVE  Covered(t)'
    <3>1. b \in 1 .. Len(case.blocks)
      BY <1>4
    <3>2. t \in Txs /\ Covered(t)
      BY <1>3, <3>1 DEF SkipInv
    <3>. QED BY <1>2, <3>2
  <2>. QED BY <1>1, <2>1, <2>2
<1>6. ASSUME dpc = "publishing"
      PROVE  \A t \in ToSet(case.blocks[last + 1]) :
               Covered(t)' \/ \E i \in DOMAIN parts : t \in ToSet(parts[i])
  <2>1. last + 1 \in 1 .. Len(case.blocks)
    BY <1>6, BlocksAreTxs DEF SkipInv
  <2>. QED BY <1>2, <1>3, <1>6, <2>1 DEF SkipInv
<1>. QED BY <1>1, <1>2, <1>5, <1>6 DEF SkipInv

(* The delegator: what it counts is what it has published.                 *)
LEMMA DelegatorSkipsNothing ==
  ASSUME SkipInv, DelegatorWorks \/ DelegatorFails
  PROVE  SkipInv'
<1> DEFINE Sofar(n) == \A b \in 1 .. n : \A t \in ToSet(case.blocks[b]) : Covered(t)
<1>0. /\ case \in Cases /\ case.blocks \in Seq(Seq(Txs)) /\ Len(case.blocks) \in Nat
      /\ \A b \in 1 .. Len(case.blocks) :
           case.blocks[b] \in Seq(Txs) /\ ToSet(case.blocks[b]) \subseteq Txs
      /\ Sofar(last) /\ (file # Damaged => Sofar(file))
  <2>1. case \in Cases
    BY DEF SkipInv
  <2>2. last # Damaged
    BY <2>1, BlocksAreTxs DEF SkipInv, Damaged
  <2>3. last \in Counted /\ (file # Damaged => file \in Counted)
    BY <2>2 DEF Counted
  <2>4. \A n \in Counted : Sofar(n)
    BY DEF SkipInv
  <2>. QED BY <2>1, <2>3, <2>4, BlocksAreTxs
<1>1. UNCHANGED <<case, handed>> /\ Txs' = Txs
  BY DEF DelegatorWorks, DelegatorFails, Begins, Publishes, WritesFile, Exits,
     Restarts, PicksBlock, NoBlock, PublishFails, GetsSignal, Dies, platform, wvars,
     Txs
<1>2. ASSUME UNCHANGED queue, parts' \in Seq(Seq(Txs)),
             last' \in 0 .. Len(case.blocks),
             file' \in 0 .. Len(case.blocks) \cup {Damaged},
             Sofar(last'), file' # Damaged => Sofar(file'),
             dpc' = "publishing" =>
               /\ last' < Len(case.blocks)
               /\ \A t \in ToSet(case.blocks[last' + 1]) :
                    Covered(t) \/ \E i \in DOMAIN parts' : t \in ToSet(parts'[i])
      PROVE  SkipInv'
  <2>1. \A t : Covered(t)' <=> Covered(t)
    BY <1>1, <1>2 DEF Covered, Waiting, BagToSet
  <2>2. \A n \in Counted' : Sofar(n)
    BY <1>2 DEF Counted
  <2>3. IsABag(queue') /\ handed' \in [Txs -> Nat]
    BY <1>1, <1>2 DEF SkipInv
  <2>. QED BY <1>0, <1>1, <1>2, <2>1, <2>2, <2>3 DEF SkipInv
<1>3. CASE Publishes
  <2>1. /\ dpc = "publishing" /\ dpc' = dpc /\ parts # <<>>
        /\ queue' = queue (+) SetToBag({[block |-> last + 1, txs |-> Head(parts)]})
        /\ parts' = Tail(parts) /\ UNCHANGED <<file, last>>
    BY <1>3 DEF Publishes
  <2>2. IsABag(queue') /\ \A t \in Txs : Covered(t) => Covered(t)'
    BY <1>1, <2>1, StaysCovered DEF SkipInv
  <2>3. ASSUME NEW t \in ToSet(Head(parts)) PROVE Covered(t)'
    <3>1. [block |-> last + 1, txs |-> Head(parts)] \in BagToSet(queue')
      BY <2>1, Added DEF SkipInv
    <3>2. \E msg \in BagToSet(queue') : t \in ToSet(msg.txs)
      BY <3>1, <2>3
    <3>. QED BY <3>2 DEF Covered, Waiting
  <2>4. /\ parts' \in Seq(Seq(Txs))
        /\ \A i \in DOMAIN parts : i = 1 \/ (i - 1 \in DOMAIN parts'
                                             /\ parts'[i - 1] = parts[i])
        /\ parts[1] = Head(parts)
    <3>1. parts \in Seq(Seq(Txs))
      BY DEF SkipInv
    <3>2. /\ parts' \in Seq(Seq(Txs)) /\ Len(parts') = Len(parts) - 1
          /\ \A i \in 1 .. Len(parts') : parts'[i] = parts[i + 1]
      BY <2>1, <3>1, HeadTailProperties
    <3>3. DOMAIN parts = 1 .. Len(parts) /\ DOMAIN parts' = 1 .. Len(parts')
      BY <3>1, <3>2
    <3>4. ASSUME NEW i \in DOMAIN parts, i # 1
          PROVE  i - 1 \in DOMAIN parts' /\ parts'[i - 1] = parts[i]
      <4>1. Len(parts) \in Nat /\ i \in 1 .. Len(parts)
        BY <3>1, <3>3
      <4>2. i - 1 \in 1 .. (Len(parts) - 1) /\ (i - 1) + 1 = i
        BY <3>4, <4>1
      <4>3. i - 1 \in 1 .. Len(parts')
        BY <3>2, <4>2
      <4>. QED BY <3>2, <3>3, <4>2, <4>3
    <3>5. parts[1] = Head(parts)
      BY <2>1, <3>1
    <3>. QED BY <3>2, <3>4, <3>5
  <2>5. \A n \in Counted' : \A b \in 1 .. n :
          \A t \in ToSet(case'.blocks[b]) : Covered(t)'
    <3>1. Counted' = Counted
      BY <2>1 DEF Counted
    <3>2. ASSUME NEW n \in Counted, NEW b \in 1 .. n, NEW t \in ToSet(case.blocks[b])
          PROVE  Covered(t)'
      <4>1. b \in 1 .. Len(case.blocks)
        BY <1>0 DEF SkipInv, Counted
      <4>2. t \in Txs /\ Covered(t)
        BY <1>0, <4>1 DEF SkipInv
      <4>. QED BY <2>2, <4>2
    <3>. QED BY <1>1, <3>1, <3>2
  <2>6. last < Len(case.blocks) /\ last + 1 \in 1 .. Len(case.blocks)
    BY <1>0, <2>1 DEF SkipInv
  <2>7. ASSUME NEW t \in ToSet(case.blocks[last + 1])
        PROVE  Covered(t)' \/ \E i \in DOMAIN parts' : t \in ToSet(parts'[i])
    <3>1. t \in Txs
      BY <1>0, <2>6
    <3>2. Covered(t) \/ \E i \in DOMAIN parts : t \in ToSet(parts[i])
      BY <2>1 DEF SkipInv
    <3>. QED BY <2>2, <2>3, <2>4, <3>1, <3>2
  <2>. QED BY <1>0, <1>1, <2>1, <2>2, <2>4, <2>5, <2>6, <2>7 DEF SkipInv
<1>4. ASSUME NEW ahead \in 1 .. case.nodes, PicksBlock(ahead) PROVE SkipInv'
  <2>1. /\ last < Len(case.blocks) /\ UNCHANGED <<file, last, queue>>
        /\ parts' = Batches(case.blocks[last + 1], ahead)
    BY <1>4 DEF PicksBlock
  <2>2. last + 1 \in 1 .. Len(case.blocks)
    BY <1>0, <2>1 DEF SkipInv
  <2>3. ahead \in Nat \ {0}
    BY CasesAssumption, <1>0
  <2>4. /\ parts' \in Seq(Seq(Txs))
        /\ \A t \in ToSet(case.blocks[last + 1]) :
             \E i \in DOMAIN parts' : t \in ToSet(parts'[i])
    BY <1>0, <2>1, <2>2, <2>3, BatchesCover
  <2>. QED BY <1>0, <1>2, <2>1, <2>4 DEF SkipInv
<1>5. CASE WritesFile
  <2>1. /\ dpc = "publishing" /\ parts = <<>> /\ dpc' = "idle"
        /\ last' = last + 1 /\ file' = last + 1 /\ UNCHANGED <<parts, queue>>
    BY <1>5 DEF WritesFile
  <2>2. last < Len(case.blocks)
        /\ \A t \in ToSet(case.blocks[last + 1]) : Covered(t)
    BY <2>1 DEF SkipInv
  <2>3. last + 1 \in 0 .. Len(case.blocks) /\ last \in Nat
    BY <1>0, <2>2 DEF SkipInv
  <2>4. Sofar(last + 1)
    <3>1. \A b \in 1 .. last + 1 : b \in 1 .. last \/ b = last + 1
      BY <2>3
    <3>. QED BY <1>0, <2>2, <3>1
  <2>. HIDE DEF Sofar
  <2>. QED BY <1>2, <2>1, <2>3, <2>4 DEF SkipInv
<1>6. CASE Begins
  <2>1. /\ dpc' # "publishing" /\ UNCHANGED <<queue, parts, file>>
        /\ \/ last' = last
           \/ file # Damaged /\ last' = file
    BY <1>6 DEF Begins
  <2>2. CASE last' = last
    BY <1>0, <1>2, <2>1, <2>2 DEF SkipInv
  <2>3. CASE file # Damaged /\ last' = file
    <3>1. last' \in 0 .. Len(case.blocks) /\ Sofar(last')
      BY <1>0, <2>3 DEF SkipInv
    <3>2. /\ parts' \in Seq(Seq(Txs))
          /\ file' \in 0 .. Len(case.blocks) \cup {Damaged}
      BY <2>1 DEF SkipInv
    <3>3. file' # Damaged => Sofar(file')
      BY <1>0, <2>1
    <3>. HIDE DEF Sofar
    <3>. QED BY <1>2, <2>1, <3>1, <3>2, <3>3
  <2>. QED BY <2>1, <2>2, <2>3
<1>7. CASE Exits \/ Restarts \/ NoBlock \/ PublishFails \/ GetsSignal \/ Dies
  <2>1. /\ UNCHANGED <<queue, last>> /\ file' \in {file, Damaged}
        /\ parts' = parts \/ parts' = <<>>
        /\ dpc' = "publishing" => dpc = dpc' /\ parts' = parts
    BY <1>7 DEF Exits, Restarts, NoBlock, PublishFails, GetsSignal, Dies
  <2>2. /\ parts' \in Seq(Seq(Txs)) /\ last' \in 0 .. Len(case.blocks)
        /\ file' \in 0 .. Len(case.blocks) \cup {Damaged}
    <3>1. /\ parts \in Seq(Seq(Txs)) /\ last \in 0 .. Len(case.blocks)
          /\ file \in 0 .. Len(case.blocks) \cup {Damaged}
      BY DEF SkipInv
    <3>2. <<>> \in Seq(Seq(Txs))
      OBVIOUS
    <3>. QED BY <2>1, <3>1, <3>2
  <2>3. dpc' = "publishing" =>
          /\ last' < Len(case.blocks)
          /\ \A t \in ToSet(case.blocks[last' + 1]) :
               Covered(t) \/ \E i \in DOMAIN parts' : t \in ToSet(parts'[i])
    BY <2>1 DEF SkipInv
  <2>4. Sofar(last') /\ (file' # Damaged => Sofar(file'))
    BY <1>0, <2>1
  <2>. HIDE DEF Sofar
  <2>. QED BY <1>2, <2>1, <2>2, <2>3, <2>4
<1>. QED BY <1>3, <1>4, <1>5, <1>6, <1>7 DEF DelegatorWorks, DelegatorFails

LEMMA SkipInvStep == SkipInv /\ [Next]_vars => SkipInv'
<1> SUFFICES ASSUME SkipInv, [Next]_vars PROVE SkipInv'
  OBVIOUS
<1>1. CASE DelegatorWorks \/ DelegatorFails
  BY <1>1, DelegatorSkipsNothing
<1>2. CASE UNCHANGED vars \/ \E t \in Own : RowSubmitted(t)
  <2>1. UNCHANGED scanned /\ UNCHANGED <<queue, handed>>
    BY <1>2 DEF vars, RowSubmitted, scanned, wvars
  <2>. QED BY <2>1, WorkersSkipNothing DEF SkipInv
<1>3. ASSUME NEW p \in Procs, WorkerDies(p) PROVE SkipInv'
  <2>1. UNCHANGED scanned /\ UNCHANGED handed
        /\ queue' = queue (+) SetToBag({job[p].msg})
    BY <1>3 DEF WorkerDies
  <2>. QED BY <2>1, WorkersSkipNothing DEF SkipInv
<1>4. ASSUME NEW p \in Procs, WorkerWorks(p) PROVE SkipInv'
  <2>1. ASSUME NEW msg \in BagToSet(queue), Delivered(p, msg) PROVE SkipInv'
    <3>1. UNCHANGED scanned
      BY <2>1 DEF Delivered
    <3>2. handed' \in [Txs -> Nat]
      BY <2>1 DEF Delivered, SkipInv
    <3>. QED BY <2>1, <3>1, <3>2, WorkersSkipNothing
  <2>2. CASE ~\E msg \in BagToSet(queue) : Delivered(p, msg)
    <3>1. UNCHANGED scanned /\ UNCHANGED <<queue, handed>>
      BY <1>4, <2>2 DEF WorkerWorks, AcquiresLock, LockFails, Receipts, Pays,
         InsertsData, SettlesBalances, UpdatesLogs, ReleasesLock, ReleaseFails,
         dbvars
    <3>. QED BY <3>1, WorkersSkipNothing DEF SkipInv
  <2>. QED BY <2>1, <2>2
<1>. QED BY <1>1, <1>2, <1>3, <1>4 DEF Next

(* No block the file counts as scanned has a transaction that no worker    *)
(* was or will be handed (NothingSkipped), for any chain, any number of    *)
(* nodes and any sizes of batches: however the delegator is stopped or     *)
(* killed, and whatever fails.                                             *)
THEOREM ScanSkipsNothing == Spec => []NothingSkipped
<1>1. SkipInv => NothingSkipped
  <2> SUFFICES ASSUME SkipInv, NEW b \in 1 .. file, NEW t \in ToSet(case.blocks[b])
               PROVE  Covered(t)
    BY DEF NothingSkipped, Covered
  <2>1. file \in Counted
    BY DEF SkipInv, Counted, Damaged
  <2>. QED BY <2>1 DEF SkipInv
<1>. QED BY <1>1, SkipInvInit, SkipInvStep, PTL DEF Spec

-----------------------------------------------------------------------------
(* Why a transfer of the platform is recognised.  Its row is free until it *)
(* is delivered (Seen), the job it is first delivered to locks it and so   *)
(* finds it among the known ones, and has it until it completes the item   *)
(* (Kept).                                                                 *)
Seen(t) ==
  /\ handed[t] = 0 => meta[t].status = "submitted" /\ meta[t].lock = NoLock
  /\ handed[t] <= 1 =>
       /\ entered[t] = 0
       /\ \A p \in Procs :
            /\ job[p].pc = "locked" /\ t \in InBatch(p) =>
                 meta[t].lock = job[p].lock
            /\ t \notin job[p].unknown

Has(p, t) ==
  /\ t \in InBatch(p)
  /\ \/ job[p].pc = "locked" /\ meta[t].lock = job[p].lock
     \/ job[p].pc \in {"decoded", "inserting", "settling"} /\ t \in job[p].known

Kept(t) ==
  handed[t] > 0 /\ t \notin dropped /\ ~Happened("update") =>
    item[t] = "complete" \/ \E p \in Procs : Has(p, t)

KnowFacts ==
  /\ JobLocks
  /\ \A t \in Own : ~t.late => Seen(t) /\ (deaths = 0 => Kept(t))

KnowTypes ==
  /\ handed \in [Txs -> Nat] /\ entered \in [Txs -> Nat]
  /\ DOMAIN item = Own

KnowInv == PayInv /\ KnowTypes /\ (~SharedLockIds => KnowFacts)

LEMMA OwnAreTxs == Own \subseteq Txs
BY DEF Own

LEMMA FailuresGrow ==
  ASSUME NEW k, MayFail(k)
  PROVE  Happened(k)' /\ \A m : Happened(m) => Happened(m)'
BY DEF MayFail, Happened, BagIn, BagToSet, SetToBag, (+)

LEMMA KnowInvInit == Init => KnowInv
<1> SUFFICES ASSUME Init PROVE KnowInv
  OBVIOUS
<1>1. PayInv /\ KnowTypes
  BY PayInvInit DEF Init, KnowTypes
<1>2. JobLocks
  BY DEF Init, JobLocks, Idle
<1>3. ASSUME NEW t \in Own, ~t.late PROVE Seen(t) /\ Kept(t)
  BY <1>3, OwnAreTxs DEF Init, Seen, Kept, Idle
<1>. QED BY <1>1, <1>2, <1>3 DEF KnowInv, KnowFacts

(* What the delegator does, and a row that is written late.                *)
LEMMA AsideKnows ==
  ASSUME KnowInv, PayInv', UNCHANGED <<case, wvars, item, entered>>,
         failures' = failures \/ \E k : MayFail(k),
         \A t \in Own : /\ meta'[t].lock = meta[t].lock
                        /\ meta[t].status = "submitted" => meta'[t].status = "submitted"
  PROVE  KnowInv'
<1>1. /\ Own' = Own /\ Txs' = Txs /\ Procs' = Procs
      /\ SharedLockIds' = SharedLockIds
      /\ UNCHANGED <<handed, dropped, job, deaths>>
  BY CaseSame DEF wvars, Txs
<1>2. Happened("update") => Happened("update")'
  BY FailuresGrow DEF Happened
<1>3. KnowTypes'
  BY <1>1 DEF KnowInv, KnowTypes
<1>4. ASSUME KnowFacts PROVE KnowFacts'
  <2>1. JobLocks'
    BY <1>1, <1>4 DEF KnowFacts, JobLocks
  <2>2. ASSUME NEW t \in Own, ~t.late PROVE Seen(t)'
    BY <1>1, <1>4, <2>2 DEF KnowFacts, Seen, InBatch
  <2>3. ASSUME NEW t \in Own, ~t.late, deaths = 0 PROVE Kept(t)'
    <3>1. Kept(t)
      BY <1>4, <2>3 DEF KnowFacts
    <3>2. \A p \in Procs : Has(p, t) => Has(p, t)'
      BY <1>1, <2>3 DEF Has, InBatch
    <3>. QED BY <1>1, <1>2, <3>1, <3>2 DEF Kept
  <2>. QED BY <1>1, <2>1, <2>2, <2>3 DEF KnowFacts
<1>. QED BY <1>1, <1>3, <1>4 DEF KnowInv

(* A step of a job past its lock keeps what it has, completes it, drops it *)
(* or fails to complete it.                                                *)
LEMMA OnwardKnows ==
  ASSUME KnowInv, PayInv', NEW p \in Procs,
         UNCHANGED <<case, handed, deaths, meta>>,
         \A q \in Procs \ {p} : job'[q] = job[q],
         job[p].pc # "idle", job'[p].pc \notin {"idle", "locked"},
         job'[p].lock = job[p].lock, job'[p].msg = job[p].msg,
         entered' \in [Txs -> Nat], DOMAIN item' = Own,
         failures' = failures \/ \E k : MayFail(k),
         dropped \subseteq dropped',
         \A t \in Own : item[t] = "complete" => item'[t] = "complete",
         \A t \in Own : ~SharedLockIds /\ ~t.late /\ handed[t] <= 1 =>
           entered'[t] = 0 /\ t \notin job'[p].unknown,
         \A t \in Own : Has(p, t) =>
           \/ Has(p, t)' \/ item'[t] = "complete" \/ t \in dropped'
           \/ Happened("update")'
  PROVE  KnowInv'
<1>1. /\ Own' = Own /\ Txs' = Txs /\ Procs' = Procs
      /\ SharedLockIds' = SharedLockIds
  BY CaseSame DEF Txs
<1>2. Happened("update") => Happened("update")'
  BY FailuresGrow DEF Happened
<1>3. KnowTypes'
  BY <1>1 DEF KnowInv, KnowTypes
<1>4. ASSUME KnowFacts, ~SharedLockIds PROVE KnowFacts'
  <2>1. JobLocks'
    BY <1>1, <1>4 DEF KnowFacts, JobLocks
  <2>2. ASSUME NEW t \in Own, ~t.late PROVE Seen(t)'
    <3>1. Seen(t)
      BY <1>4, <2>2 DEF KnowFacts
    <3>. QED BY <1>1, <1>4, <2>2, <3>1 DEF Seen, InBatch
  <2>3. ASSUME NEW t \in Own, ~t.late, deaths = 0 PROVE Kept(t)'
    <3>1. Kept(t)
      BY <1>4, <2>3 DEF KnowFacts
    <3>2. \A q \in Procs \ {p} : Has(q, t) => Has(q, t)'
      BY DEF Has, InBatch
    <3>. QED BY <1>1, <1>2, <3>1, <3>2 DEF Kept
  <2>. QED BY <1>1, <2>1, <2>2, <2>3 DEF KnowFacts
<1>. QED BY <1>1, <1>3, <1>4 DEF KnowInv

LEMMA GivesUpKnows ==
  ASSUME KnowInv, PayInv', NEW p \in Procs, GivesUp(p),
         UNCHANGED <<case, handed, deaths, meta, entered, item>>,
         job[p].pc # "idle", failures' = failures \/ \E k : MayFail(k)
  PROVE  KnowInv'
<1>1. /\ \A q \in Procs \ {p} : job'[q] = job[q]
      /\ job'[p] = [job[p] EXCEPT !.pc = "release"]
      /\ DOMAIN job[p] = Fields
  BY DEF GivesUp, Goto, KnowInv, PayInv, TypeInv
<1>2. /\ job'[p].pc = "release" /\ job'[p].lock = job[p].lock
      /\ job'[p].msg = job[p].msg /\ job'[p].unknown = job[p].unknown
  BY <1>1 DEF Fields
<1>3. \A t \in Own : Has(p, t) => t \in dropped'
  BY DEF Has, GivesUp
<1>4. \A t \in Own : ~SharedLockIds /\ ~t.late /\ handed[t] <= 1 =>
        entered'[t] = 0 /\ t \notin job'[p].unknown
  BY <1>2 DEF KnowInv, KnowFacts, Seen
<1>5. dropped \subseteq dropped'
  BY DEF GivesUp
<1>6. entered' \in [Txs -> Nat] /\ DOMAIN item' = Own
  BY DEF KnowInv, KnowTypes
<1>. QED BY <1>1, <1>2, <1>3, <1>4, <1>5, <1>6, OnwardKnows

LEMMA ReceiptsKnows ==
  ASSUME KnowInv, PayInv', NEW p \in Procs, Receipts(p)
  PROVE  KnowInv'
<1>1. /\ UNCHANGED <<case, handed, deaths, meta, entered, item>>
      /\ job[p].pc = "locked" /\ (failures' = failures \/ \E k : MayFail(k))
  BY DEF Receipts, scanned, dbvars
<1>2. CASE GivesUp(p)
  BY <1>1, <1>2, GivesUpKnows
<1>3. CASE ~GivesUp(p)
  <2>1. /\ job' = [job EXCEPT ![p].pc = "decoded",
                             ![p].known = Recognised(p),
                             ![p].unknown = InBatch(p) \ Recognised(p)]
        /\ UNCHANGED dropped
    BY <1>3 DEF Receipts
  <2>2. /\ \A q \in Procs \ {p} : job'[q] = job[q]
        /\ job'[p].pc = "decoded" /\ job'[p].lock = job[p].lock
        /\ job'[p].msg = job[p].msg
        /\ job'[p].known = LockedBy(job[p].lock)
        /\ job'[p].unknown = InBatch(p) \ LockedBy(job[p].lock)
    BY <2>1 DEF KnowInv, PayInv, TypeInv, Fields, Recognised
  <2>3. \A t \in Own : Has(p, t) => Has(p, t)'
    BY <1>1, <2>2 DEF Has, InBatch, LockedBy
  <2>4. \A t \in Own : ~SharedLockIds /\ ~t.late /\ handed[t] <= 1 =>
          entered'[t] = 0 /\ t \notin job'[p].unknown
    BY <1>1, <2>2 DEF KnowInv, KnowFacts, Seen, LockedBy
  <2>5. entered' \in [Txs -> Nat] /\ DOMAIN item' = Own
    BY <1>1 DEF KnowInv, KnowTypes
  <2>. QED BY <1>1, <2>1, <2>2, <2>3, <2>4, <2>5, OnwardKnows
<1>. QED BY <1>2, <1>3

(* A job that turns to its next step has what it had.                      *)
LEMMA GoesOnKnows ==
  ASSUME KnowInv, PayInv', NEW p \in Procs, NEW c,
         \/ \E l \in {"inserting", "settling"} : \E ts : Turns(p, l, ts)
         \/ Without(p, c),
         job[p].pc \in {"decoded", "inserting", "settling"},
         Without(p, c) => job[p].pc # "decoded",
         UNCHANGED <<case, handed, deaths, meta, item, dropped>>,
         failures' = failures \/ \E k : MayFail(k),
         entered' \in [Txs -> Nat],
         \A t \in Txs : t \notin job[p].unknown => entered'[t] = entered[t]
  PROVE  KnowInv'
<1>1. /\ \A q \in Procs \ {p} : job'[q] = job[q]
      /\ job'[p].lock = job[p].lock /\ job'[p].known = job[p].known
      /\ job'[p].msg = job[p].msg /\ job'[p].unknown = job[p].unknown
      /\ job'[p].pc \in {"inserting", "settling"}
  BY TurnsOrStays DEF KnowInv
<1>2. \A t \in Own : Has(p, t) => Has(p, t)'
  BY <1>1 DEF Has, InBatch
<1>3. \A t \in Own : ~SharedLockIds /\ ~t.late /\ handed[t] <= 1 =>
        entered'[t] = 0 /\ t \notin job'[p].unknown
  BY <1>1, OwnAreTxs DEF KnowInv, KnowFacts, Seen
<1>. QED BY <1>1, <1>2, <1>3, OnwardKnows DEF KnowInv, KnowTypes

LEMMA PaysKnows ==
  ASSUME KnowInv, PayInv', NEW p \in Procs, Pays(p)
  PROVE  KnowInv'
<1>1. /\ UNCHANGED <<case, handed, deaths, meta, entered, item>>
      /\ job[p].pc = "decoded" /\ (failures' = failures \/ \E k : MayFail(k))
  BY DEF Pays, scanned
<1>2. CASE GivesUp(p)
  BY <1>1, <1>2, GivesUpKnows
<1>3. CASE ~GivesUp(p)
  <2>1. /\ \E l \in {"inserting", "settling"} : \E ts : Turns(p, l, ts)
        /\ UNCHANGED dropped
    BY <1>3 DEF Pays
  <2>2. \A c : ~Without(p, c)
    <3>1. job'[p].pc \in {"inserting", "settling"}
      BY <2>1, TurnsOrStays DEF KnowInv
    <3>. QED BY <1>1, <3>1, TurnsOrStays DEF KnowInv
  <2>. QED BY <1>1, <2>1, <2>2, GoesOnKnows DEF KnowInv, KnowTypes
<1>. QED BY <1>2, <1>3

LEMMA LaterKnows ==
  ASSUME KnowInv, PayInv', NEW p \in Procs, NEW c,
         InsertsData(p, c) \/ SettlesBalances(p, c)
  PROVE  KnowInv'
<1>1. /\ UNCHANGED <<case, handed, deaths, meta, item>>
      /\ job[p].pc \in {"inserting", "settling"}
      /\ failures' = failures \/ \E k : MayFail(k)
  BY DEF InsertsData, SettlesBalances, scanned
<1>2. CASE GivesUp(p) /\ UNCHANGED entered
  BY <1>1, <1>2, GivesUpKnows
<1>3. CASE ~(GivesUp(p) /\ UNCHANGED entered)
  <2>1. UNCHANGED dropped
        /\ ((\E ts : Turns(p, "settling", ts)) \/ Without(p, c))
    BY <1>3 DEF InsertsData, SettlesBalances
  <2>2. \/ entered' = entered
        \/ entered' = [t \in Txs |->
               entered[t] + IF t \in Transfers(p, c) /\ t.first THEN 1 ELSE 0]
    BY DEF InsertsData, SettlesBalances
  <2>3. /\ entered' \in [Txs -> Nat]
        /\ \A t \in Txs : t \notin job[p].unknown => entered'[t] = entered[t]
    BY <2>2 DEF KnowInv, KnowTypes, Transfers, External
  <2>. QED BY <1>1, <2>1, <2>3, GoesOnKnows
<1>. QED BY <1>2, <1>3

LEMMA UpdatesLogsKnows ==
  ASSUME KnowInv, PayInv', NEW p \in Procs, UpdatesLogs(p)
  PROVE  KnowInv'
<1>1. /\ UNCHANGED <<case, handed, deaths, meta, entered, dropped>>
      /\ job[p].pc = "settling" /\ Goto(p, "release")
  BY DEF UpdatesLogs, scanned
<1>2. PICK done \in SUBSET job[p].known :
        /\ IF done = job[p].known THEN UNCHANGED failures ELSE MayFail("update")
        /\ item' = [t \in Own |-> IF t \in done THEN "complete" ELSE item[t]]
  BY DEF UpdatesLogs
<1>3. /\ \A q \in Procs \ {p} : job'[q] = job[q]
      /\ job'[p].pc = "release" /\ job'[p].lock = job[p].lock
      /\ job'[p].msg = job[p].msg /\ job'[p].unknown = job[p].unknown
  BY <1>1 DEF Goto, KnowInv, PayInv, TypeInv, Fields
<1>4. \A t \in Own : Has(p, t) => item'[t] = "complete" \/ Happened("update")'
  <2>1. CASE done = job[p].known
    BY <1>1, <1>2, <2>1 DEF Has
  <2>2. CASE done # job[p].known
    BY <1>2, <2>2, FailuresGrow
  <2>. QED BY <2>1, <2>2
<1>5. \A t \in Own : ~SharedLockIds /\ ~t.late /\ handed[t] <= 1 =>
        entered'[t] = 0 /\ t \notin job'[p].unknown
  BY <1>1, <1>3 DEF KnowInv, KnowFacts, Seen
<1>6. /\ entered' \in [Txs -> Nat] /\ DOMAIN item' = Own
      /\ \A t \in Own : item[t] = "complete" => item'[t] = "complete"
      /\ failures' = failures \/ \E k : MayFail(k)
  BY <1>1, <1>2 DEF KnowInv, KnowTypes
<1>. QED BY <1>1, <1>3, <1>4, <1>5, <1>6, OnwardKnows

LEMMA ReleasesLockKnows ==
  ASSUME KnowInv, PayInv', NEW p \in Procs, ReleasesLock(p)
  PROVE  KnowInv'
<1>1. /\ UNCHANGED <<case, handed, deaths, entered, item, dropped, failures>>
      /\ job[p].pc = "release" /\ job' = [job EXCEPT ![p] = Idle]
      /\ meta' = [t \in Own |-> IF meta[t].lock = job[p].lock
                                 THEN [meta[t] EXCEPT !.lock = NoLock]
                                 ELSE meta[t]]
  BY DEF ReleasesLock, scanned
<1>2. /\ Own' = Own /\ Txs' = Txs /\ Procs' = Procs
      /\ SharedLockIds' = SharedLockIds
  BY <1>1, CaseSame DEF Txs
<1>3. /\ \A q \in Procs \ {p} : job'[q] = job[q]
      /\ job'[p].pc = "idle" /\ job'[p].lock = NoLock /\ job'[p].unknown = {}
  BY <1>1 DEF KnowInv, PayInv, TypeInv, Idle
<1>4. \A t \in Own : /\ meta'[t].status = meta[t].status
                     /\ meta'[t].lock = IF meta[t].lock = job[p].lock
                                          THEN NoLock ELSE meta[t].lock
  BY <1>1 DEF KnowInv, PayInv, TypeInv
<1>5. ASSUME KnowFacts, ~SharedLockIds PROVE KnowFacts'
  <2>1. JobLocks'
    BY <1>2, <1>3, <1>5 DEF KnowFacts, JobLocks
  <2>2. ASSUME NEW q \in Procs, q # p, job[q].pc # "idle"
        PROVE  job[q].lock # job[p].lock
    BY <1>5, <2>2, TwoLocks DEF KnowFacts
  <2>3. ASSUME NEW t \in Own, ~t.late PROVE Seen(t)'
    <3>1. Seen(t)
      BY <1>5, <2>3 DEF KnowFacts
    <3>. QED BY <1>1, <1>2, <1>3, <1>4, <2>2, <3>1 DEF Seen, InBatch
  <2>4. ASSUME NEW t \in Own, ~t.late, deaths = 0 PROVE Kept(t)'
    <3>1. Kept(t)
      BY <1>5, <2>4 DEF KnowFacts
    <3>2. \A q \in Procs : Has(q, t) => Has(q, t)'
      BY <1>1, <1>3, <1>4, <2>2 DEF Has, InBatch
    <3>. QED BY <1>1, <1>2, <3>1, <3>2 DEF Kept, Happened
  <2>. QED BY <1>1, <1>2, <2>1, <2>3, <2>4 DEF KnowFacts
<1>6. KnowTypes'
  BY <1>1, <1>2 DEF KnowInv, KnowTypes
<1>. QED BY <1>2, <1>5, <1>6 DEF KnowInv

LEMMA AcquiresLockKnows ==
  ASSUME KnowInv, PayInv', NEW p \in Procs, NEW msg, AcquiresLock(p, msg)
  PROVE  KnowInv'
<1> DEFINE l == <<prefix[p], DropZeros[p]>>
<1>1. /\ UNCHANGED <<case, deaths, entered, item, dropped, failures>>
      /\ job[p].pc = "idle"
      /\ job' = [job EXCEPT ![p] = [Idle EXCEPT !.pc = "locked", !.msg = msg,
                                                !.lock = l]]
      /\ handed' = [t \in Txs |-> handed[t] + IF t \in ToSet(msg.txs) THEN 1 ELSE 0]
      /\ meta' = [t \in Own |-> IF t \in Acquired(p, msg)
                                 THEN [status |-> "mined", lock |-> l]
                                 ELSE meta[t]]
  BY DEF AcquiresLock, Delivered, LocksRows, LockId, scanned
<1>2. /\ Own' = Own /\ Txs' = Txs /\ Procs' = Procs
      /\ SharedLockIds' = SharedLockIds
  BY <1>1, CaseSame DEF Txs
<1>3. /\ \A q \in Procs \ {p} : job'[q] = job[q]
      /\ job'[p].pc = "locked" /\ job'[p].lock = l /\ job'[p].unknown = {}
      /\ job'[p].msg = msg
  BY <1>1 DEF KnowInv, PayInv, TypeInv, Idle
<1>4. prefix[p] \in Nat
  BY DEF KnowInv, PayInv, TypeInv
<1>5. handed' \in [Txs -> Nat]
      /\ \A t \in Txs : handed'[t] = handed[t] + IF t \in ToSet(msg.txs) THEN 1 ELSE 0
  BY <1>1 DEF KnowInv, KnowTypes
<1>6. \A t \in Own : handed[t] \in Nat
  BY OwnAreTxs DEF KnowInv, KnowTypes
<1>7. ASSUME KnowFacts, ~SharedLockIds PROVE KnowFacts'
  <2>1. JobLocks'
    BY <1>2, <1>3, <1>4, <1>7 DEF KnowFacts, JobLocks
  <2>2. \A q \in Procs : job[q].pc # "idle" => job[q].lock # NoLock
    BY <1>7, NoLockIsNone DEF KnowFacts, JobLocks
  <2>. HIDE DEF l
  <2>3. ASSUME NEW t \in Own
        PROVE  IF t \in Acquired(p, msg)
                 THEN meta'[t].lock = l /\ meta[t].lock = NoLock /\ t \in ToSet(msg.txs)
                 ELSE meta'[t] = meta[t]
    BY <1>1 DEF Acquired
  <2>4. ASSUME NEW t \in Own, ~t.late, handed[t] = 0, t \in ToSet(msg.txs)
        PROVE  t \in Acquired(p, msg)
    BY <1>7, <2>4 DEF KnowFacts, Seen, Acquired
  <2>5. ASSUME NEW t \in Own, ~t.late PROVE Seen(t)'
    <3>1. Seen(t) /\ handed[t] \in Nat /\ t \in Txs
      BY <1>6, <1>7, <2>5, OwnAreTxs DEF KnowFacts
    <3>2. handed'[t] = handed[t] + IF t \in ToSet(msg.txs) THEN 1 ELSE 0
      BY <1>5, <3>1
    <3>3. handed'[t] = 0 => meta'[t].status = "submitted" /\ meta'[t].lock = NoLock
      BY <2>3, <3>1, <3>2 DEF Seen
    <3>4. ASSUME handed'[t] <= 1 PROVE entered'[t] = 0 /\ handed[t] <= 1
      BY <1>1, <3>1, <3>2, <3>4 DEF Seen
    <3>5. ASSUME handed'[t] <= 1, NEW q \in Procs PROVE t \notin job'[q].unknown
      BY <1>3, <3>1, <3>4, <3>5 DEF Seen
    <3>6. ASSUME handed'[t] <= 1, NEW q \in Procs, job'[q].pc = "locked",
                 t \in ToSet(job'[q].msg.txs)
          PROVE  meta'[t].lock = job'[q].lock
      <4>1. CASE q = p
        BY <1>3, <2>3, <2>4, <2>5, <3>1, <3>2, <3>6, <4>1
      <4>2. CASE q # p
        <5>1. job'[q] = job[q] /\ meta[t].lock = job[q].lock
          BY <1>3, <3>1, <3>4, <3>6, <4>2 DEF Seen, InBatch
        <5>. QED BY <2>2, <2>3, <3>6, <5>1
      <4>. QED BY <4>1, <4>2
    <3>. QED BY <1>2, <3>3, <3>4, <3>5, <3>6 DEF Seen, InBatch
  <2>6. ASSUME NEW t \in Own, ~t.late, deaths = 0 PROVE Kept(t)'
    <3>1. Kept(t) /\ handed[t] \in Nat /\ t \in Txs
      BY <1>6, <1>7, <2>6, OwnAreTxs DEF KnowFacts
    <3>2. \A q \in Procs : Has(q, t) => Has(q, t)'
      BY <1>1, <1>3, <2>2, <2>3 DEF Has, InBatch
    <3>3. CASE handed[t] > 0
      BY <1>1, <1>2, <3>1, <3>2, <3>3 DEF Kept, Happened
    <3>4. CASE handed[t] = 0 /\ handed'[t] > 0
      <4>1. t \in ToSet(msg.txs)
        BY <1>5, <3>1, <3>4
      <4>2. Has(p, t)'
        BY <1>3, <2>3, <2>4, <2>6, <3>4, <4>1 DEF Has, InBatch
      <4>. QED BY <1>2, <4>2 DEF Kept
    <3>. QED BY <1>2, <3>1, <3>3, <3>4 DEF Kept
  <2>. QED BY <1>1, <1>2, <2>1, <2>5, <2>6 DEF KnowFacts
<1>8. KnowTypes'
  BY <1>1, <1>2, <1>5 DEF KnowInv, KnowTypes
<1>. QED BY <1>2, <1>7, <1>8 DEF KnowInv

(* A lock that fails takes its batch with it.                              *)
LEMMA LockFailsKnows ==
  ASSUME KnowInv, PayInv', NEW p \in Procs, NEW msg, LockFails(p, msg)
  PROVE  KnowInv'
<1>1. /\ UNCHANGED <<case, deaths, entered, item, job>>
      /\ dropped' = dropped \cup ToSet(msg.txs) /\ MayFail("lock")
      /\ handed' = [t \in Txs |-> handed[t] + IF t \in ToSet(msg.txs) THEN 1 ELSE 0]
      /\ LocksRows(p, msg) \/ UNCHANGED meta
  BY DEF LockFails, Delivered, scanned
<1>2. /\ Own' = Own /\ Txs' = Txs /\ Procs' = Procs
      /\ SharedLockIds' = SharedLockIds
  BY <1>1, CaseSame DEF Txs
<1>3. PICK A \in {Acquired(p, msg), {}} :
        \A t \in Own : meta'[t] = IF t \in A
          THEN [status |-> "mined", lock |-> LockId(p)] ELSE meta[t]
  BY <1>1, RowsOfDelivery DEF KnowInv
<1>4. handed' \in [Txs -> Nat]
      /\ \A t \in Txs : handed'[t] = handed[t] + IF t \in ToSet(msg.txs) THEN 1 ELSE 0
  BY <1>1 DEF KnowInv, KnowTypes
<1>5. \A t \in Own : handed[t] \in Nat
  BY OwnAreTxs DEF KnowInv, KnowTypes
<1>6. ASSUME KnowFacts, ~SharedLockIds PROVE KnowFacts'
  <2>1. JobLocks'
    BY <1>1, <1>2, <1>6 DEF KnowFacts, JobLocks
  <2>2. \A q \in Procs : job[q].pc # "idle" => job[q].lock # NoLock
    BY <1>6, NoLockIsNone DEF KnowFacts, JobLocks
  <2>3. ASSUME NEW t \in Own
        PROVE  IF t \in A THEN meta[t].lock = NoLock /\ t \in ToSet(msg.txs)
                          ELSE meta'[t] = meta[t]
    BY <1>3 DEF Acquired
  <2>4. ASSUME NEW t \in Own, NEW q \in Procs, job[q].pc # "idle",
               meta[t].lock = job[q].lock
        PROVE  meta'[t].lock = job[q].lock
    BY <2>2, <2>3, <2>4
  <2>5. ASSUME NEW t \in Own, ~t.late PROVE Seen(t)'
    <3>1. Seen(t) /\ handed[t] \in Nat /\ t \in Txs
      BY <1>5, <1>6, <2>5, OwnAreTxs DEF KnowFacts
    <3>2. handed'[t] = handed[t] + IF t \in ToSet(msg.txs) THEN 1 ELSE 0
      BY <1>4, <3>1
    <3>3. handed'[t] = 0 => meta'[t].status = "submitted" /\ meta'[t].lock = NoLock
      BY <2>3, <3>1, <3>2 DEF Seen
    <3>4. handed'[t] <= 1 => handed[t] <= 1
      BY <3>1, <3>2
    <3>5. ASSUME handed'[t] <= 1, NEW q \in Procs, job'[q].pc = "locked",
                 t \in ToSet(job'[q].msg.txs)
          PROVE  meta'[t].lock = job'[q].lock
      BY <1>1, <2>4, <3>1, <3>4, <3>5 DEF Seen, InBatch
    <3>. QED BY <1>1, <1>2, <3>1, <3>3, <3>4, <3>5 DEF Seen, InBatch
  <2>6. ASSUME NEW t \in Own, ~t.late, deaths = 0 PROVE Kept(t)'
    <3>1. Kept(t) /\ handed[t] \in Nat /\ t \in Txs
      BY <1>5, <1>6, <2>6, OwnAreTxs DEF KnowFacts
    <3>2. \A q \in Procs : Has(q, t) => Has(q, t)'
      BY <1>1, <2>4, <2>6 DEF Has, InBatch
    <3>3. Happened("update") => Happened("update")'
      BY <1>1, FailuresGrow
    <3>4. t \notin dropped' => handed'[t] = handed[t] /\ t \notin dropped
      BY <1>1, <1>4, <3>1
    <3>. QED BY <1>1, <1>2, <3>1, <3>2, <3>3, <3>4 DEF Kept
  <2>. QED BY <1>1, <1>2, <2>1, <2>5, <2>6 DEF KnowFacts
<1>7. KnowTypes'
  BY <1>1, <1>2, <1>4 DEF KnowInv, KnowTypes
<1>. QED BY <1>2, <1>6, <1>7 DEF KnowInv

LEMMA ReleaseFailsKnows ==
  ASSUME KnowInv, PayInv', NEW p \in Procs, ReleaseFails(p)
  PROVE  KnowInv'
<1>1. /\ UNCHANGED <<case, handed, deaths, entered, item, dropped, meta>>
      /\ job[p].pc = "release" /\ job' = [job EXCEPT ![p] = Idle]
      /\ MayFail("release")
  BY DEF ReleaseFails, scanned, dbvars
<1>2. /\ Own' = Own /\ Txs' = Txs /\ Procs' = Procs
      /\ SharedLockIds' = SharedLockIds
  BY <1>1, CaseSame DEF Txs
<1>3. /\ \A q \in Procs \ {p} : job'[q] = job[q]
      /\ job'[p].pc = "idle" /\ job'[p].lock = NoLock /\ job'[p].unknown = {}
  BY <1>1 DEF KnowInv, PayInv, TypeInv, Idle
<1>4. ASSUME KnowFacts, ~SharedLockIds PROVE KnowFacts'
  <2>1. JobLocks'
    BY <1>2, <1>3, <1>4 DEF KnowFacts, JobLocks
  <2>2. ASSUME NEW t \in Own, ~t.late PROVE Seen(t)'
    <3>1. Seen(t)
      BY <1>4, <2>2 DEF KnowFacts
    <3>. QED BY <1>1, <1>2, <1>3, <3>1 DEF Seen, InBatch
  <2>3. ASSUME NEW t \in Own, ~t.late, deaths = 0 PROVE Kept(t)'
    <3>1. Kept(t)
      BY <1>4, <2>3 DEF KnowFacts
    <3>2. \A q \in Procs : Has(q, t) => Has(q, t)'
      BY <1>1, <1>3 DEF Has, InBatch
    <3>3. Happened("update") => Happened("update")'
      BY <1>1, FailuresGrow
    <3>. QED BY <1>1, <1>2, <3>1, <3>2, <3>3 DEF Kept
  <2>. QED BY <1>1, <1>2, <2>1, <2>2, <2>3 DEF KnowFacts
<1>5. KnowTypes'
  BY <1>1, <1>2 DEF KnowInv, KnowTypes
<1>. QED BY <1>2, <1>4, <1>5 DEF KnowInv

LEMMA WorkerDiesKnows ==
  ASSUME KnowInv, PayInv', NEW p \in Procs, WorkerDies(p)
  PROVE  KnowInv'
<1>1. /\ UNCHANGED <<case, handed, meta, entered, item>>
      /\ job' = [job EXCEPT ![p] = Idle] /\ deaths' = deaths + 1
  BY DEF WorkerDies, scanned, dbvars
<1>2. /\ Own' = Own /\ Txs' = Txs /\ Procs' = Procs
      /\ SharedLockIds' = SharedLockIds
  BY <1>1, CaseSame DEF Txs
<1>3. /\ \A q \in Procs \ {p} : job'[q] = job[q]
      /\ job'[p].pc = "idle" /\ job'[p].lock = NoLock /\ job'[p].unknown = {}
  BY <1>1 DEF KnowInv, PayInv, TypeInv, Idle
<1>4. deaths' # 0
  BY <1>1 DEF KnowInv, PayInv, TypeInv
<1>5. ASSUME KnowFacts PROVE KnowFacts'
  <2>1. JobLocks'
    BY <1>2, <1>3, <1>5 DEF KnowFacts, JobLocks
  <2>2. ASSUME NEW t \in Own, ~t.late PROVE Seen(t)'
    <3>1. Seen(t)
      BY <1>5, <2>2 DEF KnowFacts
    <3>. QED BY <1>1, <1>2, <1>3, <3>1 DEF Seen, InBatch
  <2>. QED BY <1>2, <1>4, <2>1, <2>2 DEF KnowFacts
<1>6. KnowTypes'
  BY <1>1, <1>2 DEF KnowInv, KnowTypes
<1>. QED BY <1>2, <1>5, <1>6 DEF KnowInv

LEMMA KnowInvStep == KnowInv /\ [Next]_vars => KnowInv'
<1> SUFFICES ASSUME KnowInv, [Next]_vars PROVE KnowInv'
  OBVIOUS
<1>0. PayInv'
  BY PayInvStep DEF KnowInv
<1>1. CASE DelegatorWorks \/ DelegatorFails
  <2>1. UNCHANGED platform /\ (failures' = failures \/ \E k : MayFail(k))
    BY <1>1 DEF DelegatorWorks, DelegatorFails, Begins, Publishes, WritesFile,
       Exits, Restarts, PicksBlock, NoBlock, PublishFails, GetsSignal, Dies
  <2>. QED BY <1>0, <2>1, AsideKnows DEF platform, dbvars
<1>2. CASE UNCHANGED vars
  BY <1>0, <1>2, AsideKnows DEF vars, dbvars
<1>3. ASSUME NEW t \in Own, RowSubmitted(t) PROVE KnowInv'
  <2>1. /\ UNCHANGED <<case, wvars, item, entered, failures>>
        /\ meta' = [meta EXCEPT ![t].status = "submitted"]
    BY <1>3 DEF RowSubmitted
  <2>2. \A u \in Own : /\ meta'[u].lock = meta[u].lock
                       /\ meta[u].status = "submitted" => meta'[u].status = "submitted"
    BY <2>1 DEF KnowInv, PayInv, TypeInv
  <2>. QED BY <1>0, <2>1, <2>2, AsideKnows
<1>4. ASSUME NEW p \in Procs, WorkerWorks(p) \/ WorkerDies(p) PROVE KnowInv'
  BY <1>0, <1>4, AcquiresLockKnows, ReceiptsKnows, PaysKnows, LaterKnows,
     UpdatesLogsKnows, ReleasesLockKnows, WorkerDiesKnows, LockFailsKnows,
     ReleaseFailsKnows DEF WorkerWorks
<1>. QED BY <1>1, <1>2, <1>3, <1>4 DEF Next

(* A transfer of the platform that was delivered once, with its row in     *)
(* time, does not enter the log as an external one; and one whose job did  *)
(* not give up, and whose update did not fail, is complete there when the  *)
(* workers rest (KnownIsComplete): whatever else the batch has, whether or *)
(* not its rows can be locked, and however jobs interleave.                *)
THEOREM OwnTransfersComplete == Spec => []KnownIsComplete
<1>1. KnowInv => KnownIsComplete
  <2> SUFFICES ASSUME KnowInv, ~SharedLockIds, NEW t \in Own
               PROVE  /\ entered[t] > 0 => t.late \/ handed[t] > 1
                      /\ AtRest /\ deaths = 0 /\ handed[t] > 0 /\ t \notin dropped
                           /\ ~t.late /\ ~Happened("update")
                           => item[t] = "complete"
    BY DEF KnownIsComplete
  <2>1. handed[t] \in Nat /\ entered[t] \in Nat
    BY OwnAreTxs DEF KnowInv, KnowTypes
  <2>2. entered[t] > 0 => t.late \/ handed[t] > 1
    BY <2>1 DEF KnowInv, KnowFacts, Seen
  <2>3. ASSUME AtRest, deaths = 0, handed[t] > 0, t \notin dropped, ~t.late,
               ~Happened("update")
        PROVE  item[t] = "complete"
    <3>1. \A p \in Procs : ~Has(p, t)
      BY <2>3 DEF AtRest, Has, Idle
    <3>. QED BY <2>3, <3>1 DEF KnowInv, KnowFacts, Kept
  <2>. QED BY <2>2, <2>3
<1>. QED BY <1>1, KnowInvInit, KnowInvStep, PTL DEF Spec

-----------------------------------------------------------------------------
(* Why a lock that stays is the work of a failure.  A row has the lock of  *)
(* a job that is under way, or one left behind (LeftLocks): by a lock or a *)
(* release that failed, each of which leaves one at most.                  *)
LeftLocks ==
  {meta[t].lock : t \in Own} \ ({NoLock} \cup {job[p].lock : p \in Procs})

Explained(t) == t \in dropped \/ Happened("release")

LeftFacts ==
  /\ IsFiniteSet(LeftLocks)
  /\ Cardinality(LeftLocks) <= Failed("lock") + Failed("release")
  /\ \A t \in Own : meta[t].lock \in LeftLocks => Explained(t)

LeftInv ==
  /\ PayInv /\ IsABag(failures)
  /\ deaths = 0 /\ ~SharedLockIds => LeftFacts

LEMMA FailedGrows ==
  ASSUME IsABag(failures), NEW k, MayFail(k)
  PROVE  /\ IsABag(failures')
         /\ \A m : /\ Failed(m) \in Nat
                   /\ Failed(m)' = Failed(m) + IF m = k THEN 1 ELSE 0
BY DEF MayFail, Failed, Happened, BagIn, BagToSet, SetToBag, (+), IsABag

LEMMA LeftInvInit == Init => LeftInv
<1> SUFFICES ASSUME Init PROVE LeftInv
  OBVIOUS
<1>1. PayInv
  BY PayInvInit
<1>2. failures = EmptyBag
  BY DEF Init
<1>3. IsABag(failures) /\ \A m : Failed(m) = 0
  BY <1>2 DEF IsABag, EmptyBag, SetToBag, Failed, Happened, BagIn, BagToSet
<1>4. LeftLocks = {}
  BY DEF Init, LeftLocks
<1>5. IsFiniteSet(LeftLocks) /\ Cardinality(LeftLocks) = 0
  BY <1>4, FS_EmptySet
<1>. QED BY <1>1, <1>3, <1>4, <1>5 DEF LeftInv, LeftFacts

(* A step that leaves no lock behind, or one lock as it fails.             *)
LEMMA LeftStep ==
  ASSUME LeftInv, PayInv', UNCHANGED case, deaths' = 0 => deaths = 0,
         dropped \subseteq dropped', NEW x,
         failures' = failures \/ \E k : MayFail(k),
         deaths' = 0 /\ ~SharedLockIds =>
           /\ \/ LeftLocks' \subseteq LeftLocks
              \/ /\ MayFail("lock") \/ MayFail("release")
                 /\ LeftLocks' \subseteq LeftLocks \cup {x}
           /\ \A t \in Own : meta'[t].lock \in LeftLocks' =>
                meta[t].lock \in LeftLocks \/ Explained(t)'
  PROVE  LeftInv'
<1>1. Own' = Own /\ Procs' = Procs /\ SharedLockIds' = SharedLockIds
  BY CaseSame
<1>2. /\ IsABag(failures')
      /\ \A m : /\ Failed(m) \in Nat /\ Failed(m)' \in Nat
                /\ Failed(m)' >= Failed(m)
                /\ MayFail(m) => Failed(m)' = Failed(m) + 1
  <2>1. IsABag(failures)
    BY DEF LeftInv
  <2>2. CASE failures' = failures
    <3>1. \A m : Failed(m) \in Nat /\ Failed(m)' = Failed(m)
      BY <2>1, <2>2 DEF Failed, Happened, BagIn, BagToSet, IsABag
    <3>2. \A m : ~MayFail(m)
      <4>1. ASSUME NEW m, MayFail(m) PROVE FALSE
        <5>1. Failed(m) \in Nat /\ Failed(m)' = Failed(m) + 1
          BY <2>1, <4>1, FailedGrows
        <5>. QED BY <3>1, <5>1
      <4>. QED BY <4>1
    <3>. QED BY <2>1, <2>2, <3>1, <3>2
  <2>3. ASSUME NEW k, MayFail(k)
        PROVE  /\ IsABag(failures')
               /\ \A m : /\ Failed(m) \in Nat /\ Failed(m)' \in Nat
                         /\ Failed(m)' >= Failed(m)
    <3>1. IsABag(failures')
          /\ \A m : /\ Failed(m) \in Nat
                    /\ Failed(m)' = Failed(m) + IF m = k THEN 1 ELSE 0
      BY <2>1, <2>3, FailedGrows
    <3>. QED BY <3>1
  <2>4. \A m : MayFail(m) => Failed(m)' = Failed(m) + 1
    <3>1. ASSUME NEW m, MayFail(m) PROVE Failed(m)' = Failed(m) + 1
      BY <2>1, <3>1, FailedGrows
    <3>. QED BY <3>1
  <2>. QED BY <2>2, <2>3, <2>4
<1>3. ASSUME deaths' = 0, ~SharedLockIds PROVE LeftFacts'
  <2>1. LeftFacts
    BY <1>3 DEF LeftInv
  <2>2. /\ IsFiniteSet(LeftLocks \cup {x})
        /\ Cardinality(LeftLocks) \in Nat
        /\ Cardinality(LeftLocks \cup {x}) \in Nat
        /\ Cardinality(LeftLocks \cup {x}) <= Cardinality(LeftLocks) + 1
    <3>1. IsFiniteSet(LeftLocks) /\ Cardinality(LeftLocks) \in Nat
      BY <2>1, FS_CardinalityType DEF LeftFacts
    <3>2. /\ IsFiniteSet(LeftLocks \cup {x})
          /\ Cardinality(LeftLocks \cup {x}) = Cardinality(LeftLocks)
             \/ Cardinality(LeftLocks \cup {x}) = Cardinality(LeftLocks) + 1
      BY <3>1, FS_AddElement
    <3>. QED BY <3>1, <3>2
  <2>3. CASE LeftLocks' \subseteq LeftLocks
    <3>1. IsFiniteSet(LeftLocks') /\ Cardinality(LeftLocks') <= Cardinality(LeftLocks)
      BY <2>1, <2>3, FS_Subset DEF LeftFacts
    <3>2. Cardinality(LeftLocks') \in Nat
      BY <3>1, FS_CardinalityType
    <3>3. Cardinality(LeftLocks') <= Failed("lock")' + Failed("release")'
      BY <1>2, <2>1, <2>2, <3>1, <3>2 DEF LeftFacts
    <3>4. ASSUME NEW t \in Own, meta'[t].lock \in LeftLocks' PROVE Explained(t)'
      BY <1>3, <2>1, <3>4, FailuresGrow DEF LeftFacts, Explained, Happened
    <3>. QED BY <1>1, <3>1, <3>3, <3>4 DEF LeftFacts
  <2>4. CASE (MayFail("lock") \/ MayFail("release"))
              /\ LeftLocks' \subseteq LeftLocks \cup {x}
    <3>1. /\ IsFiniteSet(LeftLocks')
          /\ Cardinality(LeftLocks') <= Cardinality(LeftLocks \cup {x})
      BY <2>2, <2>4, FS_Subset
    <3>2. Cardinality(LeftLocks') \in Nat
      BY <3>1, FS_CardinalityType
    <3>3. Failed("lock")' + Failed("release")' >= Failed("lock") + Failed("release") + 1
      <4>1. CASE MayFail("lock")
        BY <1>2, <4>1
      <4>2. CASE MayFail("release")
        BY <1>2, <4>2
      <4>. QED BY <2>4, <4>1, <4>2
    <3>4. Cardinality(LeftLocks') <= Failed("lock")' + Failed("release")'
      BY <1>2, <2>1, <2>2, <3>1, <3>2, <3>3 DEF LeftFacts
    <3>5. ASSUME NEW t \in Own, meta'[t].lock \in LeftLocks' PROVE Explained(t)'
      BY <1>3, <2>1, <3>5, FailuresGrow DEF LeftFacts, Explained, Happened
    <3>. QED BY <1>1, <3>1, <3>4, <3>5 DEF LeftFacts
  <2>. QED BY <1>3, <2>3, <2>4
<1>. QED BY <1>1, <1>2, <1>3 DEF LeftInv

(* Jobs that keep their locks, and rows that keep theirs.                  *)
LEMMA LocksStay ==
  ASSUME LeftInv, PayInv', UNCHANGED case, deaths' = deaths,
         dropped \subseteq dropped',
         failures' = failures \/ \E k : MayFail(k),
         \A q \in Procs : job'[q].lock = job[q].lock,
         \A t \in Own : meta'[t].lock = meta[t].lock
  PROVE  LeftInv'
<1>1. LeftLocks' = LeftLocks
  BY CaseSame DEF LeftLocks
<1>. QED BY <1>1, LeftStep

LEMMA OnwardLeaves ==
  ASSUME LeftInv, PayInv', NEW p \in Procs, NEW c,
         \/ Receipts(p) \/ Pays(p) \/ InsertsData(p, c)
         \/ SettlesBalances(p, c) \/ UpdatesLogs(p)
  PROVE  LeftInv'
<1>1. /\ UNCHANGED <<case, deaths, meta>>
      /\ failures' = failures \/ \E k : MayFail(k)
      /\ dropped \subseteq dropped'
  BY DEF Receipts, Pays, InsertsData, SettlesBalances, UpdatesLogs, GivesUp,
     scanned, dbvars
<1>2. \/ Goto(p, "release")
      \/ job' = [job EXCEPT ![p].pc = "decoded",
                            ![p].known = Recognised(p),
                            ![p].unknown = InBatch(p) \ Recognised(p)]
      \/ \E l \in {"inserting", "settling"} : \E ts : Turns(p, l, ts)
      \/ Without(p, c)
  BY LaterJob DEF Receipts, Pays, UpdatesLogs, GivesUp
<1>3. \A q \in Procs : job'[q].lock = job[q].lock
  <2>1. PayInv
    BY DEF LeftInv
  <2>2. CASE Goto(p, "release")
    BY <2>1, <2>2, GoesOn
  <2>3. CASE job' = [job EXCEPT ![p].pc = "decoded",
                                ![p].known = Recognised(p),
                                ![p].unknown = InBatch(p) \ Recognised(p)]
    BY <2>1, <2>3 DEF PayInv, TypeInv, Fields
  <2>4. CASE Without(p, c) \/ \E l \in {"inserting", "settling"} : \E ts : Turns(p, l, ts)
    BY <2>1, <2>4, TurnsOrStays
  <2>. QED BY <1>2, <2>2, <2>3, <2>4
<1>. QED BY <1>1, <1>3, LocksStay

LEMMA AcquiresLockLeaves ==
  ASSUME LeftInv, PayInv', NEW p \in Procs, NEW msg, AcquiresLock(p, msg)
  PROVE  LeftInv'
<1>1. /\ UNCHANGED <<case, deaths, dropped, failures>> /\ job[p].pc = "idle"
      /\ job' = [job EXCEPT ![p] = [Idle EXCEPT !.pc = "locked", !.msg = msg,
                                                !.lock = LockId(p)]]
      /\ LocksRows(p, msg)
  BY DEF AcquiresLock, Delivered, scanned
<1>2. /\ \A q \in Procs \ {p} : job'[q] = job[q]
      /\ job'[p].lock = LockId(p)
  BY <1>1 DEF LeftInv, PayInv, TypeInv, Idle
<1>3. \A t \in Own : meta'[t].lock \in {meta[t].lock, LockId(p)}
  BY <1>1 DEF LocksRows
<1>4. ASSUME deaths = 0, ~SharedLockIds
      PROVE  \A t \in Own : meta'[t].lock \in LeftLocks' =>
               meta'[t].lock = meta[t].lock /\ meta[t].lock \in LeftLocks
  <2>1. job[p].lock = NoLock
    BY <1>1, <1>4 DEF LeftInv, PayInv, JobLocks
  <2>. QED BY <1>1, <1>2, <1>3, <2>1, CaseSame DEF LeftLocks
<1>5. deaths = 0 /\ ~SharedLockIds => LeftLocks' \subseteq LeftLocks
  BY <1>1, <1>4, CaseSame DEF LeftLocks
<1>. QED BY <1>1, <1>4, <1>5, LeftStep

LEMMA LockFailsLeaves ==
  ASSUME LeftInv, PayInv', NEW p \in Procs, NEW msg, LockFails(p, msg)
  PROVE  LeftInv'
<1>1. /\ UNCHANGED <<case, deaths, job>> /\ MayFail("lock")
      /\ dropped' = dropped \cup ToSet(msg.txs)
      /\ LocksRows(p, msg) \/ UNCHANGED meta
  BY DEF LockFails, Delivered, scanned
<1>2. \A t \in Own : \/ meta'[t].lock = meta[t].lock
                     \/ meta'[t].lock = LockId(p) /\ t \in dropped'
  BY <1>1 DEF LocksRows, Acquired
<1>3. LeftLocks' \subseteq LeftLocks \cup {LockId(p)}
  BY <1>1, <1>2, CaseSame DEF LeftLocks
<1>4. \A t \in Own : meta'[t].lock \in LeftLocks' =>
        meta[t].lock \in LeftLocks \/ Explained(t)'
  BY <1>1, <1>2, CaseSame DEF LeftLocks, Explained
<1>. QED BY <1>1, <1>3, <1>4, LeftStep

LEMMA ReleasesLockLeaves ==
  ASSUME LeftInv, PayInv', NEW p \in Procs, ReleasesLock(p)
  PROVE  LeftInv'
<1>1. /\ UNCHANGED <<case, deaths, dropped, failures>>
      /\ job' = [job EXCEPT ![p] = Idle]
      /\ meta' = [t \in Own |-> IF meta[t].lock = job[p].lock
                                 THEN [meta[t] EXCEPT !.lock = NoLock]
                                 ELSE meta[t]]
  BY DEF ReleasesLock, scanned
<1>2. \A q \in Procs \ {p} : job'[q] = job[q]
  BY <1>1 DEF LeftInv, PayInv, TypeInv
<1>3. \A t \in Own : meta'[t].lock = IF meta[t].lock = job[p].lock
                                       THEN NoLock ELSE meta[t].lock
  BY <1>1 DEF LeftInv, PayInv, TypeInv
<1>4. \A t \in Own : meta'[t].lock \in LeftLocks' =>
        meta'[t].lock = meta[t].lock /\ meta[t].lock \in LeftLocks
  BY <1>1, <1>2, <1>3, CaseSame DEF LeftLocks
<1>5. LeftLocks' \subseteq LeftLocks
  BY <1>1, <1>4, CaseSame DEF LeftLocks
<1>. QED BY <1>1, <1>4, <1>5, LeftStep

LEMMA ReleaseFailsLeaves ==
  ASSUME LeftInv, PayInv', NEW p \in Procs, ReleaseFails(p)
  PROVE  LeftInv'
<1>1. /\ UNCHANGED <<case, deaths, dropped, meta>> /\ MayFail("release")
      /\ job' = [job EXCEPT ![p] = Idle]
  BY DEF ReleaseFails, scanned, dbvars
<1>2. \A q \in Procs \ {p} : job'[q] = job[q]
  BY <1>1 DEF LeftInv, PayInv, TypeInv
<1>3. LeftLocks' \subseteq LeftLocks \cup {job[p].lock}
  BY <1>1, <1>2, CaseSame DEF LeftLocks
<1>4. \A t \in Own : Explained(t)'
  BY <1>1, FailuresGrow DEF Explained
<1>. QED BY <1>1, <1>3, <1>4, LeftStep

LEMMA LeftInvStep == LeftInv /\ [Next]_vars => LeftInv'
<1> SUFFICES ASSUME LeftInv, [Next]_vars PROVE LeftInv'
  OBVIOUS
<1>0. PayInv'
  BY PayInvStep DEF LeftInv
<1>1. CASE DelegatorWorks \/ DelegatorFails \/ UNCHANGED vars
  <2>1. UNCHANGED platform /\ (failures' = failures \/ \E k : MayFail(k))
    BY <1>1 DEF DelegatorWorks, DelegatorFails, Begins, Publishes, WritesFile,
       Exits, Restarts, PicksBlock, NoBlock, PublishFails, GetsSignal, Dies,
       vars, platform
  <2>. QED BY <1>0, <2>1, LocksStay DEF platform, wvars, dbvars
<1>2. ASSUME NEW t \in Own, RowSubmitted(t) PROVE LeftInv'
  <2>1. /\ UNCHANGED <<case, wvars, failures>>
        /\ meta' = [meta EXCEPT ![t].status = "submitted"]
    BY <1>2 DEF RowSubmitted
  <2>2. \A u \in Own : meta'[u].lock = meta[u].lock
    BY <2>1 DEF LeftInv, PayInv, TypeInv
  <2>. QED BY <1>0, <2>1, <2>2, LocksStay DEF wvars
<1>3. ASSUME NEW p \in Procs, WorkerWorks(p) PROVE LeftInv'
  BY <1>0, <1>3, AcquiresLockLeaves, LockFailsLeaves, OnwardLeaves,
     ReleasesLockLeaves, ReleaseFailsLeaves DEF WorkerWorks
<1>4. ASSUME NEW p \in Procs, WorkerDies(p) PROVE LeftInv'
  <2>1. deaths' # 0 /\ UNCHANGED failures
    BY <1>4 DEF WorkerDies, LeftInv, PayInv, TypeInv
  <2>. QED BY <1>0, <2>1 DEF LeftInv
<1>. QED BY <1>1, <1>2, <1>3, <1>4 DEF Next

(* When the workers rest and none has died, every row that is still locked *)
(* is so because an UPDATE that locks or releases failed, each of which    *)
(* leaves one lock at most (LocksLeftByFailures): no order of jobs, failed *)
(* payments or abandoned batches leaves one.                               *)
THEOREM LocksAreLeftByFailures == Spec => []LocksLeftByFailures
<1>1. LeftInv => LocksLeftByFailures
  <2> SUFFICES ASSUME LeftInv, AtRest, deaths = 0, ~SharedLockIds
               PROVE  /\ Cardinality({meta[t].lock : t \in Own} \ {NoLock})
                           <= Failed("lock") + Failed("release")
                      /\ \A t \in Own : meta[t].lock # NoLock =>
                                          t \in dropped \/ Happened("release")
    BY DEF LocksLeftByFailures
  <2>1. LeftLocks = {meta[t].lock : t \in Own} \ {NoLock}
    BY DEF AtRest, Idle, LeftLocks
  <2>2. LeftFacts
    BY DEF LeftInv
  <2>. QED BY <2>1, <2>2 DEF LeftFacts, Explained
<1>. QED BY <1>1, LeftInvInit, LeftInvStep, PTL DEF Spec

-----------------------------------------------------------------------------
(* Sums of a function over a finite set.  The fold takes the elements in   *)
(* an order nobody chose; these lemmas are what makes it a sum.  Each is   *)
(* proved of a smallest subset it could fail for.  IsSum: g is what the    *)
(* fold of f computes for the subsets of T.                                *)
FirstOf(s) == CHOOSE x \in s : TRUE
RestOf(s) == s \ {FirstOf(s)}
IsSum(g, f, T) ==
  g = [s \in SUBSET T |-> IF s = {} THEN 0 ELSE f[FirstOf(s)] + g[RestOf(s)]]

LEMMA RestSmaller ==
  ASSUME NEW s, s # {}
  PROVE /\ FirstOf(s) \in s /\ RestOf(s) \subseteq s /\ RestOf(s) # s
BY DEF FirstOf, RestOf

(* Of some subsets of a finite set, one has none of the others in it.      *)
LEMMA SmallestSubset ==
  ASSUME NEW S, IsFiniteSet(S), NEW B, B \subseteq SUBSET S, B # {}
  PROVE \E T \in B : \A U \in B : ~(U \subseteq T /\ U # T)
<1>1. FiniteSubsetsOf(S) = SUBSET S
  BY FS_FiniteSubsetsOfFinite
<1>2. IsWellFoundedOn(StrictSubsetOrdering(S), SUBSET S)
  BY <1>1, FS_StrictSubsetOrderingWellFounded
<1>3. \E T \in B : \A U \in B : ~ (<<U, T>> \in StrictSubsetOrdering(S))
  BY <1>2, WFMin
<1> QED
  BY <1>3 DEF StrictSubsetOrdering

(* What the fold computes for a set depends on that set alone.             *)
LEMMA SumAgrees ==
  ASSUME NEW S, IsFiniteSet(S), NEW f, NEW g, NEW h, NEW T, NEW U,
         IsSum(g, f, T), IsSum(h, f, U), S \subseteq T, S \subseteq U
  PROVE g[S] = h[S]
<1> DEFINE B == {s \in SUBSET S : g[s] # h[s]}
<1> SUFFICES ASSUME B # {} PROVE FALSE
  OBVIOUS
<1>1. PICK s \in B : \A u \in B : ~(u \subseteq s /\ u # s)
  <2> B \subseteq SUBSET S
    OBVIOUS
  <2> HIDE DEF B
  <2> QED BY SmallestSubset
<1>2. g[s] = IF s = {} THEN 0 ELSE f[FirstOf(s)] + g[RestOf(s)]
  <2> s \in SUBSET T
    OBVIOUS
  <2> QED BY DEF IsSum
<1>3. h[s] = IF s = {} THEN 0 ELSE f[FirstOf(s)] + h[RestOf(s)]
  <2> s \in SUBSET U
    OBVIOUS
  <2> QED BY DEF IsSum
<1>4. s # {} => RestOf(s) \notin B
  BY <1>1, RestSmaller
<1> QED
  BY <1>1, <1>2, <1>3, <1>4, RestSmaller

(* There is such a g: the fold is not an arbitrary value.                  *)
LEMMA SumExists ==
  ASSUME NEW S, IsFiniteSet(S), NEW f
  PROVE \E g : IsSum(g, f, S)
<1> DEFINE B == {T \in SUBSET S : ~\E g : IsSum(g, f, T)}
<1> SUFFICES ASSUME B # {} PROVE FALSE
  OBVIOUS
<1>1. PICK T \in B : \A U \in B : ~(U \subseteq T /\ U # T)
  <2> B \subseteq SUBSET S
    OBVIOUS
  <2> HIDE DEF B
  <2> QED BY SmallestSubset
<1> DEFINE sum(U) == CHOOSE h : IsSum(h, f, U)
           g == [s \in SUBSET T |->
                   IF s = {} THEN 0
                   ELSE f[FirstOf(s)] + sum(RestOf(s))[RestOf(s)]]
<1>2. ASSUME NEW U, U \subseteq T, U # T PROVE IsSum(sum(U), f, U)
  <2>1. U \in SUBSET S /\ U \notin B
    BY <1>1, <1>2
  <2>2. \E h : IsSum(h, f, U)
    BY <2>1
  <2> QED BY <2>2
<1>3. ASSUME NEW s, s \subseteq T, s # {}
      PROVE  g[RestOf(s)] = sum(RestOf(s))[RestOf(s)]
  <2> DEFINE r == RestOf(s)
  <2>1. r \subseteq T /\ r # T
    BY <1>3, RestSmaller
  <2>2. IsSum(sum(r), f, r)
    <3> HIDE DEF r, sum
    <3> QED BY <1>2, <2>1
  <2>3. sum(r)[r] = IF r = {} THEN 0 ELSE f[FirstOf(r)] + sum(r)[RestOf(r)]
    <3> HIDE DEF r, sum
    <3> QED BY <2>2 DEF IsSum
  <2>4. g[r] = IF r = {} THEN 0 ELSE f[FirstOf(r)] + sum(RestOf(r))[RestOf(r)]
    <3> HIDE DEF r, sum
    <3> QED BY <2>1
  <2>5. CASE r = {}
    BY <2>3, <2>4, <2>5
  <2>6. CASE r # {}
    <3> DEFINE q == RestOf(r)
    <3>1. q \subseteq T /\ q # T /\ q \subseteq r
      <4> HIDE DEF r
      <4> QED BY <2>1, <2>6, RestSmaller
    <3>2. IsSum(sum(q), f, q)
      <4> HIDE DEF q, sum
      <4> QED BY <1>2, <3>1
    <3>3. IsFiniteSet(q)
      <4>1. q \subseteq S
        BY <3>1
      <4> HIDE DEF q
      <4> QED BY <4>1, FS_Subset
    <3>4. sum(q)[q] = sum(r)[q]
      <4> HIDE DEF q, r, sum
      <4> QED BY <2>2, <3>1, <3>2, <3>3, SumAgrees
    <3>5. g[r] = sum(r)[r]
      <4> HIDE DEF r, sum, g
      <4> QED BY <2>3, <2>4, <2>6, <3>4
    <3> QED BY <3>5
  <2> QED BY <2>5, <2>6
<1>4. IsSum(g, f, T)
  <2> HIDE DEF sum
  <2>1. g = [s \in SUBSET T |->
               IF s = {} THEN 0 ELSE f[FirstOf(s)] + g[RestOf(s)]]
    BY <1>3
  <2> HIDE DEF g
  <2> QED BY <2>1 DEF IsSum
<1> QED
  <2> HIDE DEF g, sum
  <2> QED BY <1>1, <1>4

LEMMA SumIsSum ==
  ASSUME NEW S, IsFiniteSet(S), NEW f, NEW g, IsSum(g, f, S)
  PROVE  SumFunctionOnSet(f, S) = g[S]
<1> DEFINE it == CHOOSE h : IsSum(h, f, S)
<1>1. SumFunctionOnSet(f, S) = it[S]
  BY DEF SumFunctionOnSet, FoldFunctionOnSet, MapThenFoldSet, IsSum,
     FirstOf, RestOf
<1>2. IsSum(it, f, S)
  OBVIOUS
<1> HIDE DEF it
<1> QED BY <1>1, <1>2, SumAgrees

LEMMA SumEmpty ==
  ASSUME NEW f
  PROVE SumFunctionOnSet(f, {}) = 0
<1>1. IsFiniteSet({})
  BY FS_EmptySet
<1>2. PICK g : IsSum(g, f, {})
  BY <1>1, SumExists
<1>3. g[{}] = 0
  BY <1>2 DEF IsSum
<1> QED BY <1>1, <1>2, <1>3, SumIsSum

LEMMA SumStep ==
  ASSUME NEW f, NEW S, IsFiniteSet(S), S # {}
  PROVE SumFunctionOnSet(f, S) = f[FirstOf(S)] + SumFunctionOnSet(f, RestOf(S))
<1>1. IsFiniteSet(RestOf(S))
  BY FS_Subset, RestSmaller
<1>2. PICK g : IsSum(g, f, S)
  BY SumExists
<1>3. PICK h : IsSum(h, f, RestOf(S))
  BY <1>1, SumExists
<1>4. g[S] = f[FirstOf(S)] + g[RestOf(S)]
  BY <1>2 DEF IsSum
<1>5. g[RestOf(S)] = h[RestOf(S)]
  BY <1>1, <1>2, <1>3, RestSmaller, SumAgrees
<1>6. SumFunctionOnSet(f, S) = g[S]
      /\ SumFunctionOnSet(f, RestOf(S)) = h[RestOf(S)]
  BY <1>1, <1>2, <1>3, SumIsSum
<1> QED BY <1>4, <1>5, <1>6

LEMMA SumInt ==
  ASSUME NEW f, NEW S, IsFiniteSet(S), \A x \in S : f[x] \in Int
  PROVE SumFunctionOnSet(f, S) \in Int
<1> DEFINE B == {T \in SUBSET S : SumFunctionOnSet(f, T) \notin Int}
<1> SUFFICES ASSUME B # {} PROVE FALSE
  OBVIOUS
<1>1. PICK T \in B : \A U \in B : ~(U \subseteq T /\ U # T)
  <2> B \subseteq SUBSET S
    OBVIOUS
  <2> HIDE DEF B
  <2> QED BY SmallestSubset
<1>2. T # {}
  BY SumEmpty
<1>3. FirstOf(T) \in T /\ RestOf(T) \in SUBSET S /\ RestOf(T) \notin B
  BY <1>1, <1>2, RestSmaller
<1>4. IsFiniteSet(T)
  BY FS_Subset
<1>5. SumFunctionOnSet(f, T) = f[FirstOf(T)] + SumFunctionOnSet(f, RestOf(T))
  BY <1>2, <1>4, SumStep
<1> QED BY <1>3, <1>5

(* It does not matter which element is taken first.                        *)
LEMMA SumRemove ==
  ASSUME NEW f, NEW S, IsFiniteSet(S), \A x \in S : f[x] \in Int, NEW x \in S
  PROVE SumFunctionOnSet(f, S) = f[x] + SumFunctionOnSet(f, S \ {x})
<1> DEFINE Holds(T) ==
      \A y \in T : SumFunctionOnSet(f, T) = f[y] + SumFunctionOnSet(f, T \ {y})
    B == {T \in SUBSET S : ~Holds(T)}
<1> SUFFICES ASSUME B # {} PROVE FALSE
  OBVIOUS
<1>1. PICK T \in B : \A U \in B : ~(U \subseteq T /\ U # T)
  <2> B \subseteq SUBSET S
    OBVIOUS
  <2> HIDE DEF B
  <2> QED BY SmallestSubset
<1>2. PICK y \in T :
        SumFunctionOnSet(f, T) # f[y] + SumFunctionOnSet(f, T \ {y})
  OBVIOUS
<1> DEFINE c == FirstOf(T)
<1>3. c \in T
  BY RestSmaller
<1>4. SumFunctionOnSet(f, T) = f[c] + SumFunctionOnSet(f, T \ {c})
  <2>1. IsFiniteSet(T) BY FS_Subset
  <2> QED BY <2>1, <1>3, SumStep DEF RestOf
<1>5. y # c
  BY <1>2, <1>4
<1>6. ASSUME NEW z \in T PROVE Holds(T \ {z})
  BY <1>1
<1>7. SumFunctionOnSet(f, T \ {c}) = f[y] + SumFunctionOnSet(f, (T \ {c}) \ {y})
  <2> HIDE DEF c
  <2> QED BY <1>3, <1>5, <1>6
<1>8. SumFunctionOnSet(f, T \ {y}) = f[c] + SumFunctionOnSet(f, (T \ {y}) \ {c})
  <2> HIDE DEF c
  <2> QED BY <1>3, <1>5, <1>6
<1>9. (T \ {y}) \ {c} = (T \ {c}) \ {y}
  OBVIOUS
<1>10. SumFunctionOnSet(f, (T \ {c}) \ {y}) \in Int
  <2>1. (T \ {c}) \ {y} \subseteq S
    OBVIOUS
  <2>2. IsFiniteSet((T \ {c}) \ {y})
    BY <2>1, FS_Subset
  <2> HIDE DEF c
  <2> QED BY <2>1, <2>2, SumInt
<1>11. f[c] \in Int /\ f[y] \in Int
  BY <1>3
<1> DEFINE w == SumFunctionOnSet(f, (T \ {c}) \ {y})
<1>12. SumFunctionOnSet(f, T) = f[c] + (f[y] + w)
  <2> HIDE DEF c
  <2> QED BY <1>4, <1>7
<1>13. f[y] + SumFunctionOnSet(f, T \ {y}) = f[y] + (f[c] + w)
  <2> HIDE DEF c
  <2> QED BY <1>8, <1>9
<1>14. w \in Int
  BY <1>10
<1> HIDE DEF c, B, Holds, w
<1> QED BY <1>2, <1>11, <1>12, <1>13, <1>14

LEMMA SumAdds ==
  ASSUME NEW f, NEW g, NEW h, NEW S, IsFiniteSet(S),
         \A x \in S : f[x] \in Int /\ g[x] \in Int /\ h[x] = f[x] + g[x]
  PROVE SumFunctionOnSet(h, S) = SumFunctionOnSet(f, S) + SumFunctionOnSet(g, S)
<1> DEFINE B == {T \in SUBSET S :
                   SumFunctionOnSet(h, T)
                     # SumFunctionOnSet(f, T) + SumFunctionOnSet(g, T)}
<1> SUFFICES ASSUME B # {} PROVE FALSE
  OBVIOUS
<1>1. PICK T \in B : \A U \in B : ~(U \subseteq T /\ U # T)
  <2> B \subseteq SUBSET S
    OBVIOUS
  <2> HIDE DEF B
  <2> QED BY SmallestSubset
<1>2. T # {}
  <2>1. /\ SumFunctionOnSet(f, {}) = 0 /\ SumFunctionOnSet(g, {}) = 0
        /\ SumFunctionOnSet(h, {}) = 0
    BY SumEmpty
  <2>2. SumFunctionOnSet(h, {})
          = SumFunctionOnSet(f, {}) + SumFunctionOnSet(g, {})
    BY <2>1
  <2> QED BY <2>2
<1>3. FirstOf(T) \in T /\ RestOf(T) \in SUBSET S /\ RestOf(T) \notin B
  BY <1>1, <1>2, RestSmaller
<1>4. IsFiniteSet(T) /\ IsFiniteSet(RestOf(T))
  BY <1>3, FS_Subset
<1>5. ASSUME NEW e
      PROVE  SumFunctionOnSet(e, T)
               = e[FirstOf(T)] + SumFunctionOnSet(e, RestOf(T))
  BY <1>2, <1>4, SumStep
<1>6. SumFunctionOnSet(f, RestOf(T)) \in Int
      /\ SumFunctionOnSet(g, RestOf(T)) \in Int
  BY <1>3, <1>4, SumInt
<1>7. /\ SumFunctionOnSet(h, T) = h[FirstOf(T)] + SumFunctionOnSet(h, RestOf(T))
      /\ SumFunctionOnSet(f, T) = f[FirstOf(T)] + SumFunctionOnSet(f, RestOf(T))
      /\ SumFunctionOnSet(g, T) = g[FirstOf(T)] + SumFunctionOnSet(g, RestOf(T))
  BY <1>5
<1>8. SumFunctionOnSet(h, RestOf(T))
        = SumFunctionOnSet(f, RestOf(T)) + SumFunctionOnSet(g, RestOf(T))
  BY <1>3
<1>9. SumFunctionOnSet(h, T) # SumFunctionOnSet(f, T) + SumFunctionOnSet(g, T)
  OBVIOUS
<1>10. FirstOf(T) \in S
  BY <1>3
<1> HIDE DEF B
<1> QED BY <1>6, <1>7, <1>8, <1>9, <1>10

(* Elements that add nothing can be left out.                              *)
LEMMA SumOfPart ==
  ASSUME NEW f, NEW S, IsFiniteSet(S), \A x \in S : f[x] \in Int,
         NEW T, T \subseteq S, \A x \in S \ T : f[x] = 0
  PROVE SumFunctionOnSet(f, S) = SumFunctionOnSet(f, T)
<1> DEFINE B == {U \in SUBSET S :
                   T \subseteq U /\ SumFunctionOnSet(f, U) # SumFunctionOnSet(f, T)}
<1> SUFFICES ASSUME B # {} PROVE FALSE
  OBVIOUS
<1>1. PICK U \in B : \A V \in B : ~(V \subseteq U /\ V # U)
  <2> B \subseteq SUBSET S
    OBVIOUS
  <2> HIDE DEF B
  <2> QED BY SmallestSubset
<1>2. PICK x \in U : x \notin T
  OBVIOUS
<1>3. IsFiniteSet(U) /\ U \subseteq S
  BY FS_Subset
<1>4. SumFunctionOnSet(f, U) = f[x] + SumFunctionOnSet(f, U \ {x})
  <2> HIDE DEF B
  <2> QED BY <1>3, SumRemove
<1>5. f[x] = 0
  BY <1>2
<1>6. SumFunctionOnSet(f, U \ {x}) = SumFunctionOnSet(f, T)
  BY <1>1, <1>2
<1>7. SumFunctionOnSet(f, T) \in Int
  <2>1. IsFiniteSet(T) BY FS_Subset
  <2> QED BY <2>1, SumInt
<1> QED BY <1>4, <1>5, <1>6, <1>7

LEMMA SumSame ==
  ASSUME NEW f, NEW g, NEW S, IsFiniteSet(S),
         \A x \in S : f[x] \in Int /\ f[x] = g[x]
  PROVE SumFunctionOnSet(f, S) = SumFunctionOnSet(g, S)
<1> DEFINE B == {T \in SUBSET S :
                   SumFunctionOnSet(f, T) # SumFunctionOnSet(g, T)}
<1> SUFFICES ASSUME B # {} PROVE FALSE
  OBVIOUS
<1>1. PICK T \in B : \A U \in B : ~(U \subseteq T /\ U # T)
  <2> B \subseteq SUBSET S
    OBVIOUS
  <2> HIDE DEF B
  <2> QED BY SmallestSubset
<1>2. T # {}
  BY SumEmpty
<1>3. FirstOf(T) \in T /\ RestOf(T) \in SUBSET S /\ RestOf(T) \notin B
  BY <1>1, <1>2, RestSmaller
<1>4. IsFiniteSet(T)
  BY FS_Subset
<1>5. ASSUME NEW e
      PROVE  SumFunctionOnSet(e, T)
               = e[FirstOf(T)] + SumFunctionOnSet(e, RestOf(T))
  BY <1>2, <1>4, SumStep
<1>6. /\ SumFunctionOnSet(f, T) = f[FirstOf(T)] + SumFunctionOnSet(f, RestOf(T))
      /\ SumFunctionOnSet(g, T) = g[FirstOf(T)] + SumFunctionOnSet(g, RestOf(T))
  BY <1>5
<1> QED BY <1>3, <1>6

-----------------------------------------------------------------------------
(* Why the balances follow the deliveries.  A delivery of a transfer has   *)
(* changed the balances (Settled) unless it was the one that recognised    *)
(* the transfer as the platform's own, or is still with the job that       *)
(* holds it (Unsettled).  The balance of an address is the sum of its      *)
(* share in all that was settled.                                          *)
Unsettled(p) ==
  IF job[p].pc = "locked" THEN InBatch(p) \ LockedBy(job[p].lock)
  ELSE IF job[p].pc \in {"decoded", "inserting"} THEN job[p].unknown
  ELSE IF job[p].pc = "settling"
    THEN {t \in job[p].unknown : t.client \in job[p].clients}
  ELSE {}

Holders(t) == {p \in Procs : t \in Unsettled(p)}
Owned(t) == IF t \in Own /\ handed[t] > 0 THEN 1 ELSE 0
Settled(t) == handed[t] - Owned(t) - Cardinality(Holders(t))

Change(t, a) ==
  (IF t.to = a THEN t.value ELSE 0) - (IF t.from = a THEN t.value ELSE 0)
Moving(t) == IsTransfer(t) /\ t.from # "contract"
Weight(t, c, a) == IF Moving(t) /\ t.client = c THEN Change(t, a) ELSE 0
Posted(c, a) == [t \in Txs |-> Weight(t, c, a) * Settled(t)]

Carried ==
  /\ \A m \in BagToSet(queue) : ToSet(m.txs) \subseteq Txs
  /\ \A p \in Procs : job[p].pc # "idle" => InBatch(p) \subseteq Txs

Smooth ==
  /\ deaths = 0 /\ dropped = {} /\ ~Happened("settle")
  /\ (\A t \in Own : ~t.late) /\ ~SharedLockIds

Jobs ==
  /\ \A t \in Own : handed[t] > 0 => meta[t].status = "mined"
  /\ \A p \in Procs :
       job[p].pc \in {"decoded", "inserting", "settling"} =>
         job[p].unknown \subseteq InBatch(p)

Ledger ==
  \A c \in Clients, a \in Addresses :
    balance[<<c, a>>] = SumFunctionOnSet(Posted(c, a), Txs)

BalanceInv ==
  /\ KnowInv /\ SkipInv /\ Carried
  /\ DOMAIN balance = Clients \X Addresses
  /\ Smooth => Jobs /\ Ledger

LEMMA ImageIsFinite ==
  ASSUME NEW s, IsFiniteSet(s), NEW v, NEW f \in [s -> v],
         NEW t, \A y \in t : \E x \in s : y = f[x]
  PROVE  IsFiniteSet(t)
<1> DEFINE u == {f[x] : x \in s}
<1>1. f \in Surjection(s, u)
  <2>1. f \in [s -> u] /\ \A i \in u : \E x \in s : f[x] = i
    OBVIOUS
  <2>. QED BY <2>1, Fun_IsSurj
<1>2. IsFiniteSet(u)
  BY <1>1, FS_Surjection
<1>3. t \subseteq u
  OBVIOUS
<1>. QED BY <1>2, <1>3, FS_Subset

LEMMA SeqIsFinite ==
  ASSUME NEW S, NEW q \in Seq(S)
  PROVE  IsFiniteSet(ToSet(q))
<1>1. IsFiniteSet(1 .. Len(q))
  BY FS_Interval
<1>2. q \in [1 .. Len(q) -> S] /\ \A y \in ToSet(q) : \E x \in 1 .. Len(q) : y = q[x]
  BY DEF ToSet
<1>. QED BY <1>1, <1>2, ImageIsFinite

LEMMA FiniteCase ==
  ASSUME case \in Cases
  PROVE  /\ IsFiniteSet(Txs) /\ IsFiniteSet(Procs)
         /\ \A t \in Txs : t.value \in Nat
<1> DEFINE f == [block \in ToSet(case.blocks) |-> ToSet(block)]
           all == {ToSet(block) : block \in ToSet(case.blocks)}
<1>1. case.blocks \in Seq(Seq(Txs))
  BY BlocksAreTxs
<1>2. IsFiniteSet(ToSet(case.blocks))
  BY <1>1, SeqIsFinite
<1>3. \A block \in ToSet(case.blocks) : IsFiniteSet(ToSet(block))
  <2>1. \A block \in ToSet(case.blocks) : block \in Seq(Txs)
    BY <1>1 DEF ToSet
  <2>. QED BY <2>1, SeqIsFinite
<1>4. f \in [ToSet(case.blocks) -> all]
      /\ \A y \in all : \E x \in ToSet(case.blocks) : y = f[x]
  OBVIOUS
<1>5. IsFiniteSet(all)
  <2>. HIDE DEF f, all
  <2>. QED BY <1>2, <1>4, ImageIsFinite
<1>6. \A T \in all : IsFiniteSet(T)
  BY <1>3
<1>7. IsFiniteSet(UNION all)
  <2>. HIDE DEF all
  <2>. QED BY <1>5, <1>6, FS_UNION
<1>. QED BY <1>7, CasesAssumption DEF Txs, Procs

(* One process more or less.                                               *)
LEMMA OneMore ==
  ASSUME NEW S, IsFiniteSet(S), NEW p, NEW A, A \subseteq S, NEW B, B \subseteq S,
         A \ {p} = B \ {p}
  PROVE  /\ Cardinality(A) \in Nat /\ Cardinality(B) \in Nat
         /\ Cardinality(B) = Cardinality(A) + (IF p \in B THEN 1 ELSE 0)
                                            - (IF p \in A THEN 1 ELSE 0)
<1>1. IsFiniteSet(A) /\ IsFiniteSet(B)
  BY FS_Subset
<1>2. Cardinality(A) \in Nat /\ Cardinality(B) \in Nat
  BY <1>1, FS_CardinalityType
<1>3. /\ Cardinality(A \ {p}) = IF p \in A THEN Cardinality(A) - 1 ELSE Cardinality(A)
      /\ Cardinality(B \ {p}) = IF p \in B THEN Cardinality(B) - 1 ELSE Cardinality(B)
  BY <1>1, FS_RemoveElement
<1>4. (A \ {p}) = (B \ {p}) /\ Cardinality(A \ {p}) = Cardinality(B \ {p})
  OBVIOUS
<1>5. CASE p \in A /\ p \in B
  <2>1. Cardinality(A) - 1 = Cardinality(B) - 1
    BY <1>3, <1>4, <1>5
  <2>. QED BY <1>2, <1>5, <2>1
<1>6. CASE p \in A /\ p \notin B
  <2>1. Cardinality(A) - 1 = Cardinality(B)
    BY <1>3, <1>4, <1>6
  <2>. QED BY <1>2, <1>6, <2>1
<1>7. CASE p \notin A /\ p \in B
  <2>1. Cardinality(A) = Cardinality(B) - 1
    BY <1>3, <1>4, <1>7
  <2>. QED BY <1>2, <1>7, <2>1
<1>8. CASE p \notin A /\ p \notin B
  <2>1. Cardinality(A) = Cardinality(B)
    BY <1>3, <1>4, <1>8
  <2>. QED BY <1>2, <1>8, <2>1
<1>. QED BY <1>5, <1>6, <1>7, <1>8

LEMMA SettledType ==
  ASSUME BalanceInv, NEW t \in Txs
  PROVE  Settled(t) \in Int /\ handed[t] \in Nat
         /\ Cardinality(Holders(t)) \in Nat
<1>1. IsFiniteSet(Procs)
  BY FiniteCase DEF BalanceInv, SkipInv
<1>2. Holders(t) \subseteq Procs
  BY DEF Holders
<1>3. Cardinality(Holders(t)) \in Nat
  BY <1>1, <1>2, FS_Subset, FS_CardinalityType
<1>4. handed[t] \in Nat
  BY DEF BalanceInv, SkipInv
<1>. QED BY <1>3, <1>4 DEF Settled, Owned

LEMMA WeightType ==
  ASSUME case \in Cases, NEW t \in Txs, NEW c, NEW a
  PROVE  Weight(t, c, a) \in Int /\ Change(t, a) \in Int
<1>1. t.value \in Nat
  BY FiniteCase
<1>. QED BY <1>1 DEF Weight, Change

LEMMA BalanceInit == Init => BalanceInv
<1> SUFFICES ASSUME Init PROVE BalanceInv
  OBVIOUS
<1>1. KnowInv /\ SkipInv
  BY KnowInvInit, SkipInvInit
<1>2. /\ Carried /\ DOMAIN balance = Clients \X Addresses
  BY DEF Init, Carried, Idle, EmptyBag, BagToSet, SetToBag
<1>3. Jobs
  <2>1. \A t \in Own : handed[t] = 0
    BY OwnAreTxs DEF Init
  <2>. QED BY <2>1 DEF Init, Jobs, Idle
<1>4. case \in Cases
  BY DEF Init
<1>5. ASSUME NEW t \in Txs PROVE Settled(t) = 0
  <2>1. Holders(t) = {}
    BY DEF Holders, Unsettled, Init, Idle
  <2>2. Cardinality(Holders(t)) = 0
    BY <2>1, FS_EmptySet
  <2>3. handed[t] = 0
    BY DEF Init
  <2>. QED BY <2>2, <2>3 DEF Settled, Owned
<1>6. ASSUME NEW c \in Clients, NEW a \in Addresses
      PROVE  balance[<<c, a>>] = SumFunctionOnSet(Posted(c, a), Txs)
  <2>1. \A t \in Txs : Posted(c, a)[t] = 0
    BY <1>4, <1>5, WeightType DEF Posted
  <2>2. SumFunctionOnSet(Posted(c, a), Txs) = SumFunctionOnSet(Posted(c, a), {})
    BY <1>4, <2>1, FiniteCase, SumOfPart
  <2>3. SumFunctionOnSet(Posted(c, a), {}) = 0
    BY SumEmpty
  <2>4. balance[<<c, a>>] = 0
    BY DEF Init
  <2>. QED BY <2>2, <2>3, <2>4
<1>. QED BY <1>1, <1>2, <1>3, <1>6 DEF BalanceInv, Ledger

(* The bounds on what has happened only tighten.                           *)
LEMMA SmoothBefore ==
  ASSUME UNCHANGED case, dropped \subseteq dropped', Smooth',
         deaths' = 0 => deaths = 0,
         failures' = failures \/ \E k : MayFail(k)
  PROVE  Smooth
<1>1. Happened("settle") => Happened("settle")'
  BY FailuresGrow DEF Happened
<1>. QED BY <1>1, CaseSame DEF Smooth

(* Whatever changes in the jobs, the balances stay right if nothing of a   *)
(* transfer was settled.                                                   *)
LEMMA NoneSettled ==
  ASSUME BalanceInv, KnowInv', SkipInv', Carried', UNCHANGED <<case, balance>>,
         Smooth' => Smooth,
         Smooth' => Jobs',
         Smooth' => \A t \in Txs :
           /\ Settled(t)' \in Int
           /\ Moving(t) => Settled(t)' = Settled(t)
  PROVE  BalanceInv'
<1>1. /\ Txs' = Txs /\ Clients' = Clients /\ Addresses' = Addresses
      /\ case \in Cases
  BY DEF Txs, Clients, Addresses, BalanceInv, SkipInv
<1>2. ASSUME Smooth', NEW c \in Clients, NEW a \in Addresses
      PROVE  balance'[<<c, a>>] = SumFunctionOnSet(Posted(c, a)', Txs)
  <2>1. ASSUME NEW t \in Txs
        PROVE  /\ Posted(c, a)[t] \in Int
               /\ Posted(c, a)[t] = Posted(c, a)'[t]
    <3>1. Weight(t, c, a) \in Int /\ Settled(t) \in Int
      BY <1>1, WeightType, SettledType
    <3>2. /\ Posted(c, a)[t] = Weight(t, c, a) * Settled(t)
          /\ Posted(c, a)'[t] = Weight(t, c, a) * Settled(t)'
      BY <1>1 DEF Posted, Weight, Moving, Change
    <3>3. Moving(t) \/ Weight(t, c, a) = 0
      BY DEF Weight
    <3>. QED BY <1>2, <3>1, <3>2, <3>3
  <2>2. SumFunctionOnSet(Posted(c, a), Txs) = SumFunctionOnSet(Posted(c, a)', Txs)
    <3> DEFINE f == Posted(c, a)
               g == Posted(c, a)'
    <3>1. \A t \in Txs : f[t] \in Int /\ f[t] = g[t]
      BY <2>1
    <3>2. IsFiniteSet(Txs)
      BY <1>1, FiniteCase
    <3>. HIDE DEF f, g
    <3>3. SumFunctionOnSet(f, Txs) = SumFunctionOnSet(g, Txs)
      BY <3>1, <3>2, SumSame
    <3>. QED BY <3>3 DEF f, g
  <2>3. balance[<<c, a>>] = SumFunctionOnSet(Posted(c, a), Txs)
    BY <1>2 DEF BalanceInv, Ledger
  <2>. QED BY <2>2, <2>3
<1>3. Smooth' => Ledger'
  BY <1>1, <1>2 DEF Ledger
<1>. QED BY <1>1, <1>3 DEF BalanceInv

(* What a step of one job changes of the settled deliveries.               *)
LEMMA JobSettles ==
  ASSUME BalanceInv, UNCHANGED case, NEW p \in Procs, NEW t \in Txs,
         \A q \in Procs \ {p} : t \in Unsettled(q)' <=> t \in Unsettled(q),
         handed'[t] \in Nat
  PROVE  /\ Settled(t)' \in Int /\ Settled(t) \in Int
         /\ Settled(t)' = Settled(t) + (handed'[t] - handed[t])
              - (Owned(t)' - Owned(t))
              + (IF t \in Unsettled(p) THEN 1 ELSE 0)
              - (IF t \in Unsettled(p)' THEN 1 ELSE 0)
<1>1. Procs' = Procs /\ IsFiniteSet(Procs)
  BY CaseSame, FiniteCase DEF BalanceInv, SkipInv
<1>2. /\ Holders(t) \subseteq Procs /\ Holders(t)' \subseteq Procs
      /\ Holders(t) \ {p} = Holders(t)' \ {p}
      /\ p \in Holders(t) <=> t \in Unsettled(p)
      /\ p \in Holders(t)' <=> t \in Unsettled(p)'
  BY <1>1 DEF Holders
<1>3. /\ Cardinality(Holders(t)) \in Nat /\ Cardinality(Holders(t)') \in Nat
      /\ Cardinality(Holders(t)') = Cardinality(Holders(t))
           + (IF t \in Unsettled(p)' THEN 1 ELSE 0)
           - (IF t \in Unsettled(p) THEN 1 ELSE 0)
  <2> DEFINE A == Holders(t)
             B == Holders(t)'
  <2>1. A \subseteq Procs /\ B \subseteq Procs /\ A \ {p} = B \ {p}
    BY <1>2
  <2>. HIDE DEF A, B
  <2>2. /\ Cardinality(A) \in Nat /\ Cardinality(B) \in Nat
        /\ Cardinality(B) = Cardinality(A) + (IF p \in B THEN 1 ELSE 0)
                                           - (IF p \in A THEN 1 ELSE 0)
    BY <1>1, <2>1, OneMore
  <2>. QED BY <1>2, <2>2 DEF A, B
<1>4. Settled(t)' = handed'[t] - Owned(t)' - Cardinality(Holders(t)')
  BY DEF Settled
<1>5. Settled(t) = handed[t] - Owned(t) - Cardinality(Holders(t)) /\ handed[t] \in Nat
  BY SettledType DEF Settled
<1>6. Owned(t) \in {0, 1} /\ Owned(t)' \in {0, 1}
  BY DEF Owned
<1>. QED BY <1>3, <1>4, <1>5, <1>6

LEMMA CarriedStays ==
  ASSUME BalanceInv, UNCHANGED case, BagToSet(queue') \subseteq BagToSet(queue),
         \A q \in Procs : job'[q].pc # "idle" =>
           \/ job[q].pc # "idle" /\ job'[q].msg = job[q].msg
           \/ job'[q].msg \in BagToSet(queue)
  PROVE  Carried'
BY CaseSame DEF Carried, BalanceInv, InBatch, Txs

(* The delegator, and a row that is written late.                          *)
LEMMA AsideBalances ==
  ASSUME BalanceInv, KnowInv', SkipInv',
         UNCHANGED <<case, wvars, balance>>,
         BagToSet(queue') \subseteq BagToSet(queue)
           \/ \E msg : /\ ToSet(msg.txs) \subseteq Txs
                       /\ BagToSet(queue') = BagToSet(queue) \cup {msg},
         failures' = failures \/ \E k : MayFail(k),
         \A t \in Own : /\ meta'[t].lock = meta[t].lock
                        /\ meta[t].status = "mined" => meta'[t].status = "mined"
  PROVE  BalanceInv'
<1>1. /\ Own' = Own /\ Txs' = Txs /\ Procs' = Procs
      /\ UNCHANGED <<handed, dropped, job, deaths>>
  BY CaseSame DEF wvars, Txs
<1>2. Carried'
  BY <1>1 DEF BalanceInv, Carried, InBatch
<1>3. Smooth' => Smooth
  BY <1>1, SmoothBefore
<1>4. Smooth' => Jobs'
  BY <1>1, <1>3 DEF BalanceInv, Jobs, InBatch
<1>5. \A p \in Procs : Unsettled(p)' = Unsettled(p)
  BY <1>1 DEF Unsettled, InBatch, LockedBy
<1>6. ASSUME NEW t \in Txs PROVE Settled(t)' = Settled(t) /\ Settled(t)' \in Int
  <2>1. Holders(t)' = Holders(t)
    BY <1>1, <1>5 DEF Holders
  <2>. QED BY <1>1, <2>1, SettledType DEF Settled, Owned
<1>. QED BY <1>2, <1>3, <1>4, <1>6, NoneSettled

(* A worker that dies ends what is claimed.                                *)
LEMMA WorkerDiesBalances ==
  ASSUME BalanceInv, KnowInv', SkipInv', NEW p \in Procs, WorkerDies(p)
  PROVE  BalanceInv'
<1>1. /\ UNCHANGED <<case, balance>> /\ deaths' = deaths + 1
      /\ job' = [job EXCEPT ![p] = Idle] /\ job[p].pc # "idle"
      /\ queue' = queue (+) SetToBag({job[p].msg})
  BY DEF WorkerDies, scanned, dbvars
<1>2. /\ \A q \in Procs \ {p} : job'[q] = job[q]
      /\ job'[p].pc = "idle"
  BY <1>1 DEF BalanceInv, KnowInv, PayInv, TypeInv, Idle
<1>3. BagToSet(queue') = BagToSet(queue) \cup {job[p].msg}
  BY <1>1, Added DEF BalanceInv, SkipInv
<1>4. Carried'
  BY <1>1, <1>2, <1>3, CaseSame DEF BalanceInv, Carried, InBatch, Txs
<1>5. ~Smooth'
  BY <1>1 DEF Smooth, BalanceInv, KnowInv, PayInv, TypeInv
<1>. QED BY <1>1, <1>4, <1>5, NoneSettled

LEMMA AcquiresLockBalances ==
  ASSUME BalanceInv, KnowInv', SkipInv', NEW p \in Procs,
         NEW msg \in BagToSet(queue), AcquiresLock(p, msg)
  PROVE  BalanceInv'
<1> DEFINE l == <<prefix[p], DropZeros[p]>>
<1>1. /\ UNCHANGED <<case, deaths, dropped, failures, balance>>
      /\ job[p].pc = "idle" /\ queue' = queue (-) SetToBag({msg})
      /\ job' = [job EXCEPT ![p] = [Idle EXCEPT !.pc = "locked", !.msg = msg,
                                                !.lock = l]]
      /\ handed' = [t \in Txs |-> handed[t] + IF t \in ToSet(msg.txs) THEN 1 ELSE 0]
      /\ meta' = [t \in Own |-> IF t \in Acquired(p, msg)
                                 THEN [status |-> "mined", lock |-> l]
                                 ELSE meta[t]]
  BY DEF AcquiresLock, Delivered, LocksRows, LockId, scanned
<1>2. /\ Own' = Own /\ Txs' = Txs /\ Procs' = Procs
      /\ SharedLockIds' = SharedLockIds
  BY <1>1, CaseSame DEF Txs
<1>3. /\ \A q \in Procs \ {p} : job'[q] = job[q]
      /\ job'[p].pc = "locked" /\ job'[p].lock = l /\ job'[p].msg = msg
  BY <1>1 DEF BalanceInv, KnowInv, PayInv, TypeInv, Idle
<1>4. BagToSet(queue') \subseteq BagToSet(queue)
  BY <1>1 DEF BalanceInv, SkipInv, IsABag, SetToBag, BagToSet, (-)
<1>5. Carried'
  BY <1>1, <1>3, <1>4, CarriedStays
<1>6. Smooth' => Smooth
  BY <1>1, SmoothBefore
<1>7. \A t \in Txs : /\ handed[t] \in Nat
                     /\ handed'[t] = handed[t] + IF t \in ToSet(msg.txs) THEN 1 ELSE 0
  BY <1>1 DEF BalanceInv, SkipInv
<1>8. ASSUME Smooth PROVE Jobs' /\ \A t \in Txs : Settled(t)' = Settled(t)
                                                  /\ Settled(t)' \in Int
  <2>1. /\ JobLocks /\ RowLocks /\ Jobs /\ \A t \in Own : Seen(t)
    BY <1>8 DEF Smooth, BalanceInv, KnowInv, KnowFacts, PayInv
  <2>2. \A q \in Procs : job[q].pc # "idle" => job[q].lock # NoLock
    BY <2>1, NoLockIsNone DEF JobLocks
  <2>3. prefix[p] \in Nat
    BY DEF BalanceInv, KnowInv, PayInv, TypeInv
  <2>4. ASSUME NEW q \in Procs, job[q].pc # "idle" PROVE job[q].lock # l
    <3>1. PICK k \in Nat : job[q].lock = <<k, DropZeros[q]>>
      BY <2>1, <2>4 DEF JobLocks
    <3>2. p # q
      BY <1>1, <2>4
    <3>. QED BY <1>8, <3>1, <3>2 DEF Smooth, SharedLockIds
  <2>5. ASSUME NEW t \in Own PROVE meta[t].lock # l
    BY <1>8, FreshLock DEF Smooth, BalanceInv, KnowInv
  <2>. HIDE DEF l
  <2>6. ASSUME NEW t \in Own
        PROVE  IF t \in Acquired(p, msg)
                 THEN /\ meta'[t].lock = l /\ meta'[t].status = "mined"
                      /\ meta[t].lock = NoLock /\ meta[t].status = "submitted"
                      /\ t \in ToSet(msg.txs)
                 ELSE meta'[t] = meta[t]
    BY <1>1 DEF Acquired
  <2>7. ASSUME NEW t \in Own
        PROVE  t \in Acquired(p, msg) <=> handed[t] = 0 /\ t \in ToSet(msg.txs)
    <3>1. handed[t] \in Nat
      BY <1>7, OwnAreTxs
    <3>2. handed[t] = 0 => meta[t].status = "submitted" /\ meta[t].lock = NoLock
      BY <2>1 DEF Seen
    <3>3. handed[t] > 0 => meta[t].status = "mined"
      BY <2>1 DEF Jobs
    <3>. QED BY <3>1, <3>2, <3>3 DEF Acquired
  <2>8. Jobs'
    <3>1. ASSUME NEW t \in Own, handed'[t] > 0 PROVE meta'[t].status = "mined"
      <4>1. handed[t] \in Nat /\ (handed[t] > 0 \/ t \in ToSet(msg.txs))
        BY <1>7, <3>1, OwnAreTxs
      <4>. QED BY <2>1, <2>6, <2>7, <4>1 DEF Jobs
    <3>2. ASSUME NEW q \in Procs
          PROVE  job'[q].pc \in {"decoded", "inserting", "settling"} =>
                   job'[q].unknown \subseteq ToSet(job'[q].msg.txs)
      BY <1>3, <2>1 DEF Jobs, InBatch
    <3>. QED BY <1>2, <3>1, <3>2 DEF Jobs, InBatch
  <2>9. ASSUME NEW q \in Procs \ {p} PROVE Unsettled(q)' = Unsettled(q)
    <3>1. job'[q] = job[q]
      BY <1>3
    <3>2. job[q].pc = "locked" =>
            {t \in Own : meta'[t].lock = job[q].lock}
              = {t \in Own : meta[t].lock = job[q].lock}
      <4>1. SUFFICES ASSUME job[q].pc = "locked"
                     PROVE  \A t \in Own : meta'[t].lock = job[q].lock
                                            <=> meta[t].lock = job[q].lock
        OBVIOUS
      <4>2. job[q].lock # NoLock /\ job[q].lock # l
        BY <2>2, <2>4, <4>1
      <4>. QED BY <2>6, <4>2
    <3>. QED BY <1>2, <3>1, <3>2 DEF Unsettled, InBatch, LockedBy
  <2>10. ASSUME NEW t \in Txs
         PROVE  /\ t \notin Unsettled(p)
                /\ t \in Unsettled(p)' <=>
                     t \in ToSet(msg.txs) /\ ~(t \in Own /\ handed[t] = 0)
    <3>1. Unsettled(p) = {}
      BY <1>1 DEF Unsettled
    <3>2. Unsettled(p)' = ToSet(msg.txs) \ {u \in Own : meta'[u].lock = l}
      BY <1>2, <1>3 DEF Unsettled, InBatch, LockedBy
    <3>3. t \in Own => (meta'[t].lock = l <=> t \in Acquired(p, msg))
      BY <2>5, <2>6
    <3>. QED BY <2>7, <3>1, <3>2, <3>3
  <2>11. ASSUME NEW t \in Txs
         PROVE  Settled(t)' = Settled(t) /\ Settled(t)' \in Int
    <3>1. /\ handed[t] \in Nat
          /\ handed'[t] = handed[t] + IF t \in ToSet(msg.txs) THEN 1 ELSE 0
      BY <1>7
    <3>2. handed'[t] \in Nat
      BY <3>1
    <3>3. /\ Settled(t)' \in Int /\ Settled(t) \in Int
          /\ Settled(t)' = Settled(t) + (handed'[t] - handed[t])
               - (Owned(t)' - Owned(t))
               + (IF t \in Unsettled(p) THEN 1 ELSE 0)
               - (IF t \in Unsettled(p)' THEN 1 ELSE 0)
      BY <1>1, <2>9, <3>2, JobSettles
    <3>4. /\ Owned(t) = IF t \in Own /\ handed[t] > 0 THEN 1 ELSE 0
          /\ Owned(t)' = IF t \in Own /\ handed'[t] > 0 THEN 1 ELSE 0
      BY <1>2 DEF Owned
    <3>. QED BY <2>10, <3>1, <3>3, <3>4
  <2>. QED BY <2>8, <2>11
<1>. QED BY <1>1, <1>5, <1>6, <1>8, NoneSettled

(* A lock that fails over a batch that has anything is recorded.           *)
LEMMA LockFailsBalances ==
  ASSUME BalanceInv, KnowInv', SkipInv', NEW p \in Procs,
         NEW msg \in BagToSet(queue), LockFails(p, msg)
  PROVE  BalanceInv'
<1>1. /\ UNCHANGED <<case, deaths, balance, job>> /\ MayFail("lock")
      /\ queue' = queue (-) SetToBag({msg})
      /\ dropped' = dropped \cup ToSet(msg.txs)
      /\ handed' = [t \in Txs |-> handed[t] + IF t \in ToSet(msg.txs) THEN 1 ELSE 0]
      /\ LocksRows(p, msg) \/ UNCHANGED meta
  BY DEF LockFails, Delivered, scanned
<1>2. Own' = Own /\ Txs' = Txs /\ Procs' = Procs
  BY <1>1, CaseSame DEF Txs
<1>3. BagToSet(queue') \subseteq BagToSet(queue)
  BY <1>1 DEF BalanceInv, SkipInv, IsABag, SetToBag, BagToSet, (-)
<1>4. Carried'
  BY <1>1, <1>3, CarriedStays
<1>5. Smooth' => Smooth
  BY <1>1, SmoothBefore
<1>6. ASSUME Smooth' PROVE Jobs' /\ \A t \in Txs : Settled(t)' = Settled(t)
                                                  /\ Settled(t)' \in Int
  <2>1. ToSet(msg.txs) = {}
    BY <1>1, <1>6 DEF Smooth
  <2>2. \A t \in Txs : handed'[t] = handed[t]
    BY <1>1, <2>1 DEF BalanceInv, SkipInv
  <2>3. Acquired(p, msg) = {}
    BY <2>1 DEF Acquired
  <2>4. \A t \in Own : meta'[t] = meta[t]
    BY <1>1, <2>3 DEF LocksRows
  <2>5. Jobs
    BY <1>5, <1>6 DEF BalanceInv
  <2>6. Jobs'
    <3>1. \A t \in Own : handed'[t] > 0 => meta'[t].status = "mined"
      BY <2>2, <2>4, <2>5, OwnAreTxs DEF Jobs
    <3>. QED BY <1>1, <1>2, <2>5, <3>1 DEF Jobs, InBatch
  <2>7. \A q \in Procs : Unsettled(q)' = Unsettled(q)
    BY <1>1, <1>2, <2>4 DEF Unsettled, InBatch, LockedBy
  <2>8. ASSUME NEW t \in Txs PROVE Settled(t)' = Settled(t) /\ Settled(t)' \in Int
    <3>1. Holders(t)' = Holders(t)
      BY <1>2, <2>7 DEF Holders
    <3>2. Settled(t) \in Int
      BY SettledType
    <3>. QED BY <1>2, <2>2, <3>1, <3>2 DEF Settled, Owned
  <2>. QED BY <2>6, <2>8
<1>. QED BY <1>1, <1>4, <1>5, <1>6, NoneSettled

(* A job goes on and settles nothing of a transfer.                        *)
LEMMA OnwardBalances ==
  ASSUME BalanceInv, KnowInv', SkipInv', NEW p \in Procs,
         UNCHANGED <<case, queue, handed, deaths, balance>>,
         dropped \subseteq dropped',
         failures' = failures \/ \E k : MayFail(k),
         \A q \in Procs \ {p} : job'[q] = job[q],
         job[p].pc # "idle",
         job'[p].pc # "idle" => job'[p].msg = job[p].msg,
         \A t \in Own : meta'[t].status = meta[t].status,
         Smooth => \A q \in Procs \ {p}, t \in Own : job[q].pc # "idle" =>
           (meta'[t].lock = job[q].lock <=> meta[t].lock = job[q].lock),
         Smooth /\ Smooth' =>
           /\ job'[p].pc \in {"decoded", "inserting", "settling"} =>
                job'[p].unknown \subseteq InBatch(p)
           /\ \A t \in Txs : Moving(t) =>
                (t \in Unsettled(p)' <=> t \in Unsettled(p))
  PROVE  BalanceInv'
<1>1. Own' = Own /\ Txs' = Txs /\ Procs' = Procs
  BY CaseSame DEF Txs
<1>2. Carried'
  BY CarriedStays
<1>3. Smooth' => Smooth
  BY SmoothBefore
<1>4. ASSUME Smooth' PROVE Jobs'
  <2>1. Smooth /\ Jobs
    BY <1>3, <1>4 DEF BalanceInv
  <2>2. ASSUME NEW q \in Procs
        PROVE  job'[q].pc \in {"decoded", "inserting", "settling"} =>
                 job'[q].unknown \subseteq ToSet(job'[q].msg.txs)
    BY <1>4, <2>1 DEF Jobs, InBatch
  <2>. QED BY <1>1, <2>1, <2>2 DEF Jobs, InBatch
<1>5. ASSUME Smooth', NEW t \in Txs
      PROVE  Settled(t)' \in Int /\ (Moving(t) => Settled(t)' = Settled(t))
  <2>0. Smooth
    BY <1>3, <1>5
  <2>1. ASSUME NEW q \in Procs \ {p} PROVE Unsettled(q)' = Unsettled(q)
    <3>1. job[q].pc = "locked" =>
            {u \in Own : meta'[u].lock = job[q].lock}
              = {u \in Own : meta[u].lock = job[q].lock}
      BY <2>0
    <3>. QED BY <1>1, <3>1 DEF Unsettled, InBatch, LockedBy
  <2>2. handed[t] \in Nat /\ handed'[t] = handed[t] /\ Owned(t)' = Owned(t)
    BY <1>1, SettledType DEF Owned
  <2>3. Owned(t) \in {0, 1}
    BY DEF Owned
  <2>4. /\ Settled(t)' \in Int /\ Settled(t) \in Int
        /\ Settled(t)' = Settled(t) + (handed'[t] - handed[t])
             - (Owned(t)' - Owned(t))
             + (IF t \in Unsettled(p) THEN 1 ELSE 0)
             - (IF t \in Unsettled(p)' THEN 1 ELSE 0)
    BY <2>1, <2>2, JobSettles
  <2>5. Moving(t) => (t \in Unsettled(p)' <=> t \in Unsettled(p))
    BY <1>5, <2>0
  <2>. QED BY <2>2, <2>3, <2>4, <2>5
<1>. QED BY <1>2, <1>3, <1>4, <1>5, NoneSettled

(* A job that gives up without a trace had nothing in its batch.           *)
LEMMA GivesUpBalances ==
  ASSUME BalanceInv, KnowInv', SkipInv', NEW p \in Procs, GivesUp(p),
         UNCHANGED <<case, queue, handed, deaths, balance, meta>>,
         failures' = failures \/ \E k : MayFail(k),
         job[p].pc \in {"locked", "decoded", "inserting", "settling"}
  PROVE  BalanceInv'
<1>1. /\ \A q \in Procs \ {p} : job'[q] = job[q]
      /\ job'[p].pc = "release" /\ job'[p].msg = job[p].msg
  BY DEF GivesUp, Goto, BalanceInv, KnowInv, PayInv, TypeInv, Fields
<1>2. dropped' = dropped \cup InBatch(p)
  BY DEF GivesUp
<1>3. Unsettled(p)' = {}
  BY <1>1 DEF Unsettled
<1>4. Smooth /\ Smooth' => Unsettled(p) = {}
  BY <1>2 DEF Smooth, Unsettled, BalanceInv, Jobs
<1>. QED BY <1>1, <1>2, <1>3, <1>4, OnwardBalances

LEMMA ReceiptsBalances ==
  ASSUME BalanceInv, KnowInv', SkipInv', NEW p \in Procs, Receipts(p)
  PROVE  BalanceInv'
<1>1. /\ UNCHANGED <<case, queue, handed, deaths, balance, meta>>
      /\ job[p].pc = "locked" /\ (failures' = failures \/ \E k : MayFail(k))
  BY DEF Receipts, scanned, dbvars
<1>2. CASE GivesUp(p)
  BY <1>1, <1>2, GivesUpBalances
<1>3. CASE ~GivesUp(p)
  <2>1. /\ job' = [job EXCEPT ![p].pc = "decoded",
                             ![p].known = Recognised(p),
                             ![p].unknown = InBatch(p) \ Recognised(p)]
        /\ UNCHANGED dropped
    BY <1>3 DEF Receipts
  <2>2. /\ \A q \in Procs \ {p} : job'[q] = job[q]
        /\ job'[p].pc = "decoded" /\ job'[p].msg = job[p].msg
        /\ job'[p].unknown = InBatch(p) \ LockedBy(job[p].lock)
    BY <2>1 DEF BalanceInv, KnowInv, PayInv, TypeInv, Fields, Recognised
  <2>3. /\ Unsettled(p) = InBatch(p) \ LockedBy(job[p].lock)
        /\ Unsettled(p)' = InBatch(p) \ LockedBy(job[p].lock)
    BY <1>1, <2>2 DEF Unsettled
  <2>. QED BY <1>1, <2>1, <2>2, <2>3, OnwardBalances
<1>. QED BY <1>2, <1>3

(* A job that turns to its next step keeps what it has to settle.          *)
LEMMA TurnsBalances ==
  ASSUME BalanceInv, KnowInv', SkipInv', NEW p \in Procs, NEW c,
         \/ \E ts : Turns(p, "inserting", ts)
         \/ Turns(p, "settling", Moves(p))
         \/ job[p].pc = "inserting" /\ Without(p, c),
         job[p].pc \in {"decoded", "inserting"},
         UNCHANGED <<case, queue, handed, deaths, balance, meta, dropped>>,
         failures' = failures \/ \E k : MayFail(k)
  PROVE  BalanceInv'
<1>1. PayInv
  BY DEF BalanceInv, KnowInv
<1>2. /\ \A q \in Procs \ {p} : job'[q] = job[q]
      /\ job'[p].msg = job[p].msg /\ job'[p].unknown = job[p].unknown
      /\ \/ job'[p].pc = "inserting"
         \/ job'[p].pc = "settling" /\ job'[p].clients = {t.client : t \in Moves(p)}
  BY <1>1, TurnsOrStays
<1>3. Unsettled(p) = job[p].unknown
  BY DEF Unsettled
<1>4. \A t : Moving(t) => (t \in Unsettled(p)' <=> t \in Unsettled(p))
  <2>1. CASE job'[p].pc = "inserting"
    BY <1>2, <1>3, <2>1 DEF Unsettled
  <2>2. CASE job'[p].pc = "settling"
    <3>1. job'[p].clients = {t.client : t \in Moves(p)}
      BY <1>2, <2>2
    <3>2. Unsettled(p)' = {t \in job[p].unknown : t.client \in job'[p].clients}
      BY <1>2, <2>2 DEF Unsettled
    <3>3. Moves(p) = {t \in job[p].unknown : Moving(t)}
      BY DEF Moves, External, Moving
    <3>. QED BY <1>3, <3>1, <3>2, <3>3
  <2>. QED BY <1>2, <2>1, <2>2
<1>5. Smooth => job'[p].unknown \subseteq InBatch(p)
  BY <1>2 DEF BalanceInv, Jobs
<1>. QED BY <1>2, <1>4, <1>5, OnwardBalances

LEMMA PaysBalances ==
  ASSUME BalanceInv, KnowInv', SkipInv', NEW p \in Procs, Pays(p)
  PROVE  BalanceInv'
<1>1. /\ UNCHANGED <<case, queue, handed, deaths, balance, meta>>
      /\ job[p].pc = "decoded" /\ (failures' = failures \/ \E k : MayFail(k))
  BY DEF Pays, scanned
<1>2. CASE GivesUp(p)
  BY <1>1, <1>2, GivesUpBalances
<1>3. CASE ~GivesUp(p)
  <2>1. /\ (\E ts : Turns(p, "inserting", ts)) \/ Turns(p, "settling", Moves(p))
        /\ UNCHANGED dropped
    BY <1>3 DEF Pays
  <2>. QED BY <1>1, <2>1, TurnsBalances
<1>. QED BY <1>2, <1>3

LEMMA InsertsDataBalances ==
  ASSUME BalanceInv, KnowInv', SkipInv', NEW p \in Procs,
         NEW c \in job[p].clients, InsertsData(p, c)
  PROVE  BalanceInv'
<1>1. /\ UNCHANGED <<case, queue, handed, deaths, balance, meta>>
      /\ job[p].pc = "inserting" /\ (failures' = failures \/ \E k : MayFail(k))
  BY DEF InsertsData, scanned
<1>2. CASE GivesUp(p)
  BY <1>1, <1>2, GivesUpBalances
<1>3. CASE ~GivesUp(p)
  <2>1. (Turns(p, "settling", Moves(p)) \/ Without(p, c)) /\ UNCHANGED dropped
    BY <1>3 DEF InsertsData
  <2>. QED BY <1>1, <2>1, TurnsBalances
<1>. QED BY <1>2, <1>3

LEMMA UpdatesLogsBalances ==
  ASSUME BalanceInv, KnowInv', SkipInv', NEW p \in Procs, UpdatesLogs(p)
  PROVE  BalanceInv'
<1>1. /\ UNCHANGED <<case, queue, handed, deaths, balance, meta, dropped>>
      /\ job[p].pc = "settling" /\ job[p].clients = {}
      /\ Goto(p, "release") /\ (failures' = failures \/ \E k : MayFail(k))
  BY DEF UpdatesLogs, scanned
<1>2. /\ \A q \in Procs \ {p} : job'[q] = job[q]
      /\ job'[p].pc = "release" /\ job'[p].msg = job[p].msg
  BY <1>1 DEF Goto, BalanceInv, KnowInv, PayInv, TypeInv, Fields
<1>3. Unsettled(p)' = {} /\ Unsettled(p) = {}
  BY <1>1, <1>2 DEF Unsettled
<1>. QED BY <1>1, <1>2, <1>3, OnwardBalances

LEMMA ReleasesLockBalances ==
  ASSUME BalanceInv, KnowInv', SkipInv', NEW p \in Procs, ReleasesLock(p)
  PROVE  BalanceInv'
<1>1. /\ UNCHANGED <<case, queue, handed, deaths, balance, dropped, failures>>
      /\ job[p].pc = "release" /\ job' = [job EXCEPT ![p] = Idle]
      /\ meta' = [t \in Own |-> IF meta[t].lock = job[p].lock
                                 THEN [meta[t] EXCEPT !.lock = NoLock]
                                 ELSE meta[t]]
  BY DEF ReleasesLock, scanned
<1>2. /\ \A q \in Procs \ {p} : job'[q] = job[q]
      /\ job'[p].pc = "idle"
  BY <1>1 DEF BalanceInv, KnowInv, PayInv, TypeInv, Idle
<1>3. \A t \in Own : /\ meta'[t].status = meta[t].status
                     /\ meta'[t].lock = IF meta[t].lock = job[p].lock
                                          THEN NoLock ELSE meta[t].lock
  BY <1>1 DEF BalanceInv, KnowInv, PayInv, TypeInv
<1>4. Unsettled(p) = {} /\ Unsettled(p)' = {}
  BY <1>1, <1>2 DEF Unsettled
<1>5. ASSUME Smooth, NEW q \in Procs \ {p}, NEW t \in Own, job[q].pc # "idle"
      PROVE  meta'[t].lock = job[q].lock <=> meta[t].lock = job[q].lock
  <2>1. JobLocks
    BY <1>5 DEF Smooth, BalanceInv, KnowInv, KnowFacts
  <2>2. job[q].lock # NoLock
    BY <1>5, <2>1, NoLockIsNone DEF JobLocks
  <2>3. job[q].lock # job[p].lock
    BY <1>5, <2>1, TwoLocks DEF Smooth
  <2>. QED BY <1>3, <2>2, <2>3
<1>. QED BY <1>1, <1>2, <1>3, <1>4, <1>5, OnwardBalances

LEMMA ReleaseFailsBalances ==
  ASSUME BalanceInv, KnowInv', SkipInv', NEW p \in Procs, ReleaseFails(p)
  PROVE  BalanceInv'
<1>1. /\ UNCHANGED <<case, queue, handed, deaths, balance, dropped, meta>>
      /\ job' = [job EXCEPT ![p] = Idle] /\ job[p].pc = "release"
      /\ failures' = failures \/ \E k : MayFail(k)
  BY DEF ReleaseFails, scanned, dbvars
<1>2. /\ \A q \in Procs \ {p} : job'[q] = job[q]
      /\ job'[p].pc = "idle"
  BY <1>1 DEF BalanceInv, KnowInv, PayInv, TypeInv, Idle
<1>3. Unsettled(p) = {} /\ Unsettled(p)' = {}
  BY <1>1, <1>2 DEF Unsettled
<1>. QED BY <1>1, <1>2, <1>3, OnwardBalances

LEMMA LedgerNext ==
  ASSUME UNCHANGED case,
         \A c \in Clients, a \in Addresses :
           balance'[<<c, a>>] = SumFunctionOnSet(Posted(c, a)', Txs)
  PROVE  Ledger'
<1>1. Txs' = Txs /\ Clients' = Clients /\ Addresses' = Addresses
  BY DEF Txs, Clients, Addresses
<1>. QED BY <1>1 DEF Ledger

(* What is settled of a client is added to the balances of its addresses.  *)
LEMMA SettlesAll ==
  ASSUME BalanceInv, KnowInv', SkipInv', NEW p \in Procs,
         NEW c \in job[p].clients, job[p].pc = "settling", Without(p, c),
         UNCHANGED <<case, queue, handed, deaths, meta, dropped, failures>>,
         balance' = [ca \in DOMAIN balance |->
           IF ca[1] = c THEN balance[ca] + Adjustment(Transfers(p, c), ca[2])
                        ELSE balance[ca]]
  PROVE  BalanceInv'
<1>1. /\ \A q \in Procs \ {p} : job'[q] = job[q]
      /\ job'[p].pc = "settling" /\ job'[p].msg = job[p].msg
      /\ job'[p].unknown = job[p].unknown
      /\ job'[p].clients = job[p].clients \ {c}
  BY TurnsOrStays DEF BalanceInv, KnowInv
<1>2. /\ Own' = Own /\ Txs' = Txs /\ Procs' = Procs
      /\ Clients' = Clients /\ Addresses' = Addresses /\ case \in Cases
  BY CaseSame DEF Txs, Clients, Addresses, BalanceInv, SkipInv
<1>3. Carried'
  BY <1>1, CarriedStays
<1>4. Smooth' => Smooth
  BY SmoothBefore
<1>5. ASSUME Smooth' PROVE Jobs' /\ Ledger'
  <2>1. Smooth /\ Jobs /\ Ledger
    BY <1>4, <1>5 DEF BalanceInv
  <2>2. Jobs'
    BY <1>1, <1>2, <2>1 DEF Jobs, InBatch
  <2>3. Transfers(p, c) \subseteq Txs
    BY <2>1 DEF Jobs, BalanceInv, Carried, Transfers, External
  <2>4. ASSUME NEW t \in Txs
        PROVE  /\ Settled(t)' \in Int /\ Settled(t) \in Int
               /\ Moving(t) => Settled(t)' =
                    Settled(t) + (IF t \in Transfers(p, c) THEN 1 ELSE 0)
    <3>1. \A q \in Procs \ {p} : Unsettled(q)' = Unsettled(q)
      BY <1>1, <1>2 DEF Unsettled, InBatch, LockedBy
    <3>2. handed[t] \in Nat /\ handed'[t] = handed[t] /\ Owned(t)' = Owned(t)
      BY <1>2, SettledType DEF Owned
    <3>3. Owned(t) \in {0, 1}
      BY DEF Owned
    <3>4. /\ Settled(t)' \in Int /\ Settled(t) \in Int
          /\ Settled(t)' = Settled(t) + (handed'[t] - handed[t])
               - (Owned(t)' - Owned(t))
               + (IF t \in Unsettled(p) THEN 1 ELSE 0)
               - (IF t \in Unsettled(p)' THEN 1 ELSE 0)
      BY <3>1, <3>2, JobSettles
    <3>5. /\ Unsettled(p) = {u \in job[p].unknown : u.client \in job[p].clients}
          /\ Unsettled(p)' = {u \in job[p].unknown :
                                u.client \in job[p].clients \ {c}}
      BY <1>1 DEF Unsettled
    <3>6. Moving(t) => (t \in Transfers(p, c) <=> t \in Unsettled(p) \ Unsettled(p)')
      BY <3>5 DEF Transfers, External, Moving
    <3>7. Unsettled(p)' \subseteq Unsettled(p)
      BY <3>5
    <3>. QED BY <3>2, <3>3, <3>4, <3>6, <3>7
  <2>5. ASSUME NEW d \in Clients, NEW a \in Addresses
        PROVE  balance'[<<d, a>>] = SumFunctionOnSet(Posted(d, a)', Txs)
    <3> DEFINE old == Posted(d, a)
               new == Posted(d, a)'
               more == [t \in Txs |-> IF t \in Transfers(p, c)
                                        THEN Weight(t, d, a) ELSE 0]
    <3>1. ASSUME NEW t \in Txs
          PROVE  /\ old[t] \in Int /\ more[t] \in Int
                 /\ new[t] = old[t] + more[t]
      <4>1. Weight(t, d, a) \in Int
        BY <1>2, WeightType
      <4>2. /\ old[t] = Weight(t, d, a) * Settled(t)
            /\ new[t] = Weight(t, d, a) * Settled(t)'
        BY <1>2 DEF Posted, Weight, Moving, Change
      <4>3. Moving(t) \/ Weight(t, d, a) = 0
        BY DEF Weight
      <4>4. more[t] = IF t \in Transfers(p, c) THEN Weight(t, d, a) ELSE 0
        OBVIOUS
      <4>. HIDE DEF old, new, more
      <4>5. CASE Weight(t, d, a) = 0
        BY <2>4, <4>1, <4>2, <4>4, <4>5
      <4>6. CASE Moving(t) /\ t \in Transfers(p, c)
        BY <2>4, <4>1, <4>2, <4>4, <4>6
      <4>7. CASE Moving(t) /\ t \notin Transfers(p, c)
        BY <2>4, <4>1, <4>2, <4>4, <4>7
      <4>. QED BY <4>3, <4>5, <4>6, <4>7
    <3>2. IsFiniteSet(Txs)
      BY <1>2, FiniteCase
    <3>3. SumFunctionOnSet(new, Txs)
            = SumFunctionOnSet(old, Txs) + SumFunctionOnSet(more, Txs)
      <4>. HIDE DEF old, new, more
      <4>. QED BY <3>1, <3>2, SumAdds
    <3>4. balance[<<d, a>>] = SumFunctionOnSet(old, Txs)
      BY <2>1 DEF Ledger
    <3>5. <<d, a>> \in DOMAIN balance
      BY DEF BalanceInv
    <3>6. balance'[<<d, a>>] = IF d = c
            THEN balance[<<d, a>>] + Adjustment(Transfers(p, c), a)
            ELSE balance[<<d, a>>]
      BY <3>5
    <3>7. SumFunctionOnSet(old, Txs) \in Int
      <4>. HIDE DEF old, new, more
      <4>. QED BY <3>1, <3>2, SumInt
    <3>8. CASE d # c
      <4>1. \A t \in Txs \ {} : more[t] = 0
        BY <3>8 DEF Weight, Moving, Transfers
      <4>2. SumFunctionOnSet(more, Txs) = 0
        <5>. HIDE DEF more, old, new
        <5>1. SumFunctionOnSet(more, Txs) = SumFunctionOnSet(more, {})
          BY <3>1, <3>2, <4>1, SumOfPart
        <5>. QED BY <5>1, SumEmpty
      <4>. HIDE DEF more, old
      <4>. QED BY <3>3, <3>4, <3>6, <3>7, <3>8, <4>2
    <3>9. CASE d = c
      <4> DEFINE part == {t \in Transfers(p, c) : t.from # "contract"}
                 each == [t \in Transfers(p, c) |-> Change(t, a)]
      <4>1. part \subseteq Txs /\ \A t \in Txs \ part : more[t] = 0
        BY <2>3 DEF Weight, Moving
      <4>2. \A t \in part : more[t] = each[t]
        BY <2>3, <3>9 DEF Weight, Moving, Transfers, External
      <4>3. Adjustment(Transfers(p, c), a) = SumFunctionOnSet(each, part)
        BY DEF Adjustment, Change
      <4>. HIDE DEF more, part, each, old, new
      <4>4. SumFunctionOnSet(more, Txs) = SumFunctionOnSet(more, part)
        BY <3>1, <3>2, <4>1, SumOfPart
      <4>5. IsFiniteSet(part)
        BY <3>2, <4>1, FS_Subset
      <4>6. SumFunctionOnSet(more, part) = SumFunctionOnSet(each, part)
        BY <3>1, <4>1, <4>2, <4>5, SumSame
      <4>7. Adjustment(Transfers(p, c), a) = SumFunctionOnSet(more, Txs)
        BY <4>3, <4>4, <4>6
      <4>8. balance'[<<d, a>>] = balance[<<d, a>>] + Adjustment(Transfers(p, c), a)
        BY <3>6, <3>9
      <4>9. balance'[<<d, a>>] = SumFunctionOnSet(new, Txs)
        BY <3>3, <3>4, <4>7, <4>8
      <4>. QED BY <4>9 DEF new
    <3>. QED BY <3>8, <3>9
  <2>6. Ledger'
    BY <2>5, LedgerNext
  <2>. QED BY <2>2, <2>6
<1>6. DOMAIN balance' = Clients' \X Addresses'
  BY <1>2 DEF BalanceInv
<1>. QED BY <1>3, <1>5, <1>6 DEF BalanceInv

LEMMA SettlesBalancesBalances ==
  ASSUME BalanceInv, KnowInv', SkipInv', NEW p \in Procs,
         NEW c \in job[p].clients, SettlesBalances(p, c)
  PROVE  BalanceInv'
<1>1. UNCHANGED <<case, queue, handed, deaths, meta>> /\ job[p].pc = "settling"
  BY DEF SettlesBalances, scanned
<1>2. CASE GivesUp(p) /\ UNCHANGED <<balance, failures>>
  BY <1>1, <1>2, GivesUpBalances
<1>3. CASE ~(GivesUp(p) /\ UNCHANGED <<balance, failures>>)
  <2>1. PICK lost \in {{}} \cup {{a} : a \in Addresses} :
          /\ balance' = [ca \in DOMAIN balance |->
               IF ca[1] = c /\ ca[2] \notin lost
                 THEN balance[ca] + Adjustment(Transfers(p, c), ca[2])
                 ELSE balance[ca]]
          /\ \/ /\ IF lost = {} THEN UNCHANGED failures ELSE MayFail("settle")
                /\ Without(p, c) /\ UNCHANGED dropped
             \/ MayFail("settle") /\ GivesUp(p)
    BY <1>3 DEF SettlesBalances
  <2>2. CASE lost = {} /\ Without(p, c) /\ UNCHANGED <<dropped, failures>>
    <3>1. Without(p, c) /\ UNCHANGED <<dropped, failures>>
      BY <2>2
    <3>2. balance' = [ca \in DOMAIN balance |->
            IF ca[1] = c THEN balance[ca] + Adjustment(Transfers(p, c), ca[2])
                         ELSE balance[ca]]
      BY <2>1, <2>2
    <3>. QED BY <1>1, <3>1, <3>2, SettlesAll
  <2>3. CASE MayFail("settle") /\ (Without(p, c) \/ GivesUp(p))
    <3>1. MayFail("settle") /\ (Without(p, c) \/ Goto(p, "release"))
      BY <2>3 DEF GivesUp
    <3>2. /\ \A q \in Procs \ {p} : job'[q] = job[q]
          /\ job'[p].msg = job[p].msg
      BY <3>1, TurnsOrStays DEF Goto, BalanceInv, KnowInv, PayInv, TypeInv, Fields
    <3>3. Carried'
      BY <1>1, <3>2, CarriedStays
    <3>4. ~Smooth'
      BY <3>1, FailuresGrow DEF Smooth
    <3>5. DOMAIN balance' = Clients' \X Addresses'
      BY <1>1, <2>1 DEF BalanceInv, Clients, Addresses, Txs
    <3>. QED BY <3>3, <3>4, <3>5 DEF BalanceInv
  <2>. QED BY <2>1, <2>2, <2>3
<1>. QED BY <1>2, <1>3

LEMMA BalanceStep == BalanceInv /\ [Next]_vars => BalanceInv'
<1> SUFFICES ASSUME BalanceInv, [Next]_vars PROVE BalanceInv'
  OBVIOUS
<1>0. KnowInv' /\ SkipInv'
  BY KnowInvStep, SkipInvStep DEF BalanceInv
<1>1. CASE DelegatorWorks \/ DelegatorFails
  <2>1. UNCHANGED platform /\ (failures' = failures \/ \E k : MayFail(k))
    BY <1>1 DEF DelegatorWorks, DelegatorFails, Begins, Publishes, WritesFile,
       Exits, Restarts, PicksBlock, NoBlock, PublishFails, GetsSignal, Dies
  <2>2. CASE UNCHANGED queue
    BY <1>0, <2>1, <2>2, AsideBalances DEF platform, dbvars
  <2>3. CASE Publishes
    <3>1. /\ parts # <<>> /\ parts \in Seq(Seq(Txs))
          /\ queue' = queue (+) SetToBag({[block |-> last + 1, txs |-> Head(parts)]})
      BY <2>3 DEF Publishes, BalanceInv, SkipInv
    <3>2. Head(parts) \in Seq(Txs)
      BY <3>1
    <3>3. ToSet(Head(parts)) \subseteq Txs
      BY <3>2 DEF ToSet
    <3>4. BagToSet(queue') = BagToSet(queue)
                               \cup {[block |-> last + 1, txs |-> Head(parts)]}
      BY <3>1, Added DEF BalanceInv, SkipInv
    <3>5. \E msg : /\ ToSet(msg.txs) \subseteq Txs
                   /\ BagToSet(queue') = BagToSet(queue) \cup {msg}
      BY <3>3, <3>4
    <3>. QED BY <1>0, <2>1, <3>5, AsideBalances DEF platform, dbvars
  <2>4. UNCHANGED queue \/ Publishes
    BY <1>1 DEF DelegatorWorks, DelegatorFails, Begins, WritesFile,
       Exits, Restarts, PicksBlock, NoBlock, PublishFails, GetsSignal, Dies
  <2>. QED BY <2>2, <2>3, <2>4
<1>2. CASE UNCHANGED vars
  BY <1>0, <1>2, AsideBalances DEF vars, dbvars
<1>3. ASSUME NEW t \in Own, RowSubmitted(t) PROVE BalanceInv'
  <2>1. /\ UNCHANGED <<case, wvars, queue, balance, failures>>
        /\ meta' = [meta EXCEPT ![t].status = "submitted"]
        /\ meta[t].status = "processing"
    BY <1>3 DEF RowSubmitted
  <2>2. \A u \in Own : /\ meta'[u].lock = meta[u].lock
                       /\ meta[u].status = "mined" => meta'[u].status = "mined"
    BY <2>1 DEF BalanceInv, KnowInv, PayInv, TypeInv
  <2>. QED BY <1>0, <2>1, <2>2, AsideBalances
<1>4. ASSUME NEW p \in Procs, WorkerWorks(p) \/ WorkerDies(p) PROVE BalanceInv'
  BY <1>0, <1>4, AcquiresLockBalances, ReceiptsBalances, PaysBalances,
     InsertsDataBalances, SettlesBalancesBalances, UpdatesLogsBalances,
     ReleasesLockBalances, ReleaseFailsBalances, LockFailsBalances,
     WorkerDiesBalances DEF WorkerWorks
<1>. QED BY <1>1, <1>2, <1>3, <1>4 DEF Next

LEMMA AtRestBalances ==
  ASSUME BalanceInv, AtRest, Smooth, NEW c \in Clients, NEW a \in Addresses
  PROVE  LET times(t) == handed[t] - (IF t \in Own THEN 1 ELSE 0)
             of(end) == SumFunctionOnSet([t \in Txs |-> t.value * times(t)],
               {t \in Txs : /\ IsTransfer(t) /\ t.client = c /\ t[end] = a
                            /\ t.from # "contract" /\ handed[t] > 0})
         IN balance[<<c, a>>] = of("to") - of("from")
<1> DEFINE times(t) == handed[t] - (IF t \in Own THEN 1 ELSE 0)
           worth == [t \in Txs |-> t.value * times(t)]
           moved(end) == {t \in Txs :
                            /\ IsTransfer(t) /\ t.client = c /\ t[end] = a
                            /\ t.from # "contract" /\ handed[t] > 0}
           in == moved("to")
           out == moved("from")
           credit == [t \in Txs |-> IF t \in in THEN worth[t] ELSE 0]
           debit == [t \in Txs |-> IF t \in out THEN worth[t] ELSE 0]
           posted == Posted(c, a)
<1>1. case \in Cases /\ IsFiniteSet(Txs)
  BY FiniteCase DEF BalanceInv, SkipInv
<1>2. ASSUME NEW t \in Txs
      PROVE  /\ worth[t] \in Int /\ posted[t] \in Int
             /\ credit[t] \in Int /\ debit[t] \in Int
             /\ credit[t] = posted[t] + debit[t]
  <2>1. t.value \in Nat /\ handed[t] \in Nat
    BY <1>1, FiniteCase, SettledType
  <2>2. times(t) \in Int
    BY <2>1
  <2>3. Settled(t) = IF handed[t] > 0 THEN times(t) ELSE 0
    <3>1. Holders(t) = {}
      BY DEF AtRest, Holders, Unsettled, Idle
    <3>2. Cardinality(Holders(t)) = 0
      BY <3>1, FS_EmptySet
    <3>. QED BY <2>1, <3>2 DEF Settled, Owned
  <2>4. posted[t] = Weight(t, c, a) * Settled(t)
    BY DEF Posted
  <2>5. worth[t] = t.value * times(t)
    OBVIOUS
  <2>6. /\ credit[t] = IF t \in in THEN worth[t] ELSE 0
        /\ debit[t] = IF t \in out THEN worth[t] ELSE 0
    OBVIOUS
  <2>7. /\ t \in in <=> /\ IsTransfer(t) /\ t.client = c /\ t.to = a
                        /\ t.from # "contract" /\ handed[t] > 0
        /\ t \in out <=> /\ IsTransfer(t) /\ t.client = c /\ t.from = a
                         /\ t.from # "contract" /\ handed[t] > 0
    OBVIOUS
  <2>. HIDE DEF times, worth, in, out, credit, debit, posted
  <2>8. worth[t] \in Int
    BY <2>1, <2>2, <2>5
  <2>9. CASE IsTransfer(t) /\ t.client = c /\ t.from # "contract" /\ handed[t] > 0
    <3>1. Settled(t) = times(t)
      BY <2>3, <2>9
    <3>2. Weight(t, c, a) = (IF t.to = a THEN t.value ELSE 0)
                              - (IF t.from = a THEN t.value ELSE 0)
      BY <2>9 DEF Weight, Moving, Change
    <3>3. posted[t] = (IF t.to = a THEN worth[t] ELSE 0)
                        - (IF t.from = a THEN worth[t] ELSE 0)
      BY <2>1, <2>2, <2>4, <2>5, <3>1, <3>2
    <3>. QED BY <2>6, <2>7, <2>8, <2>9, <3>3
  <2>10. CASE ~(IsTransfer(t) /\ t.client = c /\ t.from # "contract" /\ handed[t] > 0)
    <3>1. Weight(t, c, a) \in Int /\ (Weight(t, c, a) = 0 \/ Settled(t) = 0)
      BY <1>1, <2>1, <2>3, <2>10, WeightType DEF Weight, Moving
    <3>2. Settled(t) \in Int
      BY <2>2, <2>3
    <3>3. posted[t] = 0
      BY <2>4, <3>1, <3>2
    <3>. QED BY <2>6, <2>7, <2>8, <2>10, <3>3
  <2>. QED BY <2>9, <2>10
<1>3. /\ in \subseteq Txs /\ \A t \in Txs \ in : credit[t] = 0
      /\ out \subseteq Txs /\ \A t \in Txs \ out : debit[t] = 0
      /\ \A t \in in : credit[t] = worth[t]
      /\ \A t \in out : debit[t] = worth[t]
  OBVIOUS
<1>4. balance[<<c, a>>] = SumFunctionOnSet(posted, Txs)
  BY DEF BalanceInv, Ledger
<1>5. balance[<<c, a>>] = SumFunctionOnSet(worth, in) - SumFunctionOnSet(worth, out)
  <2>. HIDE DEF worth, in, out, credit, debit, posted
  <2>1. SumFunctionOnSet(credit, Txs)
          = SumFunctionOnSet(posted, Txs) + SumFunctionOnSet(debit, Txs)
    BY <1>1, <1>2, SumAdds
  <2>2. /\ SumFunctionOnSet(credit, Txs) = SumFunctionOnSet(credit, in)
        /\ SumFunctionOnSet(debit, Txs) = SumFunctionOnSet(debit, out)
    BY <1>1, <1>2, <1>3, SumOfPart
  <2>3. IsFiniteSet(in) /\ IsFiniteSet(out)
    BY <1>1, <1>3, FS_Subset
  <2>4. /\ SumFunctionOnSet(credit, in) = SumFunctionOnSet(worth, in)
        /\ SumFunctionOnSet(debit, out) = SumFunctionOnSet(worth, out)
    BY <1>2, <1>3, <2>3, SumSame
  <2>5. SumFunctionOnSet(posted, Txs) \in Int /\ SumFunctionOnSet(debit, Txs) \in Int
    BY <1>1, <1>2, SumInt
  <2>. QED BY <1>4, <2>1, <2>2, <2>4, <2>5
<1>. QED BY <1>5

(* When the workers rest, every delivery of a transfer that was not taken  *)
(* for the platform's own has changed the balances of both its ends once   *)
(* (BalancesFollowDeliveries), however batches, jobs and clients are       *)
(* interleaved and however often a block was distributed.                  *)
THEOREM BalancesAreRight == Spec => []BalancesFollowDeliveries
<1>1. BalanceInv => BalancesFollowDeliveries
  BY AtRestBalances DEF BalancesFollowDeliveries, Smooth
<1>. QED BY <1>1, BalanceInit, BalanceStep, PTL DEF Spec
=============================================================================
