--------------------- MODULE TransactionLifecycle_proofs --------------------
(* Theorems about TransactionLifecycle, for any consumers, observers and   *)
(* bounds.                                                                 *)
EXTENDS TransactionLifecycle, TLAPS

(* What a run knows: a raw transaction only while it writes it down, and a *)
(* nonce when it reports success; its catch never reports success.         *)
RunsKnow ==
  \A e \in Exec :
    /\ raw[e] => Writing(e) /\ nonce[e] \in Nonces
    /\ at[e] \in {"meta", "log"} /\ res[e] = "ok" => nonce[e] \in Nonces
    /\ at[e] \in {"catchMeta", "catchLog"} => res[e] # "ok"

LogKnows == log.raw => log.nonce \in Nonces

ScannerKnows == scanner.at # "idle" => scanner.tx \in Nonces

TypeInv == TypeOK /\ RunsKnow /\ LogKnows /\ ScannerKnows /\ SubmittedHash

LEMMA CopyTypes ==
  /\ \A item \in Item : Copy(item) \in Copies
  /\ \A c \in Copies : c.nonce \in Nonces \cup {NoNonce}
  BY DEF Copies, Copy, Item

LEMMA TypeInit == Init => TypeInv
<1> SUFFICES ASSUME Init PROVE TypeInv
  OBVIOUS
<1> USE DEF Init, NoItem
<1>1. /\ api \in {"insert", "createLog", "publish", "markFailed", "done"}
      /\ queue \in BOOLEAN /\ owner \in Worker \cup {NoOne}
      /\ lost \in BOOLEAN /\ early \in BOOLEAN
      /\ copies \subseteq Copies
  OBVIOUS
<1>2. meta \in Meta
  BY DEF Meta, Status
<1>3. log \in Item
  BY DEF Item
<1>4. /\ at \in [Exec -> Places]
      /\ nonce \in [Exec -> Nonces \cup {NoNonce}]
      /\ raw \in [Exec -> BOOLEAN]
      /\ res \in [Exec -> {"ok", "gethDown", "error", "unwritten"}]
  BY DEF Places
<1>5. chain \in Chain /\ scanner \in ScannerState
  BY LifecycleAssumption DEF Chain, ScannerState
<1>6. RunsKnow /\ LogKnows /\ ScannerKnows /\ SubmittedHash
  BY DEF RunsKnow, LogKnows, ScannerKnows, SubmittedHash
<1>. QED BY <1>1, <1>2, <1>3, <1>4, <1>5, <1>6 DEF TypeInv, TypeOK

-----------------------------------------------------------------------------
LEMMA ChainTypes ==
  ASSUME chain \in Chain
  PROVE  /\ chain.pending \subseteq Nonces /\ chain.mined \subseteq Nonces
         /\ chain.next \in Nat
         /\ \A n \in Nat, p, m \in SUBSET Nonces :
              /\ [chain EXCEPT !.next = n, !.pending = p] \in Chain
              /\ [chain EXCEPT !.pending = p, !.mined = m] \in Chain
              /\ [chain EXCEPT !.pending = p] \in Chain
  BY DEF Chain

(* updateItem keeps the item and its copies well formed. *)
LEMMA UpdateItemTypes ==
  ASSUME TypeOK, NEW item \in Item, UpdateItem(item)
  PROVE  log' \in Item /\ copies' \subseteq Copies
  BY CopyTypes DEF TypeOK, UpdateItem, logVars

(* The end of a run leaves a clean slate. *)
LEMMA EndedTypes ==
  ASSUME TypeOK, RunsKnow, NEW e \in Exec, NEW from, Ended(e, from)
  PROVE  /\ at' \in [Exec -> Places]
         /\ owner' \in Worker \cup {NoOne}
         /\ nonce' \in [Exec -> Nonces \cup {NoNonce}]
         /\ raw' \in [Exec -> BOOLEAN]
         /\ res' \in [Exec -> {"ok", "gethDown", "error", "unwritten"}]
         /\ RunsKnow'
  BY DEF TypeOK, RunsKnow, Ended, Move, Places, Writing

(* Steps that touch neither the runs nor the log item. *)
LEMMA RunsFrame ==
  ASSUME TypeInv, UNCHANGED <<logVars, runVars>>
  PROVE  /\ log' \in Item /\ copies' \subseteq Copies
         /\ at' \in [Exec -> Places]
         /\ nonce' \in [Exec -> Nonces \cup {NoNonce}]
         /\ raw' \in [Exec -> BOOLEAN]
         /\ res' \in [Exec -> {"ok", "gethDown", "error", "unwritten"}]
         /\ RunsKnow' /\ LogKnows'
  BY DEF TypeInv, TypeOK, RunsKnow, LogKnows, Writing, logVars, runVars

LEMMA TypeApi ==
  ASSUME TypeInv, ApiStep \/ ApiFails
  PROVE  TypeInv'
<1> USE DEF logVars, mqVars, runVars, worldVars, histVars
<1>1. CASE InsertMeta
  BY <1>1, RunsFrame DEF InsertMeta, ScannerKnows, TypeInv, TypeOK, Meta, Status, SubmittedHash
<1>2. CASE CreateLog
  <2>1. [log EXCEPT !.status = "processing"] \in Item
    BY DEF TypeInv, TypeOK, Item
  <2>2. log' \in Item /\ copies' \subseteq Copies
    BY <1>2, <2>1, UpdateItemTypes DEF CreateLog, TypeInv
  <2>3. RunsKnow' /\ LogKnows'
    BY <1>2 DEF CreateLog, UpdateItem, TypeInv, TypeOK, Item, RunsKnow, LogKnows, Writing
  <2>. QED BY <1>2, <2>2, <2>3 DEF CreateLog, ScannerKnows, TypeInv, TypeOK,
                                  SubmittedHash
<1>3. CASE Publish
  BY <1>3, RunsFrame DEF Publish, ScannerKnows, TypeInv, TypeOK, SubmittedHash
<1>4. CASE MarkFailed
  BY <1>4, RunsFrame DEF MarkFailed, ScannerKnows, TypeInv, TypeOK, Meta, Status, SubmittedHash
<1>5. CASE ApiFails
  BY <1>5, RunsFrame DEF ApiFails, ScannerKnows, TypeInv, TypeOK, SubmittedHash
<1>. QED BY <1>1, <1>2, <1>3, <1>4, <1>5 DEF ApiStep

LEMMA TypeEnvironment ==
  ASSUME TypeInv, Due \/ Environment
  PROVE  TypeInv'
<1> USE DEF logVars, mqVars, runVars, worldVars, histVars
<1>1. CASE Due
  BY <1>1, RunsFrame DEF Due, ScannerKnows, TypeInv, TypeOK, Meta, SubmittedHash
<1>2. CASE ApiFails
  BY <1>2, TypeApi
<1>3. CASE ScannerCrash
  <2>1. scanner' \in ScannerState /\ ScannerKnows'
    BY <1>3 DEF ScannerCrash, ScannerKnows, ScannerState, TypeInv, TypeOK
  <2>2. meta' \in Meta /\ SubmittedHash'
    BY <1>3 DEF ScannerCrash, TypeInv, TypeOK, Meta, SubmittedHash
  <2>. QED BY <1>3, <2>1, <2>2, RunsFrame DEF ScannerCrash, TypeInv, TypeOK
<1>4. ASSUME NEW e \in Exec, Crash(e) PROVE TypeInv'
  <2>1. meta' \in Meta /\ SubmittedHash'
    BY <1>4 DEF Crash, TypeInv, TypeOK, Meta, SubmittedHash
  <2>2. /\ at' \in [Exec -> Places]
        /\ owner' \in Worker \cup {NoOne} /\ queue' \in BOOLEAN
        /\ nonce' \in [Exec -> Nonces \cup {NoNonce}]
        /\ raw' \in [Exec -> BOOLEAN]
        /\ res' \in [Exec -> {"ok", "gethDown", "error", "unwritten"}]
    BY <1>4 DEF Crash, TypeInv, TypeOK, Places
  <2>3. RunsKnow' /\ LogKnows'
    BY <1>4 DEF Crash, TypeInv, TypeOK, RunsKnow, LogKnows, Writing
  <2>. QED BY <1>4, <2>1, <2>2, <2>3 DEF Crash, ScannerKnows, TypeInv, TypeOK
<1>5. CASE Disconnect
  BY <1>5, RunsFrame DEF Disconnect, ScannerKnows, TypeInv, TypeOK, SubmittedHash
<1>6. ASSUME NEW k \in chain.pending, Mine(k) \/ Drop(k) PROVE TypeInv'
  <2>1. /\ chain.pending \ {k} \in SUBSET Nonces
        /\ chain.mined \cup {k} \in SUBSET Nonces
    BY ChainTypes DEF TypeInv, TypeOK
  <2>2. chain' \in Chain
    <3>1. CASE Mine(k)
      BY <2>1, <3>1 DEF Mine, TypeInv, TypeOK, Chain
    <3>2. CASE Drop(k)
      BY <2>1, <3>2 DEF Drop, TypeInv, TypeOK, Chain
    <3>. QED BY <1>6, <3>1, <3>2
  <2>. QED BY <1>6, <2>2, RunsFrame DEF Mine, Drop, ScannerKnows, TypeInv, TypeOK, SubmittedHash
<1>. QED BY <1>1, <1>2, <1>3, <1>4, <1>5, <1>6 DEF Environment

LEMMA TypeScan ==
  ASSUME TypeInv, ScanStep
  PROVE  TypeInv'
<1> USE DEF logVars, mqVars, runVars, worldVars, histVars
<1>0. /\ scanner \in ScannerState /\ scanner.seen \subseteq Nonces
      /\ chain.mined \subseteq Nonces
      /\ scanner.at # "idle" => scanner.tx \in Nonces
  BY ChainTypes DEF TypeInv, TypeOK, ScannerState, ScannerKnows
<1>s. ASSUME NEW k \in Nonces, Scanned(k)
      PROVE  scanner' \in ScannerState /\ ScannerKnows'
  <2>1. scanner.seen \cup {k} \in SUBSET Nonces
    BY <1>0
  <2>. QED BY <1>s, <2>1 DEF Scanned, ScannerState, ScannerKnows
<1>1. ASSUME NEW k \in chain.mined, ScanLock(k) PROVE TypeInv'
  <2>1. meta' \in Meta /\ SubmittedHash'
    BY <1>1 DEF ScanLock, Recognised, TypeInv, TypeOK, Meta, Status, SubmittedHash
  <2>2. scanner' \in ScannerState /\ ScannerKnows'
    BY <1>0, <1>s, <1>1 DEF ScanLock, ScannerState, ScannerKnows
  <2>. QED BY <1>1, <2>1, <2>2, RunsFrame DEF ScanLock, TypeInv, TypeOK
<1>2. CASE ScanSettle
  <2>1. \A s \in {"complete", "failed"} :
           [log EXCEPT !.status = s, !.raw = FALSE] \in Item
    BY DEF TypeInv, TypeOK, Item
  <2>2. log' \in Item /\ copies' \subseteq Copies
    BY <1>2, <2>1, UpdateItemTypes DEF ScanSettle, TypeInv
  <2>3. RunsKnow' /\ LogKnows'
    BY <1>2 DEF ScanSettle, UpdateItem, TypeInv, TypeOK, Item, RunsKnow,
                LogKnows, Writing
  <2>4. scanner' \in ScannerState /\ ScannerKnows'
    BY <1>0, <1>2 DEF ScanSettle, ScannerState, ScannerKnows
  <2>. QED BY <1>2, <2>2, <2>3, <2>4 DEF ScanSettle, TypeInv, TypeOK, SubmittedHash
<1>3. CASE ScanRelease
  <2>1. meta' \in Meta /\ SubmittedHash'
    BY <1>3 DEF ScanRelease, TypeInv, TypeOK, Meta, SubmittedHash
  <2>2. scanner' \in ScannerState /\ ScannerKnows'
    BY <1>0, <1>s, <1>3 DEF ScanRelease
  <2>. QED BY <1>3, <2>1, <2>2, RunsFrame DEF ScanRelease, TypeInv, TypeOK
<1>4. CASE ScanFails
  <2>1. meta' \in Meta /\ SubmittedHash'
    BY <1>4 DEF ScanFails, TypeInv, TypeOK, Meta, SubmittedHash
  <2>2. scanner' \in ScannerState /\ ScannerKnows'
    BY <1>0, <1>s, <1>4 DEF ScanFails, Unscanned
  <2>. QED BY <1>4, <2>1, <2>2, RunsFrame DEF ScanFails, TypeInv, TypeOK
<1>. QED BY <1>1, <1>2, <1>3, <1>4 DEF ScanStep

-----------------------------------------------------------------------------
(* Deliveries and the steps of a run. *)
LEMMA TypeDeliver ==
  ASSUME TypeInv, NEW w \in Worker, Deliver(w) \/ NeverAcked(w)
  PROVE  TypeInv'
<1> USE DEF logVars, mqVars, runVars, worldVars, histVars
<1>1. at' \in [Exec -> Places] /\ queue' \in BOOLEAN /\ owner' \in Worker \cup {NoOne}
  BY DEF Deliver, NeverAcked, Move, Places, TypeInv, TypeOK
<1>2. RunsKnow'
  BY DEF Deliver, NeverAcked, Move, TypeInv, TypeOK, RunsKnow, Writing, Exec
<1>. QED
  BY <1>1, <1>2 DEF Deliver, NeverAcked, TypeInv, TypeOK, LogKnows, ScannerKnows,
                    SubmittedHash

LEMMA TypeRun ==
  ASSUME TypeInv, NEW e \in Exec, RunStep(e)
  PROVE  TypeInv'
<1> USE DEF logVars, mqVars, runVars, worldVars, histVars
<1>1. CASE FetchLog(e)
  <2>1. PICK item \in copies \cup {Copy(log)} :
          IF item.status = "processing"
          THEN /\ Move(e, "fetch", "cas")
               /\ nonce' = [nonce EXCEPT ![e] = item.nonce]
               /\ UNCHANGED <<owner, raw, res>>
          ELSE Ended(e, "fetch")
    BY <1>1 DEF FetchLog
  <2>2. item.nonce \in Nonces \cup {NoNonce}
    BY CopyTypes DEF TypeInv, TypeOK
  <2>3. /\ at' \in [Exec -> Places]
        /\ owner' \in Worker \cup {NoOne}
        /\ nonce' \in [Exec -> Nonces \cup {NoNonce}]
        /\ raw' \in [Exec -> BOOLEAN]
        /\ res' \in [Exec -> {"ok", "gethDown", "error", "unwritten"}]
        /\ RunsKnow'
    <3>1. CASE Ended(e, "fetch")
      BY <3>1, EndedTypes DEF TypeInv
    <3>2. CASE /\ Move(e, "fetch", "cas")
               /\ nonce' = [nonce EXCEPT ![e] = item.nonce]
               /\ UNCHANGED <<owner, raw, res>>
      BY <2>2, <3>2 DEF Move, Places, TypeInv, TypeOK, RunsKnow, Writing
    <3>. QED BY <2>1, <3>1, <3>2
  <2>. QED BY <1>1, <2>3 DEF FetchLog, TypeInv, TypeOK, LogKnows, ScannerKnows,
                             SubmittedHash
<1>2. CASE FetchFails(e) \/ NotStarted(e) \/ ValidationFails(e)
  <2>1. \E from \in {"fetch", "cas", "steps"} : Ended(e, from)
    BY <1>2 DEF FetchFails, NotStarted, ValidationFails
  <2>. QED BY ZenonT(30), <1>2, <2>1, EndedTypes
           DEF FetchFails, NotStarted, ValidationFails, TypeInv, TypeOK, LogKnows,
               ScannerKnows, SubmittedHash
<1>3. CASE StartProcessing(e)
  <2>1. meta' \in Meta /\ SubmittedHash'
    BY <1>3 DEF StartProcessing, TypeInv, TypeOK, Meta, Status, SubmittedHash
  <2>2. at' \in [Exec -> Places] /\ RunsKnow'
    BY <1>3 DEF StartProcessing, Move, Places, TypeInv, TypeOK, RunsKnow, Writing
  <2>. QED BY <1>3, <2>1, <2>2
           DEF StartProcessing, TypeInv, TypeOK, LogKnows, ScannerKnows
<1>4. ASSUME NEW outcome \in Outcomes, StepsFail(e, outcome) PROVE TypeInv'
  <2>1. /\ at' \in [Exec -> Places] /\ RunsKnow'
        /\ res' \in [Exec -> {"ok", "gethDown", "error", "unwritten"}]
    BY <1>4 DEF StepsFail, Outcomes, Move, Places, TypeInv, TypeOK, RunsKnow, Writing
  <2>. QED BY <1>4, <2>1
           DEF StepsFail, TypeInv, TypeOK, LogKnows, ScannerKnows, SubmittedHash
<1>5. ASSUME NEW outcome \in Outcomes, Pay(e, outcome) PROVE TypeInv'
  <2>1. PICK k \in Nonces, taken, known \in BOOLEAN :
          /\ Move(e, "steps", IF outcome = "ok" THEN "meta" ELSE "catchMeta")
          /\ outcome = "ok" => taken /\ known
          /\ chain' = [chain EXCEPT !.next = IF Kept(e) THEN @ ELSE @ + 1,
                         !.pending = IF taken THEN @ \cup {k} ELSE @]
          /\ nonce' = [nonce EXCEPT ![e] = k]
          /\ raw' = [raw EXCEPT ![e] = known]
          /\ res' = [res EXCEPT ![e] = outcome]
          /\ lost' = (lost \/ (taken /\ outcome # "ok"))
          /\ UNCHANGED <<api, meta, logVars, mqVars, scanner, early>>
    BY ZenonT(30), <1>5 DEF Pay
  <2>2. chain' \in Chain
    <3>0. chain.next \in Nat
      BY ChainTypes DEF TypeInv, TypeOK
    <3>1. (IF Kept(e) THEN chain.next ELSE chain.next + 1) \in Nat
      BY <3>0 DEF Kept
    <3>2. (IF taken THEN chain.pending \cup {k} ELSE chain.pending) \in SUBSET Nonces
      BY ChainTypes DEF TypeInv, TypeOK
    <3>. QED BY <2>1, <3>1, <3>2 DEF TypeInv, TypeOK, Chain
  <2>3. /\ at' \in [Exec -> Places]
        /\ nonce' \in [Exec -> Nonces \cup {NoNonce}]
        /\ raw' \in [Exec -> BOOLEAN]
        /\ res' \in [Exec -> {"ok", "gethDown", "error", "unwritten"}]
        /\ lost' \in BOOLEAN
    BY <2>1 DEF Move, Places, Outcomes, TypeInv, TypeOK
  <2>4. RunsKnow'
    BY <2>1 DEF Move, Outcomes, TypeInv, TypeOK, RunsKnow, Writing
  <2>. QED BY <2>1, <2>2, <2>3, <2>4
           DEF TypeInv, TypeOK, LogKnows, ScannerKnows, SubmittedHash
<1>6. CASE WriteMeta(e)
  <2>1. MetaStatus(res[e]) \in {"submitted", "gethDown", "error"}
    BY DEF MetaStatus, TypeInv, TypeOK
  <2>2. res[e] = "ok" => nonce[e] \in Nonces
    BY <1>6 DEF WriteMeta, Move, TypeInv, RunsKnow
  <2>3. meta' \in Meta
    BY <1>6, <2>1, <2>2 DEF WriteMeta, TypeInv, TypeOK, Meta, Status
  <2>4. SubmittedHash'
    BY <1>6, <2>1, <2>2
    DEF WriteMeta, MetaStatus, TypeInv, TypeOK, Meta, SubmittedHash
  <2>5. at' \in [Exec -> Places] /\ RunsKnow'
    BY <1>6 DEF WriteMeta, Move, Places, TypeInv, TypeOK, RunsKnow, Writing
  <2>. QED BY <1>6, <2>3, <2>4, <2>5
           DEF WriteMeta, TypeInv, TypeOK, LogKnows, ScannerKnows
<1>7. CASE WriteMetaFails(e)
  <2>1. /\ at' \in [Exec -> Places]
        /\ owner' \in Worker \cup {NoOne}
        /\ nonce' \in [Exec -> Nonces \cup {NoNonce}]
        /\ raw' \in [Exec -> BOOLEAN]
        /\ res' \in [Exec -> {"ok", "gethDown", "error", "unwritten"}]
        /\ RunsKnow'
    <3>1. CASE Ended(e, "catchMeta")
      BY <3>1, EndedTypes DEF TypeInv
    <3>2. CASE /\ Move(e, "meta", "catchMeta")
               /\ res' = [res EXCEPT ![e] = IF @ = "ok" THEN "unwritten" ELSE "error"]
               /\ UNCHANGED <<owner, nonce, raw>>
      BY <3>2 DEF Move, Places, TypeInv, TypeOK, RunsKnow, Writing
    <3>. QED BY <1>7, <3>1, <3>2 DEF WriteMetaFails
  <2>. QED BY <1>7, <2>1
           DEF WriteMetaFails, TypeInv, TypeOK, LogKnows, ScannerKnows, SubmittedHash
<1>8. CASE WriteLog(e)
  <2> DEFINE item == [log EXCEPT !.status = LogStatus(res[e]),
                        !.nonce = IF raw[e] THEN nonce[e] ELSE @,
                        !.raw = raw[e] \/ @,
                        !.hash = IF res[e] \in {"ok", "unwritten"} THEN nonce[e] ELSE @]
  <2>1. /\ LogStatus(res[e]) \in {"waiting", "processing", "failed"}
        /\ nonce[e] \in Nonces \cup {NoNonce} /\ raw[e] \in BOOLEAN
        /\ raw[e] => nonce[e] \in Nonces
    BY DEF LogStatus, TypeInv, TypeOK, RunsKnow
  <2>2. item \in Item /\ (item.raw => item.nonce \in Nonces)
    BY <2>1 DEF TypeInv, TypeOK, Item, LogKnows
  <2>3. UpdateItem(item)
    BY <1>8 DEF WriteLog
  <2> HIDE DEF item
  <2>4. log' \in Item /\ copies' \subseteq Copies
    BY <2>2, <2>3, UpdateItemTypes DEF TypeInv
  <2>5. LogKnows'
    BY <2>2, <2>3 DEF UpdateItem, TypeInv, LogKnows
  <2>6. /\ at' \in [Exec -> Places]
        /\ owner' \in Worker \cup {NoOne}
        /\ nonce' \in [Exec -> Nonces \cup {NoNonce}]
        /\ raw' \in [Exec -> BOOLEAN]
        /\ res' \in [Exec -> {"ok", "gethDown", "error", "unwritten"}]
        /\ RunsKnow'
    <3>1. ASSUME NEW from, Ended(e, from)
          PROVE  /\ at' \in [Exec -> Places]
                 /\ owner' \in Worker \cup {NoOne}
                 /\ nonce' \in [Exec -> Nonces \cup {NoNonce}]
                 /\ raw' \in [Exec -> BOOLEAN]
                 /\ res' \in [Exec -> {"ok", "gethDown", "error", "unwritten"}]
                 /\ RunsKnow'
      BY <3>1, EndedTypes DEF TypeInv
    <3>2. CASE /\ Move(e, "log", "catchMeta") /\ res[e] # "ok"
               /\ UNCHANGED <<owner, nonce, raw, res>>
      BY <3>2 DEF Move, Places, TypeInv, TypeOK, RunsKnow, Writing
    <3>. QED BY <1>8, <3>1, <3>2 DEF WriteLog
  <2>7. lost' \in BOOLEAN
    BY <1>8, <2>1 DEF WriteLog, TypeInv, TypeOK
  <2>. QED BY <1>8, <2>4, <2>5, <2>6, <2>7
           DEF WriteLog, TypeInv, TypeOK, ScannerKnows, SubmittedHash
<1>. QED BY <1>1, <1>2, <1>3, <1>4, <1>5, <1>6, <1>7, <1>8 DEF RunStep

-----------------------------------------------------------------------------
(* A handler's step moves its observer to a place where it holds nothing   *)
(* of a run.                                                               *)
HandlerPlaces == {"idle", "select", "failLog", "failMeta", "requeue", "fetch",
                  "check", "resubmit", "hung"}

LEMMA HandlerMove ==
  ASSUME TypeOK, RunsKnow, NEW o \in Observer, NEW from, NEW to \in HandlerPlaces,
         Move(o, from, to), from \in HandlerPlaces \cup {"release"},
         UNCHANGED <<nonce, raw, res>>
  PROVE  at' \in [Exec -> Places] /\ RunsKnow'
  BY DEF Move, HandlerPlaces, Places, TypeOK, RunsKnow, Writing, Exec

LEMMA TypeHandler ==
  ASSUME TypeInv, NEW o \in Observer, HandlerStep(o)
  PROVE  TypeInv'
<1> USE DEF logVars, mqVars, runVars, worldVars, histVars
<1> DEFINE Unlocked == [meta EXCEPT !.lock = IF @ = o THEN Orphan ELSE @]
<1>r. meta \in Meta /\ meta.retry \in Nat /\ meta.retry + 1 \in Nat
  BY DEF TypeInv, TypeOK, Meta
<1>0. /\ Unlocked \in Meta /\ Postponed(o) \in Meta
      /\ Unlocked.status = meta.status /\ Unlocked.hash = meta.hash
      /\ Postponed(o).status = meta.status /\ Postponed(o).hash = meta.hash
  <2>1. /\ Unlocked \in Meta
        /\ Unlocked.status = meta.status /\ Unlocked.hash = meta.hash
    BY <1>r DEF Meta
  <2>2. LET row == [meta EXCEPT !.due = "later", !.retry = @ + 1, !.lock = NoOne]
        IN  row \in Meta /\ row.status = meta.status /\ row.hash = meta.hash
    BY <1>r DEF Meta
  <2>. QED BY <1>r, <2>1, <2>2 DEF Postponed
<1>m. \A from, to : Move(o, from, to) /\ to \in HandlerPlaces
                   /\ from \in HandlerPlaces \cup {"release"}
                   /\ UNCHANGED <<nonce, raw, res>>
        => at' \in [Exec -> Places] /\ RunsKnow'
  BY HandlerMove DEF TypeInv
<1>1. CASE Lock(o)
  <2>1. meta' \in Meta /\ SubmittedHash'
    BY <1>1 DEF Lock, TypeInv, TypeOK, Meta, SubmittedHash
  <2>2. at' \in [Exec -> Places] /\ RunsKnow'
    BY <1>1, <1>m DEF Lock, HandlerPlaces
  <2>. QED BY <1>1, <2>1, <2>2 DEF Lock, TypeInv, TypeOK, LogKnows, ScannerKnows
<1>2. CASE Select(o)
  <2>1. meta' \in Meta /\ SubmittedHash'
    BY <1>2 DEF Select, TypeInv, TypeOK, Meta, SubmittedHash
  <2>2. at' \in [Exec -> Places] /\ RunsKnow'
    BY <1>2, <1>m DEF Select, HandlerPlaces
  <2>3. early' \in BOOLEAN
    BY <1>2 DEF Select, TypeInv, TypeOK
  <2>. QED BY <1>2, <2>1, <2>2, <2>3
           DEF Select, TypeInv, TypeOK, LogKnows, ScannerKnows
<1>3. CASE HandlerFails(o)
  <2>1. meta' \in Meta /\ SubmittedHash'
    BY <1>0, <1>3 DEF HandlerFails, TypeInv, TypeOK, Meta, SubmittedHash
  <2>2. at' \in [Exec -> Places] /\ RunsKnow'
    BY <1>3, <1>m DEF HandlerFails, HandlerPlaces, Move
  <2>. QED BY <1>3, <2>1, <2>2
           DEF HandlerFails, TypeInv, TypeOK, LogKnows, ScannerKnows
<1>4. CASE FailLog(o)
  <2>1. [log EXCEPT !.status = "failed"] \in Item
    BY DEF TypeInv, TypeOK, Item
  <2>2. log' \in Item /\ copies' \subseteq Copies
    BY <1>4, <2>1, UpdateItemTypes DEF FailLog, TypeInv
  <2>3. LogKnows'
    BY <1>4 DEF FailLog, UpdateItem, TypeInv, TypeOK, Item, LogKnows
  <2>4. at' \in [Exec -> Places] /\ RunsKnow'
    BY <1>4, <1>m DEF FailLog, HandlerPlaces
  <2>. QED BY <1>4, <2>2, <2>3, <2>4
           DEF FailLog, TypeInv, TypeOK, ScannerKnows, SubmittedHash
<1>5. CASE FailMeta(o)
  <2>1. meta' \in Meta /\ SubmittedHash'
    BY <1>5 DEF FailMeta, TypeInv, TypeOK, Meta, Status, SubmittedHash
  <2>2. at' \in [Exec -> Places] /\ RunsKnow'
    BY <1>5, <1>m DEF FailMeta, HandlerPlaces
  <2>. QED BY <1>5, <2>1, <2>2
           DEF FailMeta, TypeInv, TypeOK, LogKnows, ScannerKnows
<1>6. CASE Requeue(o)
  <2>1. meta' \in Meta /\ SubmittedHash'
    BY <1>6, <1>r DEF Requeue, Meta, Status, SubmittedHash
  <2>2. at' \in [Exec -> Places] /\ RunsKnow'
    BY <1>6, <1>m DEF Requeue, HandlerPlaces
  <2>. QED BY <1>6, <2>1, <2>2
           DEF Requeue, TypeInv, TypeOK, LogKnows, ScannerKnows
<1>7. CASE ReleaseLock(o)
  <2>1. meta' \in Meta /\ SubmittedHash'
    BY <1>7 DEF ReleaseLock, TypeInv, TypeOK, Meta, SubmittedHash
  <2>2. at' \in [Exec -> Places] /\ RunsKnow'
    BY <1>7, <1>m DEF ReleaseLock, HandlerPlaces
  <2>. QED BY <1>7, <2>1, <2>2
           DEF ReleaseLock, TypeInv, TypeOK, LogKnows, ScannerKnows
<1>8. CASE ReleaseHangs(o) \/ NotFound(o)
  <2>1. at' \in [Exec -> Places] /\ RunsKnow'
    BY <1>8, <1>m DEF ReleaseHangs, NotFound, HandlerPlaces
  <2>. QED BY <1>8, <2>1
           DEF ReleaseHangs, NotFound, TypeInv, TypeOK, LogKnows, ScannerKnows,
               SubmittedHash
<1>9. CASE Found(o)
  <2>1. meta' \in Meta /\ SubmittedHash'
    BY <1>0, <1>9 DEF Found, TypeInv, SubmittedHash
  <2>2. at' \in [Exec -> Places] /\ RunsKnow'
    BY <1>9, <1>m DEF Found, HandlerPlaces
  <2>. QED BY <1>9, <2>1, <2>2
           DEF Found, TypeInv, TypeOK, LogKnows, ScannerKnows
<1>10. CASE Resubmit(o)
  <2>1. meta' \in Meta
    BY <1>0, <1>10 DEF Resubmit, TypeInv, TypeOK
  <2>2. SubmittedHash'
    BY <1>0, <1>10 DEF Resubmit, TypeInv, SubmittedHash
  <2>3. at' \in [Exec -> Places] /\ RunsKnow'
    BY <1>10, <1>m DEF Resubmit, HandlerPlaces
  <2>4. chain' \in Chain
    <3>1. CASE UNCHANGED chain
      BY <3>1 DEF TypeInv, TypeOK
    <3>2. CASE log.raw /\ chain' = [chain EXCEPT !.pending = @ \cup {log.nonce}]
      <4>1. chain.pending \cup {log.nonce} \in SUBSET Nonces
        BY <3>2, ChainTypes DEF TypeInv, TypeOK, LogKnows
      <4>. QED BY <3>2, <4>1 DEF TypeInv, TypeOK, Chain
    <3>. QED BY <1>10, <3>1, <3>2 DEF Resubmit
  <2>. QED BY <1>10, <2>1, <2>2, <2>3, <2>4
           DEF Resubmit, TypeInv, TypeOK, LogKnows, ScannerKnows
<1>. QED
  BY <1>1, <1>2, <1>3, <1>4, <1>5, <1>6, <1>7, <1>8, <1>9, <1>10 DEF HandlerStep

LEMMA TypeNext == TypeInv /\ [Next]_vars => TypeInv'
<1> SUFFICES ASSUME TypeInv, [Next]_vars PROVE TypeInv'
  OBVIOUS
<1>1. CASE UNCHANGED vars
  BY <1>1
  DEF vars, logVars, mqVars, runVars, worldVars, histVars, TypeInv, TypeOK,
      RunsKnow, LogKnows, ScannerKnows, SubmittedHash, Writing
<1>. QED
  BY <1>1, TypeApi, TypeScan, TypeEnvironment, TypeDeliver, TypeRun, TypeHandler
  DEF Next

(* Type correctness of every reachable state. *)
THEOREM TypeCorrect == Spec => []TypeOK
<1>1. TypeInv => TypeOK
  BY DEF TypeInv
<1>. QED BY <1>1, TypeInit, TypeNext, PTL DEF Spec

(* A row in submitted always has the hash of a transaction of the transfer *)
(* (SubmittedHash), whatever is retried, redelivered or lost.              *)
THEOREM SubmittedHasHash == Spec => []SubmittedHash
<1>1. TypeInv => SubmittedHash
  BY DEF TypeInv
<1>. QED BY <1>1, TypeInit, TypeNext, PTL DEF Spec

-----------------------------------------------------------------------------
(* Why runs exclude each other.  A row is locked by the one observer that  *)
(* works on it; the API call has not inserted the row before that; the row *)
(* of an executing run is not queued, so that no compare-and-set succeeds, *)
(* and not in a geth_down that an observer could take; and an observer     *)
(* about to requeue the row found no run executing.                        *)
LockHeld == \A o \in Observer : at[o] # "idle" => meta.lock = o

NotInserted == api = "insert" => meta.status = "none" /\ meta.lock = NoOne

RowOfRun ==
  \A e \in Exec :
    /\ at[e] = "steps" => meta.status \in {"processing", "failed"}
    /\ Writing(e) => /\ meta.status \notin {"none", "queued"}
                     /\ meta.status = "gethDown" => meta.due # "now"

Ready ==
  \A o \in Observer : at[o] = "requeue" =>
    /\ meta.status \in {"gethDown", "failed"}
    /\ \A e \in Exec : ~Executing(e)

Alone == \A e, f \in Exec : Executing(e) /\ Executing(f) => e = f

RunFacts == LockHeld /\ NotInserted /\ RowOfRun /\ Ready /\ Alone

RunInv == TypeInv /\ (~early => RunFacts)

LEMMA MoveFacts ==
  ASSUME TypeOK, NEW e \in Exec, NEW from, NEW to, Move(e, from, to)
  PROVE  /\ at[e] = from /\ at'[e] = to
         /\ \A f \in Exec : f # e => at'[f] = at[f]
  BY DEF Move, TypeOK

(* A step after which every run and observer is where it was, or has ended *)
(* its work, and the row kept what matters, has failed or is mined.        *)
LEMMA RunFrame ==
  ASSUME RunFacts,
         \A e \in Exec : at'[e] = at[e] \/ at'[e] \in {"idle", "release", "unacked",
                                                     "hung", "select", "fetch", "cas",
                                                     "failLog", "failMeta",
                                                     "check", "resubmit"},
         \/ meta'.status = meta.status /\ meta'.due \in {meta.due, "later"}
         \/ meta'.status = "failed"
         \/ meta'.status = "mined" /\ meta.status = "submitted",
         LockHeld', NotInserted'
  PROVE  RunFacts'
<1>1. \A e \in Exec : Executing(e)' => Executing(e) /\ at'[e] = at[e]
  BY DEF Executing
<1>2. \A e \in Exec : /\ Writing(e)' => Writing(e)
                      /\ at'[e] = "steps" => at[e] = "steps"
  BY DEF Writing
<1>3. Alone'
  BY <1>1 DEF RunFacts, Alone
<1>4. RowOfRun'
  <2>1. ASSUME NEW e \in Exec, at'[e] = "steps"
        PROVE  meta'.status \in {"processing", "failed"}
    BY <1>2, <2>1 DEF RunFacts, RowOfRun
  <2>2. ASSUME NEW e \in Exec, Writing(e)'
        PROVE  /\ meta'.status \notin {"none", "queued"}
               /\ meta'.status = "gethDown" => meta'.due # "now"
    BY <1>2, <2>2 DEF RunFacts, RowOfRun
  <2>. QED BY <2>1, <2>2 DEF RowOfRun
<1>5. Ready'
  BY <1>1 DEF RunFacts, Ready, Exec
<1>. QED BY <1>3, <1>4, <1>5 DEF RunFacts

(* Which fields of the row the steps of observers and scanner change. *)
LEMMA LockChange ==
  ASSUME meta \in Meta, NEW l, meta' = [meta EXCEPT !.lock = l]
  PROVE  meta'.status = meta.status /\ meta'.due = meta.due /\ meta'.lock = l
  BY DEF Meta

LEMMA RunsAlone ==
  ASSUME RunInv, ~early, ~early', NEW e \in Exec, RunStep(e)
  PROVE  RunFacts'
<1> USE DEF logVars, mqVars, runVars, worldVars, histVars
<1>0. RunFacts /\ TypeOK /\ meta \in Meta
  BY DEF RunInv, TypeInv, TypeOK
<1>1. CASE FetchLog(e) \/ FetchFails(e) \/ NotStarted(e) \/ ValidationFails(e)
  <2>1. PICK from \in {"fetch", "cas", "steps"}, to \in {"cas", "idle", "release"} :
          /\ Move(e, from, to)
          /\ e \in Observer => to # "idle"
    BY <1>1, LifecycleAssumption
    DEF FetchLog, FetchFails, NotStarted, ValidationFails, Ended, Exec
  <2>2. UNCHANGED <<api, meta>>
    BY <1>1 DEF FetchLog, FetchFails, NotStarted, ValidationFails
  <2>3. \A o \in Observer : at'[o] # "idle" => at[o] # "idle"
    BY <1>0, <2>1, MoveFacts DEF Exec
  <2>4. LockHeld' /\ NotInserted'
    BY <1>0, <2>2, <2>3 DEF RunFacts, LockHeld, NotInserted
  <2>5. \A f \in Exec : at'[f] = at[f] \/ at'[f] \in {"idle", "release", "cas"}
    BY <1>0, <2>1, MoveFacts
  <2>. QED BY <1>0, <2>2, <2>4, <2>5, RunFrame
<1>2. CASE StartProcessing(e)
  <2>1. /\ meta.status = "queued" /\ meta'.status = "processing"
        /\ meta'.lock = meta.lock /\ api' = api
    BY <1>0, <1>2 DEF StartProcessing, Meta
  <2>2. /\ at[e] = "cas" /\ at'[e] = "steps"
        /\ \A f \in Exec : f # e => at'[f] = at[f]
    BY <1>0, <1>2, MoveFacts DEF StartProcessing
  <2>3. \A f \in Exec : ~Executing(f)
    BY <1>0, <2>1 DEF RunFacts, RowOfRun, Executing, Writing
  <2>4. \A f \in Exec : Executing(f)' => f = e
    BY <2>2, <2>3 DEF Executing
  <2>5. Alone'
    BY <2>4 DEF Alone
  <2>6. LockHeld' /\ NotInserted'
    BY <1>0, <2>1, <2>2 DEF RunFacts, LockHeld, NotInserted, Exec
  <2>7. RowOfRun'
    BY <2>1, <2>2, <2>4 DEF RowOfRun, Executing, Writing
  <2>8. Ready'
    BY <1>0, <2>1, <2>2 DEF RunFacts, Ready, Exec
  <2>. QED BY <2>5, <2>6, <2>7, <2>8 DEF RunFacts
<1>3. ASSUME NEW outcome \in Outcomes, StepsFail(e, outcome) \/ Pay(e, outcome)
      PROVE  RunFacts'
  <2>1. PICK to \in {"meta", "catchMeta"} : Move(e, "steps", to)
    BY <1>3 DEF StepsFail, Pay
  <2>2. UNCHANGED <<api, meta>>
    BY <1>3 DEF StepsFail, Pay
  <2>3. /\ at[e] = "steps" /\ at'[e] \in {"meta", "catchMeta"}
        /\ \A f \in Exec : f # e => at'[f] = at[f]
    BY <1>0, <2>1, MoveFacts
  <2>4. \A f \in Exec : Executing(f)' => Executing(f)
    BY <2>3 DEF Executing
  <2>5. Alone'
    BY <1>0, <2>4 DEF RunFacts, Alone
  <2>6. LockHeld' /\ NotInserted'
    BY <1>0, <2>2, <2>3 DEF RunFacts, LockHeld, NotInserted, Exec
  <2>7. meta.status \in {"processing", "failed"}
    BY <1>0, <2>3 DEF RunFacts, RowOfRun
  <2>8. RowOfRun'
    BY <1>0, <2>2, <2>3, <2>7 DEF RunFacts, RowOfRun, Writing
  <2>9. Ready'
    BY <1>0, <2>2, <2>3, <2>4 DEF RunFacts, Ready, Exec
  <2>. QED BY <2>5, <2>6, <2>8, <2>9 DEF RunFacts
<1>4. CASE WriteMeta(e)
  <2>1. /\ meta'.status \in {"submitted", "gethDown", "error"}
        /\ meta'.status = "gethDown" => meta'.due = "later"
        /\ meta'.lock = meta.lock /\ api' = api
    <3>1. MetaStatus(res[e]) \in {"submitted", "gethDown", "error"}
      BY <1>0 DEF MetaStatus, TypeOK
    <3>. QED BY <1>0, <1>4, <3>1 DEF WriteMeta, Meta
  <2>2. PICK from \in {"meta", "catchMeta"}, to \in {"log", "catchLog"} : Move(e, from, to)
    BY <1>4 DEF WriteMeta
  <2>3. /\ at[e] \in {"meta", "catchMeta"} /\ at'[e] \in {"log", "catchLog"}
        /\ \A f \in Exec : f # e => at'[f] = at[f]
    BY <1>0, <2>2, MoveFacts
  <2>4. Executing(e) /\ Writing(e) /\ \A f \in Exec : Executing(f)' => Executing(f)
    BY <2>3 DEF Executing, Writing
  <2>5. Alone' /\ \A f \in Exec : Executing(f)' => f = e
    BY <1>0, <2>4 DEF RunFacts, Alone
  <2>6. LockHeld'
    BY <1>0, <2>1, <2>3 DEF RunFacts, LockHeld, Exec
  <2>7. NotInserted'
    BY <1>0, <2>1, <2>4 DEF RunFacts, RowOfRun, NotInserted
  <2>8. RowOfRun'
    BY <2>1, <2>3, <2>5 DEF RowOfRun, Executing, Writing
  <2>9. Ready'
    BY <1>0, <2>3, <2>4 DEF RunFacts, Ready, Exec
  <2>. QED BY <2>5, <2>6, <2>7, <2>8, <2>9 DEF RunFacts
<1>5. CASE WriteMetaFails(e) \/ WriteLog(e)
  <2>1. PICK from \in {"meta", "log", "catchMeta", "catchLog"},
             to \in {"catchMeta", "idle", "release"} :
          /\ Move(e, from, to)
          /\ e \in Observer => to # "idle"
    BY <1>5, LifecycleAssumption DEF WriteMetaFails, WriteLog, Ended, Exec
  <2>2. UNCHANGED <<api, meta>>
    BY <1>5 DEF WriteMetaFails, WriteLog
  <2>3. /\ at[e] \in {"meta", "log", "catchMeta", "catchLog"}
        /\ at'[e] \in {"catchMeta", "idle", "release"}
        /\ e \in Observer => at'[e] # "idle"
        /\ \A f \in Exec : f # e => at'[f] = at[f]
    BY <1>0, <2>1, MoveFacts
  <2>4. \A f \in Exec : /\ Executing(f)' => Executing(f)
                        /\ Writing(f)' => Writing(f)
    BY <2>3 DEF Executing, Writing
  <2>5. Alone'
    BY <1>0, <2>4 DEF RunFacts, Alone
  <2>6. LockHeld' /\ NotInserted'
    BY <1>0, <2>2, <2>3 DEF RunFacts, LockHeld, NotInserted, Exec
  <2>7. RowOfRun'
    BY <1>0, <2>2, <2>3, <2>4 DEF RunFacts, RowOfRun
  <2>8. Ready'
    BY <1>0, <2>2, <2>3, <2>4 DEF RunFacts, Ready, Exec
  <2>. QED BY <2>5, <2>6, <2>7, <2>8 DEF RunFacts
<1>. QED BY <1>1, <1>2, <1>3, <1>4, <1>5 DEF RunStep

(* An observer at work holds the lock: nobody else does. *)
LEMMA OneObserver ==
  ASSUME RunFacts, NEW o \in Observer, at[o] # "idle"
  PROVE  meta.lock = o /\ \A p \in Observer : p # o => at[p] = "idle"
  BY DEF RunFacts, LockHeld

(* An observer moves on, or stops and leaves its lock behind or released.  *)
LEMMA ObserverFrame ==
  ASSUME RunInv, ~early, UNCHANGED api, NEW o \in Observer, NEW from, NEW to,
         Move(o, from, to), from # "idle",
         to \in {"idle", "release", "hung", "select", "fetch", "failLog", "failMeta",
                "check", "resubmit"},
         \/ meta'.status = meta.status /\ meta'.due \in {meta.due, "later"}
         \/ meta'.status = "failed",
         meta'.lock = meta.lock \/ to = "idle"
  PROVE  RunFacts'
<1>1. RunFacts /\ TypeOK
  BY DEF RunInv, TypeInv
<1>2. /\ at[o] = from /\ at'[o] = to /\ \A e \in Exec : e # o => at'[e] = at[e]
      /\ meta.lock = o /\ \A p \in Observer : p # o => at[p] = "idle"
  BY <1>1, MoveFacts, OneObserver DEF Exec
<1>3. LockHeld'
  BY <1>2 DEF LockHeld, Exec
<1>4. NotInserted'
  <2>1. o # NoOne
    BY LifecycleAssumption DEF Exec
  <2>. QED BY <1>1, <1>2, <2>1 DEF RunFacts, NotInserted
<1>5. \A e \in Exec : at'[e] = at[e] \/ at'[e] \in {"idle", "release", "hung",
            "select", "fetch", "failLog", "failMeta", "check", "resubmit"}
  BY <1>2
<1>. QED BY <1>1, <1>3, <1>4, <1>5, RunFrame

LEMMA HandlersAlone ==
  ASSUME RunInv, ~early, ~early', NEW o \in Observer, HandlerStep(o)
  PROVE  RunFacts'
<1> USE DEF logVars, mqVars, runVars, worldVars, histVars
<1>0. RunFacts /\ TypeOK /\ meta \in Meta
  BY DEF RunInv, TypeInv, TypeOK
<1>1. CASE Lock(o)
  <2>1. /\ meta.lock = NoOne /\ meta.status \in Handled /\ api' = api
        /\ meta'.status = meta.status /\ meta'.due = meta.due /\ meta'.lock = o
    BY <1>0, <1>1 DEF Lock, Meta
  <2>2. at'[o] = "select" /\ \A e \in Exec : e # o => at'[e] = at[e]
    BY <1>0, <1>1, MoveFacts DEF Lock, Exec
  <2>3. \A p \in Observer : p # NoOne
    BY LifecycleAssumption DEF Exec
  <2>4. LockHeld' /\ NotInserted'
    BY <1>0, <2>1, <2>2, <2>3 DEF RunFacts, LockHeld, NotInserted, Handled, Exec
  <2>5. \A e \in Exec : at'[e] = at[e] \/ at'[e] = "select"
    BY <2>2
  <2>. QED BY <1>0, <2>1, <2>4, <2>5, RunFrame
<1>2. CASE Select(o)
  <2>1. CASE Move(o, "select", "requeue")
    <3>2. /\ at[o] = "select" /\ at'[o] = "requeue"
          /\ \A e \in Exec : e # o => at'[e] = at[e]
      BY <1>0, <2>1, MoveFacts DEF Exec
    <3>0. \A to : Move(o, "select", to) => to = "requeue"
      BY <1>0, <3>2, MoveFacts DEF Exec
    <3>1. /\ meta.status = "gethDown" /\ meta.due = "now"
          /\ meta' = meta /\ api' = api
      BY <1>2, <3>0 DEF Select, Handled
    <3>3. \A e \in Exec : ~Executing(e)
      BY <1>0, <3>1 DEF RunFacts, RowOfRun, Executing, Writing
    <3>4. \A e \in Exec : ~Executing(e)'
      BY <3>2, <3>3 DEF Executing
    <3>5. LockHeld' /\ NotInserted'
      BY <1>0, <3>1, <3>2 DEF RunFacts, LockHeld, NotInserted, Exec
    <3>6. RowOfRun' /\ Alone'
      BY <3>4 DEF RowOfRun, Alone, Executing, Writing
    <3>7. Ready'
      BY <3>1, <3>4 DEF Ready
    <3>. QED BY <3>5, <3>6, <3>7 DEF RunFacts
  <2>2. CASE ~Move(o, "select", "requeue")
    <3>1. PICK to \in {"failLog", "check", "idle"} : Move(o, "select", to)
      BY <1>2, <2>2 DEF Select
    <3>2. /\ meta'.status = meta.status /\ meta'.due = meta.due /\ api' = api
          /\ meta'.lock = meta.lock \/ to = "idle"
      BY <1>0, <1>2, <3>1, MoveFacts, LockChange DEF Select, Exec
    <3>. QED BY <3>1, <3>2, ObserverFrame
  <2>. QED BY <2>1, <2>2
<1>3. CASE HandlerFails(o)
  <2>1. PICK from \in Places : from # "idle" /\ Move(o, from, "idle")
    BY <1>3 DEF HandlerFails, Move, Places
  <2>2. meta'.status = meta.status /\ meta'.due = meta.due /\ api' = api
    BY <1>0, <1>3, LockChange DEF HandlerFails
  <2>. QED BY <2>1, <2>2, ObserverFrame
<1>4. CASE FailLog(o) \/ ReleaseHangs(o) \/ NotFound(o)
  <2>1. PICK from \in {"failLog", "release", "check"},
             to \in {"failMeta", "hung", "resubmit"} : Move(o, from, to)
    BY <1>4 DEF FailLog, ReleaseHangs, NotFound
  <2>2. meta' = meta /\ api' = api
    BY <1>4 DEF FailLog, ReleaseHangs, NotFound
  <2>. QED BY <2>1, <2>2, ObserverFrame
<1>5. CASE FailMeta(o)
  <2>1. /\ api' = api
        /\ \/ meta'.status = meta.status /\ meta'.due = meta.due
           \/ meta'.status = "failed"
    BY <1>0, <1>5 DEF FailMeta, Meta
  <2>. QED BY <1>5, <2>1, ObserverFrame DEF FailMeta
<1>6. CASE Requeue(o)
  <2>1. /\ meta'.status = "queued" /\ meta'.lock = meta.lock /\ api' = api
    BY <1>0, <1>6 DEF Requeue, Meta
  <2>2. /\ at[o] = "requeue" /\ at'[o] = "fetch"
        /\ \A e \in Exec : e # o => at'[e] = at[e]
        /\ meta.lock = o /\ \A p \in Observer : p # o => at[p] = "idle"
    BY <1>0, <1>6, MoveFacts, OneObserver DEF Requeue, Exec
  <2>3. \A e \in Exec : ~Executing(e)'
    BY <1>0, <2>2 DEF RunFacts, Ready, Executing
  <2>4. RowOfRun' /\ Alone'
    BY <2>3 DEF RowOfRun, Alone, Executing, Writing
  <2>5. LockHeld' /\ Ready'
    BY <2>1, <2>2 DEF LockHeld, Ready, Exec
  <2>6. NotInserted'
    <3>1. o # NoOne
      BY LifecycleAssumption DEF Exec
    <3>. QED BY <1>0, <2>1, <2>2, <3>1 DEF RunFacts, NotInserted
  <2>. QED BY <2>4, <2>5, <2>6 DEF RunFacts
<1>7. CASE ReleaseLock(o)
  <2>1. meta'.status = meta.status /\ meta'.due = meta.due /\ api' = api
    BY <1>0, <1>7, LockChange DEF ReleaseLock
  <2>. QED BY <1>7, <2>1, ObserverFrame DEF ReleaseLock
<1>8. CASE Found(o) \/ Resubmit(o)
  <2>1. PICK from \in {"check", "resubmit"}, to \in {"idle", "hung"} :
          /\ Move(o, from, to)
          /\ to = "hung" => meta' = meta
    BY <1>8 DEF Found, Resubmit
  <2>2. api' = api
    BY <1>8 DEF Found, Resubmit
  <2>3. meta'.status = meta.status /\ meta'.due \in {meta.due, "later"}
    <3>1. LET row == [meta EXCEPT !.lock = IF @ = o THEN Orphan ELSE @]
          IN  row.status = meta.status /\ row.due = meta.due
      BY <1>0 DEF Meta
    <3>2. /\ Postponed(o).status = meta.status
          /\ Postponed(o).due \in {meta.due, "later"}
      BY <1>0 DEF Postponed, Meta
    <3>. QED BY <1>8, <3>1, <3>2 DEF Found, Resubmit
  <2>4. meta'.lock = meta.lock \/ to = "idle"
    BY <2>1
  <2>. QED BY <2>1, <2>2, <2>3, <2>4, ObserverFrame
<1>. QED BY <1>1, <1>2, <1>3, <1>4, <1>5, <1>6, <1>7, <1>8 DEF HandlerStep

(* The API call, the consumers' queue, the scanner, time, crashes and the  *)
(* chain.                                                                  *)
LEMMA ApiAlone ==
  ASSUME RunInv, ~early, ApiStep \/ ApiFails
  PROVE  RunFacts'
<1> USE DEF logVars, mqVars, runVars, worldVars, histVars
<1>0. RunFacts /\ TypeOK /\ meta \in Meta
  BY DEF RunInv, TypeInv, TypeOK
<1>a. api' # "insert" /\ at' = at
  BY DEF ApiStep, ApiFails, InsertMeta, CreateLog, Publish, MarkFailed
<1>1. CASE InsertMeta
  <2>1. meta.status = "none" /\ meta.lock = NoOne
    BY <1>0, <1>1 DEF InsertMeta, RunFacts, NotInserted
  <2>2. \A e \in Exec : ~Executing(e)'
    BY <1>0, <1>a, <2>1 DEF RunFacts, RowOfRun, Executing, Writing
  <2>3. \A o \in Observer : at'[o] = "idle"
    <3>1. \A o \in Observer : o # NoOne
      BY LifecycleAssumption DEF Exec
    <3>. QED BY <1>0, <1>a, <2>1, <3>1 DEF RunFacts, LockHeld
  <2>. QED BY <1>a, <2>2, <2>3
           DEF RunFacts, LockHeld, NotInserted, RowOfRun, Ready, Alone, Executing,
               Writing
<1>2. CASE ~InsertMeta
  <2>1. /\ meta'.lock = meta.lock
        /\ \/ meta'.status = meta.status /\ meta'.due = meta.due
           \/ meta'.status = "failed"
    BY <1>0, <1>2 DEF ApiStep, ApiFails, CreateLog, Publish, MarkFailed, Meta
  <2>2. LockHeld' /\ NotInserted'
    BY <1>0, <1>a, <2>1 DEF RunFacts, LockHeld, NotInserted
  <2>. QED BY <1>0, <1>a, <2>1, <2>2, RunFrame
<1>. QED BY <1>1, <1>2

LEMMA DeliverAlone ==
  ASSUME RunInv, ~early, NEW w \in Worker, Deliver(w) \/ NeverAcked(w)
  PROVE  RunFacts'
<1>0. RunFacts /\ TypeOK
  BY DEF RunInv, TypeInv
<1>1. PICK from \in {"idle", "fetch"}, to \in {"fetch", "unacked"} : Move(w, from, to)
  BY DEF Deliver, NeverAcked
<1>2. UNCHANGED <<api, meta>>
  BY DEF Deliver, NeverAcked
<1>3. w \in Exec /\ w \notin Observer
  BY LifecycleAssumption DEF Exec
<1>4. at'[w] \in {"fetch", "unacked"} /\ \A e \in Exec : e # w => at'[e] = at[e]
  BY <1>0, <1>1, <1>3, MoveFacts
<1>5. LockHeld' /\ NotInserted'
  BY <1>0, <1>2, <1>3, <1>4 DEF RunFacts, LockHeld, NotInserted, Exec
<1>6. \A e \in Exec : at'[e] = at[e] \/ at'[e] \in {"fetch", "unacked"}
  BY <1>4
<1>. QED BY <1>0, <1>2, <1>5, <1>6, RunFrame

LEMMA ScanAlone ==
  ASSUME RunInv, ~early, ScanStep \/ ScannerCrash
  PROVE  RunFacts'
<1> USE DEF logVars, mqVars, runVars, worldVars, histVars
<1>0. RunFacts /\ TypeOK /\ meta \in Meta
  BY DEF RunInv, TypeInv, TypeOK
<1>a. api' = api /\ at' = at
  BY DEF ScanStep, ScanLock, ScanSettle, ScanRelease, ScanFails, ScannerCrash
<1>o. \A o \in Observer : o # Scanner /\ o # NoOne
  BY LifecycleAssumption DEF Exec
<1>1. ASSUME meta.lock = NoOne, meta.status = "submitted", meta'.status = "mined"
      PROVE  RunFacts'
  <2>1. LockHeld' /\ NotInserted'
    BY <1>0, <1>1, <1>a, <1>o DEF RunFacts, LockHeld, NotInserted
  <2>. QED BY <1>0, <1>1, <1>a, <2>1, RunFrame
<1>2. ASSUME meta'.status = meta.status, meta'.due = meta.due,
             meta'.lock = meta.lock \/ meta.lock = Scanner
      PROVE  RunFacts'
  <2>1. LockHeld'
    BY <1>0, <1>2, <1>a, <1>o DEF RunFacts, LockHeld
  <2>2. NotInserted'
    <3>1. NoOne # Scanner
      BY DEF NoOne, Scanner
    <3>. QED BY <1>0, <1>2, <1>a, <3>1 DEF RunFacts, NotInserted
  <2>. QED BY <1>0, <1>2, <1>a, <2>1, <2>2, RunFrame
<1>3. ASSUME NEW k \in chain.mined, ScanLock(k) PROVE RunFacts'
  <2>1. CASE Recognised(k)
    <3>1. meta'.status = "mined"
      BY <1>0, <1>3, <2>1 DEF ScanLock, Meta
    <3>. QED BY <1>1, <2>1, <3>1 DEF Recognised
  <2>2. CASE ~Recognised(k)
    BY <1>2, <1>3, <2>2 DEF ScanLock
  <2>. QED BY <2>1, <2>2
<1>4. CASE ScanSettle
  BY <1>2, <1>4 DEF ScanSettle
<1>5. CASE ScanRelease \/ ScanFails \/ ScannerCrash
  <2>1. \/ meta' = meta
        \/ meta' = [meta EXCEPT !.lock = IF @ = Scanner THEN NoOne ELSE @]
        \/ meta' = [meta EXCEPT !.lock = IF @ = Scanner THEN Orphan ELSE @]
    BY <1>5 DEF ScanRelease, ScanFails, ScannerCrash
  <2>2. /\ meta'.status = meta.status /\ meta'.due = meta.due
        /\ meta'.lock = meta.lock \/ meta.lock = Scanner
    BY <1>0, <2>1 DEF Meta
  <2>. QED BY <1>2, <2>2
<1>. QED BY <1>3, <1>4, <1>5 DEF ScanStep

LEMMA CrashAlone ==
  ASSUME RunInv, ~early, NEW e \in Exec, Crash(e)
  PROVE  RunFacts'
<1>0. RunFacts /\ TypeOK /\ meta \in Meta
  BY DEF RunInv, TypeInv, TypeOK
<1>1. /\ at[e] # "idle" /\ at'[e] = "idle" /\ api' = api
      /\ \A f \in Exec : f # e => at'[f] = at[f]
  BY <1>0 DEF Crash, TypeOK
<1>2. /\ meta'.status = meta.status /\ meta'.due = meta.due
      /\ meta'.lock = IF meta.lock = e THEN Orphan ELSE meta.lock
  BY <1>0, LockChange DEF Crash
<1>3. LockHeld'
  BY <1>0, <1>1, <1>2 DEF RunFacts, LockHeld, Exec
<1>4. NotInserted'
  <2>1. e # NoOne
    BY LifecycleAssumption DEF Exec
  <2>. QED BY <1>0, <1>1, <1>2, <2>1 DEF RunFacts, NotInserted
<1>5. \A f \in Exec : at'[f] = at[f] \/ at'[f] = "idle"
  BY <1>1
<1>. QED BY <1>0, <1>2, <1>3, <1>4, <1>5, RunFrame

LEMMA WorldAlone ==
  ASSUME RunInv, ~early, UNCHANGED <<api, meta, at>>
  PROVE  RunFacts'
  BY DEF RunInv, RunFacts, LockHeld, NotInserted, RowOfRun, Ready, Alone, Executing,
         Writing

LEMMA DueAlone ==
  ASSUME RunInv, ~early, Due
  PROVE  RunFacts'
<1>0. RunFacts /\ meta \in Meta
  BY DEF RunInv, TypeInv, TypeOK
<1>1. /\ meta'.status = meta.status /\ meta'.lock = meta.lock
      /\ api' = api /\ at' = at
  BY <1>0 DEF Due, Meta, runVars
<1>2. \A e \in Exec : ~Writing(e)'
  BY <1>1 DEF Due, Writing
<1>3. LockHeld' /\ NotInserted' /\ Ready' /\ Alone'
  BY <1>0, <1>1 DEF RunFacts, LockHeld, NotInserted, Ready, Alone, Executing
<1>4. RowOfRun'
  BY <1>0, <1>1, <1>2 DEF RunFacts, RowOfRun
<1>. QED BY <1>3, <1>4 DEF RunFacts

(* History is not forgotten. *)
LEMMA EarlyStays ==
  ASSUME Next, early
  PROVE  early'
<1> USE DEF logVars, mqVars, runVars, worldVars, histVars
<1>1. CASE ApiStep
  BY <1>1 DEF ApiStep, InsertMeta, CreateLog, Publish, MarkFailed
<1>2. CASE ScanStep
  BY <1>2 DEF ScanStep, ScanLock, ScanSettle, ScanRelease, ScanFails
<1>3. CASE Due \/ Environment
  BY <1>3 DEF Due, Environment, ApiFails, ScannerCrash, Crash, Disconnect, Mine, Drop
<1>4. ASSUME NEW w \in Worker, Deliver(w) \/ NeverAcked(w) PROVE early'
  BY <1>4 DEF Deliver, NeverAcked
<1>5. ASSUME NEW e \in Exec, RunStep(e) PROVE early'
  BY <1>5 DEF RunStep, FetchLog, FetchFails, StartProcessing, NotStarted,
              ValidationFails, WriteMeta, WriteMetaFails, WriteLog, StepsFail, Pay
<1>6. ASSUME NEW o \in Observer, HandlerStep(o) PROVE early'
  BY <1>6 DEF HandlerStep, Lock, Select, HandlerFails, FailLog, FailMeta, Requeue,
              ReleaseLock, ReleaseHangs, Found, NotFound, Resubmit
<1>. QED BY <1>1, <1>2, <1>3, <1>4, <1>5, <1>6 DEF Next

LEMMA RunInvNext == RunInv /\ [Next]_vars => RunInv'
<1> SUFFICES ASSUME RunInv, [Next]_vars PROVE RunInv'
  OBVIOUS
<1>1. TypeInv'
  BY TypeNext DEF RunInv
<1>2. ASSUME ~early' PROVE RunFacts'
  <2>1. CASE UNCHANGED vars
    <3>1. ~early /\ UNCHANGED <<api, meta, at>>
      BY <1>2, <2>1 DEF vars, runVars, histVars
    <3>. QED BY <3>1, WorldAlone
  <2>2. CASE Next
    <3>1. ~early
      BY <1>2, <2>2, EarlyStays
    <3>2. ASSUME Disconnect \/ \E k \in chain.pending : Mine(k) \/ Drop(k)
          PROVE  RunFacts'
      <4>1. UNCHANGED <<api, meta, at>>
        BY <3>2 DEF Disconnect, Mine, Drop, runVars
      <4>. QED BY <3>1, <4>1, WorldAlone
    <3>. QED BY <1>2, <2>2, <3>1, <3>2, ApiAlone, DeliverAlone, ScanAlone, CrashAlone,
                DueAlone, RunsAlone, HandlersAlone DEF Next, Environment
  <2>. QED BY <2>1, <2>2
<1>. QED BY <1>1, <1>2 DEF RunInv

LEMMA RunInvInit == Init => RunInv
<1> SUFFICES ASSUME Init PROVE RunInv
  OBVIOUS
<1>1. TypeInv
  BY TypeInit
<1>2. RunFacts
  BY DEF Init, RunFacts, LockHeld, NotInserted, RowOfRun, Ready, Alone, Executing,
         Writing, Exec
<1>. QED BY <1>1, <1>2 DEF RunInv

(* Runs of TransferBt for one transfer exclude each other (ExclusiveRun):  *)
(* no redelivery, requeue, crash or lost write lets two of them be between *)
(* the compare-and-set and the last write, as long as no handler takes the *)
(* row before its time.                                                    *)
THEOREM RunsExclusive == Spec => []ExclusiveRun
<1>1. RunInv => ExclusiveRun
  BY DEF RunInv, RunFacts, Alone, ExclusiveRun
<1>. QED BY <1>1, RunInvInit, RunInvNext, PTL DEF Spec

-----------------------------------------------------------------------------
(* Why a settled transfer is not failed.  While the row is submitted, a    *)
(* run that is not over has but to write success into the item, and the    *)
(* row is not due; so an observer that asks for the transaction meets no   *)
(* run.  And from the scanner's lock on, and as long as the item is        *)
(* complete, no observer is at work and the row cannot come back.          *)
Submitted ==
  meta.status = "submitted" => \A e \in Exec : Executing(e) =>
    at[e] = "log" /\ res[e] = "ok" /\ meta.due # "now"

Checked ==
  \A o \in Observer : at[o] \in {"check", "resubmit"} =>
    /\ meta.status \in {"submitted", "failed"}
    /\ \A e \in Exec : ~Executing(e)

Settling == log.status = "complete" \/ scanner.at = "settle"

Sealed ==
  /\ Settling =>
       /\ meta.status \in {"mined", "failed"}
       /\ \A o \in Observer : at[o] = "idle"
       /\ \A e \in Exec : Executing(e) => at[e] = "log" /\ res[e] = "ok"
  /\ ~(log.status = "complete" /\ scanner.at = "settle")

SettleFacts == Submitted /\ Checked /\ Sealed

SettleInv == RunInv /\ (~early => SettleFacts)

(* Why there is one transfer.  Once a node has taken one, no run pays any  *)
(* more and the row cannot come back to queued (Once); the run that paid   *)
(* knows what it sent (Paid); and before an observer can resubmit what the *)
(* item has, the item has that very transfer (Logged).                     *)
Once ==
  OnChain # {} =>
    /\ meta.status \notin {"none", "queued", "gethDown"}
    /\ \A e \in Exec : /\ at[e] # "steps"
                       /\ Writing(e) => res[e] # "gethDown"
    /\ \A o \in Observer : at[o] # "requeue"

Paid ==
  \A e \in Exec : at[e] \in {"meta", "log"} /\ res[e] = "ok" =>
    raw[e] /\ OnChain \subseteq {nonce[e]}

One == \A j, k \in OnChain : j = k

Resubmittable ==
  \/ meta.status = "submitted"
  \/ \E o \in Observer : at[o] \in {"check", "resubmit"}

Logged ==
  OnChain # {} /\ Resubmittable =>
    \/ log.raw => log.nonce \in OnChain
    \/ \E e \in Exec : at[e] = "log" /\ raw[e] /\ nonce[e] \in OnChain

PayFacts == Once /\ Paid /\ One /\ Logged

PayInv == SettleInv /\ (~early /\ ~lost => PayFacts)

-----------------------------------------------------------------------------
(* Steps that leave runs alone or end them.                                *)
Same(e) == /\ at'[e] = at[e] /\ res'[e] = res[e]
           /\ raw'[e] = raw[e] /\ nonce'[e] = nonce[e]

Quiet == {"idle", "release", "unacked", "hung", "select", "fetch", "cas",
          "failLog", "failMeta"}

QuietRuns ==
  /\ \A e \in Exec :
       \/ Same(e) \/ at'[e] \in Quiet
       \/ at'[e] = "requeue" /\ meta.status = "gethDown"
       \/ at'[e] = "check" /\ meta.status = "submitted" /\ meta.due = "now"
       \/ at'[e] = "resubmit" /\ at[e] = "check"
  /\ \A o \in Observer : at[o] = "idle" /\ at'[o] # "idle" =>
       meta.status \in Handled
  /\ \/ meta'.status = meta.status /\ meta'.due \in {meta.due, "later"}
     \/ meta'.status = "failed"
  /\ log'.status = "complete" => Settling
  /\ scanner'.at = "settle" =>
       scanner.at = "settle" /\ (log'.status = "complete" => log.status = "complete")

QuietChain ==
  /\ OnChain' \subseteq OnChain
  /\ log'.nonce = log.nonce /\ (log'.raw => log.raw)
  /\ \A e \in Exec : at[e] = "log" /\ raw[e] => Same(e)

LEMMA QuietFacts ==
  ASSUME QuietRuns
  PROVE  \A e \in Exec : /\ Executing(e)' => Executing(e) /\ Same(e)
                         /\ Writing(e)' => Writing(e) /\ Same(e)
BY DEF QuietRuns, Quiet, Executing, Writing, Same

LEMMA SettleFrame ==
  ASSUME SettleFacts, QuietRuns
  PROVE  SettleFacts'
<1>1. Submitted'
  BY QuietFacts DEF SettleFacts, Submitted, QuietRuns, Same
<1>2. Checked'
  <2> SUFFICES ASSUME NEW o \in Observer, at'[o] \in {"check", "resubmit"}
               PROVE  /\ meta'.status \in {"submitted", "failed"}
                      /\ \A e \in Exec : ~Executing(e)'
    BY DEF Checked
  <2>1. o \in Exec
    BY DEF Exec
  <2>2. CASE at[o] \in {"check", "resubmit"}
    BY <2>2, QuietFacts DEF SettleFacts, Checked, QuietRuns
  <2>3. CASE at[o] \notin {"check", "resubmit"}
    <3>1. meta.status = "submitted" /\ meta.due = "now"
      BY <2>1, <2>3 DEF QuietRuns, Quiet, Same
    <3>2. \A e \in Exec : ~Executing(e)
      BY <3>1 DEF SettleFacts, Submitted
    <3>. QED BY <3>1, <3>2, QuietFacts DEF QuietRuns
  <2>. QED BY <2>2, <2>3
<1>3. Sealed'
  <2>1. Settling' => Settling
    BY DEF QuietRuns, Settling
  <2>2. Settling => /\ meta'.status \in {"mined", "failed"}
                    /\ \A o \in Observer : at'[o] = "idle"
    BY DEF SettleFacts, Sealed, QuietRuns, Handled
  <2>3. Settling => \A e \in Exec : Executing(e)' => at'[e] = "log" /\ res'[e] = "ok"
    BY QuietFacts DEF SettleFacts, Sealed, Same
  <2>. QED BY <2>1, <2>2, <2>3 DEF SettleFacts, Sealed, QuietRuns
<1>. QED BY <1>1, <1>2, <1>3 DEF SettleFacts

LEMMA PayFrame ==
  ASSUME PayFacts, QuietRuns, QuietChain
  PROVE  PayFacts'
<1>1. One'
  BY DEF PayFacts, One, QuietChain
<1>2. Once'
  <2> SUFFICES ASSUME OnChain' # {}
               PROVE  /\ meta'.status \notin {"none", "queued", "gethDown"}
                      /\ \A e \in Exec : /\ at'[e] # "steps"
                                         /\ Writing(e)' => res'[e] # "gethDown"
                      /\ \A o \in Observer : at'[o] # "requeue"
    BY DEF Once
  <2>1. OnChain # {}
    BY DEF QuietChain
  <2>2. /\ meta.status \notin {"none", "queued", "gethDown"}
        /\ \A e \in Exec : /\ at[e] # "steps"
                           /\ Writing(e) => res[e] # "gethDown"
        /\ \A o \in Observer : at[o] # "requeue"
    BY <2>1 DEF PayFacts, Once
  <2>3. /\ \A e \in Exec : at'[e] # "steps"
        /\ \A o \in Observer : at'[o] # "requeue"
    BY <2>2 DEF QuietRuns, Quiet, Same, Exec
  <2>4. \A e \in Exec : Writing(e)' => res'[e] # "gethDown"
    BY <2>2, QuietFacts DEF Same
  <2>. QED BY <2>2, <2>3, <2>4 DEF QuietRuns
<1>3. Paid'
  <2> SUFFICES ASSUME NEW e \in Exec, at'[e] \in {"meta", "log"}, res'[e] = "ok"
               PROVE  raw'[e] /\ OnChain' \subseteq {nonce'[e]}
    BY DEF Paid
  <2>1. Same(e)
    BY DEF QuietRuns, Quiet
  <2>. QED BY <2>1 DEF PayFacts, Paid, QuietChain, Same
<1>4. Logged'
  <2> SUFFICES ASSUME OnChain' # {}, Resubmittable'
               PROVE  \/ log'.raw => log'.nonce \in OnChain'
                      \/ \E e \in Exec : at'[e] = "log" /\ raw'[e]
                                         /\ nonce'[e] \in OnChain'
    BY DEF Logged
  <2>1. OnChain # {} /\ OnChain' = OnChain
    BY DEF PayFacts, One, QuietChain
  <2>2. Resubmittable
    BY DEF Resubmittable, QuietRuns, Quiet, Same, Exec
  <2>3. CASE log.raw => log.nonce \in OnChain
    BY <2>1, <2>3 DEF QuietChain
  <2>4. ASSUME NEW e \in Exec, at[e] = "log", raw[e], nonce[e] \in OnChain
        PROVE  at'[e] = "log" /\ raw'[e] /\ nonce'[e] \in OnChain'
    BY <2>1, <2>4 DEF QuietChain, Same
  <2>. QED BY <2>1, <2>2, <2>3, <2>4 DEF PayFacts, Logged
<1>. QED BY <1>1, <1>2, <1>3, <1>4 DEF PayFacts

LEMMA StillSame ==
  ASSUME UNCHANGED runVars
  PROVE  \A e \in Exec : Same(e)
BY DEF runVars, Same

LEMMA MovedOnly ==
  ASSUME TypeOK, NEW e \in Exec, NEW from, NEW to, Move(e, from, to),
         UNCHANGED <<nonce, raw, res>>
  PROVE  /\ at[e] = from /\ at'[e] = to
         /\ \A f \in Exec : f # e => Same(f)
BY MoveFacts DEF Same

LEMMA EndedFacts ==
  ASSUME TypeOK, NEW e \in Exec, NEW from, Ended(e, from)
  PROVE  /\ at[e] = from
         /\ at'[e] \in {"idle", "release"}
         /\ e \in Observer => at'[e] = "release"
         /\ \A f \in Exec : f # e => Same(f)
<1>1. at[e] = from /\ at'[e] = (IF e \in Worker THEN "idle" ELSE "release")
      /\ \A f \in Exec : f # e => at'[f] = at[f]
  BY MoveFacts DEF Ended
<1>2. e \in Observer => e \notin Worker
  BY LifecycleAssumption
<1>. QED BY <1>1, <1>2 DEF Ended, TypeOK, Same

LEMMA ApiQuiet ==
  ASSUME TypeOK, CreateLog \/ Publish \/ MarkFailed \/ ApiFails
  PROVE  QuietRuns /\ QuietChain
<1>1. UNCHANGED <<runVars, chain, scanner>>
  BY DEF CreateLog, Publish, MarkFailed, ApiFails, worldVars
<1>2. \A e \in Exec : Same(e)
  BY <1>1, StillSame
<1>3. \/ meta'.status = meta.status /\ meta'.due = meta.due
      \/ meta'.status = "failed"
  BY DEF CreateLog, Publish, MarkFailed, ApiFails, TypeOK, Meta
<1>4. /\ log'.nonce = log.nonce /\ log'.raw = log.raw
      /\ log'.status \in {log.status, "processing"}
  BY DEF CreateLog, Publish, MarkFailed, ApiFails, UpdateItem, logVars, TypeOK,
         Item
<1>5. QuietRuns
  BY <1>1, <1>2, <1>3, <1>4 DEF QuietRuns, Settling, Same, Exec
<1>6. QuietChain
  BY <1>1, <1>2, <1>4 DEF QuietChain, OnChain
<1>. QED BY <1>5, <1>6

LEMMA DeliverQuiet ==
  ASSUME TypeOK, NEW w \in Worker, Deliver(w) \/ NeverAcked(w)
  PROVE  QuietRuns /\ QuietChain
<1>1. /\ UNCHANGED <<nonce, raw, res, meta, log, chain, scanner>>
      /\ \E from \in {"idle", "fetch"}, to \in {"fetch", "unacked"} :
           Move(w, from, to)
  BY DEF Deliver, NeverAcked, logVars, worldVars
<1>2. w \in Exec /\ w \notin Observer
  BY LifecycleAssumption DEF Exec
<1>3. /\ at[w] \in {"idle", "fetch"} /\ at'[w] \in {"fetch", "unacked"}
      /\ \A f \in Exec : f # w => Same(f)
  BY <1>1, <1>2, MovedOnly
<1>4. QuietRuns
  BY <1>1, <1>2, <1>3 DEF QuietRuns, Quiet, Settling, Same, Exec
<1>5. QuietChain
  BY <1>1, <1>3 DEF QuietChain, OnChain
<1>. QED BY <1>4, <1>5

(* A step that ends a run before it has anything to write.                 *)
LEMMA RunEndQuiet ==
  ASSUME TypeOK, NEW e \in Exec,
         FetchLog(e) \/ FetchFails(e) \/ NotStarted(e) \/ ValidationFails(e)
  PROVE  QuietRuns /\ QuietChain
<1>1. UNCHANGED <<meta, log, chain, scanner>>
  BY DEF FetchLog, FetchFails, NotStarted, ValidationFails, logVars, worldVars
<1>2. \/ \E from \in {"fetch", "cas", "steps"} : Ended(e, from)
      \/ /\ Move(e, "fetch", "cas") /\ UNCHANGED <<raw, res>>
         /\ \E n : nonce' = [nonce EXCEPT ![e] = n]
  BY DEF FetchLog, FetchFails, NotStarted, ValidationFails
<1>3. /\ at[e] \in {"fetch", "cas", "steps"}
      /\ at'[e] \in {"idle", "release", "cas"}
      /\ \A f \in Exec : f # e => Same(f)
  <2>1. ASSUME NEW from \in {"fetch", "cas", "steps"}, Ended(e, from)
        PROVE  /\ at[e] \in {"fetch", "cas", "steps"}
               /\ at'[e] \in {"idle", "release", "cas"}
               /\ \A f \in Exec : f # e => Same(f)
    BY <2>1, EndedFacts
  <2>2. ASSUME Move(e, "fetch", "cas"), UNCHANGED <<raw, res>>,
               NEW n, nonce' = [nonce EXCEPT ![e] = n]
        PROVE  /\ at[e] = "fetch" /\ at'[e] = "cas"
               /\ \A f \in Exec : f # e => Same(f)
    BY <2>2, MoveFacts DEF TypeOK, Same
  <2>. QED BY <1>2, <2>1, <2>2
<1>4. QuietRuns
  BY <1>1, <1>3 DEF QuietRuns, Quiet, Settling, Same, Exec
<1>5. QuietChain
  BY <1>1, <1>3 DEF QuietChain, OnChain
<1>. QED BY <1>4, <1>5

(* A handler's steps, but for those that find a run to make or send.       *)
LEMMA HandlerQuiet ==
  ASSUME RunInv, ~early, ~early', NEW o \in Observer,
         HandlerStep(o), ~Requeue(o), ~Resubmit(o)
  PROVE  QuietRuns /\ QuietChain
<1>0. TypeOK /\ meta \in Meta /\ o \in Exec
  BY DEF RunInv, TypeInv, TypeOK, Exec
<1>1. UNCHANGED <<nonce, raw, res, chain, scanner>>
  BY DEF HandlerStep, Lock, Select, HandlerFails, FailLog, FailMeta, ReleaseLock,
         ReleaseHangs, Found, NotFound, worldVars
<1>2. PICK from, to : /\ from \notin {"log", "idle"} \/ Lock(o)
                      /\ \/ to \in Quiet
                         \/ to = "requeue" /\ meta.status = "gethDown"
                         \/ to = "check" /\ meta.status = "submitted" /\ Select(o)
                         \/ to = "resubmit" /\ from = "check"
                      /\ Move(o, from, to)
  <2>1. CASE Lock(o)
    BY <2>1 DEF Lock, Quiet
  <2>2. CASE Select(o)
    BY <2>2 DEF Select, Quiet
  <2>3. CASE HandlerFails(o)
    BY <2>3 DEF HandlerFails, Move, Quiet
  <2>4. CASE FailLog(o) \/ FailMeta(o) \/ ReleaseLock(o) \/ ReleaseHangs(o)
             \/ Found(o) \/ NotFound(o)
    BY <2>4 DEF FailLog, FailMeta, ReleaseLock, ReleaseHangs, Found, NotFound,
                Quiet
  <2>. QED BY <2>1, <2>2, <2>3, <2>4 DEF HandlerStep
<1>3. /\ at[o] = from /\ at'[o] = to
      /\ \A f \in Exec : f # o => Same(f)
  BY <1>0, <1>1, <1>2, MovedOnly
<1>4. to = "check" => meta.due = "now"
  <2>1. ASSUME Select(o), to = "check" PROVE meta.due = "now"
    <3>1. ~Move(o, "select", "idle")
      BY <1>0, <1>3, <2>1 DEF Move, TypeOK
    <3>. QED BY <2>1, <3>1 DEF Select
  <2>. QED BY <1>2, <2>1 DEF Quiet
<1>5. \/ meta'.status = meta.status /\ meta'.due \in {meta.due, "later"}
      \/ meta'.status = "failed"
  <2>1. CASE UNCHANGED meta
    BY <2>1
  <2>2. CASE \E l : meta' = [meta EXCEPT !.lock = l]
    BY <1>0, <2>2, LockChange
  <2>3. CASE FailMeta(o)
    BY <1>0, <2>3 DEF FailMeta, Meta
  <2>4. CASE meta' = Postponed(o)
    BY <1>0, <2>4 DEF Postponed, Meta
  <2>. QED BY <2>1, <2>2, <2>3, <2>4
           DEF HandlerStep, Lock, Select, HandlerFails, FailLog, ReleaseLock,
               ReleaseHangs, Found, NotFound
<1>6. /\ log'.nonce = log.nonce /\ log'.raw = log.raw
      /\ log'.status \in {log.status, "failed"}
  BY <1>0 DEF HandlerStep, Lock, Select, HandlerFails, FailLog, FailMeta,
         ReleaseLock, ReleaseHangs, Found, NotFound, UpdateItem, logVars, TypeOK,
         Item
<1>7. at[o] = "idle" => meta.status \in Handled
  BY <1>2, <1>3 DEF Lock
<1>8. QuietRuns
  BY <1>1, <1>2, <1>3, <1>4, <1>5, <1>6, <1>7 DEF QuietRuns, Settling, Same, Exec
<1>9. QuietChain
  BY <1>1, <1>2, <1>3, <1>6 DEF QuietChain, OnChain, Lock, Move
<1>. QED BY <1>8, <1>9

(* The scanner but for its lock, crashes, time that passes, the chain.     *)
LEMMA WorldQuiet ==
  ASSUME RunInv, ScanSettle \/ ScanRelease \/ ScanFails \/ ScannerCrash
                 \/ Disconnect \/ (\E k \in chain.pending : Mine(k) \/ Drop(k))
  PROVE  QuietRuns /\ QuietChain
<1>0. TypeOK /\ meta \in Meta
  BY DEF RunInv, TypeInv, TypeOK
<1>1. \A e \in Exec : Same(e)
  <2>1. UNCHANGED runVars
    BY DEF ScanSettle, ScanRelease, ScanFails, ScannerCrash, Disconnect, Mine, Drop
  <2>. QED BY <2>1, StillSame
<1>2. meta'.status = meta.status /\ meta'.due = meta.due
  BY <1>0, LockChange
  DEF ScanSettle, ScanRelease, ScanFails, ScannerCrash, Disconnect, Mine, Drop
<1>3. /\ log'.nonce = log.nonce /\ (log'.raw => log.raw)
      /\ log' = log \/ ScanSettle
  BY <1>0 DEF ScanSettle, ScanRelease, ScanFails, ScannerCrash, Disconnect, Mine,
              Drop, UpdateItem, logVars, TypeOK, Item
<1>4. /\ scanner'.at = "settle" => scanner' = scanner
      /\ ScanSettle => scanner.at = "settle" /\ scanner'.at = "release"
  <2>1. ScanSettle => scanner.at = "settle" /\ scanner'.at = "release"
    BY <1>0 DEF ScanSettle, TypeOK, ScannerState
  <2>2. ScanRelease \/ ScanFails => scanner'.at = "idle"
    BY DEF ScanRelease, ScanFails, Scanned
  <2>4. ScannerCrash => scanner'.at = "idle"
    BY <1>0 DEF ScannerCrash, TypeOK, ScannerState
  <2>3. Disconnect \/ (\E k \in chain.pending : Mine(k) \/ Drop(k)) => scanner' = scanner
    BY DEF Disconnect, Mine, Drop, worldVars
  <2>. QED BY <2>1, <2>2, <2>3, <2>4
<1>5. OnChain' \subseteq OnChain
  <2>1. CASE \E k \in chain.pending : Mine(k) \/ Drop(k)
    <3>1. PICK k \in chain.pending : Mine(k) \/ Drop(k)
      BY <2>1
    <3>2. chain'.pending = chain.pending \ {k}
      BY <1>0, <3>1 DEF Mine, Drop, TypeOK, Chain
    <3>3. chain'.mined \in {chain.mined, chain.mined \cup {k}}
      BY <1>0, <3>1 DEF Mine, Drop, TypeOK, Chain
    <3>. QED BY <3>2, <3>3 DEF OnChain
  <2>2. CASE UNCHANGED chain
    BY <2>2 DEF OnChain
  <2>. QED BY <2>1, <2>2 DEF ScanSettle, ScanRelease, ScanFails, ScannerCrash,
                             Disconnect, worldVars
<1>6. QuietRuns
  BY <1>1, <1>2, <1>3, <1>4 DEF QuietRuns, Settling, Same, Exec
<1>7. QuietChain
  BY <1>1, <1>3, <1>5 DEF QuietChain
<1>. QED BY <1>6, <1>7

LEMMA CrashQuiet ==
  ASSUME RunInv, NEW e \in Exec, Crash(e)
  PROVE  QuietRuns /\ (~lost' => QuietChain)
<1>0. TypeOK /\ meta \in Meta
  BY DEF RunInv, TypeInv, TypeOK
<1>1. at'[e] = "idle" /\ \A f \in Exec : f # e => Same(f)
  BY <1>0 DEF Crash, TypeOK, Same
<1>2. /\ meta'.status = meta.status /\ meta'.due = meta.due
      /\ UNCHANGED <<log, chain, scanner>>
  BY <1>0, LockChange DEF Crash, logVars, worldVars
<1>3. \A o \in Observer : at[o] = "idle" => at'[o] = "idle"
  BY <1>1 DEF Same, Exec
<1>4. QuietRuns
  BY <1>1, <1>2, <1>3 DEF QuietRuns, Quiet, Settling
<1>5. ~lost' => QuietChain
  BY <1>1, <1>2 DEF QuietChain, OnChain, Crash
<1>. QED BY <1>4, <1>5

LEMMA StutterQuiet ==
  ASSUME UNCHANGED vars
  PROVE  QuietRuns /\ QuietChain
<1> USE DEF vars, logVars, mqVars, runVars, worldVars, histVars
<1>1. \A e \in Exec : Same(e)
  BY StillSame
<1>. QED BY <1>1 DEF QuietRuns, QuietChain, Settling, OnChain, Same, Exec

-----------------------------------------------------------------------------
(* The steps that matter to a settled or to a paid transfer.               *)
LEMMA DuePays ==
  ASSUME SettleInv, ~early, Due
  PROVE  SettleFacts' /\ (PayFacts => PayFacts')
<1>0. SettleFacts /\ meta \in Meta
  BY DEF SettleInv, RunInv, TypeInv, TypeOK
<1>1. meta'.status = meta.status /\ UNCHANGED <<at, res, raw, nonce, log, chain, scanner>>
  BY <1>0 DEF Due, Meta, runVars, logVars, worldVars
<1>2. \A e \in Exec : ~Writing(e)
  BY DEF Due
<1>3. SettleFacts'
  BY <1>0, <1>1, <1>2 DEF SettleFacts, Submitted, Checked, Sealed, Settling,
                          Executing, Writing
<1>4. PayFacts => PayFacts'
  BY <1>1 DEF PayFacts, Once, Paid, One, Logged, Resubmittable, OnChain, Writing
<1>. QED BY <1>3, <1>4

LEMMA InsertPays ==
  ASSUME SettleInv, ~early, InsertMeta
  PROVE  SettleFacts' /\ (PayFacts => PayFacts')
<1>0. SettleFacts /\ RunFacts /\ meta \in Meta
  BY DEF SettleInv, RunInv, TypeInv, TypeOK
<1>1. meta.status = "none" /\ meta.lock = NoOne /\ meta'.status = "queued"
  BY <1>0 DEF InsertMeta, RunFacts, NotInserted, Meta
<1>2. UNCHANGED <<at, res, raw, nonce, log, chain, scanner>>
  BY DEF InsertMeta, runVars, logVars, worldVars
<1>3. /\ \A o \in Observer : at[o] = "idle"
      /\ \A e \in Exec : ~Executing(e)
  <2>1. \A o \in Observer : o # NoOne
    BY LifecycleAssumption DEF Exec
  <2>. QED BY <1>0, <1>1, <2>1
           DEF RunFacts, LockHeld, RowOfRun, Executing, Writing
<1>4. ~Settling
  BY <1>0, <1>1 DEF SettleFacts, Sealed
<1>5. SettleFacts'
  BY <1>1, <1>2, <1>3, <1>4
  DEF SettleFacts, Submitted, Checked, Sealed, Settling
<1>6. PayFacts => PayFacts'
  BY <1>1, <1>2, <1>3 DEF PayFacts, Once, Paid, One, Logged, OnChain, Executing
<1>. QED BY <1>5, <1>6

LEMMA ScanLockPays ==
  ASSUME SettleInv, ~early, NEW k, ScanLock(k)
  PROVE  SettleFacts' /\ (PayFacts => PayFacts')
<1>0. SettleFacts /\ RunFacts /\ TypeOK /\ meta \in Meta
  BY DEF SettleInv, RunInv, TypeInv, TypeOK
<1>1. UNCHANGED <<at, res, raw, nonce, log, chain>>
  BY DEF ScanLock, runVars, logVars
<1>2. \A e \in Exec : Same(e)
  BY <1>1 DEF Same
<1>3. CASE Recognised(k)
  <2>1. meta.status = "submitted" /\ meta.lock = NoOne /\ meta'.status = "mined"
    BY <1>0, <1>3 DEF ScanLock, Recognised, Meta
  <2>2. \A o \in Observer : at[o] = "idle"
    <3>1. \A o \in Observer : o # NoOne
      BY LifecycleAssumption DEF Exec
    <3>. QED BY <1>0, <2>1, <3>1 DEF RunFacts, LockHeld
  <2>3. log.status # "complete"
    BY <1>0, <2>1 DEF SettleFacts, Sealed, Settling
  <2>4. SettleFacts'
    BY <1>0, <1>1, <2>1, <2>2, <2>3
    DEF SettleFacts, Submitted, Checked, Sealed, Executing, Writing
  <2>5. PayFacts => PayFacts'
    BY <1>1, <2>1, <2>2
    DEF PayFacts, Once, Paid, One, Logged, Resubmittable, OnChain, Writing
  <2>. QED BY <2>4, <2>5
<1>4. CASE ~Recognised(k)
  <2>1. UNCHANGED meta /\ scanner'.at = "idle"
    BY <1>4 DEF ScanLock, Scanned
  <2>2. QuietRuns
    BY <1>1, <1>2, <2>1 DEF QuietRuns, Settling, Same, Exec
  <2>3. QuietChain
    BY <1>1, <1>2 DEF QuietChain, OnChain
  <2>. QED BY <1>0, <2>2, <2>3, SettleFrame, PayFrame
<1>. QED BY <1>3, <1>4

LEMMA StartPays ==
  ASSUME SettleInv, ~early, NEW e \in Exec, StartProcessing(e)
  PROVE  SettleFacts' /\ (PayFacts => PayFacts')
<1>0. SettleFacts /\ RunFacts /\ TypeOK /\ meta \in Meta
  BY DEF SettleInv, RunInv, TypeInv, TypeOK
<1>1. /\ meta.status = "queued" /\ meta'.status = "processing"
      /\ UNCHANGED <<log, chain, scanner>>
  BY <1>0 DEF StartProcessing, Meta, logVars, worldVars
<1>2. /\ at[e] = "cas" /\ at'[e] = "steps"
      /\ \A f \in Exec : f # e => Same(f)
  BY <1>0, MovedOnly DEF StartProcessing
<1>3. \A f \in Exec : ~Executing(f)
  BY <1>0, <1>1 DEF RunFacts, RowOfRun, Executing, Writing
<1>4. \A f \in Exec : Executing(f)' => f = e
  BY <1>2, <1>3 DEF Executing, Same
<1>5. ~Settling /\ ~Settling'
  BY <1>0, <1>1 DEF SettleFacts, Sealed, Settling
<1>6. \A o \in Observer : at'[o] \notin {"check", "resubmit"}
  BY <1>0, <1>1, <1>2 DEF SettleFacts, Checked, Same, Exec
<1>7. SettleFacts'
  BY <1>1, <1>5, <1>6 DEF SettleFacts, Submitted, Checked, Sealed, Settling
<1>8. PayFacts => PayFacts'
  <2> SUFFICES ASSUME PayFacts PROVE PayFacts'
    OBVIOUS
  <2>1. OnChain = {} /\ OnChain' = {}
    BY <1>1 DEF PayFacts, Once, OnChain
  <2>2. Paid'
    BY <1>2, <1>4 DEF Paid, Executing
  <2>. QED BY <2>1, <2>2 DEF PayFacts, Once, One, Logged
<1>. QED BY <1>7, <1>8

(* A run that executes is alone: nobody is about to resubmit or requeue.   *)
LEMMA RunAlone ==
  ASSUME RunFacts, SettleFacts, NEW e \in Exec, Executing(e)
  PROVE  /\ \A f \in Exec : f # e => ~Executing(f)
         /\ \A o \in Observer : at[o] \notin {"check", "resubmit", "requeue"}
BY DEF RunFacts, Alone, Ready, SettleFacts, Checked

LEMMA StepsPay ==
  ASSUME SettleInv, ~early, NEW e \in Exec, NEW outcome \in Outcomes,
         StepsFail(e, outcome) \/ Pay(e, outcome)
  PROVE  SettleFacts' /\ (~lost' /\ PayFacts => PayFacts')
<1>0. SettleFacts /\ RunFacts /\ TypeOK
  BY DEF SettleInv, RunInv, TypeInv
<1>1. UNCHANGED <<meta, log, scanner>>
  BY DEF StepsFail, Pay, logVars, worldVars
<1>2. PICK to \in {"meta", "catchMeta"} : Move(e, "steps", to)
  BY DEF StepsFail, Pay
<1>3. /\ at[e] = "steps" /\ at'[e] = to /\ res'[e] = outcome
      /\ \A f \in Exec : f # e => Same(f)
  <2>1. /\ at[e] = "steps" /\ at'[e] = to
        /\ \A f \in Exec : f # e => at'[f] = at[f]
    BY <1>0, <1>2, MoveFacts
  <2>2. /\ res' = [res EXCEPT ![e] = outcome]
        /\ raw' = raw \/ \E x : raw' = [raw EXCEPT ![e] = x]
        /\ nonce' = nonce \/ \E n : nonce' = [nonce EXCEPT ![e] = n]
    BY DEF StepsFail, Pay
  <2>. QED BY <1>0, <2>1, <2>2 DEF TypeOK, Same
<1>4. Executing(e) /\ meta.status \in {"processing", "failed"}
  BY <1>0, <1>3 DEF RunFacts, RowOfRun, Executing
<1>5. /\ \A f \in Exec : Executing(f)' => f = e
      /\ \A o \in Observer : at'[o] \notin {"check", "resubmit", "requeue"}
  BY <1>0, <1>2, <1>3, <1>4, RunAlone DEF Executing, Same, Exec
<1>6. ~Settling /\ ~Settling'
  BY <1>0, <1>1, <1>3, <1>4 DEF SettleFacts, Sealed, Settling
<1>7. SettleFacts'
  BY <1>1, <1>4, <1>5, <1>6
  DEF SettleFacts, Submitted, Checked, Sealed, Settling
<1>8. ASSUME PayFacts, ~lost' PROVE PayFacts'
  <2>1. OnChain = {}
    BY <1>3, <1>8 DEF PayFacts, Once
  <2>2. /\ One'
        /\ outcome = "ok" => raw'[e] /\ OnChain' \subseteq {nonce'[e]}
        /\ outcome # "ok" => OnChain' = {}
    <3>1. CASE StepsFail(e, outcome)
      BY <2>1, <3>1 DEF StepsFail, worldVars, OnChain, One
    <3>2. CASE Pay(e, outcome)
      <4>1. PICK k \in Nonces, taken, known \in BOOLEAN :
              /\ outcome = "ok" => taken /\ known
              /\ chain' = [chain EXCEPT !.next = IF Kept(e) THEN @ ELSE @ + 1,
                             !.pending = IF taken THEN @ \cup {k} ELSE @]
              /\ nonce' = [nonce EXCEPT ![e] = k]
              /\ raw' = [raw EXCEPT ![e] = known]
              /\ lost' = (lost \/ (taken /\ outcome # "ok"))
        BY <3>2 DEF Pay
      <4>2. OnChain' = IF taken THEN {k} ELSE {}
        BY <1>0, <2>1, <4>1 DEF OnChain, TypeOK, Chain
      <4>3. nonce'[e] = k /\ raw'[e] = known
        BY <1>0, <4>1 DEF TypeOK
      <4>4. outcome # "ok" => ~taken
        BY <1>8, <4>1
      <4>. QED BY <4>1, <4>2, <4>3, <4>4 DEF One
    <3>. QED BY <3>1, <3>2
  <2>3. Paid'
    BY <1>3, <1>5, <2>2 DEF Paid, Executing
  <2>4. Once'
    <3> SUFFICES ASSUME OnChain' # {}
                 PROVE  /\ meta'.status \notin {"none", "queued", "gethDown"}
                        /\ \A f \in Exec : /\ at'[f] # "steps"
                                           /\ Writing(f)' => res'[f] # "gethDown"
                        /\ \A o \in Observer : at'[o] # "requeue"
      BY DEF Once
    <3>1. outcome = "ok"
      BY <2>2
    <3>2. \A f \in Exec : at'[f] # "steps"
      BY <1>2, <1>3, <1>5 DEF Executing
    <3>4. \A f \in Exec : Writing(f)' => res'[f] = "ok"
      BY <1>3, <1>5, <3>1 DEF Writing, Executing
    <3>. QED BY <1>1, <1>4, <1>5, <3>2, <3>4
  <2>5. Logged'
    BY <1>1, <1>4, <1>5 DEF Logged, Resubmittable
  <2>. QED BY <2>2, <2>3, <2>4, <2>5 DEF PayFacts
<1>. QED BY <1>7, <1>8

LEMMA WriteMetaPays ==
  ASSUME SettleInv, ~early, NEW e \in Exec, WriteMeta(e)
  PROVE  SettleFacts' /\ (PayFacts => PayFacts')
<1>0. SettleFacts /\ RunFacts /\ TypeOK /\ RunsKnow /\ meta \in Meta
  BY DEF SettleInv, RunInv, TypeInv, TypeOK
<1>1. UNCHANGED <<nonce, raw, res, log, chain, scanner>>
  BY DEF WriteMeta, logVars, worldVars
<1>2. PICK from \in {"meta", "catchMeta"}, to \in {"log", "catchLog"} :
        Move(e, from, to) /\ (from = "meta" <=> to = "log")
  BY DEF WriteMeta
<1>3. /\ at[e] = from /\ at'[e] = to
      /\ \A f \in Exec : f # e => Same(f)
  BY <1>0, <1>1, <1>2, MovedOnly
<1>4. Executing(e) /\ Writing(e)
  BY <1>3 DEF Executing, Writing
<1>5. /\ \A f \in Exec : Executing(f)' => f = e
      /\ \A o \in Observer : at'[o] \notin {"check", "resubmit", "requeue"}
  BY <1>0, <1>3, <1>4, RunAlone DEF Executing, Same, Exec
<1>6. ~Settling /\ ~Settling'
  BY <1>0, <1>1, <1>3, <1>4 DEF SettleFacts, Sealed, Settling
<1>7. /\ meta'.status = MetaStatus(res[e])
      /\ meta'.status # "error" => meta'.due = "later"
  BY <1>0 DEF WriteMeta, Meta
<1>8. res[e] \in {"ok", "gethDown", "error", "unwritten"}
  BY <1>0 DEF TypeOK
<1>9. meta'.status = "submitted" => res[e] = "ok" /\ from = "meta" /\ to = "log"
  BY <1>0, <1>2, <1>3, <1>7, <1>8 DEF MetaStatus, RunsKnow
<1>10. SettleFacts'
  BY <1>1, <1>3, <1>5, <1>6, <1>7, <1>9
  DEF SettleFacts, Submitted, Checked, Sealed, Settling
<1>11. ASSUME PayFacts PROVE PayFacts'
  <2>1. One'
    BY <1>1, <1>11 DEF PayFacts, One, OnChain
  <2>2. OnChain' = OnChain
    BY <1>1 DEF OnChain
  <2>3. Paid'
    <3>1. at'[e] = "log" /\ res'[e] = "ok" => at[e] = "meta" /\ res[e] = "ok"
      BY <1>1, <1>2, <1>3
    <3>. QED BY <1>1, <1>2, <1>3, <1>5, <1>11, <2>2, <3>1
             DEF PayFacts, Paid, Executing
  <2>4. Once'
    <3>1. OnChain # {} => meta'.status \in {"submitted", "error"}
      BY <1>4, <1>7, <1>8, <1>11 DEF PayFacts, Once, MetaStatus
    <3>2. \A f \in Exec : at'[f] # "steps"
      BY <1>2, <1>3, <1>5 DEF Executing
    <3>3. OnChain # {} => \A f \in Exec : Writing(f)' => res'[f] # "gethDown"
      BY <1>1, <1>4, <1>5, <1>11 DEF PayFacts, Once, Executing, Writing
    <3>. QED BY <1>5, <2>2, <3>1, <3>2, <3>3 DEF Once
  <2>5. Logged'
    <3> SUFFICES ASSUME OnChain # {}, meta'.status = "submitted"
                 PROVE  at'[e] = "log" /\ raw'[e] /\ nonce'[e] \in OnChain'
      BY <1>5, <2>2 DEF Logged, Resubmittable
    <3>. QED BY <1>1, <1>3, <1>9, <1>11, <2>2 DEF PayFacts, Paid
  <2>. QED BY <2>1, <2>3, <2>4, <2>5 DEF PayFacts
<1>. QED BY <1>10, <1>11

LEMMA WriteMetaFailsPays ==
  ASSUME SettleInv, ~early, NEW e \in Exec, WriteMetaFails(e)
  PROVE  SettleFacts' /\ (PayFacts => PayFacts')
<1>0. SettleFacts /\ RunFacts /\ TypeOK
  BY DEF SettleInv, RunInv, TypeInv
<1>1. UNCHANGED <<meta, log, chain, scanner>>
  BY DEF WriteMetaFails, logVars, worldVars
<1>2. CASE Ended(e, "catchMeta")
  <2>1. /\ at[e] = "catchMeta" /\ at'[e] \in {"idle", "release"}
        /\ \A f \in Exec : f # e => Same(f)
    BY <1>0, <1>2, EndedFacts
  <2>2. QuietRuns
    BY <1>1, <2>1 DEF QuietRuns, Quiet, Settling, Same, Exec
  <2>3. QuietChain
    BY <1>1, <2>1 DEF QuietChain, OnChain
  <2>. QED BY <1>0, <2>2, <2>3, SettleFrame, PayFrame
<1>3. CASE ~Ended(e, "catchMeta")
  <2>1. /\ Move(e, "meta", "catchMeta")
        /\ res' = [res EXCEPT ![e] = IF @ = "ok" THEN "unwritten" ELSE "error"]
        /\ UNCHANGED <<nonce, raw>>
    BY <1>3 DEF WriteMetaFails
  <2>2. /\ at[e] = "meta" /\ at'[e] = "catchMeta"
        /\ res'[e] \in {"unwritten", "error"}
        /\ \A f \in Exec : f # e => Same(f)
    BY <1>0, <2>1, MoveFacts DEF TypeOK, Same
  <2>3. Executing(e) /\ Writing(e)
    BY <2>2 DEF Executing, Writing
  <2>4. /\ \A f \in Exec : Executing(f)' => f = e
        /\ \A o \in Observer : at'[o] \notin {"check", "resubmit", "requeue"}
    BY <1>0, <2>2, <2>3, RunAlone DEF Executing, Same, Exec
  <2>5. ~Settling /\ ~Settling' /\ meta.status # "submitted"
    BY <1>0, <1>1, <2>2, <2>3 DEF SettleFacts, Submitted, Sealed, Settling
  <2>6. SettleFacts'
    BY <1>1, <2>4, <2>5 DEF SettleFacts, Submitted, Checked, Sealed, Settling
  <2>7. ASSUME PayFacts PROVE PayFacts'
    <3>1. \A f \in Exec : /\ at'[f] \notin {"steps", "meta", "log"}
                          /\ Writing(f)' => res'[f] # "gethDown"
      BY <2>2, <2>4 DEF Executing, Writing
    <3>2. Once' /\ One'
      BY <1>1, <2>4, <2>7, <3>1 DEF PayFacts, Once, One, OnChain
    <3>3. Paid' /\ Logged'
      BY <1>1, <2>4, <2>5, <3>1 DEF Paid, Logged, Resubmittable
    <3>. QED BY <3>2, <3>3 DEF PayFacts
  <2>. QED BY <2>6, <2>7
<1>. QED BY <1>2, <1>3


LEMMA WriteLogPays ==
  ASSUME SettleInv, ~early, NEW e \in Exec, WriteLog(e)
  PROVE  SettleFacts' /\ (~lost' /\ PayFacts => PayFacts')
<1>0. SettleFacts /\ RunFacts /\ TypeOK /\ log \in Item
  BY DEF SettleInv, RunInv, TypeInv, TypeOK
<1>1. UNCHANGED <<meta, chain, scanner>> /\ OnChain' = OnChain
  BY DEF WriteLog, worldVars, OnChain
<1>2. /\ log'.status = "complete" => log.status = "complete"
      /\ raw[e] /\ ~lost' => log'.nonce = nonce[e]
  <2>1. CASE log' = log
    BY <2>1 DEF WriteLog
  <2>2. CASE log' = [log EXCEPT !.status = LogStatus(res[e]),
                       !.nonce = IF raw[e] THEN nonce[e] ELSE @,
                       !.raw = raw[e] \/ @,
                       !.hash = IF res[e] \in {"ok", "unwritten"} THEN nonce[e] ELSE @]
    BY <1>0, <2>2 DEF Item, LogStatus
  <2>. QED BY <2>1, <2>2 DEF WriteLog, UpdateItem, logVars
<1>3. CASE Ended(e, "log") \/ Ended(e, "catchLog")
  <2>1. /\ at[e] \in {"log", "catchLog"} /\ at'[e] \in {"idle", "release"}
        /\ \A f \in Exec : f # e => Same(f)
    BY <1>0, <1>3, EndedFacts
  <2>2. Executing(e)
    BY <2>1 DEF Executing
  <2>3. QuietRuns
    BY <1>1, <1>2, <2>1 DEF QuietRuns, Quiet, Settling, Same, Exec
  <2>4. SettleFacts'
    BY <1>0, <2>3, SettleFrame
  <2>5. ASSUME PayFacts, ~lost' PROVE PayFacts'
    <3>1. One' /\ Once'
      <4>1. \A f \in Exec : at'[f] = at[f] \/ at'[f] \in {"idle", "release"}
        BY <2>1 DEF Same
      <4>2. \A f \in Exec : Writing(f)' => Writing(f) /\ Same(f)
        BY <2>3, QuietFacts
      <4>. QED BY <1>1, <2>5, <4>1, <4>2 DEF PayFacts, One, Once, Same, Exec
    <3>2. Paid'
      BY <1>1, <2>1, <2>5 DEF PayFacts, Paid, Same
    <3>3. Logged'
      <4> SUFFICES ASSUME OnChain # {}, Resubmittable' PROVE log'.nonce \in OnChain
        BY <1>1 DEF Logged
      <4>1. meta.status = "submitted"
        BY <1>0, <1>1, <2>1, <2>2, RunAlone DEF Resubmittable, Same, Exec
      <4>2. at[e] = "log" /\ res[e] = "ok"
        BY <1>0, <2>2, <4>1 DEF SettleFacts, Submitted
      <4>3. raw[e] /\ nonce[e] \in OnChain
        BY <2>5, <4>2 DEF PayFacts, Paid
      <4>. QED BY <1>2, <2>5, <4>3
    <3>. QED BY <3>1, <3>2, <3>3 DEF PayFacts
  <2>. QED BY <2>4, <2>5
<1>4. CASE Move(e, "log", "catchMeta") /\ res[e] # "ok" /\ UNCHANGED <<nonce, raw, res>>
  <2>1. /\ at[e] = "log" /\ at'[e] = "catchMeta"
        /\ \A f \in Exec : f # e => Same(f)
    BY <1>0, <1>4, MovedOnly
  <2>2. Executing(e) /\ Writing(e)
    BY <2>1 DEF Executing, Writing
  <2>3. /\ \A f \in Exec : Executing(f)' => f = e
        /\ \A o \in Observer : at'[o] \notin {"check", "resubmit", "requeue"}
    BY <1>0, <2>1, <2>2, RunAlone DEF Executing, Same, Exec
  <2>4. ~Settling /\ ~Settling' /\ meta.status # "submitted"
    BY <1>0, <1>1, <1>2, <1>4, <2>2 DEF SettleFacts, Submitted, Sealed, Settling
  <2>5. SettleFacts'
    BY <1>1, <2>3, <2>4 DEF SettleFacts, Submitted, Checked, Sealed, Settling
  <2>6. ASSUME PayFacts PROVE PayFacts'
    <3>1. \A f \in Exec : at'[f] \notin {"steps", "meta", "log"}
      BY <2>1, <2>3 DEF Executing
    <3>2. OnChain # {} => \A f \in Exec : Writing(f)' => res'[f] # "gethDown"
      BY <1>4, <2>2, <2>3, <2>6 DEF PayFacts, Once, Executing, Writing
    <3>3. Once' /\ One'
      BY <1>1, <2>3, <2>6, <3>1, <3>2 DEF PayFacts, Once, One
    <3>4. Paid' /\ Logged'
      BY <1>1, <2>3, <2>4, <3>1 DEF Paid, Logged, Resubmittable
    <3>. QED BY <3>3, <3>4 DEF PayFacts
  <2>. QED BY <2>5, <2>6
<1>. QED BY <1>3, <1>4 DEF WriteLog

LEMMA RequeuePays ==
  ASSUME SettleInv, ~early, NEW o \in Observer, Requeue(o)
  PROVE  SettleFacts' /\ (PayFacts => PayFacts')
<1>0. SettleFacts /\ RunFacts /\ TypeOK /\ meta \in Meta /\ o \in Exec
  BY DEF SettleInv, RunInv, TypeInv, TypeOK, Exec
<1>1. /\ UNCHANGED <<nonce, raw, res, log, chain, scanner>>
      /\ meta'.status = "queued"
  BY <1>0 DEF Requeue, Meta, logVars, worldVars
<1>2. /\ at[o] = "requeue" /\ at'[o] = "fetch"
      /\ \A f \in Exec : f # o => Same(f)
  BY <1>0, <1>1, MovedOnly DEF Requeue
<1>3. /\ \A e \in Exec : ~Executing(e) /\ ~Executing(e)'
      /\ \A p \in Observer : at'[p] \notin {"check", "resubmit", "requeue"}
  <2>1. \A e \in Exec : ~Executing(e)
    BY <1>0, <1>2 DEF RunFacts, Ready
  <2>2. \A p \in Observer : p # o => at[p] = "idle"
    BY <1>0, <1>2 DEF RunFacts, LockHeld
  <2>. QED BY <1>2, <2>1, <2>2 DEF Executing, Same, Exec
<1>4. ~Settling /\ ~Settling'
  BY <1>0, <1>1, <1>2 DEF SettleFacts, Sealed, Settling
<1>5. SettleFacts'
  BY <1>1, <1>3, <1>4 DEF SettleFacts, Submitted, Checked, Sealed, Settling
<1>6. ASSUME PayFacts PROVE PayFacts'
  <2>1. OnChain = {} /\ OnChain' = {}
    BY <1>1, <1>2, <1>6 DEF PayFacts, Once, OnChain
  <2>2. Paid'
    BY <1>3 DEF Paid, Executing
  <2>. QED BY <2>1, <2>2 DEF PayFacts, Once, One, Logged
<1>. QED BY <1>5, <1>6

LEMMA ResubmitPays ==
  ASSUME SettleInv, ~early, NEW o \in Observer, Resubmit(o)
  PROVE  SettleFacts' /\ (PayFacts => PayFacts')
<1>0. SettleFacts /\ RunFacts /\ TypeOK /\ meta \in Meta /\ o \in Exec
  BY DEF SettleInv, RunInv, TypeInv, TypeOK, Exec
<1>1. UNCHANGED <<nonce, raw, res, log, scanner>>
  BY DEF Resubmit, logVars
<1>2. PICK to \in {"idle", "hung"} : Move(o, "resubmit", to)
  BY DEF Resubmit
<1>3. /\ at[o] = "resubmit" /\ at'[o] = to
      /\ \A f \in Exec : f # o => Same(f)
  BY <1>0, <1>1, <1>2, MovedOnly
<1>4. meta'.status = meta.status /\ meta'.due \in {meta.due, "later"}
  <2>1. CASE UNCHANGED meta
    BY <2>1
  <2>2. CASE \E l : meta' = [meta EXCEPT !.lock = l]
    BY <1>0, <2>2, LockChange
  <2>3. CASE meta' = Postponed(o)
    BY <1>0, <2>3 DEF Postponed, Meta
  <2>. QED BY <2>1, <2>2, <2>3 DEF Resubmit
<1>5. QuietRuns
  BY <1>1, <1>3, <1>4 DEF QuietRuns, Quiet, Settling, Same, Exec
<1>6. SettleFacts'
  BY <1>0, <1>5, SettleFrame
<1>7. CASE UNCHANGED chain
  <2>1. QuietChain
    BY <1>1, <1>3, <1>7 DEF QuietChain, OnChain, Same
  <2>. QED BY <1>5, <1>6, <2>1, PayFrame
<1>8. CASE ~UNCHANGED chain
  <2> SUFFICES ASSUME PayFacts PROVE PayFacts'
    BY <1>6
  <2>1. /\ log.raw /\ log.nonce \notin OnChain
        /\ chain' = [chain EXCEPT !.pending = @ \cup {log.nonce}]
    BY <1>8 DEF Resubmit
  <2>2. /\ meta.status \in {"submitted", "failed"}
        /\ \A e \in Exec : ~Executing(e)
    BY <1>0, <1>3 DEF SettleFacts, Checked
  <2>3. OnChain = {}
    <3>1. Resubmittable
      BY <1>3 DEF Resubmittable
    <3>. QED BY <2>1, <2>2, <3>1 DEF PayFacts, Logged, Executing
  <2>4. OnChain' = {log.nonce}
    BY <1>0, <2>1, <2>3 DEF OnChain, TypeOK, Chain
  <2>5. \A e \in Exec : ~Executing(e)'
    BY <1>5, <2>2, QuietFacts
  <2>6. \A p \in Observer : at'[p] # "requeue"
    <3>1. \A p \in Observer : p # o => at[p] = "idle"
      BY <1>0, <1>3 DEF RunFacts, LockHeld
    <3>. QED BY <1>3, <3>1 DEF Same, Exec
  <2>7. Once'
    BY <1>4, <2>2, <2>5, <2>6 DEF Once, Executing, Writing
  <2>8. Paid'
    BY <2>5 DEF Paid, Executing
  <2>9. One' /\ Logged'
    BY <1>1, <2>4 DEF One, Logged
  <2>. QED BY <2>7, <2>8, <2>9 DEF PayFacts
<1>. QED BY <1>7, <1>8


LEMMA LostStays ==
  ASSUME Next, lost
  PROVE  lost'
<1> USE DEF logVars, mqVars, runVars, worldVars, histVars
<1>1. CASE ApiStep
  BY <1>1 DEF ApiStep, InsertMeta, CreateLog, Publish, MarkFailed
<1>2. CASE ScanStep
  BY <1>2 DEF ScanStep, ScanLock, ScanSettle, ScanRelease, ScanFails
<1>3. CASE Due \/ Environment
  BY <1>3 DEF Due, Environment, ApiFails, ScannerCrash, Crash, Disconnect, Mine, Drop
<1>4. ASSUME NEW w \in Worker, Deliver(w) \/ NeverAcked(w) PROVE lost'
  BY <1>4 DEF Deliver, NeverAcked
<1>5. ASSUME NEW e \in Exec, RunStep(e) PROVE lost'
  BY <1>5 DEF RunStep, FetchLog, FetchFails, StartProcessing, NotStarted,
              ValidationFails, WriteMeta, WriteMetaFails, WriteLog, StepsFail, Pay
<1>6. ASSUME NEW o \in Observer, HandlerStep(o) PROVE lost'
  BY <1>6 DEF HandlerStep, Lock, Select, HandlerFails, FailLog, FailMeta, Requeue,
              ReleaseLock, ReleaseHangs, Found, NotFound, Resubmit
<1>. QED BY <1>1, <1>2, <1>3, <1>4, <1>5, <1>6 DEF Next

LEMMA QuietPays ==
  ASSUME SettleInv, ~early, QuietRuns, ~lost' => QuietChain
  PROVE  SettleFacts' /\ (~lost' /\ PayFacts => PayFacts')
BY SettleFrame, PayFrame DEF SettleInv

LEMMA PayStep ==
  ASSUME SettleInv, [Next]_vars, ~early'
  PROVE  ~early /\ SettleFacts' /\ (~lost' /\ PayFacts => PayFacts')
<1>1. CASE UNCHANGED vars
  <2>1. ~early
    BY <1>1 DEF vars, histVars
  <2>. QED BY <1>1, <2>1, StutterQuiet, QuietPays
<1>2. CASE Next
  <2>0. ~early /\ RunInv /\ TypeOK
    BY <1>2, EarlyStays DEF SettleInv, RunInv, TypeInv
  <2> DEFINE Goal == SettleFacts' /\ (~lost' /\ PayFacts => PayFacts')
  <2>1. ApiStep => Goal
    BY <2>0, ApiQuiet, QuietPays, InsertPays DEF ApiStep
  <2>2. ScanStep => Goal
    BY <2>0, WorldQuiet, QuietPays, ScanLockPays DEF ScanStep
  <2>3. Due => Goal
    BY <2>0, DuePays
  <2>4. Environment => Goal
    <3>1. ASSUME NEW e \in Exec, Crash(e) PROVE Goal
      BY <2>0, <3>1, CrashQuiet, QuietPays
    <3>2. ApiFails => Goal
      BY <2>0, ApiQuiet, QuietPays
    <3>3. ScannerCrash \/ Disconnect \/ (\E k \in chain.pending : Mine(k) \/ Drop(k))
          => Goal
      BY <2>0, WorldQuiet, QuietPays
    <3>. QED BY <3>1, <3>2, <3>3 DEF Environment
  <2>5. ASSUME NEW w \in Worker, Deliver(w) \/ NeverAcked(w) PROVE Goal
    BY <2>0, <2>5, DeliverQuiet, QuietPays
  <2>6. ASSUME NEW e \in Exec, RunStep(e) PROVE Goal
    <3>1. CASE FetchLog(e) \/ FetchFails(e) \/ NotStarted(e) \/ ValidationFails(e)
      BY <2>0, <3>1, RunEndQuiet, QuietPays
    <3>2. CASE StartProcessing(e)
      BY <2>0, <3>2, StartPays
    <3>3. CASE WriteMeta(e)
      BY <2>0, <3>3, WriteMetaPays
    <3>4. CASE WriteMetaFails(e)
      BY <2>0, <3>4, WriteMetaFailsPays
    <3>5. CASE WriteLog(e)
      BY <2>0, <3>5, WriteLogPays
    <3>6. CASE \E outcome \in Outcomes : StepsFail(e, outcome) \/ Pay(e, outcome)
      BY <2>0, <3>6, StepsPay
    <3>. QED BY <2>6, <3>1, <3>2, <3>3, <3>4, <3>5, <3>6 DEF RunStep
  <2>7. ASSUME NEW o \in Observer, HandlerStep(o) PROVE Goal
    <3>1. CASE Requeue(o)
      BY <2>0, <3>1, RequeuePays
    <3>2. CASE Resubmit(o)
      BY <2>0, <3>2, ResubmitPays
    <3>3. CASE ~Requeue(o) /\ ~Resubmit(o)
      BY <2>0, <2>7, <3>3, HandlerQuiet, QuietPays
    <3>. QED BY <3>1, <3>2, <3>3
  <2> HIDE DEF Goal
  <2>8. Goal
    BY <1>2, <2>1, <2>2, <2>3, <2>4, <2>5, <2>6, <2>7 DEF Next
  <2>. QED BY <2>0, <2>8 DEF Goal
<1>. QED BY <1>1, <1>2

LEMMA SettleInvInit == Init => SettleInv
<1> SUFFICES ASSUME Init PROVE SettleFacts
  BY RunInvInit DEF SettleInv
<1>. QED BY DEF Init, NoItem, SettleFacts, Submitted, Checked, Sealed, Settling,
                Executing, Exec

LEMMA SettleInvNext == SettleInv /\ [Next]_vars => SettleInv'
BY RunInvNext, PayStep DEF SettleInv

(* A settled transfer is not failed any more (CompleteNeverFails): when    *)
(* its item is complete no observer is at work and the one run that may be *)
(* left has success to write.                                              *)
THEOREM CompleteStays == Spec => CompleteNeverFails
<1>1. SettleInv /\ [Next]_vars
      => [log.status = "complete" /\ ~early => log'.status # "failed"]_vars
  <2> SUFFICES ASSUME SettleInv, Next, log.status = "complete", ~early
               PROVE  log'.status # "failed"
    OBVIOUS
  <2>0. /\ log \in Item /\ scanner.at # "settle"
        /\ \A o \in Observer : at[o] = "idle"
        /\ \A e \in Exec : Executing(e) => at[e] = "log" /\ res[e] = "ok"
    BY DEF SettleInv, SettleFacts, Sealed, Settling, RunInv, TypeInv, TypeOK
  <2>1. CASE UNCHANGED logVars
    BY <2>1 DEF logVars
  <2>2. CASE CreateLog
    BY <2>0, <2>2 DEF CreateLog, UpdateItem, Item, logVars
  <2>3. ASSUME NEW e \in Exec, WriteLog(e) PROVE log'.status # "failed"
    <3>1. at[e] \in {"log", "catchLog"}
      BY <2>3 DEF WriteLog, Move, Ended
    <3>2. res[e] = "ok"
      BY <2>0, <3>1 DEF Executing
    <3>. QED BY <2>0, <2>3, <3>2 DEF WriteLog, UpdateItem, LogStatus, Item, logVars
  <2>4. ~ScanSettle
    BY <2>0 DEF ScanSettle
  <2>5. \A o \in Observer : ~FailLog(o)
    BY <2>0 DEF FailLog, Move
  <2>6. \/ UNCHANGED logVars \/ CreateLog \/ ScanSettle
        \/ \E e \in Exec : WriteLog(e)
        \/ \E o \in Observer : FailLog(o)
    <3>1. CASE ApiStep
      BY <3>1 DEF ApiStep, InsertMeta, Publish, MarkFailed
    <3>2. CASE ScanStep
      BY <3>2 DEF ScanStep, ScanLock, ScanRelease, ScanFails
    <3>3. CASE Due \/ Environment
      BY <3>3 DEF Due, Environment, ApiFails, ScannerCrash, Crash, Disconnect, Mine,
                  Drop
    <3>4. ASSUME NEW w \in Worker, Deliver(w) \/ NeverAcked(w) PROVE UNCHANGED logVars
      BY <3>4 DEF Deliver, NeverAcked
    <3>5. ASSUME NEW e \in Exec, RunStep(e) PROVE UNCHANGED logVars \/ WriteLog(e)
      BY <3>5 DEF RunStep, FetchLog, FetchFails, StartProcessing, NotStarted,
                  ValidationFails, WriteMeta, WriteMetaFails, StepsFail, Pay
    <3>6. ASSUME NEW o \in Observer, HandlerStep(o)
          PROVE  UNCHANGED logVars \/ FailLog(o)
      BY <3>6 DEF HandlerStep, Lock, Select, HandlerFails, FailMeta, Requeue,
                  ReleaseLock, ReleaseHangs, Found, NotFound, Resubmit
    <3>. QED BY <3>1, <3>2, <3>3, <3>4, <3>5, <3>6 DEF Next
  <2>. QED BY <2>1, <2>2, <2>3, <2>4, <2>5, <2>6
<1>. QED BY <1>1, SettleInvInit, SettleInvNext, PTL DEF Spec, CompleteNeverFails

LEMMA PayInvInit == Init => PayInv
<1> SUFFICES ASSUME Init PROVE PayFacts
  BY SettleInvInit DEF PayInv
<1>. QED BY DEF Init, PayFacts, Once, Paid, One, Logged, OnChain

LEMMA PayInvNext == PayInv /\ [Next]_vars => PayInv'
<1> SUFFICES ASSUME PayInv, [Next]_vars PROVE PayInv'
  OBVIOUS
<1>1. SettleInv /\ SettleInv'
  BY SettleInvNext DEF PayInv
<1>2. ASSUME ~early', ~lost' PROVE PayFacts'
  <2>1. ~lost
    BY <1>2, LostStays DEF vars, histVars
  <2>. QED BY <1>1, <1>2, <2>1, PayStep DEF PayInv
<1>. QED BY <1>1, <1>2 DEF PayInv

(* A transfer is on the chain at most once unless something was lost       *)
(* (DoubleTransferNeedsLoss), for any number of consumers and observers:   *)
(* once a node has taken a transfer the row does not come back to queued,  *)
(* and what an observer can resubmit is that same transfer.                *)
THEOREM DoublesNeedLoss == Spec => []DoubleTransferNeedsLoss
<1>1. PayInv => DoubleTransferNeedsLoss
  BY DEF PayInv, PayFacts, One, DoubleTransferNeedsLoss
<1>. QED BY <1>1, PayInvInit, PayInvNext, PTL DEF Spec
=============================================================================
