--------------------------- MODULE StPrime_proofs ---------------------------
(* Theorems about StPrime, for any clients, workers, processes and limits: *)
(* what the monitors of gas lock and pay, what transfers and lists do.     *)
EXTENDS StPrime, FiniteSetTheorems, SequenceTheorems, TLAPS

(* Where a process is in a pass, and where it has rows locked.             *)
Passing == {"locking", "batch", "grant", "pay", "associate", "dissociate"}
Holding == Passing \ {"locking"}
Places == Passing \cup {"off", "starting", "armed", "done"}

RowType ==
  [status : {"none", "inactive", "active", "busy"},
   proc : Processes \cup {0}, lock : Instances \cup {"none", "lost"},
   due : BOOLEAN, bits : SUBSET {"initial", "gas"}]

InstType ==
  [at : Places, todo : SUBSET Clients, batch : SUBSET Clients,
   low : SUBSET Rows, owed : SUBSET Clients, client : Clients \cup {0},
   queue : SUBSET Rows, seen : Int, got : SUBSET Rows, short : SUBSET Rows,
   acquired : BOOLEAN, runs : Nat, stopping : BOOLEAN, ending : BOOLEAN,
   full : BOOLEAN]

TypeInv ==
  /\ row \in [Rows -> RowType]
  /\ inst \in [Instances -> InstType]
  /\ copy \in [Rows -> SUBSET {"initial", "gas"}]
  /\ reserve \in [Clients -> Int]

(* What a process m of the cron, whose lock id is i, knows of its rows: a  *)
(* row it has locked belongs to a client it serves or has yet to serve;    *)
(* the workers found low are those of clients it has taken up, locked for  *)
(* as long as the client's batch lasts.                                    *)
Keeps(i, m) ==
  /\ m.at \in Passing => m.acquired
  /\ m.at \in Places \ {"grant", "pay", "associate", "dissociate"}
       => m.batch = {}
  /\ m.at = "locking" => m.low = {}
  /\ m.at # "pay" => m.queue = {}
  /\ m.queue \subseteq m.low
  /\ \A w \in m.low :
       /\ Client(w) \notin m.todo
       /\ Client(w) \in m.batch => row[w].lock = i
  /\ \A w \in Rows : row[w].lock = i =>
       /\ m.at \in Holding
       /\ Client(w) \in m.todo \cup m.batch

PassInv == \A i \in Instances : Keeps(i, inst[i])

GasInv == TypeInv /\ PassInv

-----------------------------------------------------------------------------
(* The two properties follow from the invariant.                           *)
LEMMA GasInvSafe == GasInv => LockHasPass /\ OneMonitorPays
<1> SUFFICES ASSUME GasInv PROVE LockHasPass /\ OneMonitorPays
  OBVIOUS
<1>1. LockHasPass
  <2> SUFFICES ASSUME NEW w \in Rows, row[w].lock \in Instances
               PROVE  inst[row[w].lock].acquired
    BY DEF LockHasPass
  <2>. QED BY DEF GasInv, PassInv, Keeps, Holding
<1>2. OneMonitorPays
  <2> SUFFICES ASSUME NEW i \in Instances, NEW j \in Instances, i # j,
                      NEW w \in inst[i].queue \cap inst[j].queue,
                      Client(w) \in inst[i].batch, Client(w) \in inst[j].batch
               PROVE  FALSE
    BY DEF OneMonitorPays
  <2>1. row[w].lock = i
    BY DEF GasInv, PassInv, Keeps
  <2>2. row[w].lock = j
    BY DEF GasInv, PassInv, Keeps
  <2>. QED BY <2>1, <2>2
<1>. QED BY <1>1, <1>2

LEMMA FreshType == Fresh \in InstType /\ Off \in InstType
<1>1. Fresh \in InstType
  BY DEF Fresh, InstType, Places, Passing
<1>. QED BY <1>1 DEF Off, InstType, Places

LEMMA GasInvInit == Init => GasInv
<1> SUFFICES ASSUME Init PROVE GasInv
  OBVIOUS
<1> PICK k \in Cases : reserve = k.reserve /\ InitGas(k)
  BY DEF Init
<1>1. row \in [Rows -> RowType]
  <2> DEFINE r(w) ==
        [status |-> k.status[w], proc |-> k.proc[w], lock |-> "none",
         due |-> TRUE,
         bits |-> IF k.status[w] = "active" THEN {"initial", "gas"} ELSE {}]
  <2>1. ASSUME NEW w \in Rows PROVE r(w) \in RowType
    <3>1. /\ k.status[w] \in {"none", "inactive", "active", "busy"}
          /\ k.proc[w] \in Processes \cup {0}
      BY StPrimeAssumption
    <3>. QED BY <3>1 DEF RowType
  <2>2. row = [w \in Rows |-> r(w)]
    BY DEF InitGas
  <2>. QED BY <2>1, <2>2
<1>2. inst \in [Instances -> InstType]
  BY FreshType DEF InitGas
<1>3. copy \in [Rows -> SUBSET {"initial", "gas"}]
  BY DEF InitGas
<1>4. reserve \in [Clients -> Int]
  BY StPrimeAssumption
<1>5. PassInv
  <2>1. ASSUME NEW w \in Rows PROVE row[w].lock \notin Instances
    BY WorkerGasAssumption DEF InitGas
  <2>2. ASSUME NEW i \in Instances
        PROVE  /\ inst[i].at = "off" /\ inst[i].batch = {}
               /\ inst[i].low = {} /\ inst[i].queue = {}
    BY DEF InitGas, Off, Fresh
  <2>. QED BY <2>1, <2>2 DEF PassInv, Keeps, Passing, Places
<1>. QED BY <1>1, <1>2, <1>3, <1>4, <1>5 DEF GasInv, TypeInv

-----------------------------------------------------------------------------
(* Steps that lock and unlock nothing and are none of a monitor's.         *)
LEMMA Aside ==
  ASSUME GasInv, UNCHANGED inst, TypeInv',
         \A w \in Rows : row'[w].lock = row[w].lock
  PROVE  GasInv'
<1> SUFFICES ASSUME NEW i \in Instances PROVE Keeps(i, inst[i])'
  BY DEF GasInv, PassInv
<1>1. Keeps(i, inst[i]) /\ inst[i].low \subseteq Rows
  BY DEF GasInv, PassInv, TypeInv, InstType
<1>. QED BY <1>1 DEF Keeps

(* A step that changes the memory of the process i, and neither that of    *)
(* the others nor the rows they have locked.                               *)
LEMMA StepOf ==
  ASSUME GasInv, NEW i \in Instances, NEW m \in InstType, Go(i, m),
         row' \in [Rows -> RowType], UNCHANGED copy,
         reserve' \in [Clients -> Int],
         \A w \in Rows : \A j \in Instances \ {i} :
           row'[w].lock = j <=> row[w].lock = j,
         inst'[i] = m => Keeps(i, inst[i])'
  PROVE  GasInv'
<1>1. /\ inst' \in [Instances -> InstType]
      /\ inst'[i] = m
      /\ \A j \in Instances \ {i} : inst'[j] = inst[j]
  BY DEF GasInv, TypeInv, Go
<1>2. TypeInv'
  BY <1>1 DEF GasInv, TypeInv
<1>3. ASSUME NEW j \in Instances, j # i PROVE Keeps(j, inst[j])'
  <2>1. Keeps(j, inst[j]) /\ inst[j].low \subseteq Rows
    BY DEF GasInv, PassInv, TypeInv, InstType
  <2>. QED BY <1>1, <1>3, <2>1 DEF Keeps
<1>. QED BY <1>1, <1>2, <1>3 DEF GasInv, PassInv

(* A process that ends, or whose pass does: the rows it has locked are     *)
(* nobody's.                                                               *)
LEMMA Orphans ==
  ASSUME GasInv, NEW i \in Instances, NEW m \in InstType, Go(i, m),
         row' = Orphaned(i), UNCHANGED <<copy, reserve>>,
         m.at \notin Passing, m.batch = {}, m.low = {}, m.queue = {}
  PROVE  GasInv'
<1>1. row' \in [Rows -> RowType]
  BY DEF GasInv, TypeInv, RowType, Orphaned
<1>2. ASSUME NEW w \in Rows
      PROVE  row'[w].lock = IF row[w].lock = i THEN "lost" ELSE row[w].lock
  BY DEF GasInv, TypeInv, RowType, Orphaned
<1>3. "lost" \notin Instances
  BY WorkerGasAssumption
<1>4. reserve' \in [Clients -> Int]
  BY DEF GasInv, TypeInv
<1>5. inst'[i] = m => Keeps(i, inst[i])'
  BY <1>2, <1>3 DEF Keeps, Passing, Places
<1>. QED BY <1>1, <1>2, <1>3, <1>4, <1>5, StepOf

(* A worker's row names its client.                                        *)
LEMMA ClientOf == \A w \in Rows : Client(w) \in Clients
BY WorkerGasAssumption DEF Client

(* What the invariant says of one process, and of what a step leaves.      *)
LEMMA Own ==
  ASSUME GasInv, NEW i \in Instances
  PROVE  inst[i] \in InstType /\ Keeps(i, inst[i])
BY DEF GasInv, TypeInv, PassInv

LEMMA RowsSame ==
  ASSUME GasInv, UNCHANGED <<row, reserve>>
  PROVE  row' \in [Rows -> RowType] /\ reserve' \in [Clients -> Int]
BY DEF GasInv, TypeInv

(* The changes of a row that leave its lock.                               *)
LEMMA StatusChange ==
  ASSUME GasInv, NEW w \in Rows,
         NEW s \in {"none", "inactive", "active", "busy"}
  PROVE  /\ [row[w] EXCEPT !.status = s] \in RowType
         /\ [row[w] EXCEPT !.status = s].lock = row[w].lock
BY DEF GasInv, TypeInv, RowType

LEMMA ProcChange ==
  ASSUME GasInv, NEW w \in Rows, NEW p \in Processes \cup {0}
  PROVE  /\ [row[w] EXCEPT !.proc = p] \in RowType
         /\ [row[w] EXCEPT !.proc = p].lock = row[w].lock
BY DEF GasInv, TypeInv, RowType

LEMMA Taken ==
  ASSUME GasInv, NEW w \in Rows
  PROVE  /\ [row[w] EXCEPT !.proc = 0, !.status = "busy"] \in RowType
         /\ [row[w] EXCEPT !.proc = 0, !.status = "busy"].lock = row[w].lock
BY DEF GasInv, TypeInv, RowType

LEMMA DueChange ==
  ASSUME GasInv, NEW w \in Rows
  PROVE  /\ [row[w] EXCEPT !.due = TRUE] \in RowType
         /\ [row[w] EXCEPT !.due = TRUE].lock = row[w].lock
BY DEF GasInv, TypeInv, RowType

LEMMA GasBitSet ==
  ASSUME GasInv, NEW w \in Rows
  PROVE  /\ [row[w] EXCEPT !.bits = @ \cup {"gas"}] \in RowType
         /\ [row[w] EXCEPT !.bits = @ \cup {"gas"}].lock = row[w].lock
<1> DEFINE bits == row[w].bits \cup {"gas"}
<1>1. row[w] \in RowType
  BY DEF GasInv, TypeInv
<1>2. bits \in SUBSET {"initial", "gas"}
  BY <1>1 DEF RowType
<1>. HIDE DEF bits
<1>3. [row[w] EXCEPT !.bits = bits] \in RowType
  BY <1>1, <1>2 DEF RowType
<1>4. [row[w] EXCEPT !.bits = bits].lock = row[w].lock
  BY <1>1 DEF RowType
<1>. QED BY <1>3, <1>4 DEF bits

LEMMA RowTypes == GasInv => row \in [Rows -> RowType]
BY DEF GasInv, TypeInv

-----------------------------------------------------------------------------
(* The processes started for the cron.                                     *)
LEMMA CanStartKeeps ==
  ASSUME GasInv, NEW i \in Instances, CanStart(i) PROVE GasInv'
<1> DEFINE m == [inst[i] EXCEPT !.at = "starting"]
<1>1. Go(i, m) /\ inst[i].at = "off" /\ UNCHANGED <<row, copy, reserve>>
  BY DEF CanStart, Go
<1>2. m \in InstType
  BY Own DEF InstType, Places
<1>3. ASSUME inst'[i] = m PROVE Keeps(i, inst[i])'
  BY <1>1, <1>3, Own DEF Keeps, Passing, Holding, Places, InstType
<1>. QED BY <1>1, <1>2, <1>3, RowsSame, StepOf

LEMMA MarkRunningKeeps ==
  ASSUME GasInv, NEW i \in Instances, MarkRunning(i) PROVE GasInv'
<1>1. /\ Go(i, Fresh) /\ inst[i].at = "starting"
      /\ UNCHANGED <<row, copy, reserve>>
  BY DEF MarkRunning, Go
<1>2. ASSUME inst'[i] = Fresh PROVE Keeps(i, inst[i])'
  BY <1>1, <1>2, Own DEF Keeps, Passing, Holding, Places, Fresh
<1>. QED BY <1>1, <1>2, FreshType, RowsSame, StepOf

LEMMA EndKeeps ==
  ASSUME GasInv, NEW i \in Instances, Dies(i) \/ Exit(i) PROVE GasInv'
<1>1. Go(i, Off) /\ row' = Orphaned(i) /\ UNCHANGED <<copy, reserve>>
  BY DEF Dies, Exit, Go
<1>2. /\ Off.at \notin Passing /\ Off.batch = {} /\ Off.low = {}
      /\ Off.queue = {}
  BY DEF Off, Fresh, Passing
<1>. QED BY <1>1, <1>2, FreshType, Orphans

LEMMA SignalKeeps ==
  ASSUME GasInv, NEW i \in Instances, Signal(i) PROVE GasInv'
<1> DEFINE m == [inst[i] EXCEPT !.stopping = TRUE]
<1>1. Go(i, m) /\ UNCHANGED <<row, copy, reserve>>
  BY DEF Signal, Go
<1>2. m \in InstType
  BY Own DEF InstType
<1>3. ASSUME inst'[i] = m PROVE Keeps(i, inst[i])'
  BY <1>1, <1>3, Own DEF Keeps, InstType
<1>. QED BY <1>1, <1>2, <1>3, RowsSame, StepOf

LEMMA StopProcessKeeps ==
  ASSUME GasInv, NEW i \in Instances, StopProcess(i) PROVE GasInv'
<1> DEFINE m == [inst[i] EXCEPT !.ending = TRUE]
<1>1. Go(i, m) /\ UNCHANGED <<row, copy, reserve>>
  BY DEF StopProcess, Go
<1>2. m \in InstType
  BY Own DEF InstType
<1>3. ASSUME inst'[i] = m PROVE Keeps(i, inst[i])'
  BY <1>1, <1>3, Own DEF Keeps, InstType
<1>. QED BY <1>1, <1>2, <1>3, RowsSame, StepOf

-----------------------------------------------------------------------------
(* A pass.                                                                 *)
LEMMA RunTaskKeeps ==
  ASSUME GasInv, NEW i \in Instances, RunTask(i) PROVE GasInv'
<1> DEFINE m == [inst[i] EXCEPT !.at = "locking", !.acquired = TRUE,
                                !.low = {}, !.owed = {}]
<1>1. Go(i, m) /\ inst[i].at = "armed" /\ UNCHANGED <<row, copy, reserve>>
  BY DEF RunTask, At
<1>2. m \in InstType
  BY ZenonT(30), Own DEF InstType, Places, Passing
<1>3. ASSUME inst'[i] = m PROVE Keeps(i, inst[i])'
  BY <1>1, <1>3, Own DEF Keeps, Passing, Holding, Places, InstType
<1>. QED BY <1>1, <1>2, <1>3, RowsSame, StepOf

(* The rows that are locked were nobody's.                                 *)
LEMMA AcquireLockKeeps ==
  ASSUME GasInv, NEW i \in Instances, AcquireLock(i) PROVE GasInv'
<1> PICK S \in SUBSET Lockable :
      /\ row' = [w \in Rows |->
                   IF w \in S THEN [row[w] EXCEPT !.lock = i] ELSE row[w]]
      /\ Go(i, [inst[i] EXCEPT !.at = "batch",
                               !.full = Cardinality(S) = RowLimit,
                               !.todo = {Client(w) : w \in S}])
  BY DEF AcquireLock, UpTo
<1> DEFINE f == Cardinality(S) = RowLimit
           t == {Client(w) : w \in S}
           m == [inst[i] EXCEPT !.at = "batch", !.full = f, !.todo = t]
<1>1. inst[i].at = "locking" /\ UNCHANGED <<copy, reserve>>
  BY DEF AcquireLock, At
<1>2. m \in InstType
  <2>1. t \in SUBSET Clients
    BY ClientOf DEF Lockable
  <2>2. f \in BOOLEAN
    OBVIOUS
  <2>. HIDE DEF f, t
  <2>. QED BY ZenonT(30), <2>1, <2>2, Own DEF InstType, Places, Passing
<1>3. ASSUME NEW w \in Rows
      PROVE  row'[w].lock = IF w \in S THEN i ELSE row[w].lock
  BY DEF GasInv, TypeInv, RowType
<1>4. ASSUME NEW w \in S PROVE row[w].lock \notin Instances
  BY WorkerGasAssumption DEF Lockable
<1>5. row' \in [Rows -> RowType] /\ reserve' \in [Clients -> Int]
  BY <1>1 DEF GasInv, TypeInv, RowType
<1>6. ASSUME inst'[i] = m PROVE Keeps(i, inst[i])'
  <2>1. m.at = "batch" /\ m.todo = t /\ m.batch = {} /\ m.low = {}
        /\ m.queue = {} /\ m.acquired
    BY <1>1, Own DEF Keeps, Passing, Places, InstType
  <2>2. ASSUME NEW w \in Rows, row'[w].lock = i PROVE Client(w) \in t
    BY <1>1, <1>3, <2>2, Own DEF Keeps, Holding
  <2>. HIDE DEF m, t
  <2>. QED BY <1>6, <2>1, <2>2 DEF Keeps, Holding, Passing, Places
<1>. HIDE DEF m
<1>7. Go(i, m)
  BY DEF m
<1>. QED BY <1>1, <1>2, <1>3, <1>4, <1>5, <1>6, <1>7, StepOf

(* The clients taken up leave those that are yet to be served.             *)
LEMMA NextBatchKeeps ==
  ASSUME GasInv, NEW i \in Instances, NextBatch(i) PROVE GasInv'
<1> PICK B \in SUBSET inst[i].todo :
      \E unread \in {{}} \cup {{w} : w \in Low(i, B)} :
        LET low == inst[i].low \cup (Low(i, B) \ unread) IN
        Go(i, [inst[i] EXCEPT !.at = "grant", !.batch = B, !.low = low,
                              !.todo = @ \ B,
                              !.owed = {Client(w) : w \in low}])
  BY DEF NextBatch, UpTo
<1> PICK unread :
      LET low == inst[i].low \cup (Low(i, B) \ unread) IN
      Go(i, [inst[i] EXCEPT !.at = "grant", !.batch = B, !.low = low,
                            !.todo = @ \ B,
                            !.owed = {Client(w) : w \in low}])
  OBVIOUS
<1> DEFINE low == inst[i].low \cup (Low(i, B) \ unread)
           owed == {Client(w) : w \in low}
           todo == inst[i].todo \ B
           m == [inst[i] EXCEPT !.at = "grant", !.batch = B, !.low = low,
                                !.todo = todo, !.owed = owed]
<1>1. inst[i].at = "batch" /\ UNCHANGED <<row, copy, reserve>>
  BY DEF NextBatch, At
<1>2. Go(i, m)
  OBVIOUS
<1>3. low \subseteq Rows
  BY Own DEF Low, Mine, InstType
<1>4. owed \subseteq Clients
  BY <1>3, ClientOf
<1>5. todo \subseteq Clients /\ B \subseteq Clients
  BY Own DEF InstType
<1>6. ASSUME NEW w \in low
      PROVE  Client(w) \notin todo /\ (Client(w) \in B => row[w].lock = i)
  BY Own DEF Keeps, Low, Mine
<1>7. ASSUME NEW w \in Rows, row[w].lock = i
      PROVE  Client(w) \in todo \cup B
  BY <1>1, <1>7, Own DEF Keeps, Places, Passing
<1>. HIDE DEF low, owed, todo
<1>8. m \in InstType
  BY ZenonT(30), <1>3, <1>4, <1>5, Own DEF InstType, Places, Passing
<1>9. ASSUME inst'[i] = m PROVE Keeps(i, inst[i])'
  <2>1. /\ m.at = "grant" /\ m.todo = todo /\ m.batch = B /\ m.low = low
        /\ m.queue = {} /\ m.acquired
    BY <1>1, Own DEF Keeps, Passing, InstType
  <2>. HIDE DEF m
  <2>. QED BY <1>1, <1>6, <1>7, <1>9, <2>1 DEF Keeps, Holding, Passing,
       Places
<1>. HIDE DEF m
<1>. QED BY <1>1, <1>2, <1>8, <1>9, RowsSame, StepOf

LEMMA ServeClientKeeps ==
  ASSUME GasInv, NEW i \in Instances, ServeClient(i) PROVE GasInv'
<1> PICK c \in inst[i].owed :
      Go(i, [inst[i] EXCEPT !.at = "pay", !.client = c, !.seen = reserve[c],
                            !.owed = @ \ {c}, !.got = {}, !.short = {},
                            !.queue = inst[i].low \cap RowsOf(c)])
  BY DEF ServeClient
<1> DEFINE owed == inst[i].owed \ {c}
           queue == inst[i].low \cap RowsOf(c)
           a == [inst[i] EXCEPT !.at = "pay", !.client = c]
           b == [a EXCEPT !.seen = reserve[c], !.owed = owed]
           m == [b EXCEPT !.got = {}, !.short = {}, !.queue = queue]
<1>1. inst[i].at = "grant" /\ UNCHANGED <<row, copy, reserve>>
  BY DEF ServeClient, At
<1>2. Go(i, m)
  OBVIOUS
<1>3. /\ owed \subseteq Clients /\ c \in Clients
      /\ queue \subseteq Rows /\ queue \subseteq inst[i].low
  BY Own DEF InstType
<1>4. reserve[c] \in Int
  BY <1>3 DEF GasInv, TypeInv
<1>. HIDE DEF owed, queue
<1>5. m \in InstType
  <2>1. a \in InstType
    BY ZenonT(30), <1>3, Own DEF InstType, Places, Passing
  <2>. HIDE DEF a
  <2>2. b \in InstType
    BY <1>3, <1>4, <2>1 DEF InstType
  <2>. HIDE DEF b
  <2>. QED BY <1>3, <2>2 DEF InstType
<1>6. ASSUME inst'[i] = m PROVE Keeps(i, inst[i])'
  <2>1. /\ m.at = "pay" /\ m.todo = inst[i].todo
        /\ m.batch = inst[i].batch /\ m.low = inst[i].low
        /\ m.queue = queue /\ m.acquired = inst[i].acquired
    BY Own DEF InstType
  <2>. HIDE DEF m
  <2>. QED BY <1>1, <1>3, <1>6, <2>1, Own DEF Keeps, Holding, Passing, Places
<1>. HIDE DEF m
<1>. QED BY <1>1, <1>2, <1>5, <1>6, RowsSame, StepOf

LEMMA GrantToKeeps ==
  ASSUME GasInv, NEW i \in Instances, NEW w \in Rows, GrantTo(i, w)
  PROVE  GasInv'
<1> DEFINE queue == inst[i].queue \ {w}
           got == inst[i].got \cup {w}
           short == inst[i].short \cup {w}
           g == [inst[i] EXCEPT !.queue = queue, !.got = got]
           s == [inst[i] EXCEPT !.queue = queue, !.short = short]
<1>1. inst[i].at = "pay" /\ UNCHANGED <<row, copy>>
  BY DEF GrantTo, At
<1>2. Go(i, g) \/ Go(i, s)
  BY Own DEF GrantTo, InstType, Go
<1>3. /\ queue \in SUBSET Rows /\ queue \subseteq inst[i].queue
      /\ got \in SUBSET Rows /\ short \in SUBSET Rows
  BY Own DEF InstType
<1>4. row' \in [Rows -> RowType] /\ reserve' \in [Clients -> Int]
  BY <1>1, WorkerGasAssumption DEF GasInv, TypeInv, GrantTo, Spend
<1>. HIDE DEF queue, got, short
<1>5. g \in InstType /\ s \in InstType
  BY <1>3, Own DEF InstType
<1>6. ASSUME inst'[i] = g \/ inst'[i] = s PROVE Keeps(i, inst[i])'
  <2>1. /\ inst'[i].at = inst[i].at /\ inst'[i].todo = inst[i].todo
        /\ inst'[i].batch = inst[i].batch /\ inst'[i].low = inst[i].low
        /\ inst'[i].queue = queue /\ inst'[i].acquired = inst[i].acquired
    BY <1>6, Own DEF InstType
  <2>. QED BY <1>1, <1>3, <2>1, Own DEF Keeps
<1>. HIDE DEF g, s
<1>. QED BY <1>1, <1>2, <1>4, <1>5, <1>6, StepOf

(* A step of a pass that begins and ends where rows may be locked, takes   *)
(* up no client and finds no worker, and locks and unlocks no row.         *)
LEMMA Within ==
  ASSUME GasInv, NEW i \in Instances, NEW m \in InstType, Go(i, m),
         row' \in [Rows -> RowType], UNCHANGED <<copy, reserve>>,
         \A w \in Rows : row'[w].lock = row[w].lock,
         inst[i].at \in Passing \ {"locking", "batch"},
         m.at \in {"grant", "associate", "dissociate"},
         m.todo = inst[i].todo, m.batch = inst[i].batch,
         m.low = inst[i].low, m.queue = {},
         m.acquired = inst[i].acquired
  PROVE  GasInv'
<1>1. reserve' \in [Clients -> Int]
  BY DEF GasInv, TypeInv
<1>2. inst[i].low \subseteq Rows
  BY Own DEF InstType
<1>3. inst'[i] = m => Keeps(i, inst[i])'
  BY <1>2, Own DEF Keeps, Passing, Holding, Places
<1>. QED BY <1>1, <1>3, StepOf

LEMMA MarkGasKeeps ==
  ASSUME GasInv, NEW i \in Instances, MarkGas(i) PROVE GasInv'
<1> DEFINE at == IF inst[i].got = {} THEN "dissociate" ELSE "associate"
           m == [inst[i] EXCEPT !.at = at]
<1>1. /\ Go(i, m) /\ inst[i].at = "pay" /\ inst[i].queue = {}
      /\ UNCHANGED <<copy, reserve>>
  BY DEF MarkGas, At
<1>2. /\ row' \in [Rows -> RowType]
      /\ \A w \in Rows : row'[w].lock = row[w].lock
  <2> DEFINE marked(w) == [row[w] EXCEPT !.bits = @ \cup {"gas"}]
  <2>1. row' = [w \in Rows |-> IF w \in inst[i].got THEN marked(w)
                                                   ELSE row[w]]
    BY DEF MarkGas
  <2>2. ASSUME NEW w \in Rows
        PROVE  marked(w) \in RowType /\ marked(w).lock = row[w].lock
    BY GasBitSet
  <2>. HIDE DEF marked
  <2>. QED BY <2>1, <2>2, RowTypes
<1>3. at \in {"associate", "dissociate"}
  OBVIOUS
<1>. HIDE DEF at
<1>4. m \in InstType
  BY <1>3, Own DEF InstType, Places, Passing
<1>5. /\ m.at = at /\ m.todo = inst[i].todo /\ m.batch = inst[i].batch
      /\ m.low = inst[i].low /\ m.queue = {}
      /\ m.acquired = inst[i].acquired
  BY <1>1, Own DEF InstType
<1>. HIDE DEF m
<1>. QED BY <1>1, <1>2, <1>3, <1>4, <1>5, Within DEF Passing

(* The client a pass has served is forgotten.                              *)
LEMMA ServedType ==
  ASSUME NEW i \in Instances, inst[i] \in InstType
  PROVE  Served(i) \in InstType
<1> DEFINE a == [inst[i] EXCEPT !.at = "grant", !.client = 0]
           b == [a EXCEPT !.seen = 0]
<1>1. a \in InstType
  BY DEF InstType, Places, Passing
<1>2. Served(i) = [b EXCEPT !.got = {}, !.short = {}]
  BY DEF Served
<1>. HIDE DEF a
<1>3. b \in InstType
  BY <1>1 DEF InstType
<1>. HIDE DEF b
<1>. QED BY <1>2, <1>3 DEF InstType

(* The scripts may end the process; else they touch no lock.               *)
LEMMA AssociateKeeps ==
  ASSUME GasInv, NEW i \in Instances, Associate(i) PROVE GasInv'
<1> DEFINE m == [inst[i] EXCEPT !.at = "dissociate"]
<1>1. CASE Dies(i)
  BY <1>1, EndKeeps
<1>2. CASE ~Dies(i)
  <2>1. /\ Go(i, m) /\ inst[i].at = "associate"
        /\ UNCHANGED <<copy, reserve>>
    BY <1>2 DEF Associate, At
  <2>2. /\ row' \in [Rows -> RowType]
        /\ \A w \in Rows : row'[w].lock = row[w].lock
    <3> DEFINE c == inst[i].client
               free == Processes \ {row[w].proc : w \in RowsOf(c)}
               available == {w \in RowsOf(c) : /\ row[w].status = "active"
                                               /\ "gas" \in row[w].bits
                                               /\ row[w].proc = 0}
               n == Min({Cardinality(free), Cardinality(available)})
               s(w) == IF free = {} THEN row[w].status ELSE "busy"
    <3>1. PICK P \in kSubset(n, free) : \E g \in Injection(P, available) :
            row' = [w \in Rows |->
                     CASE w \in Working(c) -> [row[w] EXCEPT !.status = s(w)]
                       [] w \in Range(g) ->
                            [row[w] EXCEPT !.proc = CHOOSE p \in P : g[p] = w]
                       [] OTHER -> row[w]]
      BY <1>2 DEF Associate
    <3>2. PICK g \in Injection(P, available) :
            row' = [w \in Rows |->
                     CASE w \in Working(c) -> [row[w] EXCEPT !.status = s(w)]
                       [] w \in Range(g) ->
                            [row[w] EXCEPT !.proc = CHOOSE p \in P : g[p] = w]
                       [] OTHER -> row[w]]
      BY <3>1
    <3>3. P \subseteq Processes /\ g \in [P -> Rows \ Working(c)]
      BY DEF kSubset, Injection, RowsOf, Working
    <3>. HIDE DEF n
    <3>4. ASSUME NEW w \in Range(g)
          PROVE  (CHOOSE p \in P : g[p] = w) \in Processes \cup {0}
      BY <3>3 DEF Range
    <3>5. ASSUME NEW w \in Rows
          PROVE  s(w) \in {"none", "inactive", "active", "busy"}
      BY DEF GasInv, TypeInv, RowType
    <3>6. ASSUME NEW w \in Rows
          PROVE  row'[w] \in RowType /\ row'[w].lock = row[w].lock
      <4> HIDE DEF free, s, available
      <4>1. Range(g) \cap Working(c) = {}
        BY <3>3 DEF Range
      <4>2. CASE w \in Working(c)
        <5>1. row'[w] = [row[w] EXCEPT !.status = s(w)]
          BY <3>2, <4>2, <4>1
        <5>. QED BY ZenonT(30), <3>5, <5>1, StatusChange
      <4>3. CASE w \notin Working(c) /\ w \in Range(g)
        <5> DEFINE q == CHOOSE p \in P : g[p] = w
        <5>1. row'[w] = [row[w] EXCEPT !.proc = q]
          BY <3>2, <4>3
        <5>2. q \in Processes \cup {0}
          BY <3>4, <4>3
        <5>. HIDE DEF q
        <5>. QED BY <5>1, <5>2, ProcChange
      <4>4. CASE w \notin Working(c) /\ w \notin Range(g)
        <5>1. row'[w] = row[w]
          BY <3>2, <4>4
        <5>. QED BY <5>1, RowTypes
      <4>. QED BY <4>2, <4>3, <4>4
    <3>7. row' \in [Rows -> RowType]
      BY <3>2, <3>6
    <3>. QED BY <3>6, <3>7
  <2>3. m \in InstType
    BY Own DEF InstType, Places, Passing
  <2>4. /\ m.at = "dissociate" /\ m.todo = inst[i].todo
        /\ m.batch = inst[i].batch /\ m.low = inst[i].low
        /\ m.queue = {} /\ m.acquired = inst[i].acquired
    BY <2>1, Own DEF InstType, Keeps, Places, Passing
  <2>. HIDE DEF m
  <2>. QED BY <2>1, <2>2, <2>3, <2>4, Within DEF Passing
<1>. QED BY <1>1, <1>2

LEMMA DissociateKeeps ==
  ASSUME GasInv, NEW i \in Instances, Dissociate(i) PROVE GasInv'
<1> DEFINE m == Served(i)
<1>1. CASE Dies(i)
  BY <1>1, EndKeeps
<1>2. CASE ~Dies(i)
  <2>1. /\ Go(i, m) /\ inst[i].at = "dissociate"
        /\ UNCHANGED <<copy, reserve>>
    BY <1>2 DEF Dissociate, At
  <2>2. /\ row' \in [Rows -> RowType]
        /\ \A w \in Rows : row'[w].lock = row[w].lock
    <3>1. CASE row' = row
      BY <3>1, RowTypes
    <3>2. CASE row' # row
      <4> DEFINE taken == inst[i].short \cap Working(inst[i].client)
      <4>1. row' = [w \in Rows |->
                     IF w \in taken
                       THEN [row[w] EXCEPT !.proc = 0, !.status = "busy"]
                       ELSE row[w]]
        BY <1>2, <3>2 DEF Dissociate
      <4>. HIDE DEF taken
      <4>. QED BY <4>1, Taken, RowTypes
    <3>. QED BY <3>1, <3>2
  <2>3. m \in InstType
    BY Own, ServedType
  <2>4. /\ m.at = "grant" /\ m.todo = inst[i].todo
        /\ m.batch = inst[i].batch /\ m.low = inst[i].low
        /\ m.queue = {} /\ m.acquired = inst[i].acquired
    BY <2>1, Own DEF InstType, Keeps, Places, Passing, Served
  <2>. HIDE DEF m
  <2>. QED BY <2>1, <2>2, <2>3, <2>4, Within DEF Passing
<1>. QED BY <1>1, <1>2

(* The rows of the clients served are unlocked, and no others.             *)
LEMMA ReleaseKeeps ==
  ASSUME GasInv, NEW i \in Instances, Release(i) PROVE GasInv'
<1> DEFINE m == [inst[i] EXCEPT !.at = "batch", !.batch = {}]
           W == {w \in Mine(i) : Client(w) \in inst[i].batch}
<1>1. /\ Go(i, m) /\ inst[i].at = "grant" /\ UNCHANGED <<copy, reserve>>
      /\ row' = Unlock(i, W)
  BY DEF Release, At
<1>2. /\ row' \in [Rows -> RowType] /\ reserve' \in [Clients -> Int]
      /\ \A w \in Rows :
           row'[w].lock = IF w \in W THEN "none" ELSE row[w].lock
  <2>. HIDE DEF W
  <2>1. row \in [Rows -> RowType] /\ reserve \in [Clients -> Int]
    BY DEF GasInv, TypeInv
  <2>2. ASSUME NEW w \in Rows
        PROVE  [row[w] EXCEPT !.lock = "none", !.due = FALSE] \in RowType
    BY <2>1 DEF RowType
  <2>3. ASSUME NEW w \in Rows
        PROVE  row'[w] = IF w \in W
                           THEN [row[w] EXCEPT !.lock = "none", !.due = FALSE]
                           ELSE row[w]
    BY <1>1 DEF Unlock
  <2>4. row' \in [Rows -> RowType]
    BY <1>1, <2>1, <2>2 DEF Unlock
  <2>5. ASSUME NEW w \in Rows
        PROVE  row'[w].lock = IF w \in W THEN "none" ELSE row[w].lock
    BY <2>1, <2>3 DEF RowType
  <2>. QED BY <1>1, <2>1, <2>4, <2>5
<1>3. \A w \in W : row[w].lock = i
  BY DEF Mine
<1>4. "none" \notin Instances
  BY WorkerGasAssumption
<1>5. m \in InstType
  BY ZenonT(30), Own DEF InstType, Places, Passing
<1>6. ASSUME inst'[i] = m PROVE Keeps(i, inst[i])'
  <2>1. /\ m.at = "batch" /\ m.batch = {} /\ m.todo = inst[i].todo
        /\ m.low = inst[i].low /\ m.queue = {} /\ m.acquired
    BY <1>1, Own DEF InstType, Keeps, Passing, Places
  <2>2. ASSUME NEW w \in Rows, row'[w].lock = i
        PROVE  Client(w) \in inst[i].todo
    BY <1>2, <1>4, <2>2, Own DEF Keeps, Mine
  <2>. HIDE DEF m
  <2>. QED BY <1>6, <2>1, <2>2, Own DEF Keeps, Holding, Passing, Places
<1>. HIDE DEF m, W
<1>. QED BY <1>1, <1>2, <1>3, <1>4, <1>5, <1>6, StepOf

-----------------------------------------------------------------------------
(* The end of a pass.                                                      *)
LEMMA CompletedType ==
  ASSUME NEW m \in InstType
  PROVE  LET n == Completed(m) IN
         /\ n \in InstType /\ n.at \in {"done", "armed"}
         /\ n.batch = m.batch /\ n.low = m.low /\ n.queue = m.queue
<1>1. CASE Completed(m) = [m EXCEPT !.at = "done", !.stopping = TRUE]
  BY <1>1 DEF InstType, Places
<1>2. CASE Completed(m) = [m EXCEPT !.at = "armed", !.runs = @ + 1]
  <2>1. m.runs + 1 \in Nat
    BY DEF InstType
  <2>. QED BY <1>2, <2>1 DEF InstType, Places
<1>. QED BY <1>1, <1>2 DEF Completed

(* Nothing is locked when every client has been served.                    *)
LEMMA PassEndsKeeps ==
  ASSUME GasInv, NEW i \in Instances, PassEnds(i) PROVE GasInv'
<1> DEFINE a == [inst[i] EXCEPT !.acquired = FALSE, !.low = {}]
           m == Completed(a)
<1>1. /\ Go(i, m) /\ inst[i].at = "batch" /\ inst[i].todo = {}
      /\ UNCHANGED <<row, copy, reserve>>
  BY DEF PassEnds, At
<1>2. inst[i].batch = {} /\ inst[i].queue = {}
  BY <1>1, Own DEF Keeps, Places, Passing
<1>3. /\ a \in InstType /\ a.batch = {} /\ a.low = {} /\ a.queue = {}
  BY <1>2, Own DEF InstType
<1>4. row' = Orphaned(i)
  <2>1. ASSUME NEW w \in Rows PROVE row[w].lock # i
    BY <1>1, <1>2, Own DEF Keeps
  <2>. QED BY <1>1, <2>1 DEF Orphaned, GasInv, TypeInv
<1>. HIDE DEF a
<1>5. /\ m \in InstType /\ m.at \in {"done", "armed"}
      /\ m.batch = {} /\ m.low = {} /\ m.queue = {}
  BY <1>3, CompletedType
<1>. HIDE DEF m
<1>. QED BY <1>1, <1>4, <1>5, Orphans DEF Passing

LEMMA PassFailsKeeps ==
  ASSUME GasInv, NEW i \in Instances, PassFails(i) PROVE GasInv'
<1> DEFINE a == [Served(i) EXCEPT !.todo = {}, !.batch = {}, !.owed = {},
                                  !.queue = {}, !.low = {}]
           m == Completed(a)
<1>1. Go(i, m) /\ row' = Orphaned(i) /\ UNCHANGED <<copy, reserve>>
  BY DEF PassFails
<1>2. Served(i) \in InstType
  BY Own, ServedType
<1>3. /\ a \in InstType /\ a.batch = {} /\ a.low = {} /\ a.queue = {}
  BY <1>2 DEF InstType
<1>. HIDE DEF a
<1>4. /\ m \in InstType /\ m.at \in {"done", "armed"}
      /\ m.batch = {} /\ m.low = {} /\ m.queue = {}
  BY <1>3, CompletedType
<1>. HIDE DEF m
<1>. QED BY <1>1, <1>4, Orphans DEF Passing

-----------------------------------------------------------------------------
(* What goes on beside the monitors.                                       *)
LEMMA RowStepsKeep ==
  ASSUME GasInv, NEW w \in Rows,
         \/ TimeDue(w) \/ Settle(w) \/ Use(w) \/ ReadBits(w)
         \/ UnsetGas(w) \/ FundWorker(w)
  PROVE  GasInv'
<1> USE DEF TypeInv, RowType
<1>1. TypeInv
  BY DEF GasInv
<1>2. CASE TimeDue(w)
  <2>1. /\ UNCHANGED <<inst, copy, reserve>> /\ row' \in [Rows -> RowType]
        /\ \A v \in Rows : row'[v].lock = row[v].lock
    BY <1>2, DueChange, RowTypes DEF TimeDue
  <2>. QED BY <1>1, <2>1, Aside
<1>3. CASE Settle(w)
  <2>1. /\ UNCHANGED <<inst, copy, reserve>> /\ row' \in [Rows -> RowType]
        /\ \A v \in Rows : row'[v].lock = row[v].lock
    BY <1>1, <1>3 DEF Settle
  <2>. QED BY <1>1, <2>1, Aside
<1>4. CASE Use(w) \/ ReadBits(w)
  <2>1. UNCHANGED <<inst, row, reserve>>
    BY <1>4 DEF Use, ReadBits
  <2>2. copy' \in [Rows -> SUBSET {"initial", "gas"}]
    BY <1>1, <1>4 DEF Use, ReadBits
  <2>. QED BY <1>1, <2>1, <2>2, Aside
<1>5. CASE UnsetGas(w)
  <2>1. /\ UNCHANGED <<inst, reserve>> /\ row' \in [Rows -> RowType]
        /\ copy' \in [Rows -> SUBSET {"initial", "gas"}]
        /\ \A v \in Rows : row'[v].lock = row[v].lock
    BY <1>1, <1>5 DEF UnsetGas
  <2>. QED BY <1>1, <2>1, Aside
<1>6. CASE FundWorker(w)
  <2>1. /\ UNCHANGED <<inst, copy>> /\ row' \in [Rows -> RowType]
        /\ \A v \in Rows : row'[v].lock = row[v].lock
    BY <1>1, <1>6 DEF FundWorker
  <2>2. reserve' \in [Clients -> Int]
    BY <1>1, <1>6, WorkerGasAssumption DEF FundWorker, Spend
  <2>. QED BY <1>1, <2>1, <2>2, Aside
<1>. QED BY <1>2, <1>3, <1>4, <1>5, <1>6

LEMMA ClientStepsKeep ==
  ASSUME GasInv,
         \/ \E c \in Clients : \/ GenerateWorkers(c)
                               \/ \E b \in BOOLEAN : FundClient(c, b)
         \/ OperatorResets \/ CheckReserve \/ FundHolder \/ SetWorkers
  PROVE  GasInv'
<1> USE DEF TypeInv, RowType
<1>1. TypeInv
  BY DEF GasInv
<1>2. CASE \E c \in Clients : GenerateWorkers(c)
  <2>1. /\ UNCHANGED <<inst, copy, reserve>> /\ row' \in [Rows -> RowType]
        /\ \A v \in Rows : row'[v].lock = row[v].lock
    <3> PICK c \in Clients : GenerateWorkers(c)
      BY <1>2
    <3>1. PICK W :
            row' = [v \in Rows |->
                     IF v \in W THEN [row[v] EXCEPT !.status = "inactive"]
                                ELSE row[v]]
      BY DEF GenerateWorkers
    <3>2. UNCHANGED <<inst, copy, reserve>>
      BY DEF GenerateWorkers
    <3>. QED BY <3>1, <3>2, StatusChange, RowTypes
  <2>. QED BY <1>1, <2>1, Aside
<1>3. CASE SetWorkers
  <2>1. /\ UNCHANGED <<inst, copy, reserve>> /\ row' \in [Rows -> RowType]
        /\ \A v \in Rows : row'[v].lock = row[v].lock
    BY <1>1, <1>3 DEF SetWorkers
  <2>. QED BY <1>1, <2>1, Aside
<1>4. CASE \/ \E c \in Clients : \E b \in BOOLEAN : FundClient(c, b)
           \/ OperatorResets \/ CheckReserve
  <2>1. UNCHANGED <<inst, row, copy, reserve>>
    BY <1>4 DEF FundClient, OperatorResets, CheckReserve
  <2>. QED BY <1>1, <2>1, Aside
<1>5. CASE FundHolder
  <2>1. UNCHANGED <<inst, row, copy>>
    BY <1>5 DEF FundHolder
  <2>2. reserve' \in [Clients -> Int]
    BY <1>1, <1>5, StPrimeAssumption DEF FundHolder, Spend
  <2>. QED BY <1>1, <2>1, <2>2, Aside
<1>. QED BY <1>2, <1>3, <1>4, <1>5

(* The transfers of ST' take from the reserve.                             *)
LEMMA StpKeeps == ASSUME GasInv, StpNext, Stp PROVE GasInv'
<1>1. TypeInv /\ UNCHANGED <<inst, row, copy>>
  BY DEF GasInv, Stp, gasVars
<1>2. reserve' \in [Clients -> Int]
  <2>1. UNCHANGED reserve \/ \E k \in Slots : Pay(k)
    BY DEF StpNext, RunStep, ScanStep, Create, Deliver, FetchLog, MarkFailed,
       InsertMeta, WriteWaiting, Ack, Redeliver, Scan, Complete, ReleaseMeta,
       TokenMoves, Index, Expire, Get, GetDetails, BeginWalk, Page, EndWalk
  <2>2. ASSUME NEW k \in Slots, Pay(k) PROVE reserve' \in [Clients -> Int]
    BY <1>1, <2>2, StpAssumption DEF TypeInv, Pay, Spend
  <2>. QED BY <1>1, <2>1, <2>2 DEF TypeInv
<1>. QED BY <1>1, <1>2, Aside DEF TypeInv

-----------------------------------------------------------------------------
LEMMA GasInvStep == GasInv /\ [Next]_vars => GasInv'
<1> SUFFICES ASSUME GasInv, [Next]_vars PROVE GasInv'
  OBVIOUS
<1>1. CASE UNCHANGED vars
  <2>1. UNCHANGED <<row, inst, copy, reserve>>
    BY <1>1 DEF vars, gasVars
  <2>. QED BY <2>1, Aside DEF GasInv, TypeInv
<1>2. CASE StpNext /\ Stp
  BY <1>2, StpKeeps
<1>3. ASSUME NEW i \in Instances, MonitorStep(i) PROVE GasInv'
  BY <1>3, MarkRunningKeeps, RunTaskKeeps, AcquireLockKeeps, NextBatchKeeps,
     ServeClientKeeps, GrantToKeeps, MarkGasKeeps, AssociateKeeps,
     DissociateKeeps, ReleaseKeeps, PassEndsKeeps, StopProcessKeeps, EndKeeps
     DEF MonitorStep
<1>4. ASSUME NEW i \in Instances,
             CanStart(i) \/ PassFails(i) \/ Crash(i) \/ Signal(i)
      PROVE  GasInv'
  BY <1>4, CanStartKeeps, PassFailsKeeps, EndKeeps, SignalKeeps DEF Crash
<1>. QED BY <1>1, <1>2, <1>3, <1>4, RowStepsKeep, ClientStepsKeep
     DEF Next, GasNext

(* No row carries the lock of a process that is not at a pass: every pass  *)
(* that ends well has released, batch by batch, the rows it locked, and    *)
(* only the rows of one that dies or fails stay locked.                    *)
THEOREM LocksHavePasses == Spec => []LockHasPass
<1>1. Init => GasInv
  BY GasInvInit
<1>2. GasInv /\ [Next]_vars => GasInv'
  BY GasInvStep
<1>3. GasInv => LockHasPass
  BY GasInvSafe
<1>. QED BY <1>1, <1>2, <1>3, PTL DEF Spec

(* Two processes started for the one cron, which both found its row        *)
(* stopped, never have one worker of their batches to pay: the locks of    *)
(* the rows keep them apart where the cron's status does not.              *)
THEOREM OneMonitorAtATime == Spec => []OneMonitorPays
<1>1. Init => GasInv
  BY GasInvInit
<1>2. GasInv /\ [Next]_vars => GasInv'
  BY GasInvStep
<1>3. GasInv => OneMonitorPays
  BY GasInvSafe
<1>. QED BY <1>1, <1>2, <1>3, PTL DEF Spec

-----------------------------------------------------------------------------
(* Payments.  Every step of the monitors and of the funding counts at most *)
(* one call that failed.                                                   *)
LEMMA GasFaults ==
  ASSUME GasNext PROVE UNCHANGED faults \/ faults' = faults + 1
<1> USE DEF NoFault, Fault
<1>1. ASSUME NEW i \in Instances, MonitorStep(i)
      PROVE  UNCHANGED faults \/ faults' = faults + 1
  <2>1. CASE NextBatch(i)
    BY <2>1 DEF NextBatch
  <2>2. CASE \E w \in Rows : GrantTo(i, w)
    BY <2>2 DEF GrantTo
  <2>3. CASE Associate(i)
    BY <2>3 DEF Associate
  <2>4. CASE Dissociate(i)
    BY <2>4 DEF Dissociate
  <2>5. CASE \/ MarkRunning(i) \/ RunTask(i) \/ AcquireLock(i)
             \/ ServeClient(i) \/ MarkGas(i) \/ Release(i) \/ PassEnds(i)
             \/ StopProcess(i) \/ Exit(i)
    BY <2>5 DEF MarkRunning, RunTask, AcquireLock, ServeClient, MarkGas,
       Release, PassEnds, StopProcess, Exit
  <2>. QED BY <1>1, <2>1, <2>2, <2>3, <2>4, <2>5 DEF MonitorStep
<1>2. ASSUME NEW i \in Instances,
             CanStart(i) \/ PassFails(i) \/ Crash(i) \/ Signal(i)
      PROVE  UNCHANGED faults \/ faults' = faults + 1
  BY <1>2 DEF CanStart, PassFails, Crash, Signal
<1>3. ASSUME NEW w \in Rows,
             \/ TimeDue(w) \/ Settle(w) \/ Use(w) \/ ReadBits(w)
             \/ UnsetGas(w) \/ FundWorker(w)
      PROVE  UNCHANGED faults \/ faults' = faults + 1
  BY <1>3 DEF TimeDue, Settle, Use, ReadBits, UnsetGas, FundWorker
<1>4. ASSUME NEW c \in Clients,
             GenerateWorkers(c) \/ \E b \in BOOLEAN : FundClient(c, b)
      PROVE  UNCHANGED faults \/ faults' = faults + 1
  BY <1>4 DEF GenerateWorkers, FundClient
<1>5. CASE OperatorResets \/ CheckReserve \/ FundHolder \/ SetWorkers
  BY <1>5 DEF OperatorResets, CheckReserve, FundHolder, SetWorkers
<1>. QED BY <1>1, <1>2, <1>3, <1>4, <1>5 DEF GasNext

(* The slots that have been handed a transfer and have yet to pay it.      *)
Hand(t) == {k \in Slots : run[k].t = t /\ run[k].at \in {"got", "fetched"}}

RunType ==
  [t : Nat, n : Nat,
   at : {"idle", "got", "fetched", "paid", "refused", "inserted", "over"}]

(* A transfer is paid, waits in the queue and is in the hands of consumers *)
(* once, and once more for each call that failed.                          *)
PaidInv ==
  /\ faults \in Nat /\ DOMAIN item = Items
  /\ messages \in [Stps -> Nat] /\ pays \in [Stps -> Nat]
  /\ run \in [Slots -> RunType]
  /\ \A k \in Slots : run[k].at # "idle" =>
       run[k].t \in Stps /\ item[run[k].t] # "absent"
  /\ \A t \in Stps :
       /\ IsFiniteSet(Hand(t))
       /\ pays[t] + messages[t] + Cardinality(Hand(t))
            <= IF item[t] = "absent" THEN 0 ELSE 1 + faults

LEMMA PaidInvSafe == PaidInv => PaidOncePerDelivery
<1> SUFFICES ASSUME PaidInv, NEW t \in Stps PROVE pays[t] <= 1 + faults
  BY DEF PaidOncePerDelivery
<1>1. /\ pays[t] \in Nat /\ messages[t] \in Nat /\ faults \in Nat
      /\ Cardinality(Hand(t)) \in Nat
      /\ pays[t] + messages[t] + Cardinality(Hand(t))
           <= IF item[t] = "absent" THEN 0 ELSE 1 + faults
  BY FS_CardinalityType DEF PaidInv
<1>. QED BY <1>1

LEMMA PaidInvInit == Init => PaidInv
<1> SUFFICES ASSUME Init PROVE PaidInv
  OBVIOUS
<1>1. PICK c \in Cases : item = c.item /\ InitStp(c)
  BY DEF Init, InitStp
<1>2. DOMAIN item = Items
  BY <1>1, StPrimeAssumption
<1>3. \A k \in Slots : run[k] = IdleRun
  BY <1>1 DEF InitStp
<1>4. run \in [Slots -> RunType]
  BY <1>1 DEF InitStp, IdleRun, RunType
<1>5. \A t : Hand(t) = {}
  BY <1>3 DEF Hand, IdleRun
<1>6. /\ messages = [t \in Stps |-> 0] /\ pays = [t \in Stps |-> 0]
      /\ faults = 0
  BY <1>1 DEF Init, InitStp
<1>. QED BY <1>2, <1>3, <1>4, <1>5, <1>6, FS_EmptySet DEF PaidInv, IdleRun

(* A step that hands out nothing and pays nothing.                         *)
LEMMA PaidFrame ==
  ASSUME PaidInv, UNCHANGED <<messages, pays>>,
         UNCHANGED faults \/ faults' = faults + 1,
         DOMAIN item' = Items,
         \A t \in Items : item[t] # "absent" => item'[t] # "absent",
         run' \in [Slots -> RunType],
         \A k \in Slots :
           /\ run'[k].at # "idle" => run[k].at # "idle" /\ run'[k].t = run[k].t
           /\ run'[k].at \in {"got", "fetched"}
                => run[k].at \in {"got", "fetched"}
  PROVE  PaidInv'
<1>1. \A t \in Stps : Hand(t)' \subseteq Hand(t)
  BY DEF Hand
<1>2. \A k \in Slots : run'[k].at # "idle" =>
        run'[k].t \in Stps /\ item'[run'[k].t] # "absent"
  BY DEF PaidInv, Items
<1>3. ASSUME NEW t \in Stps
      PROVE  /\ IsFiniteSet(Hand(t)')
             /\ pays[t]' + messages[t]' + Cardinality(Hand(t)')
                  <= IF item'[t] = "absent" THEN 0 ELSE 1 + faults'
  <2>1. /\ pays[t] \in Nat /\ messages[t] \in Nat /\ faults \in Nat
        /\ IsFiniteSet(Hand(t)) /\ Cardinality(Hand(t)) \in Nat
        /\ pays[t] + messages[t] + Cardinality(Hand(t))
             <= IF item[t] = "absent" THEN 0 ELSE 1 + faults
    BY FS_CardinalityType DEF PaidInv
  <2>2. /\ IsFiniteSet(Hand(t)') /\ Cardinality(Hand(t)') \in Nat
        /\ Cardinality(Hand(t)') <= Cardinality(Hand(t))
    BY <1>1, <2>1, FS_Subset, FS_CardinalityType
  <2>3. item[t] # "absent" => item'[t] # "absent"
    BY DEF Items
  <2>. QED BY <2>1, <2>2, <2>3
<1>4. faults' \in Nat /\ messages' \in [Stps -> Nat] /\ pays' \in [Stps -> Nat]
  BY DEF PaidInv
<1>. QED BY <1>2, <1>3, <1>4 DEF PaidInv

(* A write to an item never makes it absent.                               *)
LEMMA WriteKeeps ==
  ASSUME PaidInv, NEW t, NEW s \in ItemStatus \ {"absent"},
         WriteUnchecked(t, s) \/ (Write(t, s) /\ NoFault)
  PROVE  /\ DOMAIN item' = Items
         /\ \A u \in Items : item[u] # "absent" => item'[u] # "absent"
         /\ UNCHANGED faults \/ faults' = faults + 1
BY DEF PaidInv, WriteUnchecked, Write, NoFault, Fault, ItemStatus

LEMMA CreatePays ==
  ASSUME PaidInv, NEW t \in Stps, Create(t) PROVE PaidInv'
<1>1. /\ item[t] = "absent" /\ item' = [item EXCEPT ![t] = "processing"]
      /\ UNCHANGED <<pays, run>> /\ t \in Items
      /\ \/ messages' = [messages EXCEPT ![t] = 1] /\ UNCHANGED faults
         \/ UNCHANGED messages /\ faults' = faults + 1
  BY DEF Create, NoFault, Fault, Items
<1>2. \A u : Hand(u)' = Hand(u)
  BY <1>1 DEF Hand
<1>3. /\ faults' \in Nat /\ DOMAIN item' = Items
      /\ messages' \in [Stps -> Nat] /\ pays' \in [Stps -> Nat]
      /\ run' \in [Slots -> RunType]
  BY <1>1 DEF PaidInv
<1>4. \A k \in Slots : run'[k].at # "idle" =>
        run'[k].t \in Stps /\ item'[run'[k].t] # "absent"
  BY <1>1 DEF PaidInv
<1>5. ASSUME NEW u \in Stps
      PROVE  /\ IsFiniteSet(Hand(u))
             /\ pays'[u] + messages'[u] + Cardinality(Hand(u))
                  <= IF item'[u] = "absent" THEN 0 ELSE 1 + faults'
  <2>1. /\ pays[u] \in Nat /\ messages[u] \in Nat /\ faults \in Nat
        /\ IsFiniteSet(Hand(u)) /\ Cardinality(Hand(u)) \in Nat
        /\ pays[u] + messages[u] + Cardinality(Hand(u))
             <= IF item[u] = "absent" THEN 0 ELSE 1 + faults
    BY FS_CardinalityType DEF PaidInv
  <2>2. messages'[u] = messages[u] \/ (u = t /\ messages'[u] = 1)
    <3>1. messages \in [Stps -> Nat]
      BY DEF PaidInv
    <3>. QED BY <1>1, <3>1
  <2>3. /\ u # t => item'[u] = item[u] /\ messages'[u] = messages[u]
        /\ u = t => item'[u] = "processing"
    BY <1>1 DEF PaidInv
  <2>. QED BY <1>1, <2>1, <2>2, <2>3
<1>. QED BY <1>2, <1>3, <1>4, <1>5 DEF PaidInv

LEMMA DeliverPays ==
  ASSUME PaidInv, NEW k \in Slots, NEW t \in Stps, Deliver(k, t)
  PROVE  PaidInv'
<1> DEFINE m == [IdleRun EXCEPT !.t = t, !.at = "got"]
<1>0. m \in RunType /\ m.t = t /\ m.at = "got"
  BY StpAssumption DEF IdleRun, RunType, Items
<1>. HIDE DEF m
<1>1. /\ run[k].at = "idle" /\ messages[t] > 0
      /\ messages' = [messages EXCEPT ![t] = @ - 1]
      /\ run' = [run EXCEPT ![k] = m]
      /\ UNCHANGED <<item, pays, faults>>
  BY Zenon DEF Deliver, RunAt, m
<1>2. /\ \A u \in Stps \ {t} : Hand(u)' = Hand(u)
      /\ Hand(t)' = Hand(t) \cup {k} /\ k \notin Hand(t)
  BY <1>0, <1>1 DEF Hand, PaidInv
<1>3. ASSUME NEW u \in Stps
      PROVE  /\ pays[u] \in Nat /\ messages[u] \in Nat /\ faults \in Nat
             /\ IsFiniteSet(Hand(u)) /\ Cardinality(Hand(u)) \in Nat
             /\ pays[u] + messages[u] + Cardinality(Hand(u))
                  <= IF item[u] = "absent" THEN 0 ELSE 1 + faults
  BY FS_CardinalityType DEF PaidInv
<1>4. item[t] # "absent"
  BY <1>1, <1>3
<1>5. /\ messages' \in [Stps -> Nat] /\ run' \in [Slots -> RunType]
      /\ messages'[t] = messages[t] - 1
      /\ \A u \in Stps \ {t} : messages'[u] = messages[u]
  BY <1>0, <1>1 DEF PaidInv
<1>6. \A j \in Slots : run'[j].at # "idle" =>
        run'[j].t \in Stps /\ item'[run'[j].t] # "absent"
  BY <1>0, <1>1, <1>4 DEF PaidInv
<1>7. /\ IsFiniteSet(Hand(t)')
      /\ Cardinality(Hand(t)') = Cardinality(Hand(t)) + 1
  BY <1>2, <1>3, FS_AddElement
<1>8. ASSUME NEW u \in Stps
      PROVE  /\ IsFiniteSet(Hand(u)')
             /\ pays[u] + messages'[u] + Cardinality(Hand(u)')
                  <= IF item[u] = "absent" THEN 0 ELSE 1 + faults
  <2>1. CASE u = t
    BY <1>3, <1>5, <1>7, <2>1
  <2>2. CASE u # t
    BY <1>2, <1>3, <1>5, <2>2
  <2>. QED BY <2>1, <2>2
<1>. QED BY <1>1, <1>5, <1>6, <1>8 DEF PaidInv

LEMMA PayPays ==
  ASSUME PaidInv, NEW k \in Slots, Pay(k) PROVE PaidInv'
<1>0. run[k].at = "fetched" /\ run[k].t \in Stps /\ item[run[k].t] # "absent"
  BY DEF Pay, RunAt, PaidInv
<1>. PICK t \in Stps : t = run[k].t
  BY <1>0
<1>1. /\ run[k].at = "fetched" /\ t \in Stps /\ item[t] # "absent"
      /\ UNCHANGED <<item, messages>>
  BY <1>0 DEF Pay
<1>2. CASE UNCHANGED pays
  <2>1. /\ run' = [run EXCEPT ![k].at = "refused"] \/ run' = [run EXCEPT ![k].at = "paid", ![k].n = pays[t] + 1]
        /\ UNCHANGED faults \/ faults' = faults + 1
    BY <1>2 DEF Pay, RunGo, NoFault, Fault
  <2>2. /\ run' \in [Slots -> RunType]
        /\ \A j \in Slots :
             /\ j # k => run'[j] = run[j]
             /\ j = k => run'[j].t = run[j].t
                           /\ run'[j].at \in {"refused", "paid"}
    <3>1. run \in [Slots -> RunType] /\ pays[t] + 1 \in Nat
      BY <1>1 DEF PaidInv
    <3> DEFINE r == [run[k] EXCEPT !.at = "refused"]
               s == [run[k] EXCEPT !.at = "paid", !.n = pays[t] + 1]
    <3>2. run[k] \in RunType /\ run[k].t = t
      BY <3>1
    <3>3. /\ r \in RunType /\ r.t = t /\ r.at = "refused"
          /\ s \in RunType /\ s.t = t /\ s.at = "paid"
      BY <3>1, <3>2 DEF RunType
    <3>4. run' = [run EXCEPT ![k] = r] \/ run' = [run EXCEPT ![k] = s]
      BY <2>1, <3>1 DEF RunType
    <3>. HIDE DEF r, s
    <3>. QED BY <3>1, <3>2, <3>3, <3>4
  <2>. QED BY <1>1, <1>2, <2>1, <2>2, PaidFrame DEF PaidInv
<1>3. CASE pays' # pays
  <2>1. /\ pays' = [pays EXCEPT ![t] = @ + 1] /\ UNCHANGED faults
        /\ run' = [run EXCEPT ![k].at = "paid", ![k].n = pays[t] + 1]
    BY <1>3 DEF Pay, NoFault
  <2>2. /\ run' \in [Slots -> RunType]
        /\ \A j \in Slots \ {k} : run'[j] = run[j]
        /\ run'[k].t = run[k].t /\ run'[k].at = "paid"
    <3>1. run \in [Slots -> RunType] /\ pays[t] + 1 \in Nat
      BY <1>1 DEF PaidInv
    <3>. QED BY <2>1, <3>1 DEF RunType
  <2>3. /\ \A u \in Stps \ {t} : Hand(u)' = Hand(u)
        /\ Hand(t)' = Hand(t) \ {k} /\ k \in Hand(t)
    BY <1>1, <2>2 DEF Hand
  <2>4. ASSUME NEW u \in Stps
        PROVE  /\ pays[u] \in Nat /\ messages[u] \in Nat /\ faults \in Nat
               /\ IsFiniteSet(Hand(u)) /\ Cardinality(Hand(u)) \in Nat
               /\ pays[u] + messages[u] + Cardinality(Hand(u))
                    <= IF item[u] = "absent" THEN 0 ELSE 1 + faults
    BY FS_CardinalityType DEF PaidInv
  <2>5. /\ IsFiniteSet(Hand(t)')
        /\ Cardinality(Hand(t)') = Cardinality(Hand(t)) - 1
    BY <1>1, <2>3, <2>4, FS_RemoveElement
  <2>6. /\ pays' \in [Stps -> Nat] /\ pays'[t] = pays[t] + 1
        /\ \A u \in Stps \ {t} : pays'[u] = pays[u]
    BY <1>1, <2>1 DEF PaidInv
  <2>7. \A j \in Slots : run'[j].at # "idle" =>
          run'[j].t \in Stps /\ item'[run'[j].t] # "absent"
    BY <1>1, <2>2 DEF PaidInv
  <2>8. ASSUME NEW u \in Stps
        PROVE  /\ IsFiniteSet(Hand(u)')
               /\ pays'[u] + messages[u] + Cardinality(Hand(u)')
                    <= IF item[u] = "absent" THEN 0 ELSE 1 + faults
    <3>1. CASE u = t
      <4>1. /\ pays[t] \in Nat /\ messages[t] \in Nat /\ faults \in Nat
            /\ Cardinality(Hand(t)) \in Nat
            /\ pays[t] + messages[t] + Cardinality(Hand(t)) <= 1 + faults
        BY <1>1, <2>4
      <4>2. pays'[t] + messages[t] + Cardinality(Hand(t)') <= 1 + faults
        BY <2>5, <2>6, <4>1
      <4>3. item[u] # "absent"
        BY <1>1, <3>1
      <4>. QED BY <2>5, <3>1, <4>2, <4>3
    <3>2. CASE u # t
      BY <2>3, <2>4, <2>6, <3>2
    <3>. QED BY <3>1, <3>2
  <2>. QED BY <1>1, <2>1, <2>2, <2>6, <2>7, <2>8 DEF PaidInv
<1>. QED BY <1>2, <1>3

LEMMA RedeliverPays ==
  ASSUME PaidInv, NEW k \in Slots, Redeliver(k) PROVE PaidInv'
<1> DEFINE t == run[k].t
<1>1. /\ t \in Stps /\ item[t] # "absent" /\ UNCHANGED <<item, pays>>
      /\ faults' = faults + 1 /\ messages' = [messages EXCEPT ![t] = @ + 1]
      /\ run' = [run EXCEPT ![k] = [t |-> 0, n |-> 0, at |-> "idle"]]
  BY DEF Redeliver, RunAt, PaidInv, Fault, IdleRun
<1>. HIDE DEF t
<1>2. /\ run' \in [Slots -> RunType] /\ run'[k].at = "idle"
      /\ \A j \in Slots \ {k} : run'[j] = run[j]
      /\ messages' \in [Stps -> Nat] /\ messages'[t] = messages[t] + 1
      /\ \A u \in Stps \ {t} : messages'[u] = messages[u]
  BY <1>1 DEF PaidInv, RunType
<1>3. \A u \in Stps : Hand(u)' \subseteq Hand(u)
  BY <1>2 DEF Hand
<1>4. \A j \in Slots : run'[j].at # "idle" =>
        run'[j].t \in Stps /\ item'[run'[j].t] # "absent"
  BY <1>1, <1>2 DEF PaidInv
<1>5. ASSUME NEW u \in Stps
      PROVE  /\ IsFiniteSet(Hand(u)')
             /\ pays[u] + messages'[u] + Cardinality(Hand(u)')
                  <= IF item[u] = "absent" THEN 0 ELSE 1 + faults'
  <2>1. /\ pays[u] \in Nat /\ messages[u] \in Nat /\ faults \in Nat
        /\ IsFiniteSet(Hand(u)) /\ Cardinality(Hand(u)) \in Nat
        /\ pays[u] + messages[u] + Cardinality(Hand(u))
             <= IF item[u] = "absent" THEN 0 ELSE 1 + faults
    BY FS_CardinalityType DEF PaidInv
  <2>2. /\ IsFiniteSet(Hand(u)') /\ Cardinality(Hand(u)') \in Nat
        /\ Cardinality(Hand(u)') <= Cardinality(Hand(u))
    BY <1>3, <2>1, FS_Subset, FS_CardinalityType
  <2>3. CASE u = t
    BY <1>1, <1>2, <2>1, <2>2, <2>3
  <2>4. CASE u # t
    BY <1>1, <1>2, <2>1, <2>2, <2>4
  <2>. QED BY <2>3, <2>4
<1>6. faults' \in Nat /\ pays' \in [Stps -> Nat] /\ DOMAIN item' = Items
  BY <1>1 DEF PaidInv
<1>. QED BY <1>1, <1>2, <1>4, <1>5, <1>6 DEF PaidInv

(* The other steps of a consumer.                                          *)
LEMMA RunPays ==
  ASSUME PaidInv, NEW k \in Slots,
         FetchLog(k) \/ MarkFailed(k) \/ InsertMeta(k) \/ WriteWaiting(k) \/ Ack(k)
  PROVE  PaidInv'
<1>1. UNCHANGED <<messages, pays>>
  BY DEF FetchLog, MarkFailed, InsertMeta, WriteWaiting, Ack
<1>2. /\ DOMAIN item' = Items
      /\ \A t \in Items : item[t] # "absent" => item'[t] # "absent"
      /\ UNCHANGED faults \/ faults' = faults + 1
  <2>1. CASE MarkFailed(k) \/ WriteWaiting(k)
    <3>1. PICK s \in {"failed", "waiting"} : WriteUnchecked(run[k].t, s)
      BY <2>1 DEF MarkFailed, WriteWaiting
    <3>2. s \in ItemStatus \ {"absent"}
      BY DEF ItemStatus
    <3>. QED BY <3>1, <3>2, WriteKeeps
  <2>2. CASE FetchLog(k) \/ InsertMeta(k) \/ Ack(k)
    BY <2>2 DEF FetchLog, InsertMeta, Ack, NoFault, Fault, PaidInv
  <2>. QED BY <2>1, <2>2
<1>3. \/ /\ \E l \in {"fetched", "over", "inserted"} :
              run' = [run EXCEPT ![k].at = l]
         /\ run[k].at \in {"got", "refused", "paid", "inserted"}
         /\ run[k].at # "got" => run' # [run EXCEPT ![k].at = "fetched"]
      \/ run' = [run EXCEPT ![k] = [t |-> 0, n |-> 0, at |-> "idle"]]
  BY DEF FetchLog, MarkFailed, InsertMeta, WriteWaiting, Ack, RunAt, RunGo,
     IdleRun, PaidInv, RunType
<1>4. /\ run' \in [Slots -> RunType]
      /\ \A j \in Slots :
           /\ run'[j].at # "idle" => run[j].at # "idle" /\ run'[j].t = run[j].t
           /\ run'[j].at \in {"got", "fetched"}
                => run[j].at \in {"got", "fetched"}
  BY <1>3 DEF PaidInv, RunType
<1>. QED BY <1>1, <1>2, <1>4, PaidFrame

LEMMA PaidInvStep == PaidInv /\ [Next]_vars => PaidInv'
<1> SUFFICES ASSUME PaidInv, [Next]_vars PROVE PaidInv'
  OBVIOUS
<1>1. ASSUME UNCHANGED <<messages, pays, run>>, DOMAIN item' = Items,
             \A t \in Items : item[t] # "absent" => item'[t] # "absent",
             UNCHANGED faults \/ faults' = faults + 1
      PROVE  PaidInv'
  <2>1. run' \in [Slots -> RunType]
    BY <1>1 DEF PaidInv
  <2>. QED BY <1>1, <2>1, PaidFrame
<1>2. CASE UNCHANGED vars
  BY <1>1, <1>2 DEF vars, stpVars, PaidInv
<1>3. CASE GasNext /\ Gas
  BY <1>1, <1>3, GasFaults DEF Gas, stpVars, PaidInv
<1>4. CASE \E p \in Payments : ScanStep(p)
  <2>1. PICK p \in Payments : ScanStep(p)
    BY <1>4
  <2>2. CASE Complete(p)
    <3>1. UNCHANGED <<messages, pays, run>>
      BY <2>2 DEF Complete
    <3>2. PICK s \in {"complete", "failed"} : WriteUnchecked(Of(p), s)
      BY <2>2 DEF Complete
    <3>3. s \in ItemStatus \ {"absent"}
      BY DEF ItemStatus
    <3>. QED BY <1>1, <3>1, <3>2, <3>3, WriteKeeps
  <2>3. CASE Scan(p) \/ ReleaseMeta(p)
    BY <1>1, <2>3 DEF Scan, ReleaseMeta, PaidInv
  <2>. QED BY <2>1, <2>2, <2>3 DEF ScanStep
<1>5. CASE \E t \in Tokens : TokenMoves(t)
  <2>1. PICK t \in Tokens : Write(t, "complete") /\ UNCHANGED <<messages, pays, run, faults>>
    BY <1>5 DEF TokenMoves
  <2>. QED BY <1>1, <2>1, WriteKeeps DEF NoFault, ItemStatus
<1>6. CASE \/ GetDetails(Items)
           \/ \E t \in Items : Get(t) \/ \E key \in Keys : Expire(key, t)
           \/ \E list \in Lists : \E asc \in BOOLEAN : BeginWalk(list, asc)
           \/ Index \/ Page \/ EndWalk
  <2>1. UNCHANGED <<item, messages, pays, run, faults>>
    BY <1>6 DEF GetDetails, Get, Expire, BeginWalk, Index, Page, EndWalk
  <2>. QED BY <1>1, <2>1 DEF PaidInv
<1>7. CASE \E k \in Slots : RunStep(k) \/ Redeliver(k)
  BY <1>7, DeliverPays, PayPays, RedeliverPays, RunPays DEF RunStep
<1>. QED BY <1>2, <1>3, <1>4, <1>5, <1>6, <1>7, CreatePays DEF Next, StpNext

(* A transfer of ST' is paid once, and again at most once for each call    *)
(* that failed: publishing, the clearing of caches and the scanner's       *)
(* writes never lead to another payment.                                   *)
THEOREM PaymentsNeedDeliveries == Spec => []PaidOncePerDelivery
<1>1. Init => PaidInv
  BY PaidInvInit
<1>2. PaidInv /\ [Next]_vars => PaidInv'
  BY PaidInvStep
<1>3. PaidInv => PaidOncePerDelivery
  BY PaidInvSafe
<1>. QED BY <1>1, <1>2, <1>3, PTL DEF Spec

-----------------------------------------------------------------------------
(* Walks.  What the stream may bring to the index: no item becomes absent, *)
(* and no token transfer waits that did not.                               *)
Shown == ItemStatus \ {"absent"}
Images == [t : Stps, status : Shown] \cup [t : Tokens, status : Shown \ {"waiting"}]

WalkType ==
  [list : Lists \cup {"none"}, asc : BOOLEAN, page : Nat \ {0},
   shown : SUBSET Items, begun : SUBSET Items, done : BOOLEAN]

(* The records a walk's order puts before t.                               *)
Ahead(t) ==
  {u \in Hits(walk.list) : IF walk.asc THEN second[u] < second[t]
                                       ELSE second[u] > second[t]}
Tied(t) == \E u \in Hits(walk.list) \ {t} : second[u] = second[t]

(* A record that a walk has yet to show is behind the pages it has had.    *)
WalkInv ==
  /\ PaidInv
  /\ second \in [Items -> Nat] /\ DOMAIN doc = Items /\ stream \in Seq(Images)
  /\ walk \in WalkType
  /\ walk.list = "waiting" => Hits("waiting") \subseteq walk.begun
  /\ walk.list \in {"stp", "tokens"} => walk.begun \subseteq Hits(walk.list)
  /\ walk.list = "none" => walk.begun = {} /\ ~walk.done
  /\ walk.begun \subseteq Hits(walk.list) =>
       \A t \in walk.begun \ walk.shown :
         \/ Tied(t)
         \/ ~walk.done /\ Cardinality(Ahead(t)) >= Offset(walk.page)

LEMMA HitsFinite ==
  ASSUME NEW list
  PROVE  Hits(list) \subseteq Items /\ IsFiniteSet(Hits(list))
BY StpAssumption, FS_Subset DEF Hits

LEMMA HitsNextFinite ==
  ASSUME NEW list PROVE IsFiniteSet(Hits(list)')
BY StpAssumption, FS_Subset DEF Hits

LEMMA AheadFinite ==
  ASSUME NEW t
  PROVE  IsFiniteSet(Ahead(t)) /\ Cardinality(Ahead(t)) \in Nat
BY HitsFinite, FS_Subset, FS_CardinalityType DEF Ahead

LEMMA WalkInvSafe == WalkInv => WalkShowsAll
<1> SUFFICES ASSUME WalkInv, walk.done, NEW t \in walk.begun \ walk.shown,
                    walk.begun \subseteq Hits(walk.list)
             PROVE  Tied(t)
  BY DEF WalkShowsAll, Tied
<1>. QED BY DEF WalkInv

LEMMA OffsetStep ==
  ASSUME NEW n \in Nat \ {0}
  PROVE  /\ Offset(n) \in Nat /\ Offset(1) = 0
         /\ Offset(n + 1) = Offset(n) + PageSize
<1>1. PageSize \in Nat \ {0}
  BY StpAssumption
<1>2. \A k \in Nat : k * PageSize \in Nat /\ (k + 1) * PageSize = k * PageSize + PageSize
  BY <1>1
<1>3. n - 1 \in Nat /\ (n - 1) + 1 = n /\ (n + 1) - 1 = n
  OBVIOUS
<1>4. (n - 1) * PageSize \in Nat /\ n * PageSize = (n - 1) * PageSize + PageSize
  BY <1>2, <1>3
<1>5. Offset(n) = (n - 1) * PageSize /\ Offset(n + 1) = n * PageSize
  BY <1>3 DEF Offset
<1>6. Offset(1) = 0
  BY <1>1 DEF Offset
<1>. QED BY <1>4, <1>5, <1>6

(* Where a record without equals is in the order of the index.             *)
LEMMA PlaceInOrder ==
  ASSUME WalkInv, NEW s \in SetToSeqs(Hits(walk.list)),
         Sorted(walk.list, s, walk.asc), NEW t \in Hits(walk.list), ~Tied(t)
  PROVE  /\ Len(s) \in Nat
         /\ \E i \in 1 .. Len(s) : s[i] = t /\ Cardinality(Ahead(t)) = i - 1
<1> DEFINE H == Hits(walk.list)
<1>1. /\ H \subseteq Items /\ IsFiniteSet(H) /\ Cardinality(H) \in Nat
      /\ second \in [Items -> Nat] /\ walk.asc \in BOOLEAN
  BY HitsFinite, FS_CardinalityType DEF WalkInv, WalkType
<1>2. /\ s \in [1 .. Cardinality(H) -> H]
      /\ \A m, n \in 1 .. Cardinality(H) : m # n => s[m] # s[n]
  BY DEF SetToSeqs
<1>3. Len(s) = Cardinality(H)
  BY DEF Sorted
<1>4. PICK i \in 1 .. Len(s) : s[i] = t
  <2>1. ToSet(s) = H
    BY DEF Sorted
  <2>. QED BY <1>2, <1>3, <2>1 DEF ToSet
<1>5. \A m, n \in 1 .. Len(s) : m < n =>
        IF walk.asc THEN second[s[m]] <= second[s[n]]
                    ELSE second[s[m]] >= second[s[n]]
  BY DEF Sorted
<1>6. \A m \in 1 .. Len(s) : s[m] \in H /\ second[s[m]] \in Nat
  BY <1>1, <1>2, <1>3
<1>7. \A m \in 1 .. Len(s) : m # i => second[s[m]] # second[t]
  <2>1. \A m \in 1 .. Len(s) : m # i => s[m] \in H \ {t}
    BY <1>2, <1>3, <1>4
  <2>. QED BY <2>1 DEF Tied
<1>8. second[t] \in Nat /\ t \in H
  BY <1>1
<1>. HIDE DEF H
<1>9. \A m \in 1 .. Len(s) :
        s[m] \in Ahead(t) <=> m < i
  <2> SUFFICES ASSUME NEW m \in 1 .. Len(s) PROVE s[m] \in Ahead(t) <=> m < i
    OBVIOUS
  <2>1. CASE m < i
    <3>1. IF walk.asc THEN second[s[m]] < second[t] ELSE second[s[m]] > second[t]
      BY <1>4, <1>5, <1>6, <1>7, <1>8, <2>1
    <3>. QED BY <1>6, <2>1, <3>1 DEF Ahead, H
  <2>2. CASE ~(m < i)
    <3>1. m = i \/ i < m
      BY <1>1, <1>3, <1>4, <2>2
    <3>2. ~(IF walk.asc THEN second[s[m]] < second[t] ELSE second[s[m]] > second[t])
      BY <1>4, <1>5, <1>6, <1>8, <3>1
    <3>. QED BY <2>2, <3>2 DEF Ahead
  <2>. QED BY <2>1, <2>2
<1>10. Ahead(t) \subseteq H
  BY DEF Ahead, H
<1>11. \A u \in H : \E m \in 1 .. Len(s) : s[m] = u
  <2>1. ToSet(s) = H
    BY DEF Sorted, H
  <2>. QED BY <1>2, <1>3, <2>1 DEF ToSet
<1>12. 1 .. i - 1 \subseteq 1 .. Len(s) /\ i - 1 \in Nat
  BY <1>1, <1>3, <1>4
<1>13. [m \in 1 .. i - 1 |-> s[m]] \in Bijection(1 .. i - 1, Ahead(t))
  <2> DEFINE f == [m \in 1 .. i - 1 |-> s[m]]
  <2>1. \A m \in 1 .. i - 1 : f[m] \in Ahead(t)
    BY <1>1, <1>3, <1>9, <1>12
  <2>2. \A m, n \in 1 .. i - 1 : m # n => f[m] # f[n]
    BY <1>2, <1>3, <1>12
  <2>3. ASSUME NEW u \in Ahead(t) PROVE \E m \in 1 .. i - 1 : f[m] = u
    <3>1. PICK m \in 1 .. Len(s) : s[m] = u
      BY <1>10, <1>11
    <3>2. m \in 1 .. i - 1
      BY <1>1, <1>3, <1>9, <3>1
    <3>. QED BY <3>1, <3>2
  <2>. HIDE DEF f
  <2>4. f \in [1 .. i - 1 -> Ahead(t)]
    BY <2>1 DEF f
  <2>5. f \in Bijection(1 .. i - 1, Ahead(t))
    BY <2>2, <2>3, <2>4 DEF Bijection, Injection, Surjection, IsInjective
  <2>. QED BY <2>5 DEF f
<1>14. Cardinality(Ahead(t)) = i - 1
  <2>1. IsFiniteSet(1 .. i - 1) /\ Cardinality(1 .. i - 1) = i - 1
    BY <1>12, FS_Interval
  <2>. QED BY <1>13, <2>1, FS_Bijection DEF ExistsBijection
<1>. QED BY <1>1, <1>3, <1>4, <1>14

LEMMA WalkInvInit == Init => WalkInv
<1> SUFFICES ASSUME Init PROVE WalkInv
  OBVIOUS
<1>1. PICK c \in Cases :
        /\ item = c.item /\ second = c.second /\ doc = item
        /\ stream = <<>> /\ walk = NoWalk
  BY DEF Init, InitStp
<1>2. second \in [Items -> Nat] /\ DOMAIN doc = Items
  BY <1>1, StPrimeAssumption
<1>3. walk \in WalkType /\ walk.list = "none" /\ walk.begun = {}
  BY <1>1 DEF NoWalk, WalkType
<1>4. stream \in Seq(Images)
  <2>1. <<>> \in Seq(Images)
    OBVIOUS
  <2>. QED BY <1>1, <2>1
<1>5. PaidInv /\ ~walk.done
  BY <1>1, PaidInvInit DEF NoWalk
<1>. QED BY <1>2, <1>3, <1>4, <1>5 DEF WalkInv

(* A step that leaves the index and the walk alone.                        *)
LEMMA WalkFrame ==
  ASSUME WalkInv, PaidInv', UNCHANGED <<second, doc, walk>>,
         stream' \in Seq(Images)
  PROVE  WalkInv'
<1>1. \A list : Hits(list)' = Hits(list)
  BY DEF Hits, Matches
<1>2. \A t : Ahead(t)' = Ahead(t) /\ Tied(t)' = Tied(t)
  BY <1>1 DEF Ahead, Tied
<1>3. Offset(walk.page)' = Offset(walk.page)
  BY DEF Offset
<1>. QED BY <1>1, <1>2, <1>3 DEF WalkInv

LEMMA ImageKeeps ==
  ASSUME stream \in Seq(Images), NEW t, NEW s \in Shown,
         t \in Stps \/ (t \in Tokens /\ s # "waiting"),
         Image(t, s) \/ UNCHANGED stream
  PROVE  stream' \in Seq(Images)
<1>1. [t |-> t, status |-> s] \in Images
  BY DEF Images
<1>. QED BY <1>1 DEF Image

LEMMA IndexWalks ==
  ASSUME WalkInv, PaidInv', Index PROVE WalkInv'
<1>1. PICK e \in Images :
        /\ doc' = [doc EXCEPT ![e.t] = e.status] /\ stream' = Tail(stream)
        /\ UNCHANGED <<second, walk>>
  <2>1. stream \in Seq(Images) /\ stream # <<>>
    BY DEF WalkInv, Index
  <2>2. Head(stream) \in Images
    BY <2>1, HeadTailProperties
  <2>3. /\ doc' = [doc EXCEPT ![Head(stream).t] = Head(stream).status]
        /\ stream' = Tail(stream) /\ UNCHANGED <<second, walk>>
    BY DEF Index
  <2>. QED BY <2>2, <2>3
<1>2. /\ DOMAIN doc' = Items /\ stream' \in Seq(Images)
      /\ second' \in [Items -> Nat] /\ walk' \in WalkType
  BY <1>1 DEF WalkInv, Index
<1>3. /\ e.t \in Items /\ e.status \in Shown
      /\ e.t \in Tokens => e.status # "waiting"
  BY StpAssumption DEF Images, Items
<1>4. \A t \in Items : doc'[t] = IF t = e.t THEN e.status ELSE doc[t]
  BY <1>1 DEF WalkInv
<1>5. \A t \in Tokens : doc'[t] = "waiting" => doc[t] = "waiting"
  BY <1>3, <1>4 DEF Items
<1>6. \A t \in Items : doc[t] # "absent" => doc'[t] # "absent"
  BY <1>3, <1>4 DEF Shown
<1>7. \A list \in {"stp", "tokens"} : Hits(list) \subseteq Hits(list)'
  BY <1>6 DEF Hits, Matches
<1>8. Hits("waiting")' \subseteq Hits("waiting")
  BY <1>5 DEF Hits, Matches
<1>9. walk.list = "waiting" => Hits("waiting")' \subseteq walk.begun
  BY <1>8 DEF WalkInv
<1>14. walk.list \in {"stp", "tokens"} => walk.begun \subseteq Hits(walk.list)'
  <2>1. PICK list : walk.list = list
    OBVIOUS
  <2>2. walk'.list = list
    BY <1>1, <2>1
  <2>. QED BY <1>7, <2>1, <2>2 DEF WalkInv
<1>10. SUFFICES ASSUME walk.begun \subseteq Hits(walk.list)',
                       NEW t \in walk.begun \ walk.shown
                PROVE  \/ Tied(t)'
                       \/ ~walk.done /\ Cardinality(Ahead(t)') >= Offset(walk.page)
  <2>1. Offset(walk.page)' = Offset(walk.page)
    BY <1>1 DEF Offset
  <2>. QED BY <1>1, <1>2, <1>9, <1>10, <1>14, <2>1 DEF WalkInv
<1>11. walk.list \in Lists
  BY <1>10 DEF WalkInv, WalkType
<1>12. CASE walk.list = "waiting"
  <2>1. Hits(walk.list)' = Hits(walk.list)
    <3>1. Hits("waiting") \subseteq walk.begun
      BY <1>12 DEF WalkInv
    <3>2. Hits(walk.list)' = Hits("waiting")'
      <4>1. walk'.list = "waiting"
        BY <1>1, <1>12
      <4>. QED BY <4>1
    <3>. QED BY <1>8, <1>10, <1>12, <3>1, <3>2
  <2>2. Ahead(t)' = Ahead(t) /\ Tied(t)' = Tied(t)
    BY <1>1, <2>1 DEF Ahead, Tied
  <2>. QED BY <1>10, <2>1, <2>2 DEF WalkInv
<1>13. CASE walk.list \in {"stp", "tokens"}
  <2>1. Hits(walk.list) \subseteq Hits(walk.list)'
    BY <1>1, <1>7, <1>13
  <2>2. (Tied(t) => Tied(t)') /\ Ahead(t) \subseteq Ahead(t)'
    BY <1>1, <2>1 DEF Ahead, Tied
  <2>3. Cardinality(Ahead(t)) <= Cardinality(Ahead(t)')
    <3>1. IsFiniteSet(Hits(walk.list)')
      BY <1>1, HitsNextFinite
    <3>2. IsFiniteSet(Ahead(t)')
      BY <1>1, <3>1, FS_Subset DEF Ahead
    <3>. QED BY <2>2, <3>2, FS_Subset
  <2>4. Tied(t) \/ (~walk.done /\ Cardinality(Ahead(t)) >= Offset(walk.page))
    BY <1>10, <1>13 DEF WalkInv
  <2>5. /\ Cardinality(Ahead(t)) \in Nat /\ Cardinality(Ahead(t)') \in Nat
        /\ Offset(walk.page) \in Nat
    <3>1. IsFiniteSet(Ahead(t)')
      BY <1>1, HitsNextFinite, FS_Subset DEF Ahead
    <3>2. walk.page \in Nat \ {0}
      BY DEF WalkInv, WalkType
    <3>. QED BY <3>1, <3>2, AheadFinite, FS_CardinalityType, OffsetStep
  <2>. QED BY <2>2, <2>3, <2>4, <2>5
<1>. QED BY <1>11, <1>12, <1>13 DEF Lists

LEMMA BeginWalks ==
  ASSUME WalkInv, PaidInv', NEW list \in Lists, NEW asc \in BOOLEAN,
         BeginWalk(list, asc)
  PROVE  WalkInv'
<1>1. /\ walk' = [NoWalk EXCEPT !.list = list, !.begun = Hits(list), !.asc = asc]
      /\ UNCHANGED <<second, doc, stream>>
  BY DEF BeginWalk
<1>2. /\ walk'.list = list /\ walk'.begun = Hits(list) /\ walk'.page = 1
      /\ walk'.done = FALSE /\ walk' \in WalkType
  <2>1. walk' = [list |-> list, asc |-> asc, page |-> 1, shown |-> {},
                 begun |-> Hits(list), done |-> FALSE]
    BY <1>1 DEF NoWalk
  <2>2. Hits(list) \in SUBSET Items
    BY HitsFinite
  <2>. QED BY <2>1, <2>2 DEF WalkType
<1>3. \A l : Hits(l)' = Hits(l)
  BY <1>1 DEF Hits, Matches
<1>4. Offset(walk'.page) = 0
  BY <1>2, OffsetStep
<1>5. ASSUME NEW t PROVE Cardinality(Ahead(t)') >= 0
  <2>1. IsFiniteSet(Ahead(t)')
    BY HitsNextFinite, FS_Subset, <1>2 DEF Ahead
  <2>. QED BY <2>1, FS_CardinalityType
<1>6. Offset(walk.page)' = Offset(walk'.page)
  BY DEF Offset
<1>. QED BY <1>1, <1>2, <1>3, <1>4, <1>5, <1>6 DEF WalkInv, Lists

LEMMA EndWalks ==
  ASSUME WalkInv, PaidInv', EndWalk PROVE WalkInv'
<1>1. walk' = NoWalk /\ UNCHANGED <<second, doc, stream>>
  BY DEF EndWalk
<1>. QED BY <1>1 DEF WalkInv, NoWalk, WalkType

(* The page that is due has every record behind the pages before it and    *)
(* not behind itself; what is behind it makes the answer say so.           *)
LEMMA PageWalks ==
  ASSUME WalkInv, PaidInv', Page PROVE WalkInv'
<1>1. PICK s \in SetToSeqs(Hits(walk.list)) :
        /\ Sorted(walk.list, s, walk.asc)
        /\ walk' = [walk EXCEPT
             !.shown = @ \cup ToSet(Uuids(s, walk.page)), !.page = @ + 1,
             !.done = ~HasNextPage(Len(s), walk.page)]
  BY DEF Page
<1>2. ~walk.done /\ walk.list \in Lists /\ UNCHANGED <<second, doc, stream>>
  BY DEF Page, WalkInv, WalkType
<1> DEFINE page == walk.page
           shown == ToSet(Uuids(s, walk.page))
<1>3. /\ s \in [1 .. Cardinality(Hits(walk.list)) -> Hits(walk.list)]
      /\ Len(s) = Cardinality(Hits(walk.list)) /\ Len(s) \in Nat
      /\ Hits(walk.list) \subseteq Items
  BY <1>1, HitsFinite, FS_CardinalityType DEF SetToSeqs, Sorted
<1>4. /\ page \in Nat \ {0} /\ Offset(page) \in Nat
      /\ Offset(page + 1) = Offset(page) + PageSize
      /\ PageSize \in Nat \ {0}
  BY OffsetStep, StpAssumption DEF WalkInv, WalkType
<1> DEFINE to == Min({Offset(page) + PageSize, Len(s)})
<1>5. /\ to \in Nat /\ to <= Len(s)
      /\ \A i \in 1 .. Len(s) : i <= Offset(page) + PageSize => i <= to
  <2>1. \A a, b \in Nat : Min({a, b}) = IF a <= b THEN a ELSE b
    BY DEF Min
  <2>. QED BY <1>3, <1>4, <2>1
<1>. HIDE DEF to
<1>6. Uuids(s, page) = SubSeq(s, Offset(page) + 1, to)
  BY DEF Uuids, to
<1>7. /\ Uuids(s, page) \in Seq(Items)
      /\ \A i \in 1 .. Len(s) :
           Offset(page) < i /\ i <= Offset(page) + PageSize => s[i] \in shown
  <2>4. PICK H : H = Hits(walk.list)
    OBVIOUS
  <2>5. PICK len \in Nat : len = Len(s)
    BY <1>3
  <2>6. s \in [1 .. len -> H] /\ H \subseteq Items
    BY <1>3, <2>4, <2>5
  <2>7. \A i \in 1 .. len : s[i] \in Items
    BY <2>6
  <2>8. PICK off \in Nat : off = Offset(page)
    BY <1>4
  <2>9. to \in Nat /\ to <= len
    BY <1>5, <2>5
  <2>1. \A i \in Offset(page) + 1 .. to : s[i] \in Items
    BY <2>7, <2>8, <2>9
  <2>2. /\ Uuids(s, page) \in Seq(Items)
        /\ Len(Uuids(s, page)) = IF Offset(page) + 1 <= to
                                   THEN to - (Offset(page) + 1) + 1 ELSE 0
        /\ \A j \in 1 .. to - (Offset(page) + 1) + 1 :
             Uuids(s, page)[j] = s[Offset(page) + 1 + j - 1]
    <3>1. \A i \in off + 1 .. to : s[i] \in Items
      BY <2>1, <2>8
    <3>2. off + 1 \in Int /\ to \in Int
      BY <2>8, <2>9
    <3>3. /\ SubSeq(s, off + 1, to) \in Seq(Items)
          /\ Len(SubSeq(s, off + 1, to)) =
               IF off + 1 <= to THEN to - (off + 1) + 1 ELSE 0
          /\ \A j \in 1 .. to - (off + 1) + 1 :
               SubSeq(s, off + 1, to)[j] = s[off + 1 + j - 1]
      BY <3>1, <3>2, SubSeqProperties
    <3>. QED BY <1>6, <2>8, <3>3
  <2>3. ASSUME NEW i \in 1 .. Len(s), Offset(page) < i,
               i <= Offset(page) + PageSize
        PROVE  s[i] \in shown
    <3>1. i <= to
      BY <1>5, <2>3
    <3>2. /\ i - Offset(page) \in 1 .. to - (Offset(page) + 1) + 1
          /\ Offset(page) + 1 + (i - Offset(page)) - 1 = i
      BY <1>3, <1>4, <1>5, <2>3, <3>1
    <3>3. Offset(page) + 1 <= to
      BY <1>3, <1>4, <1>5, <2>3, <3>1
    <3>4. /\ Uuids(s, page)[i - Offset(page)] = s[i]
          /\ i - Offset(page) \in 1 .. Len(Uuids(s, page))
      BY <1>4, <1>5, <2>2, <3>2, <3>3
    <3>. QED BY <2>2, <3>4 DEF ToSet
  <2>. QED BY <2>2, <2>3
<1>8. shown \subseteq Items
  BY <1>7 DEF ToSet
<1>. HIDE DEF shown
<1>9. /\ walk'.list = walk.list /\ walk'.asc = walk.asc
      /\ walk'.begun = walk.begun /\ walk'.page = page + 1
      /\ walk'.shown = walk.shown \cup shown
      /\ walk'.done = ~HasNextPage(Len(s), page)
      /\ walk' \in WalkType
  <2>1. walk \in WalkType /\ HasNextPage(Len(s), page) \in BOOLEAN
    BY DEF WalkInv, HasNextPage
  <2>2. PICK has \in BOOLEAN : has = HasNextPage(Len(s), page)
    BY <2>1
  <2>3. walk' = [walk EXCEPT !.shown = @ \cup shown, !.page = @ + 1,
                             !.done = ~has]
    BY <1>1, <2>2 DEF shown
  <2>4. page + 1 \in Nat \ {0} /\ walk.shown \cup shown \in SUBSET Items
    BY <1>4, <1>8, <2>1 DEF WalkType
  <2>5. walk' = [list |-> walk.list, asc |-> walk.asc, page |-> page + 1,
                 shown |-> walk.shown \cup shown, begun |-> walk.begun,
                 done |-> ~has]
    BY <2>1, <2>3 DEF WalkType
  <2>6. walk' \in WalkType
    BY <2>1, <2>4, <2>5 DEF WalkType
  <2>. QED BY <2>2, <2>5, <2>6
<1>10. \A list : Hits(list)' = Hits(list)
  BY <1>2 DEF Hits, Matches
<1>11. \A t : Ahead(t)' = Ahead(t) /\ Tied(t)' = Tied(t)
  BY <1>2, <1>9, <1>10 DEF Ahead, Tied
<1>12. ASSUME walk.begun \subseteq Hits(walk.list),
              NEW t \in walk.begun \ (walk.shown \cup shown), ~Tied(t)
       PROVE  HasNextPage(Len(s), page)
              /\ Cardinality(Ahead(t)) >= Offset(page + 1)
  <2>1. Cardinality(Ahead(t)) >= Offset(page)
    BY <1>12 DEF WalkInv
  <2>2. PICK i \in 1 .. Len(s) : s[i] = t /\ Cardinality(Ahead(t)) = i - 1
    BY <1>1, <1>12, PlaceInOrder
  <2>3. i > Offset(page)
    BY <1>3, <1>4, <2>1, <2>2
  <2>4. i > Offset(page) + PageSize
    BY <1>3, <1>4, <1>7, <1>12, <2>2, <2>3
  <2>. QED BY <1>3, <1>4, <2>2, <2>4 DEF HasNextPage
<1>13. Offset(walk.page)' = Offset(page + 1)
  BY <1>9 DEF Offset
<1>14. /\ walk'.list = "waiting" => Hits("waiting")' \subseteq walk'.begun
       /\ walk'.list \in {"stp", "tokens"} => walk'.begun \subseteq Hits(walk.list)'
  BY <1>9, <1>10 DEF WalkInv
<1>15. /\ second' \in [Items -> Nat] /\ DOMAIN doc' = Items
       /\ stream' \in Seq(Images)
  BY <1>2 DEF WalkInv
<1>16. ASSUME (walk.begun \subseteq Hits(walk.list))',
              NEW t \in walk'.begun \ walk'.shown
       PROVE  \/ Tied(t)'
              \/ ~walk'.done /\ Cardinality(Ahead(t)') >= Offset(page + 1)
  BY <1>9, <1>10, <1>11, <1>12, <1>16
<1>17. walk'.list # "none" /\ UNCHANGED walk.list
  BY <1>2, <1>9 DEF Lists
<1>. QED BY <1>9, <1>13, <1>14, <1>15, <1>16, <1>17 DEF WalkInv

LEMMA WalkInvStep == WalkInv /\ [Next]_vars => WalkInv'
<1> SUFFICES ASSUME WalkInv, [Next]_vars PROVE WalkInv'
  OBVIOUS
<1>1. PaidInv'
  BY PaidInvStep DEF WalkInv
<1>2. ASSUME UNCHANGED <<second, doc, walk>>, UNCHANGED stream
      PROVE  WalkInv'
  <2>1. stream' \in Seq(Images)
    BY <1>2 DEF WalkInv
  <2>. QED BY <1>1, <1>2, <2>1, WalkFrame
<1>3. ASSUME UNCHANGED <<second, doc, walk>>, NEW t, NEW s \in Shown,
             t \in Stps \/ (t \in Tokens /\ s # "waiting"),
             Image(t, s) \/ UNCHANGED stream
      PROVE  WalkInv'
  <2>1. stream' \in Seq(Images)
    BY <1>3, ImageKeeps DEF WalkInv
  <2>. QED BY <1>1, <1>3, <2>1, WalkFrame
<1>4. CASE UNCHANGED vars
  BY <1>2, <1>4 DEF vars, stpVars
<1>5. CASE GasNext /\ Gas
  BY <1>2, <1>5 DEF Gas, stpVars
<1>6. ASSUME NEW p \in Payments, ScanStep(p) PROVE WalkInv'
  <2>1. CASE Complete(p)
    <3>1. PICK s \in {"complete", "failed"} : WriteUnchecked(Of(p), s)
      BY <2>1 DEF Complete
    <3>2. Of(p) \in Stps /\ s \in Shown /\ UNCHANGED <<second, doc, walk>>
      BY <2>1 DEF Payments, Of, Shown, ItemStatus, Complete
    <3>3. Image(Of(p), s) \/ UNCHANGED stream
      BY <3>1 DEF WriteUnchecked, Write
    <3>. QED BY <1>3, <3>2, <3>3
  <2>2. CASE Scan(p) \/ ReleaseMeta(p)
    BY <1>2, <2>2 DEF Scan, ReleaseMeta
  <2>. QED BY <1>6, <2>1, <2>2 DEF ScanStep
<1>7. ASSUME NEW t \in Tokens, TokenMoves(t) PROVE WalkInv'
  <2>1. Image(t, "complete") /\ UNCHANGED <<second, doc, walk>>
    BY <1>7 DEF TokenMoves, Write
  <2>2. "complete" \in Shown
    BY DEF Shown, ItemStatus
  <2>. QED BY <1>3, <2>1, <2>2
<1>8. ASSUME NEW t \in Stps, Create(t) PROVE WalkInv'
  <2>1. Image(t, "processing") /\ UNCHANGED <<second, doc, walk>>
    BY <1>8 DEF Create
  <2>2. "processing" \in Shown
    BY DEF Shown, ItemStatus
  <2>. QED BY <1>3, <2>1, <2>2
<1>9. ASSUME NEW k \in Slots, RunStep(k) \/ Redeliver(k) PROVE WalkInv'
  <2>1. CASE MarkFailed(k) \/ WriteWaiting(k)
    <3>1. PICK s \in {"failed", "waiting"} : WriteUnchecked(run[k].t, s)
      BY <2>1 DEF MarkFailed, WriteWaiting
    <3>2. run[k].t \in Stps /\ s \in Shown /\ UNCHANGED <<second, doc, walk>>
      BY <2>1 DEF MarkFailed, WriteWaiting, RunAt, WalkInv, PaidInv, Shown,
         ItemStatus
    <3>3. Image(run[k].t, s) \/ UNCHANGED stream
      BY <3>1 DEF WriteUnchecked, Write
    <3>. QED BY <1>3, <3>2, <3>3
  <2>2. CASE \/ \E t \in Stps : Deliver(k, t)
             \/ FetchLog(k) \/ Pay(k) \/ InsertMeta(k) \/ Ack(k) \/ Redeliver(k)
    BY <1>2, <2>2 DEF Deliver, FetchLog, Pay, InsertMeta, Ack, Redeliver
  <2>. QED BY <1>9, <2>1, <2>2 DEF RunStep
<1>10. CASE GetDetails(Items) \/ \E t \in Items : Get(t) \/ \E key \in Keys : Expire(key, t)
  BY <1>2, <1>10 DEF GetDetails, Get, Expire
<1>. QED BY <1>1, <1>4, <1>5, <1>6, <1>7, <1>8, <1>9, <1>10, IndexWalks,
     BeginWalks, EndWalks, PageWalks DEF Next, StpNext

(* A walk through the pages of a list, while transfers are made, completed *)
(* and indexed, ends with every record shown that matched at its start and *)
(* still does, but for records of one second.                              *)
THEOREM WalksShowAll == Spec => []WalkShowsAll
<1>1. Init => WalkInv
  BY WalkInvInit
<1>2. WalkInv /\ [Next]_vars => WalkInv'
  BY WalkInvStep
<1>3. WalkInv => WalkShowsAll
  BY WalkInvSafe
<1>. QED BY <1>1, <1>2, <1>3, PTL DEF Spec
=============================================================================
