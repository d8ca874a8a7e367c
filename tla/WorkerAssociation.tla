------------------------- MODULE WorkerAssociation -------------------------
(***************************************************************************)
(* Which process runs the transactions of which worker address.  A row of  *)
(* client_worker_managed_address_id ties a worker to a process; every      *)
(* process consumes one queue of transactions and one of commands.  When a *)
(* script changes the processes of a client, users move to other queues,   *)
(* so the processes that stay or join go on hold until those that had the  *)
(* users ("blockers") have come to a marker put at the end of their        *)
(* queues (associate_worker.js, deassociate_worker.js,                     *)
(* command_message_processor.js, init_process.js, execute_transaction.js). *)
(* Of the queues of transactions only the commands are kept: a transaction *)
(* merely delays what is behind it, and here anything may be delayed.      *)
(***************************************************************************)
EXTENDS Naturals, Sequences, FiniteSets, SequencesExt

CONSTANTS
  Client, Process, Row, Script,
  None,          \* process_id NULL
  ClientOf,      \* client_id of every row, which never changes
  FirstProcess,  \* process_id of every row at the beginning
  MaxRuns,       \* bound: runs of scripts
  MaxCrashes,    \* bound: crashes of processes
  MaxLost        \* bound: messages that are not published, commands that fail

VARIABLES
  rows,      \* client_worker_managed_address_id
  script,    \* the runs of (de)associate scripts
  txQueue,   \* per process: the commands in its queue of transactions
  cmdQueue,  \* per process: the rows to go to original, in its command queue
  release,   \* per process: how far the first command of cmdQueue is
  proc,      \* per process: where it stands
  consuming, \* per process: txQueueSubscribed, the queue is being consumed
  runs, crashes, lost

queueVars == <<txQueue, cmdQueue, release>>
procVars == <<proc, consuming>>
countVars == <<runs, crashes, lost>>
vars == <<rows, script, queueVars, procVars, countVars>>

(* A process has one worker of a client: associate_process_id_to_workers   *)
(* made the first associations so, and the scripts keep it so.             *)
ASSUME AssociationAssumption ==
  /\ Row \subseteq Nat /\ IsFiniteSet(Row)
  /\ None \notin Process /\ IsFiniteSet(Process)
  /\ ClientOf \in [Row -> Client]
  /\ FirstProcess \in [Row -> Process \cup {None}]
  /\ \A r, q \in Row :
       ClientOf[r] = ClientOf[q] /\ FirstProcess[r] = FirstProcess[q] =>
         r = q \/ FirstProcess[r] = None
  /\ MaxRuns \in Nat /\ MaxCrashes \in Nat /\ MaxLost \in Nat

\* inactive rows take no part: neither scripts nor commands touch them
Status == {"active", "hold", "blocker"}

RowsOf(c) == {r \in Row : ClientOf[r] = c}
Siblings(r) == RowsOf(ClientOf[r])
Working(c) == {r \in RowsOf(c) : rows[r].process # None}
AtProcess(c, p) == {r \in RowsOf(c) : rows[r].process = p}
Having(R, st) == {r \in R : rows[r].status = st}
Available(c) == {r \in RowsOf(c) : rows[r] = [process |-> None, status |-> "active"]}

(* A select without ORDER BY: InnoDB answers in the order of the ids.      *)
ById(R) ==
  [i \in 1..Cardinality(R) |->
     CHOOSE r \in R : Cardinality({q \in R : q < r}) = i - 1]
First(R) == CHOOSE r \in R : \A q \in R : r <= q

\* operators give process ids in any order
ProcessLists == UNION {SetToSeqs(P) : P \in (SUBSET Process) \ {{}}}

(***************************************************************************)
(* Commands.  "at" is "queued" until the process has been given the        *)
(* message; a message stays in the queue until it is acknowledged.         *)
(***************************************************************************)
Command(kind, r, original) ==
  [kind |-> kind, row |-> r, original |-> original, at |-> "queued", rest |-> {}]
Marker(r, original) == Command("markBlockingToOriginalStatus", r, original)
GoOnHold(r) == Command("goOnHold", r, "active")

To(p, cmd) == [process |-> p, cmd |-> cmd]

(* publishEvent: a message that is not published is logged and forgotten.  *)
Publish(m) ==
  \/ /\ txQueue' = [txQueue EXCEPT ![m.process] = Append(@, m.cmd)]
     /\ UNCHANGED lost
  \/ /\ lost < MaxLost
     /\ lost' = lost + 1
     /\ UNCHANGED txQueue

Idle == [at |-> "idle", client |-> None, plan |-> <<>>, send |-> <<>>]

Init ==
  /\ rows = [r \in Row |-> [process |-> FirstProcess[r], status |-> "active"]]
  /\ script = [s \in Script |-> Idle]
  /\ txQueue = [p \in Process |-> <<>>]
  /\ cmdQueue = [p \in Process |-> <<>>]
  /\ release = [p \in Process |-> "none"]
  /\ proc = [p \in Process |-> [at |-> "up", clients |-> {}]]
  /\ consuming = [p \in Process |-> TRUE]
  /\ runs = 0 /\ crashes = 0 /\ lost = 0

(***************************************************************************)
(* associate_worker.js                                                     *)
(***************************************************************************)
Goes(s, at) == script' = [script EXCEPT ![s].at = at]
Ends(s) == script' = [script EXCEPT ![s] = Idle]

(* getAndValidateAvailableWorkers: no given process may serve the client,  *)
(* and as many are used as rows are available.                             *)
Associate(s) ==
  /\ script[s].at = "idle" /\ runs < MaxRuns
  /\ runs' = runs + 1
  /\ \E c \in Client, ps \in ProcessLists :
       LET free == ById(Available(c))
           n == IF Len(ps) < Len(free) THEN Len(ps) ELSE Len(free)
       IN /\ free # <<>>
          /\ \A p \in ToSet(ps) : AtProcess(c, p) = {}
          /\ script' = [script EXCEPT ![s] =
               [at |-> "validate", client |-> c, send |-> <<>>,
                plan |-> [i \in 1..n |-> [row |-> free[i], process |-> ps[i]]]]]
  /\ UNCHANGED <<rows, queueVars, procVars, crashes, lost>>

(* Fault seeded to test the properties: the loop ends one row early.       *)
MarkersOfButLast(c) ==
  [i \in 1..(Cardinality(Working(c)) - 1) |->
     LET r == ById(Working(c))[i] IN To(rows[r].process, Marker(r, rows[r].status))]

(* The markers sendBlockingMessage publishes are those of the rows that    *)
(* validateAllWorkers has read: one per row, to its process, for the first *)
(* row of the client at that process.                                      *)
MarkersOf(c) ==
  LET working == ById(Working(c))
  IN [i \in DOMAIN working |->
        LET p == rows[working[i]].process
            r == First(AtProcess(c, p))
        IN To(p, Marker(r, rows[r].status))]

ValidateAllWorkers(s) ==
  LET c == script[s].client
  IN /\ script[s].at = "validate"
     /\ IF Having(Working(c), "hold") \cup Having(Working(c), "blocker") # {}
        THEN Ends(s)
        ELSE script' = [script EXCEPT ![s].at = "mark", ![s].send = MarkersOf(c)]
     /\ UNCHANGED <<rows, queueVars, procVars, countVars>>

(* The update excludes the new processes only, whatever was validated.     *)
MarkBlockingStatus(s) ==
  LET new == {step.process : step \in ToSet(script[s].plan)}
  IN /\ script[s].at = "mark"
     /\ rows' = [r \in Row |->
          IF r \in Working(script[s].client) /\ rows[r].process \notin new
          THEN [rows[r] EXCEPT !.status = "blocker"] ELSE rows[r]]
     /\ Goes(s, "associate")
     /\ UNCHANGED <<queueVars, procVars, countVars>>

AssociateAvailableWorker(s) ==
  LET step == Head(script[s].plan)
  IN /\ script[s].at = "associate"
     /\ rows' = [rows EXCEPT ![step.row].process = step.process]
     /\ Goes(s, "hold")
     /\ UNCHANGED <<queueVars, procVars, countVars>>

SendGoOnHold(s) ==
  LET step == Head(script[s].plan)
      left == Tail(script[s].plan)
  IN /\ script[s].at = "hold"
     /\ Publish(To(step.process, GoOnHold(step.row)))
     /\ IF left = <<>> /\ script[s].send = <<>> THEN Ends(s)
        ELSE script' = [script EXCEPT ![s].plan = left,
               ![s].at = IF left = <<>> THEN "markers" ELSE "associate"]
     /\ UNCHANGED <<rows, cmdQueue, release, procVars, runs, crashes>>

(* sendBlockingMessage, and the publishing loops of deassociate_worker.js. *)
SendNext(s, from, next) ==
  LET left == Tail(script[s].send)
  IN /\ script[s].at = from
     /\ Publish(Head(script[s].send))
     /\ IF left # <<>> THEN script' = [script EXCEPT ![s].send = left]
        ELSE IF next = "idle" THEN Ends(s)
        ELSE script' = [script EXCEPT ![s].send = left, ![s].at = next]
     /\ UNCHANGED <<rows, cmdQueue, release, procVars, runs, crashes>>

SendBlockingMessage(s) == SendNext(s, "markers", "idle")

(***************************************************************************)
(* deassociate_worker.js                                                   *)
(***************************************************************************)
(* _validateTemporaryStatus and _validate.                                 *)
Deassociate(s) ==
  /\ script[s].at = "idle" /\ runs < MaxRuns
  /\ runs' = runs + 1
  /\ \E c \in Client, ps \in ProcessLists :
       /\ Having(RowsOf(c), "active") = RowsOf(c)
       /\ \A p \in ToSet(ps) : AtProcess(c, p) # {}
       /\ script' = [script EXCEPT ![s] =
            [at |-> "ids", client |-> c, send |-> <<>>,
             plan |-> [i \in DOMAIN ps |-> [row |-> 0, process |-> ps[i]]]]]
  /\ UNCHANGED <<rows, queueVars, procVars, crashes, lost>>

(* _getProcessWorkerAssociationId, and the markers _sendCommandMsg builds  *)
(* from it: processes in the order given, rows as Object.keys lists them,  *)
(* in the order of their ids.                                              *)
GetAssociationIds(s) ==
  LET c == script[s].client
      ps == [i \in DOMAIN script[s].plan |-> script[s].plan[i].process]
      id == [p \in ToSet(ps) |-> First(AtProcess(c, p))]
      ids == ById({id[p] : p \in ToSet(ps)})
  IN /\ script[s].at = "ids"
     /\ IF \E p \in ToSet(ps) : AtProcess(c, p) = {} THEN Ends(s)
        ELSE script' = [script EXCEPT ![s].at = "remove",
               ![s].plan = [i \in DOMAIN ps |-> [row |-> id[ps[i]], process |-> ps[i]]],
               ![s].send = [i \in DOMAIN ps |->
                              To(ps[i], Marker(ids[i], rows[ids[i]].status))]]
     /\ UNCHANGED <<rows, queueVars, procVars, countVars>>

RemoveProcessWorkerAssociation(s) ==
  LET ids == {step.row : step \in ToSet(script[s].plan)}
  IN /\ script[s].at = "remove"
     /\ rows' = [r \in Row |-> IF r \in ids
                               THEN [process |-> None, status |-> "blocker"] ELSE rows[r]]
     /\ script' = [script EXCEPT ![s].at = "removed", ![s].plan = <<>>]
     /\ UNCHANGED <<queueVars, procVars, countVars>>

SendCommandMsg(s) == SendNext(s, "removed", "siblings")

GetSiblings(s) ==
  LET working == ById(Working(script[s].client))
  IN /\ script[s].at = "siblings"
     /\ IF working = <<>> THEN Ends(s)
        ELSE script' = [script EXCEPT ![s].at = "holds",
               ![s].send = [i \in DOMAIN working |->
                  To(rows[working[i]].process, GoOnHold(working[i]))]]
     /\ UNCHANGED <<rows, queueVars, procVars, countVars>>

SendHoldToSiblings(s) == SendNext(s, "holds", "idle")

(* An operator or a failed query ends a script half way.                   *)
ScriptDies(s) ==
  /\ script[s].at # "idle" /\ lost < MaxLost
  /\ lost' = lost + 1
  /\ Ends(s)
  /\ UNCHANGED <<rows, queueVars, procVars, runs, crashes>>

(***************************************************************************)
(* command_message_processor.js, for commands of the queue of              *)
(* transactions: up to 100 messages of it are worked on at a time.         *)
(***************************************************************************)
Up(p) == proc[p].at = "up"

Deliver(p) ==
  /\ Up(p) /\ consuming[p]
  /\ \E i \in DOMAIN txQueue[p] :
       /\ txQueue[p][i].at = "queued"
       /\ \A j \in 1..(i - 1) : txQueue[p][j].at # "queued"
       /\ txQueue' = [txQueue EXCEPT ![p][i].at = "given"]
  /\ UNCHANGED <<rows, script, cmdQueue, release, procVars, countVars>>

Handles(p, i, kind, at) ==
  /\ i \in DOMAIN txQueue[p]
  /\ txQueue[p][i].kind = kind /\ txQueue[p][i].at = at

Ack(p, i) == txQueue' = [txQueue EXCEPT ![p] = RemoveAt(@, i)]
Step(p, i, at) == txQueue' = [txQueue EXCEPT ![p][i].at = at]

(* executeMarkBlockingToOriginalStatusCommand                              *)
MarkRead(p, i) ==
  /\ Handles(p, i, "markBlockingToOriginalStatus", "given")
  /\ IF rows[txQueue[p][i].row].status # "blocker" THEN Ack(p, i)
     ELSE Step(p, i, "restore")
  /\ UNCHANGED <<rows, script, cmdQueue, release, procVars, countVars>>

MarkRestore(p, i) ==
  /\ Handles(p, i, "markBlockingToOriginalStatus", "restore")
  /\ rows' = [rows EXCEPT ![txQueue[p][i].row].status = txQueue[p][i].original]
  /\ Step(p, i, "list")
  /\ UNCHANGED <<script, cmdQueue, release, procVars, countVars>>

MarkList(p, i) ==
  LET held == Having(Siblings(txQueue[p][i].row), "hold")
  IN /\ Handles(p, i, "markBlockingToOriginalStatus", "list")
     /\ IF held = {} THEN Ack(p, i)
        ELSE txQueue' = [txQueue EXCEPT ![p][i].at = "send",
               ![p][i].rest = {[row |-> r, process |-> rows[r].process] : r \in held}]
     /\ UNCHANGED <<rows, script, cmdQueue, release, procVars, countVars>>

(* One goToOriginal per held row, to the command queue of its process.  A  *)
(* row that lost its process in the meantime throws and ends the handler.  *)
MarkSend(p, i) ==
  /\ Handles(p, i, "markBlockingToOriginalStatus", "send")
  /\ LET rest == txQueue[p][i].rest
         m == CHOOSE x \in rest : \A y \in rest : x.row <= y.row
     IN IF m.process = None THEN Ack(p, i) /\ UNCHANGED <<cmdQueue, lost>>
        ELSE /\ \/ /\ cmdQueue' = [cmdQueue EXCEPT ![m.process] = Append(@, m.row)]
                   /\ UNCHANGED lost
                \/ /\ lost < MaxLost
                   /\ lost' = lost + 1
                   /\ UNCHANGED cmdQueue
             /\ IF rest = {m} THEN Ack(p, i)
                ELSE txQueue' = [txQueue EXCEPT ![p][i].rest = @ \ {m}]
  /\ UNCHANGED <<rows, script, release, procVars, runs, crashes>>

(* executeGoOnHoldCommand                                                  *)
HoldRead(p, i) ==
  /\ Handles(p, i, "goOnHold", "given")
  /\ IF rows[txQueue[p][i].row].status = "active" THEN Step(p, i, "siblings")
     ELSE Ack(p, i)
  /\ UNCHANGED <<rows, script, cmdQueue, release, procVars, countVars>>

HoldSiblings(p, i) ==
  /\ Handles(p, i, "goOnHold", "siblings")
  /\ IF Having(Siblings(txQueue[p][i].row), "blocker") # {} THEN Step(p, i, "write")
     ELSE Ack(p, i)
  /\ UNCHANGED <<rows, script, cmdQueue, release, procVars, countVars>>

HoldWrite(p, i) ==
  /\ Handles(p, i, "goOnHold", "write")
  /\ rows' = [rows EXCEPT ![txQueue[p][i].row].status = "hold"]
  /\ Step(p, i, "stop")
  /\ UNCHANGED <<script, cmdQueue, release, procVars, countVars>>

(* commandResponseActions: CANCEL_CONSUME.                                 *)
HoldStop(p, i) ==
  /\ Handles(p, i, "goOnHold", "stop")
  /\ consuming' = [consuming EXCEPT ![p] = FALSE]
  /\ Ack(p, i)
  /\ UNCHANGED <<rows, script, cmdQueue, release, proc, countVars>>

(* A failed query: the error is logged and the message acknowledged.       *)
CommandFails(p, i) ==
  /\ i \in DOMAIN txQueue[p] /\ txQueue[p][i].at # "queued" /\ lost < MaxLost
  /\ lost' = lost + 1
  /\ Ack(p, i)
  /\ UNCHANGED <<rows, script, cmdQueue, release, procVars, runs, crashes>>

(***************************************************************************)
(* executeGoToOriginalCommand, from the command queue: one at a time, and  *)
(* whether or not transactions are consumed.                               *)
(***************************************************************************)
AckRelease(p) ==
  /\ cmdQueue' = [cmdQueue EXCEPT ![p] = Tail(@)]
  /\ release' = [release EXCEPT ![p] = "none"]
ReleaseAt(p, at) == release' = [release EXCEPT ![p] = at] /\ UNCHANGED cmdQueue

ReleaseRead(p) ==
  /\ Up(p) /\ cmdQueue[p] # <<>> /\ release[p] = "none"
  /\ IF rows[Head(cmdQueue[p])].status # "hold" THEN AckRelease(p)
     ELSE ReleaseAt(p, "siblings")
  /\ UNCHANGED <<rows, script, txQueue, procVars, countVars>>

ReleaseSiblings(p) ==
  /\ release[p] = "siblings"
  /\ IF Having(Siblings(Head(cmdQueue[p])), "blocker") # {} THEN AckRelease(p)
     ELSE ReleaseAt(p, "write")
  /\ UNCHANGED <<rows, script, txQueue, procVars, countVars>>

ReleaseWrite(p) ==
  /\ release[p] = "write"
  /\ rows' = [rows EXCEPT ![Head(cmdQueue[p])].status = "active"]
  /\ ReleaseAt(p, "start")
  /\ UNCHANGED <<script, txQueue, procVars, countVars>>

ReleaseStart(p) ==
  /\ release[p] = "start"
  /\ consuming' = [consuming EXCEPT ![p] = TRUE]
  /\ AckRelease(p)
  /\ UNCHANGED <<rows, script, txQueue, proc, countVars>>

ReleaseFails(p) ==
  /\ release[p] # "none" /\ lost < MaxLost
  /\ lost' = lost + 1
  /\ AckRelease(p)
  /\ UNCHANGED <<rows, script, txQueue, procVars, runs, crashes>>

(***************************************************************************)
(* The process: init_process.js and init of execute_transaction.js, its    *)
(* end after 45 minutes, and crashes.                                      *)
(***************************************************************************)
Starts(p, consume) ==
  /\ proc' = [proc EXCEPT ![p] = [at |-> "up", clients |-> {}]]
  /\ consuming' = [consuming EXCEPT ![p] = consume]

HeldAt(p) == {r \in Row : rows[r].process = p /\ rows[r].status = "hold"}

InitHolds(p) ==
  /\ proc[p].at = "down"
  /\ IF HeldAt(p) = {} THEN Starts(p, TRUE)
     ELSE /\ proc' = [proc EXCEPT ![p] =
               [at |-> "siblings", clients |-> {ClientOf[r] : r \in HeldAt(p)}]]
          /\ UNCHANGED consuming
  /\ UNCHANGED <<rows, script, queueVars, countVars>>

(* Fault seeded to test the properties: consumes though siblings block.    *)
InitSiblingsIgnored(p) ==
  /\ proc[p].at = "siblings"
  /\ Starts(p, TRUE)
  /\ UNCHANGED <<rows, script, queueVars, countVars>>

(* Fault seeded to test the properties: looks for siblings on hold.        *)
InitSiblingsHold(p) ==
  /\ proc[p].at = "siblings"
  /\ IF \E c \in proc[p].clients : Having(RowsOf(c), "hold") # {}
     THEN Starts(p, FALSE)
     ELSE proc' = [proc EXCEPT ![p].at = "release"] /\ UNCHANGED consuming
  /\ UNCHANGED <<rows, script, queueVars, countVars>>

InitSiblings(p) ==
  /\ proc[p].at = "siblings"
  /\ IF \E c \in proc[p].clients : Having(RowsOf(c), "blocker") # {}
     THEN Starts(p, FALSE)
     ELSE proc' = [proc EXCEPT ![p].at = "release"] /\ UNCHANGED consuming
  /\ UNCHANGED <<rows, script, queueVars, countVars>>

(* Fault seeded to test the properties: the rows stay on hold.             *)
InitReleaseForgets(p) ==
  /\ proc[p].at = "release"
  /\ Starts(p, TRUE)
  /\ UNCHANGED <<rows, script, queueVars, countVars>>

InitRelease(p) ==
  /\ proc[p].at = "release"
  /\ rows' = [r \in Row |-> IF r \in HeldAt(p)
                            THEN [rows[r] EXCEPT !.status = "active"] ELSE rows[r]]
  /\ Starts(p, TRUE)
  /\ UNCHANGED <<script, queueVars, countVars>>

(* What was not acknowledged is delivered again, in its order.             *)
Down(p) ==
  /\ proc' = [proc EXCEPT ![p] = [at |-> "down", clients |-> {}]]
  /\ consuming' = [consuming EXCEPT ![p] = FALSE]
  /\ txQueue' = [txQueue EXCEPT ![p] =
       [i \in DOMAIN @ |-> [@[i] EXCEPT !.at = "queued", !.rest = {}]]]
  /\ release' = [release EXCEPT ![p] = "none"]

(* endAfterTime or a signal: handle() waits for the transactions' queue;   *)
(* it waits for the command queue only if it had to wait at all.           *)
Stop(p) ==
  /\ Up(p) /\ \A i \in DOMAIN txQueue[p] : txQueue[p][i].at = "queued"
  /\ Down(p)
  /\ UNCHANGED <<rows, script, cmdQueue, countVars>>

Crash(p) ==
  /\ proc[p].at # "down" /\ crashes < MaxCrashes
  /\ crashes' = crashes + 1
  /\ Down(p)
  /\ UNCHANGED <<rows, script, cmdQueue, runs, lost>>

(***************************************************************************)
(* The whole                                                               *)
(***************************************************************************)
ScriptStep(s) ==
  \/ ValidateAllWorkers(s) \/ MarkBlockingStatus(s)
  \/ AssociateAvailableWorker(s) \/ SendGoOnHold(s) \/ SendBlockingMessage(s)
  \/ GetAssociationIds(s) \/ RemoveProcessWorkerAssociation(s)
  \/ SendCommandMsg(s) \/ GetSiblings(s) \/ SendHoldToSiblings(s)

TxStep(p, i) ==
  \/ MarkRead(p, i) \/ MarkRestore(p, i) \/ MarkList(p, i) \/ MarkSend(p, i)
  \/ HoldRead(p, i) \/ HoldSiblings(p, i) \/ HoldWrite(p, i) \/ HoldStop(p, i)

ReleaseStep(p) ==
  \/ ReleaseRead(p) \/ ReleaseSiblings(p) \/ ReleaseWrite(p) \/ ReleaseStart(p)

InitStep(p) == InitHolds(p) \/ InitSiblings(p) \/ InitRelease(p)

Next ==
  \/ \E s \in Script : Associate(s) \/ Deassociate(s) \/ ScriptStep(s) \/ ScriptDies(s)
  \/ \E p \in Process :
       \/ Deliver(p) \/ ReleaseStep(p) \/ ReleaseFails(p)
       \/ InitStep(p) \/ Stop(p) \/ Crash(p)
       \/ \E i \in DOMAIN txQueue[p] : TxStep(p, i) \/ CommandFails(p, i)

Spec == Init /\ [][Next]_vars

(* A script that has begun goes on; a command that a process has is        *)
(* handled; a process is ended every 45 minutes and started again by its   *)
(* cron.  Deliveries are strongly fair: ends are 45 minutes apart, so a    *)
(* process that keeps being started is given its messages in between.      *)
Fairness ==
  /\ \A s \in Script : WF_vars(ScriptStep(s))
  /\ \A p \in Process :
       /\ SF_vars(Deliver(p))
       /\ WF_vars(\E i \in DOMAIN txQueue[p] : TxStep(p, i))
       /\ WF_vars(ReleaseStep(p))
       /\ WF_vars(InitStep(p))
       /\ WF_vars(Stop(p))

FairSpec == Spec /\ Fairness

(***************************************************************************)
(* Properties                                                              *)
(***************************************************************************)
Queued == [kind : {"markBlockingToOriginalStatus", "goOnHold"}, row : Row,
           original : Status,
           at : {"queued", "given", "restore", "list", "send",
                 "siblings", "write", "stop"},
           rest : SUBSET [row : Row, process : Process \cup {None}]]

IsMarker(cmd, r) == cmd.kind = "markBlockingToOriginalStatus" /\ cmd.row = r

MarkerUnderWay(r) ==
  \/ \E p \in Process : \E cmd \in ToSet(txQueue[p]) :
       IsMarker(cmd, r) /\ cmd.at \in {"queued", "given", "restore"}
  \/ \E s \in Script : \E m \in ToSet(script[s].send) : IsMarker(m.cmd, r)

(* Whoever blocks the others of its client has a marker under way that     *)
(* will end it, through crashes and redeliveries, unless a message or a    *)
(* script was lost: sendBlockingMessage and _sendCommandMsg leave none out.*)
BlockerHasMarker ==
  lost = 0 => \A r \in Having(Row, "blocker") : MarkerUnderWay(r)

(* A process does not consume while one of its workers is on hold, but for *)
(* the moment between the write of the status and the cancellation, also   *)
(* when it is started anew; as long as one script has run.                 *)
HeldIsStopped ==
  lost = 0 /\ runs <= 1 => \A r \in Having(Row, "hold") :
    LET p == rows[r].process
    IN p # None /\ Up(p) /\ consuming[p] =>
         \E cmd \in ToSet(txQueue[p]) :
           cmd.kind = "goOnHold" /\ cmd.row = r /\ cmd.at = "stop"

(* Every row that blocks or is on hold is active again some time: by the   *)
(* commands, or at the latest when its process is started anew.            *)
RowsSettle ==
  \A r \in Row : rows[r].status # "active" ~> (rows[r].status = "active" \/ lost > 0)

(* No queue is left for ever: commands are handled, and the transactions   *)
(* among them, although processes stop consuming, end and crash.           *)
QueuesConsumed ==
  \A p \in Process : txQueue[p] # <<>> ~> (txQueue[p] = <<>> \/ lost > 0)
=============================================================================
