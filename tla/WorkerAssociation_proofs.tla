---------------------- MODULE WorkerAssociation_proofs ----------------------
(* Theorems about WorkerAssociation, for any clients, rows, processes,     *)
(* crashes and redeliveries: nobody blocks without a marker under way, and *)
(* a process on hold does not consume.  And about NonceManager, which      *)
(* gives the address of a worker its nonces, whoever sends for it.         *)
EXTENDS WorkerAssociation, NonceManager, FiniteSetTheorems, SequenceTheorems, TLAPS

Mark == "markBlockingToOriginalStatus"
Hold == "goOnHold"

(* The commands there are: none has a row put back to blocker.             *)
Sound == {cmd \in Queued : cmd.original # "blocker"}
Letters ==
  [process : Process, cmd : {cmd \in Sound : cmd.at = "queued" /\ cmd.rest = {}}]
Steps == [row : Row \cup {0}, process : Process]

ScriptType ==
  [at : {"idle", "validate", "mark", "associate", "hold", "markers", "ids",
         "remove", "removed", "siblings", "holds"},
   client : Client \cup {None}, plan : Seq(Steps), send : Seq(Letters)]

TypeInv ==
  /\ rows \in [Row -> [process : Process \cup {None}, status : Status]]
  /\ txQueue \in [Process -> Seq(Sound)]
  /\ script \in [Script -> ScriptType]
  /\ lost \in Nat /\ runs \in Nat

(* At most one script runs.                                                *)
OneScript ==
  \A s, t \in Script :
    script[s].at # "idle" /\ script[t].at # "idle" => s = t

(* A process has one worker of a client.                                   *)
OneRow ==
  \A r, q \in Row :
    ClientOf[r] = ClientOf[q] /\ rows[r].process = rows[q].process =>
      r = q \/ rows[r].process = None

(* The rows a script associates are free, and so are the processes.        *)
Free(c, plan) ==
  /\ \A i \in DOMAIN plan :
       /\ plan[i].row \in RowsOf(c) /\ rows[plan[i].row].process = None
       /\ AtProcess(c, plan[i].process) = {}
  /\ \A i, j \in DOMAIN plan :
       i # j => plan[i].row # plan[j].row /\ plan[i].process # plan[j].process

InSend(s, r) == \E m \in ToSet(script[s].send) : IsMarker(m.cmd, r)

(* What a script has read and made is still so when it is used.            *)
Phase(s) ==
  /\ script[s].at = "idle" => script[s] = Idle
  /\ script[s].at \in {"validate", "mark", "associate", "hold", "ids"} =>
       script[s].plan # <<>>
  /\ script[s].at \in {"validate", "mark", "associate"} =>
       Free(script[s].client, script[s].plan)
  /\ script[s].at = "hold" =>
       /\ Free(script[s].client, Tail(script[s].plan))
       /\ Head(script[s].plan).row \in RowsOf(script[s].client)
       /\ rows[Head(script[s].plan).row].process = Head(script[s].plan).process
  /\ script[s].at = "mark" => \A r \in Working(script[s].client) : InSend(s, r)
  /\ script[s].at = "ids" =>
       /\ Having(RowsOf(script[s].client), "blocker") = {}
       /\ \A i, j \in DOMAIN script[s].plan :
            i # j => script[s].plan[i].process # script[s].plan[j].process
  /\ script[s].at = "remove" =>
       \A x \in ToSet(script[s].plan) : InSend(s, x.row)
  /\ script[s].at \in {"markers", "remove", "removed", "holds"} =>
       script[s].send # <<>>
  /\ script[s].at \in {"validate", "ids", "siblings"} => script[s].send = <<>>

BlockInv ==
  /\ TypeInv /\ OneRow
  /\ \A s \in Script : Phase(s)
  /\ BlockerHasMarker

-----------------------------------------------------------------------------
(* One run of a script.  How far the copies of a command for a row are.    *)
OfRow(cmd, kind, r) == cmd.kind = kind /\ cmd.row = r
StageOf(q, kind, r) ==
  {q[i].at : i \in {k \in DOMAIN q : OfRow(q[k], kind, r)}}
Stage(kind, p, r) == StageOf(txQueue[p], kind, r)

Once(q) ==
  \A i, j \in DOMAIN q :
    q[i].kind = Hold /\ q[j].kind = Hold /\ q[i].row = q[j].row => i = j

Rests(q) == UNION {q[i].rest : i \in DOMAIN q}
RestsAt(p) == Rests(txQueue[p])

(* Nothing has been heard of a row yet.                                    *)
Quiet(r) ==
  /\ rows[r].status # "hold"
  /\ \A p \in Process :
       /\ Stage(Hold, p, r) = {} /\ r \notin ToSet(cmdQueue[p])
       /\ \A x \in RestsAt(p) : x.row # r

HoldType ==
  /\ cmdQueue \in [Process -> Seq(Row)]
  /\ release \in [Process -> {"none", "siblings", "write", "start"}]
  /\ proc \in [Process -> [at : {"up", "down", "siblings", "release"},
                           clients : SUBSET Client]]
  /\ consuming \in [Process -> BOOLEAN]

(* What a script has yet to send, and the rows it has yet to send it for.  *)
Told(s) ==
  /\ script[s].at \in {"validate", "mark", "ids", "remove", "removed",
                       "siblings"} => \A r \in Row : Quiet(r)
  /\ script[s].at \in {"associate", "hold"} =>
       \A x \in ToSet(script[s].plan) : x.row \in Row /\ Quiet(x.row)
  /\ script[s].at \in {"associate", "hold", "mark", "markers", "remove",
                       "removed"} =>
       \A m \in ToSet(script[s].send) : m.cmd.kind = Mark
  /\ script[s].at = "holds" =>
       /\ \A m \in ToSet(script[s].send) :
            /\ m.cmd.kind = Hold /\ Quiet(m.cmd.row)
            /\ rows[m.cmd.row].process = m.process
            /\ ClientOf[m.cmd.row] = script[s].client
       /\ \A i, j \in DOMAIN script[s].send :
            i # j => script[s].send[i].cmd.row # script[s].send[j].cmd.row
  /\ \A m \in ToSet(script[s].send) : m.cmd.original = "active"

(* Before the run nothing has been heard of any row.                       *)
NotYet ==
  /\ runs = 0 =>
       /\ \A s \in Script : script[s].at = "idle"
       /\ \A r \in Row : Quiet(r) /\ rows[r].status = "active"
  /\ \A s \in Script : Told(s)

(* The run is about the rows of one client.                                *)
OneClient ==
  \E c \in Client \cup {None} :
    /\ \A r \in Row : ClientOf[r] # c => Quiet(r)
    /\ \A s \in Script : script[s].at # "idle" => script[s].client = c

Ready(cmd) == cmd.original = "active" /\ (cmd.at = "send" => cmd.rest # {})

(* Commands are at the process of their row, the one to hold but once.     *)
Commands ==
  \A p \in Process :
    /\ Once(txQueue[p])
    /\ \A cmd \in ToSet(txQueue[p]) : Ready(cmd)
    /\ \A r \in Row : Stage(Hold, p, r) # {} => rows[r].process = p
    /\ \A r \in ToSet(cmdQueue[p]) : rows[r].process = p
    /\ \A x \in RestsAt(p) : rows[x.row].process = x.process
    /\ proc[p].at # "up" =>
         /\ ~consuming[p] /\ release[p] = "none"
         /\ \A r \in Row : Stage(Hold, p, r) \subseteq {"queued"}

(* A row on hold is at a process that does not consume, or stops next.     *)
Held ==
  \A r \in Row : rows[r].status = "hold" =>
    /\ rows[r].process \in Process
    /\ Stage(Hold, rows[r].process, r) \subseteq {"queued", "stop"}
    /\ consuming[rows[r].process] => "stop" \in Stage(Hold, rows[r].process, r)

(* A release that has begun is not overtaken by the command to hold.       *)
Released ==
  \A p \in Process : release[p] # "none" =>
    /\ cmdQueue[p] # <<>>
    /\ Stage(Hold, p, Head(cmdQueue[p])) \subseteq {"queued", "stop"}
    /\ consuming[p] => "queued" \notin Stage(Hold, p, Head(cmdQueue[p]))
    /\ release[p] = "start" => HeldAt(p) = {}

RunInv ==
  /\ BlockInv /\ HoldType /\ OneScript
  /\ NotYet /\ OneClient /\ Commands /\ Held /\ Released

HoldInv ==
  /\ lost \in Nat /\ runs \in Nat
  /\ lost = 0 /\ runs <= 1 => RunInv

-----------------------------------------------------------------------------
(* Rows in the order of their ids.                                         *)
LEMMA ByIdOrders ==
  ASSUME NEW R, R \subseteq Nat, IsFiniteSet(R)
  PROVE  /\ Cardinality(R) \in Nat
         /\ ById(R) \in [1 .. Cardinality(R) -> R]
         /\ ToSet(ById(R)) = R
         /\ \A i, j \in 1 .. Cardinality(R) : i # j => ById(R)[i] # ById(R)[j]
         /\ R # {} => \E r \in R : \A q \in R : r <= q
<1> DEFINE Below(r) == {q \in R : q < r}
           n == Cardinality(R)
           f == [r \in R |-> Cardinality(Below(r)) + 1]
<1>1. n \in Nat
  BY FS_CardinalityType
<1>2. ASSUME NEW r \in R
      PROVE  /\ IsFiniteSet(Below(r)) /\ Cardinality(Below(r)) \in Nat
             /\ Cardinality(Below(r)) + 1 \in 1 .. n
  <2>1. IsFiniteSet(Below(r)) /\ Cardinality(Below(r)) \in Nat
    BY FS_Subset, FS_CardinalityType
  <2>2. r \notin Below(r)
    BY <1>2
  <2>3. /\ IsFiniteSet(Below(r) \cup {r})
        /\ Cardinality(Below(r) \cup {r}) = Cardinality(Below(r)) + 1
    BY <2>1, <2>2, FS_AddElement
  <2>4. Cardinality(Below(r) \cup {r}) <= n
    <3>1. Below(r) \cup {r} \in SUBSET R
      OBVIOUS
    <3>. QED BY <3>1, FS_Subset
  <2>. QED BY <1>1, <2>1, <2>3, <2>4
<1>3. ASSUME NEW r \in R, NEW q \in R, q < r
      PROVE  Cardinality(Below(q)) < Cardinality(Below(r))
  <2>1. q \notin Below(q) /\ Below(q) \cup {q} \in SUBSET Below(r)
    <3>1. q \in Nat /\ r \in Nat
      OBVIOUS
    <3>2. \A u \in Below(q) : u \in Nat /\ u < q /\ u \in R
      OBVIOUS
    <3>3. \A u \in Below(q) : u < r
      BY <1>3, <3>1, <3>2
    <3>4. q \in Below(r)
      BY <1>3
    <3>5. ~(q < q)
      BY <3>1
    <3>. QED BY <3>2, <3>3, <3>4, <3>5
  <2>2. Cardinality(Below(q) \cup {q}) = Cardinality(Below(q)) + 1
    BY <1>2, <2>1, FS_AddElement
  <2>3. Cardinality(Below(q) \cup {q}) <= Cardinality(Below(r))
    BY <1>2, <2>1, FS_Subset
  <2>. QED BY <1>2, <2>2, <2>3
<1>4. \A r, q \in R : Cardinality(Below(q)) = Cardinality(Below(r)) => r = q
  <2> SUFFICES ASSUME NEW r \in R, NEW q \in R, r # q
               PROVE  Cardinality(Below(q)) # Cardinality(Below(r))
    OBVIOUS
  <2>1. r < q \/ q < r
    <3>1. r \in Nat /\ q \in Nat
      OBVIOUS
    <3>. QED BY <3>1
  <2>. QED BY <1>2, <1>3, <2>1
<1>. HIDE DEF Below, n
<1>5. f \in Injection(R, 1 .. n)
  <2>1. \A r \in R : f[r] \in 1 .. n /\ f[r] = Cardinality(Below(r)) + 1
    BY <1>2
  <2>2. \A r, q \in R : f[r] = f[q] => r = q
    BY <1>2, <1>4, <2>1
  <2>3. f \in [R -> 1 .. n]
    BY <2>1
  <2>. HIDE DEF f
  <2>. QED BY <2>2, <2>3 DEF Injection, IsInjective
<1>6. f \in Surjection(R, 1 .. n)
  <2>1. IsFiniteSet(1 .. n) /\ Cardinality(1 .. n) = n
    BY <1>1, FS_Interval
  <2>. HIDE DEF f
  <2>. QED BY <1>1, <1>5, <2>1, FS_Injection DEF n
<1>7. \A i \in 1 .. n : \E r \in R : Cardinality(Below(r)) = i - 1
  <2> SUFFICES ASSUME NEW i \in 1 .. n
               PROVE  \E r \in R : Cardinality(Below(r)) = i - 1
    OBVIOUS
  <2>1. PICK r \in R : f[r] = i
    <3>. HIDE DEF f
    <3>. QED BY <1>6 DEF Surjection
  <2>. QED BY <1>2, <2>1
<1>8. ById(R) = [i \in 1 .. n |-> CHOOSE r \in R : Cardinality(Below(r)) = i - 1]
  BY DEF ById, Below, n
<1>9. \A i \in 1 .. n :
        ById(R)[i] \in R /\ Cardinality(Below(ById(R)[i])) = i - 1
  <2> SUFFICES ASSUME NEW i \in 1 .. n
               PROVE  ById(R)[i] \in R /\ Cardinality(Below(ById(R)[i])) = i - 1
    OBVIOUS
  <2>1. ById(R)[i] = CHOOSE r \in R : Cardinality(Below(r)) = i - 1
    BY <1>8
  <2>. QED BY <1>7, <2>1
<1>10. ById(R) \in [1 .. n -> R]
  BY <1>8, <1>9
<1>11. \A i, j \in 1 .. n : i # j => ById(R)[i] # ById(R)[j]
  BY <1>1, <1>9
<1>12. \A r \in R : \E i \in 1 .. n : ById(R)[i] = r
  <2> SUFFICES ASSUME NEW r \in R PROVE \E i \in 1 .. n : ById(R)[i] = r
    OBVIOUS
  <2>1. PICK i \in 1 .. n : i = Cardinality(Below(r)) + 1
    BY <1>2
  <2>2. Cardinality(Below(ById(R)[i])) = Cardinality(Below(r))
    BY <1>2, <1>9, <2>1
  <2>. QED BY <1>4, <1>9, <2>2
<1>13. ToSet(ById(R)) = R
  BY <1>10, <1>12 DEF ToSet
<1>14. ASSUME R # {} PROVE \E r \in R : \A q \in R : r <= q
  <2>1. PICK r \in R : Cardinality(Below(r)) = 0
    <3>1. PICK x \in R : TRUE
      BY <1>14
    <3>2. 1 \in 1 .. n
      BY <1>1, <1>2, <3>1
    <3>. QED BY <1>7, <3>2
  <2>2. Below(r) = {}
    BY <1>2, <2>1, FS_EmptySet
  <2>. QED BY <2>2 DEF Below
<1>. QED BY <1>1, <1>10, <1>11, <1>13, <1>14 DEF n

-----------------------------------------------------------------------------
(* What happens to a queue of commands.                                    *)
LEMMA RemoveAtIs ==
  ASSUME NEW S, NEW q \in Seq(S), NEW i \in DOMAIN q
  PROVE  /\ RemoveAt(q, i) \in Seq(S)
         /\ DOMAIN RemoveAt(q, i) = 1 .. Len(q) - 1
         /\ \A j \in 1 .. Len(q) - 1 :
              RemoveAt(q, i)[j] = IF j < i THEN q[j] ELSE q[j + 1]
<1>1. Len(q) \in Nat /\ i \in 1 .. Len(q) /\ q \in [1 .. Len(q) -> S]
  BY LenProperties
<1> DEFINE a == SubSeq(q, 1, i - 1)
           b == SubSeq(q, i + 1, Len(q))
<1>2. /\ a \in Seq(S) /\ Len(a) = i - 1
      /\ \A j \in 1 .. i - 1 : a[j] = q[j]
  <2>1. \A j \in 1 .. i - 1 : q[j] \in S
    BY <1>1
  <2>2. 1 \in Int /\ i - 1 \in Int
    BY <1>1
  <2>3. /\ a \in Seq(S) /\ Len(a) = IF 1 <= i - 1 THEN (i - 1) - 1 + 1 ELSE 0
        /\ \A j \in 1 .. (i - 1) - 1 + 1 : a[j] = q[1 + j - 1]
    BY <2>1, <2>2, SubSeqProperties
  <2>. HIDE DEF a
  <2>. QED BY <1>1, <2>3
<1>3. /\ b \in Seq(S) /\ Len(b) = Len(q) - i
      /\ \A j \in 1 .. Len(q) - i : b[j] = q[i + j]
  <2>1. \A j \in i + 1 .. Len(q) : q[j] \in S
    BY <1>1
  <2>2. i + 1 \in Int /\ Len(q) \in Int
    BY <1>1
  <2>3. /\ b \in Seq(S)
        /\ Len(b) = IF i + 1 <= Len(q) THEN Len(q) - (i + 1) + 1 ELSE 0
        /\ \A j \in 1 .. Len(q) - (i + 1) + 1 : b[j] = q[i + 1 + j - 1]
    BY <2>1, <2>2, SubSeqProperties
  <2>. HIDE DEF b
  <2>4. Len(b) = Len(q) - i
    BY <1>1, <2>3
  <2>5. \A j \in 1 .. Len(q) - i :
          j \in 1 .. Len(q) - (i + 1) + 1 /\ i + 1 + j - 1 = i + j
    BY <1>1
  <2>. QED BY <2>3, <2>4, <2>5
<1>4. RemoveAt(q, i) = a \o b
  BY DEF RemoveAt
<1>. HIDE DEF a, b
<1>5. /\ a \o b \in Seq(S) /\ Len(a \o b) = Len(a) + Len(b)
      /\ \A j \in 1 .. Len(a) + Len(b) :
           (a \o b)[j] = IF j <= Len(a) THEN a[j] ELSE b[j - Len(a)]
  BY <1>2, <1>3, ConcatProperties
<1>6. Len(a) + Len(b) = Len(q) - 1
  BY <1>1, <1>2, <1>3
<1>7. ASSUME NEW j \in 1 .. Len(q) - 1
      PROVE  (a \o b)[j] = IF j < i THEN q[j] ELSE q[j + 1]
  <2>1. CASE j < i
    BY <1>1, <1>2, <1>3, <1>5, <1>6, <2>1
  <2>2. CASE ~(j < i)
    <3>1. j - (i - 1) \in 1 .. Len(q) - i /\ i + (j - (i - 1)) = j + 1
      BY <1>1, <2>2
    <3>2. (a \o b)[j] = b[j - (i - 1)]
      BY <1>1, <1>2, <1>5, <1>6, <2>2
    <3>. QED BY <1>3, <2>2, <3>1, <3>2
  <2>. QED BY <2>1, <2>2
<1>8. DOMAIN (a \o b) = 1 .. Len(q) - 1
  <2>1. DOMAIN (a \o b) = 1 .. Len(a \o b)
    BY <1>5, LenProperties
  <2>. QED BY <1>5, <1>6, <2>1
<1>. HIDE DEF RemoveAt
<1>. QED BY <1>4, <1>5, <1>7, <1>8

LEMMA RemoveKeeps ==
  ASSUME NEW q \in Seq(Sound), NEW i \in DOMAIN q
  PROVE  /\ RemoveAt(q, i) \in Seq(Sound)
         /\ ToSet(RemoveAt(q, i)) \subseteq ToSet(q)
         /\ Rests(RemoveAt(q, i)) \subseteq Rests(q)
         /\ Once(q) => Once(RemoveAt(q, i))
         /\ \A kind, r :
              /\ StageOf(RemoveAt(q, i), kind, r) \subseteq StageOf(q, kind, r)
              /\ StageOf(q, kind, r) \ {q[i].at} \subseteq
                   StageOf(RemoveAt(q, i), kind, r)
              /\ ~OfRow(q[i], kind, r) =>
                   StageOf(RemoveAt(q, i), kind, r) = StageOf(q, kind, r)
         /\ Once(q) /\ q[i].kind = Hold =>
              StageOf(RemoveAt(q, i), Hold, q[i].row) = {}
<1> DEFINE n == RemoveAt(q, i)
           was(j) == IF j < i THEN j ELSE j + 1
<1>1. Len(q) \in Nat /\ DOMAIN q = 1 .. Len(q) /\ i \in 1 .. Len(q)
  BY LenProperties
<1>2. /\ n \in Seq(Sound) /\ DOMAIN n = 1 .. Len(q) - 1
      /\ \A j \in 1 .. Len(q) - 1 : n[j] = IF j < i THEN q[j] ELSE q[j + 1]
  BY RemoveAtIs
<1>. HIDE DEF n
<1>3. \A j \in DOMAIN n : was(j) \in DOMAIN q \ {i} /\ n[j] = q[was(j)]
  BY <1>1, <1>2
<1>4. \A j, k \in DOMAIN n : was(j) = was(k) => j = k
  BY <1>1, <1>2
<1>5. \A k \in DOMAIN q \ {i} : \E j \in DOMAIN n : was(j) = k
  <2> SUFFICES ASSUME NEW k \in DOMAIN q \ {i}
               PROVE  \E j \in DOMAIN n : was(j) = k
    OBVIOUS
  <2>1. CASE k < i
    <3>1. k \in DOMAIN n /\ was(k) = k
      BY <1>1, <1>2, <2>1
    <3>. QED BY <3>1
  <2>2. CASE ~(k < i)
    <3>1. k - 1 \in DOMAIN n /\ was(k - 1) = k
      BY <1>1, <1>2, <2>2
    <3>. QED BY <3>1
  <2>. QED BY <2>1, <2>2
<1>. HIDE DEF was
<1>6. ToSet(n) \subseteq ToSet(q) /\ Rests(n) \subseteq Rests(q)
  BY <1>3 DEF ToSet, Rests
<1>7. Once(q) => Once(n)
  BY <1>3, <1>4 DEF Once
<1>8. ASSUME NEW kind, NEW r
      PROVE  /\ StageOf(n, kind, r) \subseteq StageOf(q, kind, r)
             /\ StageOf(q, kind, r) \ {q[i].at} \subseteq StageOf(n, kind, r)
             /\ ~OfRow(q[i], kind, r) =>
                  StageOf(n, kind, r) = StageOf(q, kind, r)
  <2>1. StageOf(n, kind, r) \subseteq StageOf(q, kind, r)
    BY <1>3 DEF StageOf
  <2>2. ASSUME NEW k \in DOMAIN q \ {i}, OfRow(q[k], kind, r)
        PROVE  q[k].at \in StageOf(n, kind, r)
    <3>1. PICK j \in DOMAIN n : was(j) = k
      BY <1>5
    <3>2. n[j] = q[k]
      BY <1>3, <3>1
    <3>. QED BY <2>2, <3>2 DEF StageOf
  <2>3. StageOf(q, kind, r) \ {q[i].at} \subseteq StageOf(n, kind, r)
    <3> SUFFICES ASSUME NEW k \in DOMAIN q, OfRow(q[k], kind, r),
                        q[k].at # q[i].at
                 PROVE  q[k].at \in StageOf(n, kind, r)
      BY DEF StageOf
    <3>. QED BY <2>2
  <2>4. ASSUME ~OfRow(q[i], kind, r)
        PROVE  StageOf(q, kind, r) \subseteq StageOf(n, kind, r)
    <3> SUFFICES ASSUME NEW k \in DOMAIN q, OfRow(q[k], kind, r)
                 PROVE  q[k].at \in StageOf(n, kind, r)
      BY DEF StageOf
    <3>. QED BY <2>2, <2>4
  <2>. QED BY <2>1, <2>3, <2>4
<1>9. ASSUME Once(q), q[i].kind = Hold PROVE StageOf(n, Hold, q[i].row) = {}
  <2> SUFFICES ASSUME NEW j \in DOMAIN n, OfRow(n[j], Hold, q[i].row)
               PROVE  FALSE
    BY DEF StageOf
  <2>. QED BY <1>3, <1>9 DEF Once, OfRow
<1>. QED BY <1>2, <1>6, <1>7, <1>8, <1>9 DEF n

(* A command of q becomes e, and q becomes n.                              *)
Changed(q, i, e, n) ==
  /\ q \in Seq(Sound) /\ i \in DOMAIN q /\ e \in Sound
  /\ e.kind = q[i].kind /\ e.row = q[i].row /\ e.original = q[i].original
  /\ n = [q EXCEPT ![i] = e]

LEMMA ChangeKeeps ==
  ASSUME NEW q, NEW i, NEW e, NEW n, Changed(q, i, e, n)
  PROVE  /\ n \in Seq(Sound) /\ DOMAIN n = DOMAIN q
         /\ \A j \in DOMAIN q : n[j] = IF j = i THEN e ELSE q[j]
         /\ Rests(n) \subseteq Rests(q) \cup e.rest
         /\ Once(q) => Once(n)
         /\ \A kind, r :
              /\ StageOf(n, kind, r) \subseteq StageOf(q, kind, r) \cup {e.at}
              /\ StageOf(q, kind, r) \ {q[i].at} \subseteq StageOf(n, kind, r)
              /\ ~OfRow(q[i], kind, r) =>
                   StageOf(n, kind, r) = StageOf(q, kind, r)
              /\ OfRow(q[i], kind, r) => e.at \in StageOf(n, kind, r)
         /\ Once(q) /\ q[i].kind = Hold =>
              StageOf(n, Hold, q[i].row) = {e.at}
<1>. USE DEF Changed
<1>1. DOMAIN q = 1 .. Len(q) /\ Len(q) \in Nat
  BY LenProperties
<1>2. /\ n \in Seq(Sound) /\ Len(n) = Len(q)
      /\ \A j \in 1 .. Len(q) : n[j] = IF j = i THEN e ELSE q[j]
  BY <1>1, ExceptSeq
<1>3. DOMAIN n = DOMAIN q
  BY <1>1, <1>2, LenProperties
<1>4. \A j \in DOMAIN q : n[j] = IF j = i THEN e ELSE q[j]
  BY <1>1, <1>2
<1>5. Rests(n) \subseteq Rests(q) \cup e.rest
  BY <1>3, <1>4 DEF Rests
<1>6. Once(q) => Once(n)
  BY <1>3, <1>4 DEF Once
<1>7. ASSUME NEW kind, NEW r
      PROVE  /\ StageOf(n, kind, r) \subseteq StageOf(q, kind, r) \cup {e.at}
             /\ StageOf(q, kind, r) \ {q[i].at} \subseteq StageOf(n, kind, r)
             /\ ~OfRow(q[i], kind, r) =>
                  StageOf(n, kind, r) = StageOf(q, kind, r)
             /\ OfRow(q[i], kind, r) => e.at \in StageOf(n, kind, r)
  BY <1>3, <1>4 DEF StageOf, OfRow
<1>8. Once(q) /\ q[i].kind = Hold => StageOf(n, Hold, q[i].row) = {e.at}
  BY <1>3, <1>4 DEF StageOf, OfRow, Once
<1>. QED BY <1>2, <1>3, <1>4, <1>5, <1>6, <1>7, <1>8

LEMMA AppendKeeps ==
  ASSUME NEW q \in Seq(Sound), NEW e \in Sound, e.rest = {}
  PROVE  /\ Append(q, e) \in Seq(Sound)
         /\ ToSet(Append(q, e)) = ToSet(q) \cup {e}
         /\ Rests(Append(q, e)) = Rests(q)
         /\ Once(q) /\ (e.kind = Hold => StageOf(q, Hold, e.row) = {}) =>
              Once(Append(q, e))
         /\ \A kind, r : StageOf(Append(q, e), kind, r) =
              StageOf(q, kind, r) \cup IF OfRow(e, kind, r) THEN {e.at} ELSE {}
<1> DEFINE n == Append(q, e)
<1>1. Len(q) \in Nat /\ DOMAIN q = 1 .. Len(q)
  BY LenProperties
<1>2. /\ n \in Seq(Sound) /\ DOMAIN n = DOMAIN q \cup {Len(q) + 1}
      /\ Len(q) + 1 \notin DOMAIN q /\ n[Len(q) + 1] = e
      /\ \A j \in DOMAIN q : n[j] = q[j]
  BY <1>1, AppendProperties
<1>. HIDE DEF n
<1>3. ToSet(n) = ToSet(q) \cup {e} /\ Rests(n) = Rests(q)
  BY <1>2 DEF ToSet, Rests
<1>4. ASSUME Once(q), e.kind = Hold => StageOf(q, Hold, e.row) = {}
      PROVE  Once(n)
  <2>1. e.kind = Hold => \A j \in DOMAIN q : ~OfRow(q[j], Hold, e.row)
    BY <1>4 DEF StageOf
  <2>. QED BY <1>2, <1>4, <2>1 DEF Once, OfRow
<1>5. \A kind, r : StageOf(n, kind, r) =
        StageOf(q, kind, r) \cup IF OfRow(e, kind, r) THEN {e.at} ELSE {}
  BY <1>2 DEF StageOf
<1>. QED BY <1>2, <1>3, <1>4, <1>5 DEF n

(* After a crash every message is delivered again.                         *)
Requeued(cmd) == [cmd EXCEPT !.at = "queued", !.rest = {}]

LEMMA RequeueKeeps ==
  ASSUME NEW q \in Seq(Sound), NEW n, n = [i \in DOMAIN q |-> Requeued(q[i])]
  PROVE  /\ n \in Seq(Sound) /\ DOMAIN n = DOMAIN q
         /\ \A i \in DOMAIN q : n[i].original = q[i].original
         /\ Rests(n) = {}
         /\ Once(q) => Once(n)
         /\ \A kind, r :
              /\ StageOf(n, kind, r) \subseteq {"queued"}
              /\ StageOf(n, kind, r) = {} <=> StageOf(q, kind, r) = {}
<1>1. Len(q) \in Nat /\ DOMAIN q = 1 .. Len(q) /\ q \in [1 .. Len(q) -> Sound]
  BY LenProperties
<1>2. \A cmd \in Sound :
        /\ Requeued(cmd) \in Sound /\ Requeued(cmd).kind = cmd.kind
        /\ Requeued(cmd).row = cmd.row /\ Requeued(cmd).original = cmd.original
        /\ Requeued(cmd).at = "queued" /\ Requeued(cmd).rest = {}
  BY DEF Sound, Queued, Requeued
<1>3. /\ DOMAIN n = DOMAIN q
      /\ \A i \in DOMAIN q :
           /\ n[i] \in Sound /\ n[i].kind = q[i].kind /\ n[i].row = q[i].row
           /\ n[i].original = q[i].original /\ n[i].at = "queued"
           /\ n[i].rest = {}
  BY <1>1, <1>2
<1>9. n \in [1 .. Len(q) -> Sound]
  BY <1>1, <1>3
<1>5. n \in Seq(Sound)
  BY <1>1, <1>9
<1>6. Rests(n) = {}
  BY <1>3 DEF Rests
<1>7. Once(q) => Once(n)
  BY <1>3 DEF Once
<1>8. ASSUME NEW kind, NEW r
      PROVE  /\ StageOf(n, kind, r) \subseteq {"queued"}
             /\ StageOf(n, kind, r) = {} <=> StageOf(q, kind, r) = {}
  <2>1. StageOf(n, kind, r) \subseteq {"queued"}
    BY <1>3 DEF StageOf
  <2>2. \A i \in DOMAIN q : OfRow(n[i], kind, r) <=> OfRow(q[i], kind, r)
    BY <1>3 DEF OfRow
  <2>3. StageOf(n, kind, r) = {} <=> \A i \in DOMAIN q : ~OfRow(n[i], kind, r)
    BY <1>3 DEF StageOf
  <2>4. StageOf(q, kind, r) = {} <=> \A i \in DOMAIN q : ~OfRow(q[i], kind, r)
    BY DEF StageOf
  <2>. QED BY <2>1, <2>2, <2>3, <2>4
<1>. QED BY <1>3, <1>5, <1>6, <1>7, <1>8
-----------------------------------------------------------------------------
(* Nobody blocks without a marker.                                         *)
Alive == {"queued", "given", "restore"}

LEMMA MarkersByStage ==
  ASSUME NEW q, NEW r
  PROVE  (\E cmd \in ToSet(q) : IsMarker(cmd, r) /\ cmd.at \in Alive)
           <=> StageOf(q, Mark, r) \cap Alive # {}
BY DEF ToSet, IsMarker, StageOf, OfRow, Mark

LEMMA UnderWay ==
  ASSUME NEW r
  PROVE  MarkerUnderWay(r) <=>
           \/ \E p \in Process : StageOf(txQueue[p], Mark, r) \cap Alive # {}
           \/ \E s \in Script : InSend(s, r)
BY MarkersByStage DEF MarkerUnderWay, InSend, Alive

(* A script for which nothing changes.                                     *)
LEMMA PhaseKept ==
  ASSUME NEW s, Phase(s), script'[s] = script[s],
         \A r \in Row : /\ rows'[r].process = rows[r].process
                        /\ rows'[r].status = "blocker" =>
                             rows[r].status = "blocker"
  PROVE  Phase(s)'
<1>1. \A c : Working(c)' = Working(c) /\ \A p : AtProcess(c, p)' = AtProcess(c, p)
  BY DEF Working, AtProcess, RowsOf
<1>2. \A c : Having(RowsOf(c), "blocker") = {} => Having(RowsOf(c), "blocker")' = {}
  BY DEF Having, RowsOf
<1>3. PICK x : x = script[s] /\ x = script'[s]
  OBVIOUS
<1>4. \A c, plan : Free(c, plan) => Free(c, plan)'
  BY <1>1 DEF Free, RowsOf
<1>5. \A r : InSend(s, r) => InSend(s, r)'
  BY <1>3 DEF InSend
<1>6. \A c, r, p : r \in RowsOf(c) /\ rows[r].process = p => rows'[r].process = p
  BY DEF RowsOf
<1>. QED BY <1>1, <1>2, <1>3, <1>4, <1>5, <1>6 DEF Phase

(* Rows that keep their process, none of which begins to block.            *)
Settling ==
  /\ rows' \in [Row -> [process : Process \cup {None}, status : Status]]
  /\ \A r \in Row :
       /\ rows'[r].process = rows[r].process
       /\ rows'[r].status = "blocker" => rows[r].status = "blocker"

LEMMA SettlingKept ==
  ASSUME TypeInv, UNCHANGED rows PROVE Settling
BY DEF Settling, TypeInv

(* The marker of who still blocks is not used up.                          *)
MarkersKept ==
  \A r \in Row, p \in Process :
    rows'[r].status = "blocker"
    /\ StageOf(txQueue[p], Mark, r) \cap Alive # {} =>
      StageOf(txQueue'[p], Mark, r) \cap Alive # {}

LEMMA BlocksKept ==
  ASSUME BlockInv, TypeInv', script' = script, Settling,
         lost' = 0 => lost = 0, lost' = 0 => MarkersKept
  PROVE  BlockInv'
<1>1. OneRow'
  BY DEF BlockInv, OneRow, Settling
<1>2. \A s \in Script : Phase(s)'
  BY PhaseKept DEF BlockInv, Settling
<1>3. ASSUME lost' = 0, NEW r \in Row, rows'[r].status = "blocker"
      PROVE  MarkerUnderWay(r)'
  <2>1. MarkerUnderWay(r)
    BY <1>3 DEF BlockInv, BlockerHasMarker, Having, Settling
  <2>2. CASE \E s \in Script : InSend(s, r)
    BY <2>2 DEF MarkerUnderWay, InSend
  <2>3. CASE \E p \in Process : StageOf(txQueue[p], Mark, r) \cap Alive # {}
    <3>1. PICK p \in Process : StageOf(txQueue[p], Mark, r) \cap Alive # {}
      BY <2>3
    <3>2. StageOf(txQueue'[p], Mark, r) \cap Alive # {}
      BY <1>3, <3>1 DEF MarkersKept
    <3>. QED BY <3>2, MarkersByStage DEF MarkerUnderWay, Alive
  <2>. QED BY <2>1, <2>2, <2>3, UnderWay
<1>4. BlockerHasMarker'
  BY <1>3 DEF BlockerHasMarker, Having
<1>. QED BY <1>1, <1>2, <1>4 DEF BlockInv

-----------------------------------------------------------------------------
(* The same for a step on one queue.                                       *)
LEMMA QueueChanges ==
  ASSUME TypeInv, NEW p \in Process, NEW n \in Seq(Sound),
         txQueue' = [txQueue EXCEPT ![p] = n]
  PROVE  /\ txQueue' \in [Process -> Seq(Sound)] /\ txQueue'[p] = n
         /\ \A u \in Process : u # p => txQueue'[u] = txQueue[u]
BY DEF TypeInv

LEMMA AckIs ==
  ASSUME TypeInv, NEW p \in Process, NEW i \in DOMAIN txQueue[p], Ack(p, i)
  PROVE  /\ txQueue[p] \in Seq(Sound) /\ txQueue[p][i] \in Sound
         /\ txQueue' \in [Process -> Seq(Sound)]
         /\ txQueue'[p] = RemoveAt(txQueue[p], i)
         /\ \A u \in Process : u # p => txQueue'[u] = txQueue[u]
<1>1. txQueue[p] \in Seq(Sound)
  BY DEF TypeInv
<1>2. RemoveAt(txQueue[p], i) \in Seq(Sound)
  BY <1>1, RemoveKeeps
<1>3. txQueue' = [txQueue EXCEPT ![p] = RemoveAt(txQueue[p], i)]
  BY DEF Ack
<1>4. txQueue[p][i] \in Sound
  BY <1>1, LenProperties, ElementOfSeq
<1>. QED BY <1>1, <1>2, <1>3, <1>4, QueueChanges

Ats == {"queued", "given", "restore", "list", "send", "siblings", "write", "stop"}

(* A step of a command: e is what it becomes.                              *)
Becomes(p, i, e) ==
  /\ e \in Sound /\ e.kind = txQueue[p][i].kind /\ e.row = txQueue[p][i].row
  /\ e.original = txQueue[p][i].original
  /\ txQueue' = [txQueue EXCEPT ![p] = [txQueue[p] EXCEPT ![i] = e]]

StepWith(p, i, at, rest) ==
  txQueue' = [txQueue EXCEPT ![p][i].at = at, ![p][i].rest = rest]
StepBut(p, i, m) == txQueue' = [txQueue EXCEPT ![p][i].rest = @ \ {m}]

LEMMA StepBecomes ==
  ASSUME TypeInv, NEW p \in Process, NEW i \in DOMAIN txQueue[p],
         NEW at \in Ats,
         NEW rest \in SUBSET [row : Row, process : Process \cup {None}],
         StepWith(p, i, at, rest)
  PROVE  \E e : Becomes(p, i, e) /\ e.at = at /\ e.rest = rest
<1>1. txQueue[p] \in Seq(Sound) /\ DOMAIN txQueue = Process
  BY DEF TypeInv
<1>2. txQueue[p][i] \in Sound
  BY <1>1, LenProperties, ElementOfSeq
<1>3. PICK q : q = txQueue[p]
  OBVIOUS
<1>4. PICK cmd \in Sound : cmd = q[i]
  BY <1>2, <1>3
<1>5. PICK e : e = [cmd EXCEPT !.at = at, !.rest = rest]
  OBVIOUS
<1>6. /\ e \in Sound /\ e.kind = cmd.kind /\ e.row = cmd.row
      /\ e.original = cmd.original /\ e.at = at /\ e.rest = rest
  BY <1>4, <1>5 DEF Sound, Queued, Ats
<1>7. txQueue' = [txQueue EXCEPT ![p] = [q EXCEPT ![i] = e]]
  BY <1>1, <1>3, <1>4, <1>5 DEF StepWith
<1>. QED BY <1>3, <1>4, <1>6, <1>7 DEF Becomes

LEMMA StepIs ==
  ASSUME TypeInv, NEW p \in Process, NEW i \in DOMAIN txQueue[p],
         NEW at \in Ats, Step(p, i, at)
  PROVE  \E e : Becomes(p, i, e) /\ e.at = at /\ e.rest = txQueue[p][i].rest
<1>1. txQueue[p] \in Seq(Sound) /\ DOMAIN txQueue = Process
  BY DEF TypeInv
<1>2. txQueue[p][i] \in Sound
  BY <1>1, LenProperties, ElementOfSeq
<1>3. PICK q : q = txQueue[p]
  OBVIOUS
<1>4. PICK cmd \in Sound : cmd = q[i]
  BY <1>2, <1>3
<1>5. PICK e : e = [cmd EXCEPT !.at = at]
  OBVIOUS
<1>6. /\ e \in Sound /\ e.kind = cmd.kind /\ e.row = cmd.row
      /\ e.original = cmd.original /\ e.at = at /\ e.rest = cmd.rest
  BY <1>4, <1>5 DEF Sound, Queued, Ats
<1>7. txQueue' = [txQueue EXCEPT ![p] = [q EXCEPT ![i] = e]]
  BY <1>1, <1>3, <1>4, <1>5 DEF Step
<1>. QED BY <1>3, <1>4, <1>6, <1>7 DEF Becomes

LEMMA RestBecomes ==
  ASSUME TypeInv, NEW p \in Process, NEW i \in DOMAIN txQueue[p], NEW m,
         StepBut(p, i, m)
  PROVE  \E e : Becomes(p, i, e) /\ e.at = txQueue[p][i].at
               /\ e.rest = txQueue[p][i].rest \ {m}
<1>1. txQueue[p] \in Seq(Sound) /\ DOMAIN txQueue = Process
  BY DEF TypeInv
<1>2. txQueue[p][i] \in Sound
  BY <1>1, LenProperties, ElementOfSeq
<1>3. PICK q : q = txQueue[p]
  OBVIOUS
<1>4. PICK cmd \in Sound : cmd = q[i]
  BY <1>2, <1>3
<1>5. PICK e : e = [cmd EXCEPT !.rest = @ \ {m}]
  OBVIOUS
<1>6. /\ e \in Sound /\ e.kind = cmd.kind /\ e.row = cmd.row
      /\ e.original = cmd.original /\ e.at = cmd.at /\ e.rest = cmd.rest \ {m}
  BY <1>4, <1>5 DEF Sound, Queued
<1>7. txQueue' = [txQueue EXCEPT ![p] = [q EXCEPT ![i] = e]]
  BY <1>1, <1>3, <1>4, <1>5 DEF StepBut
<1>. QED BY <1>3, <1>4, <1>6, <1>7 DEF Becomes

LEMMA BecomesIs ==
  ASSUME TypeInv, NEW p \in Process, NEW i \in DOMAIN txQueue[p], NEW e,
         Becomes(p, i, e)
  PROVE  /\ txQueue[p] \in Seq(Sound) /\ txQueue[p][i] \in Sound
         /\ txQueue' \in [Process -> Seq(Sound)]
         /\ txQueue'[p] = [txQueue[p] EXCEPT ![i] = e]
         /\ \A u \in Process : u # p => txQueue'[u] = txQueue[u]
<1>1. txQueue[p] \in Seq(Sound)
  BY DEF TypeInv
<1>2. PICK n : n = [txQueue[p] EXCEPT ![i] = e]
  OBVIOUS
<1>3. n \in Seq(Sound)
  BY <1>1, <1>2, ChangeKeeps DEF Becomes, Changed
<1>4. txQueue' = [txQueue EXCEPT ![p] = n]
  BY <1>2 DEF Becomes
<1>5. txQueue[p][i] \in Sound
  BY <1>1, LenProperties, ElementOfSeq
<1>. QED BY <1>1, <1>2, <1>3, <1>4, <1>5, QueueChanges

LEMMA BecomesBlocks ==
  ASSUME BlockInv, UNCHANGED <<script, lost, runs>>, Settling,
         NEW p \in Process, NEW i \in DOMAIN txQueue[p], NEW e, Becomes(p, i, e),
         txQueue[p][i].kind = Mark
           /\ rows'[txQueue[p][i].row].status = "blocker" =>
             e.at \in Alive \/ txQueue[p][i].at \notin Alive
  PROVE  BlockInv'
<1>1. TypeInv
  BY DEF BlockInv
<1>2. /\ txQueue[p] \in Seq(Sound) /\ txQueue' \in [Process -> Seq(Sound)]
      /\ txQueue'[p] = [txQueue[p] EXCEPT ![i] = e]
      /\ \A u \in Process : u # p => txQueue'[u] = txQueue[u]
  BY <1>1, BecomesIs
<1>3. PICK q \in Seq(Sound) : q = txQueue[p]
  BY <1>2
<1>4. PICK n : n = txQueue'[p]
  OBVIOUS
<1>8. Changed(q, i, e, n)
  BY <1>2, <1>3, <1>4 DEF Becomes, Changed
<1>10. \A kind, r :
         /\ StageOf(n, kind, r) \subseteq StageOf(q, kind, r) \cup {e.at}
         /\ StageOf(q, kind, r) \ {q[i].at} \subseteq StageOf(n, kind, r)
         /\ ~OfRow(q[i], kind, r) =>
              StageOf(n, kind, r) = StageOf(q, kind, r)
         /\ OfRow(q[i], kind, r) => e.at \in StageOf(n, kind, r)
  BY <1>8, ChangeKeeps
<1>5. ASSUME NEW r \in Row, rows'[r].status = "blocker",
             StageOf(q, Mark, r) \cap Alive # {}
      PROVE  StageOf(n, Mark, r) \cap Alive # {}
  <2>1. /\ StageOf(q, Mark, r) \ {q[i].at} \subseteq StageOf(n, Mark, r)
        /\ ~OfRow(q[i], Mark, r) => StageOf(n, Mark, r) = StageOf(q, Mark, r)
        /\ OfRow(q[i], Mark, r) => e.at \in StageOf(n, Mark, r)
    BY <1>10
  <2>2. OfRow(q[i], Mark, r) => e.at \in Alive \/ q[i].at \notin Alive
    BY <1>3, <1>5 DEF OfRow
  <2>. QED BY <1>5, <2>1, <2>2
<1>6. MarkersKept
  BY <1>2, <1>3, <1>4, <1>5 DEF MarkersKept
<1>7. TypeInv'
  BY <1>1, <1>2 DEF TypeInv, Settling
<1>. QED BY <1>6, <1>7, BlocksKept

LEMMA AckBlocks ==
  ASSUME BlockInv, UNCHANGED <<rows, script, runs>>,
         NEW p \in Process, NEW i \in DOMAIN txQueue[p], Ack(p, i),
         \/ lost' = lost /\ (txQueue[p][i].kind = Mark
                             /\ rows[txQueue[p][i].row].status = "blocker" =>
                               txQueue[p][i].at \notin Alive)
         \/ lost' = lost + 1
  PROVE  BlockInv'
<1>1. TypeInv
  BY DEF BlockInv
<1>2. /\ txQueue[p] \in Seq(Sound) /\ txQueue' \in [Process -> Seq(Sound)]
      /\ txQueue'[p] = RemoveAt(txQueue[p], i)
      /\ \A u \in Process : u # p => txQueue'[u] = txQueue[u]
  BY <1>1, AckIs
<1>3. PICK q : q = txQueue[p]
  OBVIOUS
<1>4. PICK n : n = txQueue'[p]
  OBVIOUS
<1>5. ASSUME lost' = 0, NEW r \in Row, rows[r].status = "blocker",
             StageOf(q, Mark, r) \cap Alive # {}
      PROVE  StageOf(n, Mark, r) \cap Alive # {}
  <2>1. /\ StageOf(q, Mark, r) \ {q[i].at} \subseteq StageOf(n, Mark, r)
        /\ ~OfRow(q[i], Mark, r) => StageOf(n, Mark, r) = StageOf(q, Mark, r)
    BY <1>2, <1>3, <1>4, RemoveKeeps
  <2>3. lost' # lost + 1
    BY <1>1, <1>5 DEF TypeInv
  <2>2. OfRow(q[i], Mark, r) => q[i].at \notin Alive
    BY <1>3, <1>5, <2>3 DEF OfRow
  <2>. QED BY <1>5, <2>1, <2>2
<1>6. lost' = 0 => MarkersKept
  BY <1>2, <1>3, <1>4, <1>5 DEF MarkersKept
<1>8. lost' \in Nat /\ (lost' = 0 => lost = 0)
  BY <1>1 DEF TypeInv
<1>7. TypeInv'
  BY <1>1, <1>2, <1>8 DEF TypeInv
<1>. QED BY <1>1, <1>6, <1>7, <1>8, BlocksKept, SettlingKept

LEMMA RowsBlock ==
  ASSUME BlockInv, UNCHANGED <<script, txQueue, runs>>, Settling,
         lost' \in {lost, lost + 1}
  PROVE  BlockInv'
<1>1. TypeInv
  BY DEF BlockInv
<1>8. lost' \in Nat /\ (lost' = 0 => lost = 0)
  BY <1>1 DEF TypeInv
<1>7. TypeInv'
  BY <1>1, <1>8 DEF TypeInv, Settling
<1>9. MarkersKept
  BY DEF MarkersKept
<1>. QED BY <1>7, <1>8, <1>9, BlocksKept

LEMMA DownBlocks ==
  ASSUME BlockInv, UNCHANGED <<rows, script, runs, lost>>,
         NEW p \in Process, Down(p)
  PROVE  BlockInv'
<1>1. TypeInv
  BY DEF BlockInv
<1>2. PICK q \in Seq(Sound) : q = txQueue[p]
  BY <1>1 DEF TypeInv
<1>3. PICK n : n = [i \in DOMAIN q |-> Requeued(q[i])]
  OBVIOUS
<1>4. txQueue' = [txQueue EXCEPT ![p] = n]
  BY <1>1, <1>2, <1>3 DEF Down, Requeued, TypeInv
<1>5. /\ n \in Seq(Sound)
      /\ \A r : StageOf(n, Mark, r) \subseteq {"queued"}
               /\ (StageOf(n, Mark, r) = {} <=> StageOf(q, Mark, r) = {})
  BY <1>3, RequeueKeeps
<1>6. /\ txQueue' \in [Process -> Seq(Sound)] /\ txQueue'[p] = n
      /\ \A u \in Process : u # p => txQueue'[u] = txQueue[u]
  BY <1>1, <1>4, <1>5, QueueChanges
<1>7. MarkersKept
  BY <1>2, <1>5, <1>6 DEF Alive, MarkersKept
<1>8. TypeInv'
  BY <1>1, <1>6 DEF TypeInv
<1>. QED BY <1>1, <1>7, <1>8, BlocksKept, SettlingKept

(* The commands and the processes.                                         *)
LEMMA TxBlocks ==
  ASSUME BlockInv, NEW p \in Process, NEW i \in DOMAIN txQueue[p],
         TxStep(p, i) \/ CommandFails(p, i)
  PROVE  BlockInv'
<1>1. TypeInv
  BY DEF BlockInv
<1>2. txQueue[p][i] \in Sound
  <2>1. txQueue[p] \in Seq(Sound)
    BY <1>1 DEF TypeInv
  <2>. QED BY <2>1, LenProperties, ElementOfSeq
<1>3. ASSUME NEW at \in Ats, Step(p, i, at), Settling,
             UNCHANGED <<script, runs, lost>>,
             txQueue[p][i].kind = Mark
               /\ rows'[txQueue[p][i].row].status = "blocker" =>
                 at \in Alive \/ txQueue[p][i].at \notin Alive
      PROVE  BlockInv'
  <2>1. PICK e : Becomes(p, i, e) /\ e.at = at
    BY <1>1, <1>3, StepIs
  <2>. QED BY <1>3, <2>1, BecomesBlocks
<1>4. UNCHANGED rows => Settling
  BY <1>1, SettlingKept
<1>5. CASE MarkRead(p, i)
  <2>1. CASE rows[txQueue[p][i].row].status # "blocker"
    BY <1>5, <2>1, AckBlocks DEF MarkRead, countVars
  <2>2. CASE rows[txQueue[p][i].row].status = "blocker"
    BY <1>3, <1>4, <1>5, <2>2 DEF MarkRead, Ats, Alive, countVars
  <2>. QED BY <2>1, <2>2
<1>6. CASE MarkRestore(p, i)
  <2>1. PICK x \in Row : x = txQueue[p][i].row
    BY <1>2 DEF Sound, Queued
  <2>2. PICK o \in Status \ {"blocker"} : o = txQueue[p][i].original
    BY <1>2 DEF Sound, Queued
  <2>3. rows' = [rows EXCEPT ![x].status = o]
    BY <1>6, <2>1, <2>2 DEF MarkRestore
  <2>4. Settling
    BY <1>1, <2>3 DEF Settling, TypeInv
  <2>5. rows'[x].status # "blocker"
    BY <1>1, <2>3 DEF TypeInv
  <2>6. Step(p, i, "list") /\ UNCHANGED <<script, runs, lost>>
    BY <1>6 DEF MarkRestore, countVars
  <2>. QED BY <1>3, <2>1, <2>4, <2>5, <2>6 DEF Ats
<1>7. CASE MarkList(p, i)
  <2>1. txQueue[p][i].at \notin Alive
    BY <1>7 DEF MarkList, Handles, Alive
  <2>2. UNCHANGED <<rows, script, runs, lost>>
    BY <1>7 DEF MarkList, countVars
  <2>3. CASE Ack(p, i)
    BY <2>1, <2>2, <2>3, AckBlocks
  <2>4. CASE ~Ack(p, i)
    <3>1. PICK held : held = Having(Siblings(txQueue[p][i].row), "hold")
      OBVIOUS
    <3>2. PICK rest : rest = {[row |-> r, process |-> rows[r].process] : r \in held}
      OBVIOUS
    <3>3. rest \in SUBSET [row : Row, process : Process \cup {None}]
      BY <1>1, <3>1, <3>2 DEF Having, Siblings, RowsOf, TypeInv
    <3>4. StepWith(p, i, "send", rest)
      BY <1>7, <2>4, <3>1, <3>2 DEF MarkList, StepWith
    <3>5. "send" \in Ats
      BY DEF Ats
    <3>6. PICK e : Becomes(p, i, e) /\ e.at = "send"
      BY <1>1, <3>3, <3>4, <3>5, StepBecomes
    <3>. QED BY <1>4, <2>1, <2>2, <3>6, BecomesBlocks
  <2>. QED BY <2>3, <2>4
<1>8. CASE MarkSend(p, i)
  <2>1. txQueue[p][i].at \notin Alive
    BY <1>8 DEF MarkSend, Handles, Alive
  <2>2. UNCHANGED <<rows, script, runs>> /\ lost' \in {lost, lost + 1}
    BY <1>8 DEF MarkSend
  <2>3. CASE Ack(p, i)
    BY <2>1, <2>2, <2>3, AckBlocks
  <2>4. CASE ~Ack(p, i)
    <3>1. PICK m : StepBut(p, i, m)
      BY <1>8, <2>4 DEF MarkSend, StepBut
    <3>2. PICK e : Becomes(p, i, e) /\ e.at = txQueue[p][i].at
      BY <1>1, <3>1, RestBecomes
    <3>3. CASE lost' = lost
      BY <1>4, <2>1, <2>2, <3>2, <3>3, BecomesBlocks
    <3>4. CASE lost' = lost + 1
      <4>1. txQueue' \in [Process -> Seq(Sound)]
        BY <1>1, <3>2, BecomesIs
      <4>2. lost' \in Nat /\ lost' # 0
        BY <1>1, <3>4 DEF TypeInv
      <4>3. TypeInv'
        BY <1>1, <2>2, <4>1, <4>2 DEF TypeInv
      <4>. QED BY <1>4, <2>2, <4>2, <4>3, BlocksKept
    <3>. QED BY <2>2, <3>3, <3>4
  <2>. QED BY <2>3, <2>4
<1>9. CASE HoldRead(p, i) \/ HoldSiblings(p, i)
  <2>1. txQueue[p][i].kind # Mark /\ UNCHANGED <<rows, script, runs, lost>>
    BY <1>9 DEF HoldRead, HoldSiblings, Handles, Mark, countVars
  <2>2. \/ Ack(p, i) \/ Step(p, i, "siblings") \/ Step(p, i, "write")
    BY <1>9 DEF HoldRead, HoldSiblings
  <2>. QED BY <1>3, <1>4, <2>1, <2>2, AckBlocks DEF Ats
<1>10. CASE HoldWrite(p, i)
  <2>1. txQueue[p][i].kind # Mark /\ UNCHANGED <<script, runs, lost>>
    BY <1>10 DEF HoldWrite, Handles, Mark, countVars
  <2>2. PICK x : rows' = [rows EXCEPT ![x].status = "hold"]
    BY <1>10 DEF HoldWrite
  <2>3. Settling
    BY <1>1, <2>2 DEF Settling, TypeInv, Status
  <2>4. Step(p, i, "stop")
    BY <1>10 DEF HoldWrite
  <2>. QED BY <1>3, <2>1, <2>3, <2>4 DEF Ats
<1>11. CASE HoldStop(p, i)
  <2>1. txQueue[p][i].kind # Mark /\ UNCHANGED <<rows, script, runs, lost>>
    BY <1>11 DEF HoldStop, Handles, Mark, countVars
  <2>. QED BY <1>11, <2>1, AckBlocks DEF HoldStop
<1>12. CASE CommandFails(p, i)
  BY <1>12, AckBlocks DEF CommandFails
<1>. QED BY <1>5, <1>6, <1>7, <1>8, <1>9, <1>10, <1>11, <1>12 DEF TxStep

LEMMA ProcessBlocks ==
  ASSUME BlockInv, NEW p \in Process,
         \/ Deliver(p) \/ ReleaseStep(p) \/ ReleaseFails(p)
         \/ InitStep(p) \/ Stop(p) \/ Crash(p)
  PROVE  BlockInv'
<1>1. TypeInv
  BY DEF BlockInv
<1>2. UNCHANGED rows => Settling
  BY <1>1, SettlingKept
<1>3. CASE Deliver(p)
  <2>1. PICK i \in DOMAIN txQueue[p] : Step(p, i, "given")
    BY <1>3 DEF Deliver, Step
  <2>2. PICK e : Becomes(p, i, e) /\ e.at = "given"
    BY <1>1, <2>1, StepIs DEF Ats
  <2>3. UNCHANGED <<rows, script, lost, runs>>
    BY <1>3 DEF Deliver, countVars
  <2>. QED BY <1>2, <2>2, <2>3, BecomesBlocks DEF Alive
<1>4. CASE ReleaseStep(p) \/ ReleaseFails(p) \/ InitStep(p)
  <2>1. UNCHANGED <<script, txQueue, runs>> /\ lost' \in {lost, lost + 1}
    BY <1>4 DEF ReleaseStep, ReleaseRead, ReleaseSiblings, ReleaseWrite,
       ReleaseStart, ReleaseFails, InitStep, InitHolds, InitSiblings,
       InitRelease, queueVars, countVars
  <2>2. CASE UNCHANGED rows
    BY <1>2, <2>1, <2>2, RowsBlock
  <2>3. CASE ReleaseWrite(p)
    <3>1. PICK x : rows' = [rows EXCEPT ![x].status = "active"]
      BY <2>3 DEF ReleaseWrite
    <3>2. Settling
      BY <1>1, <3>1 DEF Settling, TypeInv, Status
    <3>. QED BY <2>1, <3>2, RowsBlock
  <2>4. CASE InitRelease(p)
    <3>1. PICK held : rows' = [r \in Row |-> IF r \in held
             THEN [rows[r] EXCEPT !.status = "active"] ELSE rows[r]]
      BY <2>4 DEF InitRelease
    <3>2. Settling
      BY <1>1, <3>1 DEF Settling, TypeInv, Status
    <3>. QED BY <2>1, <3>2, RowsBlock
  <2>5. UNCHANGED rows \/ ReleaseWrite(p) \/ InitRelease(p)
    BY <1>4 DEF ReleaseStep, ReleaseRead, ReleaseSiblings, ReleaseStart,
       ReleaseFails, InitStep, InitHolds, InitSiblings
  <2>. QED BY <2>2, <2>3, <2>4, <2>5
<1>5. CASE Stop(p) \/ Crash(p)
  <2>1. Down(p) /\ UNCHANGED <<rows, script, runs, lost>>
    BY <1>5 DEF Stop, Crash, countVars
  <2>. QED BY <2>1, DownBlocks
<1>. QED BY <1>3, <1>4, <1>5
-----------------------------------------------------------------------------
(* The scripts: those that do not run stay as they are.                    *)
Alone(s) ==
  \A u \in Script \ {s} : script[u].at = "idle" /\ script'[u] = script[u]

LEMMA ScriptIs ==
  ASSUME TypeInv, OneScript, OneScript', NEW s \in Script, NEW x \in ScriptType,
         script' = [script EXCEPT ![s] = x],
         script[s].at # "idle" \/ x.at # "idle"
  PROVE  /\ script' \in [Script -> ScriptType] /\ script'[s] = x /\ Alone(s)
<1>1. /\ script' \in [Script -> ScriptType] /\ script'[s] = x
      /\ \A u \in Script \ {s} : script'[u] = script[u]
  BY DEF TypeInv
<1>2. CASE script[s].at # "idle"
  BY <1>1, <1>2 DEF OneScript, Alone
<1>3. CASE x.at # "idle"
  <2>1. \A u \in Script \ {s} : script'[u].at = "idle"
    BY <1>1, <1>3 DEF OneScript
  <2>. QED BY <1>1, <2>1 DEF Alone
<1>. QED BY <1>2, <1>3

QueuesKeep ==
  \A r \in Row, p \in Process :
    StageOf(txQueue[p], Mark, r) \cap Alive # {} =>
      StageOf(txQueue'[p], Mark, r) \cap Alive # {}
LettersKept(s) == \A r \in Row : InSend(s, r) => MarkerUnderWay(r)'
NewMarked ==
  \A r \in Row : rows'[r].status = "blocker" =>
    rows[r].status = "blocker" \/ MarkerUnderWay(r)'

LEMMA ScriptBlocks ==
  ASSUME BlockInv, NEW s \in Script, Alone(s), TypeInv', OneRow', Phase(s)',
         lost' = 0 => lost = 0 /\ QueuesKeep /\ LettersKept(s) /\ NewMarked
  PROVE  BlockInv'
<1>1. \A u \in Script \ {s} : script[u] = Idle /\ script'[u] = Idle
  BY DEF BlockInv, Phase, Alone
<1>2. ASSUME NEW u \in Script \ {s} PROVE Phase(u)'
  <2>1. script'[u] = Idle /\ Idle.at = "idle"
    BY <1>1 DEF Idle
  <2>. QED BY <2>1 DEF Phase
<1>3. \A u \in Script \ {s} : \A r : ~InSend(u, r)
  <2>1. Idle.send = <<>> /\ ToSet(<<>>) = {}
    BY DEF Idle, ToSet
  <2>. QED BY <1>1, <2>1 DEF InSend
<1>4. ASSUME lost' = 0, NEW r \in Row, rows'[r].status = "blocker"
      PROVE  MarkerUnderWay(r)'
  <2>1. CASE rows[r].status = "blocker"
    <3>1. MarkerUnderWay(r)
      BY <1>4, <2>1 DEF BlockInv, BlockerHasMarker, Having
    <3>2. CASE \E u \in Script : InSend(u, r)
      BY <1>3, <1>4, <3>2 DEF LettersKept
    <3>3. CASE \E p \in Process : StageOf(txQueue[p], Mark, r) \cap Alive # {}
      <4>1. PICK p \in Process : StageOf(txQueue[p], Mark, r) \cap Alive # {}
        BY <3>3
      <4>2. StageOf(txQueue'[p], Mark, r) \cap Alive # {}
        BY <1>4, <4>1 DEF QueuesKeep
      <4>. QED BY <4>2, MarkersByStage DEF MarkerUnderWay, Alive
    <3>. QED BY <3>1, <3>2, <3>3, UnderWay
  <2>2. CASE rows[r].status # "blocker"
    BY <1>4, <2>2 DEF NewMarked
  <2>. QED BY <2>1, <2>2
<1>5. BlockerHasMarker'
  BY <1>4 DEF BlockerHasMarker, Having
<1>. QED BY <1>2, <1>5 DEF BlockInv

(* The same when a script only reads.                                      *)
LEMMA ReadBlocks ==
  ASSUME BlockInv, OneScript, OneScript', NEW s \in Script,
         UNCHANGED <<rows, txQueue>>, lost' \in {lost, lost + 1},
         runs' \in {runs, runs + 1},
         NEW x \in ScriptType, script' = [script EXCEPT ![s] = x],
         script[s].at # "idle" \/ x.at # "idle", Phase(s)',
         \/ ToSet(script[s].send) \subseteq ToSet(x.send)
         \/ lost' = lost + 1
  PROVE  BlockInv'
<1>1. TypeInv
  BY DEF BlockInv
<1>2. script' \in [Script -> ScriptType] /\ script'[s] = x /\ Alone(s)
  BY <1>1, ScriptIs
<1>3. lost' \in Nat /\ runs' \in Nat /\ (lost' = 0 => lost = 0 /\ lost' = lost)
  BY <1>1 DEF TypeInv
<1>4. TypeInv' /\ OneRow'
  BY <1>1, <1>2, <1>3 DEF TypeInv, BlockInv, OneRow
<1>5. QueuesKeep /\ NewMarked
  BY DEF QueuesKeep, NewMarked
<1>6. ASSUME lost' = 0 PROVE LettersKept(s)
  <2>1. ToSet(script[s].send) \subseteq ToSet(script'[s].send)
    BY <1>1, <1>2, <1>3, <1>6 DEF TypeInv
  <2>. QED BY <2>1 DEF LettersKept, InSend, MarkerUnderWay
<1>. QED BY <1>2, <1>3, <1>4, <1>5, <1>6, ScriptBlocks

LEMMA DiesBlocks ==
  ASSUME BlockInv, OneScript, OneScript', NEW s \in Script, ScriptDies(s)
  PROVE  BlockInv'
<1>1. PICK x : x = Idle
  OBVIOUS
<1>2. x \in ScriptType /\ x.at = "idle"
  BY <1>1 DEF ScriptType, Idle
<1>3. /\ script' = [script EXCEPT ![s] = x] /\ script[s].at # "idle"
      /\ UNCHANGED <<rows, txQueue>> /\ lost' = lost + 1 /\ runs' = runs
  BY <1>1 DEF ScriptDies, Ends, queueVars
<1>4. script'[s] = x
  BY <1>3 DEF BlockInv, TypeInv
<1>5. Phase(s)'
  BY <1>1, <1>2, <1>4 DEF Phase
<1>. QED BY <1>2, <1>3, <1>5, ReadBlocks

(* Ways to give a list of processes.                                       *)
LEMMA ListsArePlans ==
  ASSUME NEW ps \in ProcessLists
  PROVE  /\ ps \in Seq(Process) /\ Len(ps) \in Nat \ {0}
         /\ DOMAIN ps = 1 .. Len(ps)
         /\ \A i, j \in DOMAIN ps : i # j => ps[i] # ps[j]
<1>1. PICK P \in (SUBSET Process) \ {{}} : ps \in SetToSeqs(P)
  BY DEF ProcessLists
<1>2. IsFiniteSet(P) /\ Cardinality(P) \in Nat \ {0}
  BY <1>1, AssociationAssumption, FS_Subset, FS_CardinalityType, FS_EmptySet
<1>3. PICK n \in Nat \ {0} : n = Cardinality(P)
  BY <1>2
<1>4. ps \in [1 .. n -> P] /\ \A i, j \in 1 .. n : i # j => ps[i] # ps[j]
  BY <1>1, <1>3 DEF SetToSeqs
<1>5. ps \in [1 .. n -> Process]
  BY <1>1, <1>4
<1>6. ps \in Seq(Process) /\ Len(ps) = n
  BY <1>5
<1>. QED BY <1>3, <1>4, <1>6


(* The first letter or pair of a list, and the rest.                       *)
LEMMA HeadTail ==
  ASSUME NEW S, NEW q \in Seq(S), q # <<>>
  PROVE  /\ Head(q) \in S /\ Tail(q) \in Seq(S)
         /\ ToSet(q) = {Head(q)} \cup ToSet(Tail(q))
         /\ Head(q) = q[1] /\ 1 \in DOMAIN q
         /\ \A i \in DOMAIN Tail(q) : /\ i + 1 \in DOMAIN q /\ i + 1 # 1
                                       /\ Tail(q)[i] = q[i + 1]
         /\ \A i, j \in DOMAIN Tail(q) : i # j => i + 1 # j + 1
<1>1. Len(q) \in Nat \ {0} /\ DOMAIN q = 1 .. Len(q)
  BY LenProperties, EmptySeq
<1>2. /\ Head(q) \in S /\ Tail(q) \in Seq(S) /\ Head(q) = q[1]
      /\ Len(Tail(q)) = Len(q) - 1
      /\ \A i \in 1 .. Len(q) - 1 : Tail(q)[i] = q[i + 1]
  BY <1>1, HeadTailProperties
<1>3. DOMAIN Tail(q) = 1 .. Len(q) - 1
  BY <1>2, LenProperties
<1>4. ToSet(q) = {Head(q)} \cup ToSet(Tail(q))
  <2>1. \A i \in DOMAIN q : i = 1 \/ (i - 1 \in DOMAIN Tail(q) /\ q[i] = Tail(q)[i - 1])
    BY <1>1, <1>2, <1>3
  <2>2. \A i \in DOMAIN Tail(q) : i + 1 \in DOMAIN q /\ Tail(q)[i] = q[i + 1]
    BY <1>1, <1>2, <1>3
  <2>3. ASSUME NEW e \in ToSet(q) PROVE e = Head(q) \/ e \in ToSet(Tail(q))
    <3>1. PICK i \in DOMAIN q : e = q[i]
      BY DEF ToSet
    <3>. QED BY <1>2, <2>1, <3>1 DEF ToSet
  <2>4. Head(q) \in ToSet(q)
    BY <1>1, <1>2 DEF ToSet
  <2>5. ToSet(Tail(q)) \subseteq ToSet(q)
    BY <2>2 DEF ToSet
  <2>. QED BY <2>3, <2>4, <2>5
<1>. QED BY <1>1, <1>2, <1>3, <1>4

LEMMA RowsAreFinite ==
  ASSUME NEW R \in SUBSET Row
  PROVE  R \subseteq Nat /\ IsFiniteSet(R)
BY AssociationAssumption, FS_Subset

LEMMA AssociateBlocks ==
  ASSUME BlockInv, OneScript, OneScript', NEW s \in Script, Associate(s)
  PROVE  BlockInv'
<1>1. TypeInv
  BY DEF BlockInv
<1>2. PICK c \in Client, ps \in ProcessLists :
        LET free == ById(Available(c))
            n == IF Len(ps) < Len(free) THEN Len(ps) ELSE Len(free)
        IN /\ free # <<>>
           /\ \A p \in ToSet(ps) : AtProcess(c, p) = {}
           /\ script' = [script EXCEPT ![s] =
                [at |-> "validate", client |-> c, send |-> <<>>,
                 plan |-> [i \in 1..n |-> [row |-> free[i], process |-> ps[i]]]]]
  BY DEF Associate
<1>3. PICK free : free = ById(Available(c))
  OBVIOUS
<1>4. PICK k \in Nat : /\ free \in [1 .. k -> Available(c)]
                      /\ \A i, j \in 1 .. k : i # j => free[i] # free[j]
  <2>1. Available(c) \in SUBSET Row
    BY DEF Available, RowsOf
  <2>2. PICK R : R = Available(c)
    OBVIOUS
  <2>3. R \subseteq Nat /\ IsFiniteSet(R)
    BY <2>1, <2>2, RowsAreFinite
  <2>4. PICK n \in Nat : n = Cardinality(R)
    BY <2>3, FS_CardinalityType
  <2>5. /\ ById(R) \in [1 .. n -> R]
        /\ \A i, j \in 1 .. n : i # j => ById(R)[i] # ById(R)[j]
    BY <2>3, <2>4, ByIdOrders
  <2>. QED BY <1>3, <2>2, <2>5
<1>5. free \in Seq(Available(c)) /\ Len(free) = k /\ k # 0
  <2>1. free \in Seq(Available(c)) /\ Len(free) = k
    BY <1>4
  <2>. QED BY <1>2, <1>3, <2>1, EmptySeq
<1>6. /\ ps \in Seq(Process) /\ Len(ps) \in Nat \ {0} /\ DOMAIN ps = 1 .. Len(ps)
      /\ \A i, j \in DOMAIN ps : i # j => ps[i] # ps[j]
  BY ListsArePlans
<1>7. PICK n : n = IF Len(ps) < Len(free) THEN Len(ps) ELSE Len(free)
  OBVIOUS
<1>8. n \in Nat \ {0} /\ 1 .. n \subseteq DOMAIN ps /\ 1 .. n \subseteq 1 .. k
  BY <1>5, <1>6, <1>7
<1>9. PICK plan : plan = [i \in 1..n |-> [row |-> free[i], process |-> ps[i]]]
  OBVIOUS
<1>10. /\ DOMAIN plan = 1 .. n
       /\ \A i \in 1 .. n : /\ plan[i] = [row |-> free[i], process |-> ps[i]]
                            /\ free[i] \in Available(c) /\ ps[i] \in Process
                            /\ AtProcess(c, ps[i]) = {}
  <2>1. \A i \in 1 .. n : ps[i] \in ToSet(ps) /\ ps[i] \in Process
    BY <1>6, <1>8, ElementOfSeq DEF ToSet
  <2>. QED BY <1>2, <1>4, <1>8, <1>9, <2>1
<1>11. plan \in Seq(Steps) /\ plan # <<>>
  <2>1. Available(c) \subseteq Row
    BY DEF Available, RowsOf
  <2>2. \A i \in 1 .. n : plan[i] \in Steps
    BY <1>10, <2>1 DEF Steps
  <2>3. plan \in [1 .. n -> Steps]
    BY <1>9, <1>10, <2>2
  <2>4. plan \in Seq(Steps) /\ Len(plan) = n
    BY <1>8, <2>3
  <2>. QED BY <1>8, <2>4, EmptySeq
<1>12. Free(c, plan)
  <2>1. \A i \in DOMAIN plan :
          /\ plan[i].row \in RowsOf(c) /\ rows[plan[i].row].process = None
          /\ AtProcess(c, plan[i].process) = {}
    BY <1>10 DEF Available
  <2>2. \A i, j \in DOMAIN plan :
          i # j => plan[i].row # plan[j].row /\ plan[i].process # plan[j].process
    BY <1>4, <1>6, <1>8, <1>10
  <2>. QED BY <2>1, <2>2 DEF Free
<1>13. PICK x : x = [at |-> "validate", client |-> c, send |-> <<>>, plan |-> plan]
  OBVIOUS
<1>14. x \in ScriptType /\ x.at = "validate"
  BY <1>11, <1>13, EmptySeq DEF ScriptType
<1>15. script' = [script EXCEPT ![s] = x]
  BY <1>2, <1>3, <1>7, <1>9, <1>13
<1>16. /\ UNCHANGED <<rows, txQueue, lost>> /\ runs' = runs + 1
       /\ script[s].at = "idle"
  BY DEF Associate, queueVars
<1>17. script'[s] = x
  BY <1>1, <1>15 DEF TypeInv
<1>18. Free(c, plan)'
  BY <1>12, <1>16 DEF Free, AtProcess, RowsOf
<1>19. Phase(s)'
  BY <1>11, <1>13, <1>17, <1>18 DEF Phase
<1>20. ToSet(script[s].send) \subseteq ToSet(x.send)
  BY <1>13, <1>16 DEF BlockInv, Phase, Idle
<1>. QED BY <1>14, <1>15, <1>16, <1>19, <1>20, ReadBlocks


LEMMA ValidateBlocks ==
  ASSUME BlockInv, OneScript, OneScript', NEW s \in Script,
         ValidateAllWorkers(s)
  PROVE  BlockInv'
<1>1. TypeInv
  BY DEF BlockInv
<1>2. PICK x \in ScriptType : x = script[s]
  BY <1>1 DEF TypeInv
<1>3. PICK c : c = x.client
  OBVIOUS
<1>4. /\ x.at = "validate" /\ x.plan # <<>> /\ Free(c, x.plan) /\ x.send = <<>>
  BY <1>2, <1>3 DEF ValidateAllWorkers, BlockInv, Phase
<1>5. UNCHANGED <<rows, txQueue, lost, runs>>
  BY DEF ValidateAllWorkers, queueVars, countVars
<1>6. ToSet(x.send) = {}
  BY <1>4 DEF ToSet
<1>7. CASE Ends(s)
  <2>1. PICK y : y = Idle
    OBVIOUS
  <2>2. y \in ScriptType /\ y.at = "idle"
    BY <2>1 DEF ScriptType, Idle
  <2>3. script' = [script EXCEPT ![s] = y]
    BY <1>7, <2>1 DEF Ends
  <2>4. script'[s] = y
    BY <1>1, <2>3 DEF TypeInv
  <2>5. Phase(s)'
    BY <2>1, <2>2, <2>4 DEF Phase
  <2>. QED BY <1>2, <1>4, <1>5, <1>6, <2>2, <2>3, <2>5, ReadBlocks
<1>8. CASE ~Ends(s)
  <2>1. PICK send : send = MarkersOf(c)
    OBVIOUS
  <2>2. /\ Having(Working(c), "hold") \cup Having(Working(c), "blocker") = {}
        /\ script' = [script EXCEPT ![s].at = "mark", ![s].send = send]
    BY <1>2, <1>3, <1>8, <2>1 DEF ValidateAllWorkers
  <2>3. PICK working : working = ById(Working(c))
    OBVIOUS
  <2>4. PICK k \in Nat : /\ working \in [1 .. k -> Working(c)]
                        /\ ToSet(working) = Working(c)
    <3>1. Working(c) \in SUBSET Row
      BY DEF Working, RowsOf
    <3>. QED BY <2>3, <3>1, ByIdOrders, RowsAreFinite
  <2>5. \A r \in Working(c) :
          /\ r \in Row /\ rows[r].process \in Process
          /\ rows[r].status \in Status \ {"blocker"}
          /\ First(AtProcess(c, rows[r].process)) = r
    <3> SUFFICES ASSUME NEW r \in Working(c)
                 PROVE  /\ r \in Row /\ rows[r].process \in Process
                        /\ rows[r].status \in Status \ {"blocker"}
                        /\ First(AtProcess(c, rows[r].process)) = r
      OBVIOUS
    <3>1. r \in Row /\ ClientOf[r] = c /\ rows[r].process # None
      BY DEF Working, RowsOf
    <3>2. /\ rows[r].process \in Process
          /\ rows[r].status \in Status \ {"blocker"}
      BY <1>1, <2>2, <3>1 DEF TypeInv, Having
    <3>3. AtProcess(c, rows[r].process) = {r}
      BY <3>1 DEF BlockInv, OneRow, AtProcess, RowsOf
    <3>4. First({r}) = r
      <4>1. r <= r
        BY <3>1, AssociationAssumption
      <4>. QED BY <4>1 DEF First
    <3>. QED BY <3>1, <3>2, <3>3, <3>4
  <2>6. /\ DOMAIN send = 1 .. k
        /\ \A i \in 1 .. k :
             send[i] = To(rows[working[i]].process,
                          Marker(working[i], rows[working[i]].status))
    BY <2>1, <2>3, <2>4, <2>5 DEF MarkersOf
  <2>7. \A i \in 1 .. k : send[i] \in Letters /\ IsMarker(send[i].cmd, working[i])
    BY <2>4, <2>5, <2>6
       DEF Letters, To, Marker, Command, Sound, Queued, IsMarker
  <2>8. send \in Seq(Letters)
    <3>1. send = [i \in 1 .. k |-> send[i]]
      BY <2>1, <2>3, <2>4, <2>6 DEF MarkersOf
    <3>2. send \in [1 .. k -> Letters]
      BY <2>7, <3>1
    <3>. QED BY <3>2
  <2>9. \A r \in Working(c) : \E m \in ToSet(send) : IsMarker(m.cmd, r)
    <3> SUFFICES ASSUME NEW r \in Working(c)
                 PROVE  \E m \in ToSet(send) : IsMarker(m.cmd, r)
      OBVIOUS
    <3>1. PICK i \in 1 .. k : working[i] = r
      BY <2>4 DEF ToSet
    <3>. QED BY <2>6, <2>7, <3>1 DEF ToSet
  <2>10. PICK y : y = [x EXCEPT !.at = "mark", !.send = send]
    OBVIOUS
  <2>11. /\ y \in ScriptType /\ y.at = "mark" /\ y.client = c /\ y.plan = x.plan
         /\ y.send = send
    BY <1>2, <1>3, <2>8, <2>10 DEF ScriptType
  <2>12. script' = [script EXCEPT ![s] = y]
    BY <1>1, <1>2, <2>2, <2>10 DEF TypeInv
  <2>13. script'[s] = y
    BY <1>1, <2>12 DEF TypeInv
  <2>14. Free(c, x.plan)'
    BY <1>2, <1>4, <1>5 DEF Free, AtProcess, RowsOf
  <2>15. Working(c)' = Working(c)
    BY <1>5 DEF Working, RowsOf
  <2>16. \A r \in Working(c) : InSend(s, r)'
    BY <2>9, <2>11, <2>13 DEF InSend
  <2>17. Phase(s)'
    <3>1. \A r \in Working(y.client)' : InSend(s, r)'
      BY <2>11, <2>15, <2>16
    <3>2. Free(y.client, y.plan)'
      BY <2>11, <2>14
    <3>. QED BY <1>4, <2>11, <2>13, <3>1, <3>2 DEF Phase
  <2>. QED BY <1>2, <1>4, <1>5, <1>6, <2>11, <2>12, <2>17, ReadBlocks
<1>. QED BY <1>7, <1>8


LEMMA MarkBlocks ==
  ASSUME BlockInv, OneScript, OneScript', NEW s \in Script,
         MarkBlockingStatus(s)
  PROVE  BlockInv'
<1>1. TypeInv
  BY DEF BlockInv
<1>2. PICK x \in ScriptType : x = script[s]
  BY <1>1 DEF TypeInv
<1>3. PICK c : c = x.client
  OBVIOUS
<1>4. /\ x.at = "mark" /\ x.plan # <<>> /\ Free(c, x.plan)
      /\ \A r \in Working(c) : InSend(s, r)
  BY <1>2, <1>3 DEF MarkBlockingStatus, BlockInv, Phase
<1>5. PICK new : new = {step.process : step \in ToSet(x.plan)}
  OBVIOUS
<1>6. rows' = [r \in Row |->
          IF r \in Working(c) /\ rows[r].process \notin new
          THEN [rows[r] EXCEPT !.status = "blocker"] ELSE rows[r]]
  BY <1>2, <1>3, <1>5 DEF MarkBlockingStatus
<1>7. /\ rows' \in [Row -> [process : Process \cup {None}, status : Status]]
      /\ \A r \in Row : /\ rows'[r].process = rows[r].process
                        /\ rows'[r].status = "blocker" =>
                             rows[r].status = "blocker" \/ r \in Working(c)
  BY <1>1, <1>6 DEF TypeInv, Status
<1>8. UNCHANGED <<txQueue, lost, runs>>
  BY DEF MarkBlockingStatus, queueVars, countVars
<1>9. PICK y : y = [x EXCEPT !.at = "associate"]
  OBVIOUS
<1>10. /\ y \in ScriptType /\ y.at = "associate" /\ y.client = c
       /\ y.plan = x.plan /\ y.send = x.send
  BY <1>3, <1>9 DEF ScriptType
<1>11. script' = [script EXCEPT ![s] = y]
  BY <1>1, <1>2, <1>9 DEF MarkBlockingStatus, Goes, TypeInv
<1>12. /\ script' \in [Script -> ScriptType] /\ script'[s] = y /\ Alone(s)
  BY <1>1, <1>10, <1>11, ScriptIs
<1>13. TypeInv' /\ OneRow'
  BY <1>1, <1>7, <1>8, <1>12 DEF TypeInv, OneRow, BlockInv
<1>14. Phase(s)'
  <2>1. Free(y.client, y.plan)'
    BY <1>4, <1>7, <1>10 DEF Free, AtProcess, RowsOf
  <2>. QED BY <1>4, <1>10, <1>12, <2>1 DEF Phase
<1>15. \A r : InSend(s, r) => InSend(s, r)'
  BY <1>2, <1>10, <1>12 DEF InSend
<1>16. \A r : InSend(s, r)' => MarkerUnderWay(r)'
  BY DEF InSend, MarkerUnderWay
<1>17. QueuesKeep /\ LettersKept(s) /\ NewMarked
  BY <1>4, <1>7, <1>8, <1>15, <1>16 DEF QueuesKeep, LettersKept, NewMarked
<1>. QED BY <1>8, <1>12, <1>13, <1>14, <1>17, ScriptBlocks

LEMMA AssociateWorkerBlocks ==
  ASSUME BlockInv, OneScript, OneScript', NEW s \in Script,
         AssociateAvailableWorker(s)
  PROVE  BlockInv'
<1>1. TypeInv
  BY DEF BlockInv
<1>2. PICK x \in ScriptType : x = script[s]
  BY <1>1 DEF TypeInv
<1>3. PICK c, step, left : /\ c = x.client /\ step = Head(x.plan)
                          /\ left = Tail(x.plan)
  OBVIOUS
<1>4. /\ x.at = "associate" /\ x.plan # <<>> /\ Free(c, x.plan)
  BY <1>2, <1>3 DEF AssociateAvailableWorker, BlockInv, Phase
<1>5. /\ step \in Steps /\ left \in Seq(Steps)
      /\ step = x.plan[1] /\ 1 \in DOMAIN x.plan
      /\ \A i \in DOMAIN left : /\ i + 1 \in DOMAIN x.plan /\ i + 1 # 1
                                /\ left[i] = x.plan[i + 1]
      /\ \A i, j \in DOMAIN left : i # j => i + 1 # j + 1
  <2>1. x.plan \in Seq(Steps)
    BY DEF ScriptType
  <2>. QED BY <1>3, <1>4, <2>1, HeadTail
<1>6. /\ step.row \in RowsOf(c) /\ rows[step.row].process = None
      /\ AtProcess(c, step.process) = {} /\ step.process \in Process
  BY <1>4, <1>5 DEF Free, Steps
<1>7. PICK u \in Row, p \in Process : u = step.row /\ p = step.process
  BY <1>6 DEF RowsOf
<1>8. rows' = [rows EXCEPT ![u].process = p]
  BY <1>2, <1>3, <1>7 DEF AssociateAvailableWorker
<1>9. /\ rows' \in [Row -> [process : Process \cup {None}, status : Status]]
      /\ rows'[u].process = p
      /\ \A r \in Row : /\ rows'[r].status = rows[r].status
                        /\ r # u => rows'[r] = rows[r]
  BY <1>1, <1>8 DEF TypeInv
<1>10. UNCHANGED <<txQueue, lost, runs>>
  BY DEF AssociateAvailableWorker, queueVars, countVars
<1>11. PICK y : y = [x EXCEPT !.at = "hold"]
  OBVIOUS
<1>12. /\ y \in ScriptType /\ y.at = "hold" /\ y.client = c
       /\ y.plan = x.plan /\ y.send = x.send
  BY <1>3, <1>11 DEF ScriptType
<1>13. script' = [script EXCEPT ![s] = y]
  BY <1>1, <1>2, <1>11 DEF AssociateAvailableWorker, Goes, TypeInv
<1>14. /\ script' \in [Script -> ScriptType] /\ script'[s] = y /\ Alone(s)
  BY <1>1, <1>12, <1>13, ScriptIs
<1>15. TypeInv'
  BY <1>1, <1>9, <1>10, <1>14 DEF TypeInv
<1>16. OneRow'
  <2>1. \A r \in Row : ClientOf[r] = ClientOf[u] => rows[r].process # p
    BY <1>6, <1>7 DEF AtProcess, RowsOf
  <2>2. OneRow
    BY DEF BlockInv
  <2>. QED BY <1>9, <2>1, <2>2 DEF OneRow
<1>17. Free(c, left)'
  <2>1. ASSUME NEW i \in DOMAIN left
        PROVE  /\ left[i].row \in RowsOf(c) /\ rows'[left[i].row].process = None
               /\ AtProcess(c, left[i].process)' = {}
    <3>1. /\ left[i].row \in RowsOf(c) /\ rows[left[i].row].process = None
          /\ AtProcess(c, left[i].process) = {}
          /\ left[i].row # u /\ left[i].process # p
      <4>1. PICK k \in DOMAIN x.plan : k # 1 /\ left[i] = x.plan[k]
        BY <1>5
      <4>2. /\ left[i].row \in RowsOf(c) /\ rows[left[i].row].process = None
            /\ AtProcess(c, left[i].process) = {}
        BY <1>4, <4>1 DEF Free
      <4>3. left[i].row # x.plan[1].row /\ left[i].process # x.plan[1].process
        BY <1>4, <1>5, <4>1 DEF Free
      <4>. QED BY <1>5, <1>7, <4>2, <4>3
    <3>2. AtProcess(c, left[i].process)' = {}
      BY <1>9, <3>1 DEF AtProcess, RowsOf
    <3>. QED BY <1>9, <3>1, <3>2 DEF RowsOf
  <2>2. \A i, j \in DOMAIN left :
          i # j => left[i].row # left[j].row /\ left[i].process # left[j].process
    BY <1>4, <1>5 DEF Free
  <2>. QED BY <2>1, <2>2 DEF Free
<1>18. Phase(s)'
  <2>1. /\ Free(y.client, Tail(y.plan))' /\ Head(y.plan).row \in RowsOf(y.client)
        /\ rows'[Head(y.plan).row].process = Head(y.plan).process
    BY <1>3, <1>6, <1>7, <1>9, <1>12, <1>17
  <2>. QED BY <1>4, <1>12, <1>14, <2>1 DEF Phase
<1>19. \A r : InSend(s, r) => InSend(s, r)'
  BY <1>2, <1>12, <1>14 DEF InSend
<1>20. \A r : InSend(s, r)' => MarkerUnderWay(r)'
  BY DEF InSend, MarkerUnderWay
<1>21. QueuesKeep /\ LettersKept(s) /\ NewMarked
  BY <1>9, <1>10, <1>19, <1>20 DEF QueuesKeep, LettersKept, NewMarked
<1>. QED BY <1>10, <1>14, <1>15, <1>16, <1>18, <1>21, ScriptBlocks


(* A command that is published is under way.                               *)
LEMMA PublishIs ==
  ASSUME TypeInv, NEW m \in Letters, Publish(m)
  PROVE  /\ txQueue' \in [Process -> Seq(Sound)] /\ lost' \in Nat
         /\ lost' = 0 =>
              /\ lost = 0
              /\ txQueue'[m.process] = Append(txQueue[m.process], m.cmd)
              /\ \A p \in Process : p # m.process => txQueue'[p] = txQueue[p]
<1>1. PICK p \in Process, e \in Sound : p = m.process /\ e = m.cmd /\ e.rest = {}
  BY DEF Letters
<1>2. txQueue[p] \in Seq(Sound)
  BY DEF TypeInv
<1>3. PICK n \in Seq(Sound) : n = Append(txQueue[p], e)
  BY <1>1, <1>2, AppendKeeps
<1>4. CASE txQueue' = [txQueue EXCEPT ![m.process] = Append(@, m.cmd)] /\ lost' = lost
  <2>1. txQueue' = [txQueue EXCEPT ![p] = n]
    BY <1>1, <1>3, <1>4 DEF TypeInv
  <2>. QED BY <1>1, <1>3, <1>4, <2>1 DEF TypeInv
<1>5. CASE lost' = lost + 1 /\ txQueue' = txQueue
  BY <1>5 DEF TypeInv
<1>. QED BY <1>4, <1>5 DEF Publish

LEMMA PublishMarks ==
  ASSUME TypeInv, NEW m \in Letters, Publish(m), lost' = 0
  PROVE  QueuesKeep /\ \A r : IsMarker(m.cmd, r) => MarkerUnderWay(r)'
<1>1. PICK p \in Process, e \in Sound :
        /\ p = m.process /\ e = m.cmd /\ e.rest = {} /\ e.at = "queued"
  BY DEF Letters
<1>2. txQueue[p] \in Seq(Sound)
  BY DEF TypeInv
<1>3. /\ txQueue'[p] = Append(txQueue[p], e)
      /\ \A u \in Process : u # p => txQueue'[u] = txQueue[u]
  BY <1>1, PublishIs
<1>4. \A kind, r : StageOf(Append(txQueue[p], e), kind, r) =
        StageOf(txQueue[p], kind, r) \cup IF OfRow(e, kind, r) THEN {e.at} ELSE {}
  BY <1>1, <1>2, AppendKeeps
<1>5. QueuesKeep
  BY <1>3, <1>4 DEF QueuesKeep
<1>6. ASSUME NEW r, IsMarker(m.cmd, r) PROVE MarkerUnderWay(r)'
  <2>1. OfRow(e, Mark, r)
    BY <1>1, <1>6 DEF IsMarker, OfRow, Mark
  <2>2. "queued" \in StageOf(txQueue'[p], Mark, r)
    BY <1>1, <1>3, <1>4, <2>1
  <2>3. StageOf(txQueue'[p], Mark, r) \cap Alive # {}
    BY <2>2 DEF Alive
  <2>. QED BY <2>3, MarkersByStage DEF MarkerUnderWay, Alive
<1>. QED BY <1>5, <1>6

LEMMA SendGoOnHoldBlocks ==
  ASSUME BlockInv, OneScript, OneScript', NEW s \in Script, SendGoOnHold(s)
  PROVE  BlockInv'
<1>1. TypeInv
  BY DEF BlockInv
<1>2. PICK x \in ScriptType : x = script[s]
  BY <1>1 DEF TypeInv
<1>3. PICK c, step, left : /\ c = x.client /\ step = Head(x.plan)
                          /\ left = Tail(x.plan)
  OBVIOUS
<1>4. /\ x.at = "hold" /\ x.plan # <<>> /\ Free(c, left)
      /\ step.row \in RowsOf(c)
  BY <1>2, <1>3 DEF SendGoOnHold, BlockInv, Phase
<1>5. step \in Steps /\ left \in Seq(Steps)
  <2>1. x.plan \in Seq(Steps)
    BY DEF ScriptType
  <2>. QED BY <1>3, <1>4, <2>1, HeadTail
<1>6. PICK m : m = To(step.process, GoOnHold(step.row))
  OBVIOUS
<1>7. m \in Letters /\ Publish(m)
  <2>1. step.row \in Row /\ step.process \in Process
    BY <1>4, <1>5 DEF Steps, RowsOf
  <2>2. m \in Letters
    BY <1>6, <2>1 DEF To, GoOnHold, Command, Letters, Sound, Queued, Status
  <2>. QED BY <1>2, <1>3, <1>6, <2>2 DEF SendGoOnHold
<1>8. /\ txQueue' \in [Process -> Seq(Sound)] /\ lost' \in Nat
      /\ lost' = 0 => lost = 0 /\ QueuesKeep
  BY <1>1, <1>7, PublishIs, PublishMarks
<1>9. UNCHANGED <<rows, runs>>
  BY DEF SendGoOnHold
<1>10. \E y \in ScriptType :
         /\ script' = [script EXCEPT ![s] = y]
         /\ \/ y = Idle /\ x.send = <<>>
            \/ /\ y.send = x.send /\ y.client = c /\ y.plan = left
               /\ \/ y.at = "markers" /\ left = <<>> /\ x.send # <<>>
                  \/ y.at = "associate" /\ left # <<>>
  <2>1. CASE left = <<>> /\ x.send = <<>>
    <3>1. Idle \in ScriptType
      BY DEF ScriptType, Idle
    <3>2. script' = [script EXCEPT ![s] = Idle]
      BY <1>2, <1>3, <2>1 DEF SendGoOnHold, Ends
    <3>. QED BY <2>1, <3>1, <3>2
  <2>2. CASE ~(left = <<>> /\ x.send = <<>>)
    <3>1. PICK at : at = IF left = <<>> THEN "markers" ELSE "associate"
      OBVIOUS
    <3>2. PICK y : y = [x EXCEPT !.plan = left, !.at = at]
      OBVIOUS
    <3>3. /\ y \in ScriptType /\ y.at = at /\ y.send = x.send /\ y.client = c
          /\ y.plan = left
      BY <1>3, <1>5, <3>1, <3>2 DEF ScriptType
    <3>4. script' = [script EXCEPT ![s].plan = left, ![s].at = at]
      BY <1>2, <1>3, <2>2, <3>1 DEF SendGoOnHold
    <3>5. script' = [script EXCEPT ![s] = y]
      BY <1>1, <1>2, <3>2, <3>4 DEF TypeInv
    <3>. QED BY <2>2, <3>1, <3>3, <3>5
  <2>. QED BY <2>1, <2>2
<1>11. PICK y \in ScriptType :
         /\ script' = [script EXCEPT ![s] = y]
         /\ \/ y = Idle /\ x.send = <<>>
            \/ /\ y.send = x.send /\ y.client = c /\ y.plan = left
               /\ \/ y.at = "markers" /\ left = <<>> /\ x.send # <<>>
                  \/ y.at = "associate" /\ left # <<>>
  BY <1>10
<1>12. /\ script' \in [Script -> ScriptType] /\ script'[s] = y /\ Alone(s)
  BY <1>1, <1>2, <1>4, <1>11, ScriptIs
<1>13. TypeInv' /\ OneRow'
  BY <1>1, <1>8, <1>9, <1>12 DEF TypeInv, OneRow, BlockInv
<1>14. Free(c, left)'
  BY <1>4, <1>9 DEF Free, AtProcess, RowsOf
<1>15. Phase(s)'
  <2>1. CASE y = Idle
    <3>1. y.at = "idle"
      BY <2>1 DEF Idle
    <3>. QED BY <1>12, <2>1, <3>1 DEF Phase
  <2>2. CASE y.at = "markers" /\ y.send # <<>>
    BY <1>12, <2>2 DEF Phase
  <2>3. CASE y.at = "associate" /\ y.plan = left /\ left # <<>> /\ y.client = c
    <3>1. Free(y.client, y.plan)'
      BY <1>14, <2>3
    <3>. QED BY <1>12, <2>3, <3>1 DEF Phase
  <2>. QED BY <1>11, <2>1, <2>2, <2>3
<1>16. LettersKept(s)
  <2>1. CASE x.send = <<>>
    BY <1>2, <2>1 DEF LettersKept, InSend, ToSet
  <2>2. CASE y.send = x.send
    BY <1>2, <1>12, <2>2 DEF LettersKept, InSend, MarkerUnderWay
  <2>. QED BY <1>11, <2>1, <2>2
<1>17. NewMarked
  BY <1>9 DEF NewMarked
<1>. QED BY <1>8, <1>12, <1>13, <1>15, <1>16, <1>17, ScriptBlocks

LEMMA SendNextBlocks ==
  ASSUME BlockInv, OneScript, OneScript', NEW s \in Script, NEW from, NEW next,
         SendNext(s, from, next),
         \/ from \in {"markers", "holds"} /\ next = "idle"
         \/ from = "removed" /\ next = "siblings"
  PROVE  BlockInv'
<1>1. TypeInv
  BY DEF BlockInv
<1>2. PICK x \in ScriptType : x = script[s]
  BY <1>1 DEF TypeInv
<1>3. PICK m, left : m = Head(x.send) /\ left = Tail(x.send)
  OBVIOUS
<1>4. x.at = from /\ x.send # <<>> /\ Publish(m) /\ from # "idle"
  BY <1>2, <1>3 DEF SendNext, BlockInv, Phase
<1>5. /\ m \in Letters /\ left \in Seq(Letters)
      /\ ToSet(x.send) = {m} \cup ToSet(left)
  <2>1. x.send \in Seq(Letters)
    BY DEF ScriptType
  <2>. QED BY <1>3, <1>4, <2>1, HeadTail
<1>6. /\ txQueue' \in [Process -> Seq(Sound)] /\ lost' \in Nat
      /\ lost' = 0 => /\ lost = 0 /\ QueuesKeep
                      /\ \A r : IsMarker(m.cmd, r) => MarkerUnderWay(r)'
  BY <1>1, <1>4, <1>5, PublishIs, PublishMarks
<1>7. UNCHANGED <<rows, runs>>
  BY DEF SendNext
<1>8. PICK y \in ScriptType :
        /\ script' = [script EXCEPT ![s] = y]
        /\ \/ y = Idle /\ left = <<>>
           \/ y.at = from /\ y.send = left /\ left # <<>>
           \/ y.at = "siblings" /\ y.send = left /\ left = <<>>
  <2>1. CASE left # <<>>
    <3>1. PICK y : y = [x EXCEPT !.send = left]
      OBVIOUS
    <3>2. y \in ScriptType /\ y.at = from /\ y.send = left
      BY <1>4, <1>5, <3>1 DEF ScriptType
    <3>3. script' = [script EXCEPT ![s].send = left]
      BY <1>2, <1>3, <2>1 DEF SendNext
    <3>4. script' = [script EXCEPT ![s] = y]
      BY <1>1, <1>2, <3>1, <3>3 DEF TypeInv
    <3>. QED BY <2>1, <3>2, <3>4
  <2>2. CASE left = <<>> /\ next = "idle"
    <3>1. Idle \in ScriptType
      BY DEF ScriptType, Idle
    <3>2. script' = [script EXCEPT ![s] = Idle]
      BY <1>2, <1>3, <2>2 DEF SendNext, Ends
    <3>. QED BY <2>2, <3>1, <3>2
  <2>3. CASE left = <<>> /\ next = "siblings"
    <3>1. PICK y : y = [x EXCEPT !.send = left, !.at = "siblings"]
      OBVIOUS
    <3>2. y \in ScriptType /\ y.at = "siblings" /\ y.send = left
      BY <1>5, <3>1 DEF ScriptType
    <3>3. script' = [script EXCEPT ![s].send = left, ![s].at = "siblings"]
      BY <1>2, <1>3, <2>3 DEF SendNext
    <3>4. script' = [script EXCEPT ![s] = y]
      BY <1>1, <1>2, <3>1, <3>3 DEF TypeInv
    <3>. QED BY <2>3, <3>2, <3>4
  <2>. QED BY <2>1, <2>2, <2>3
<1>9. /\ script' \in [Script -> ScriptType] /\ script'[s] = y /\ Alone(s)
  BY <1>1, <1>2, <1>4, <1>8, ScriptIs
<1>10. TypeInv' /\ OneRow'
  BY <1>1, <1>6, <1>7, <1>9 DEF TypeInv, OneRow, BlockInv
<1>11. Phase(s)'
  <2>1. CASE y = Idle
    <3>1. y.at = "idle"
      BY <2>1 DEF Idle
    <3>. QED BY <1>9, <2>1, <3>1 DEF Phase
  <2>2. CASE y.at \in {"markers", "holds", "removed"} /\ y.send # <<>>
    BY <1>9, <2>2 DEF Phase
  <2>3. CASE y.at = "siblings" /\ y.send = <<>>
    BY <1>9, <2>3 DEF Phase
  <2>. QED BY <1>8, <2>1, <2>2, <2>3
<1>12. y.send = left
  BY <1>8 DEF Idle
<1>13. lost' = 0 => LettersKept(s)
  <2>1. \A r : InSend(s, r) => IsMarker(m.cmd, r) \/ InSend(s, r)'
    BY <1>2, <1>5, <1>9, <1>12 DEF InSend
  <2>2. \A r : InSend(s, r)' => MarkerUnderWay(r)'
    BY DEF InSend, MarkerUnderWay
  <2>. QED BY <1>6, <2>1, <2>2 DEF LettersKept
<1>14. NewMarked
  BY <1>7 DEF NewMarked
<1>. QED BY <1>6, <1>9, <1>10, <1>11, <1>13, <1>14, ScriptBlocks


LEMMA DeassociateBlocks ==
  ASSUME BlockInv, OneScript, OneScript', NEW s \in Script, Deassociate(s)
  PROVE  BlockInv'
<1>1. TypeInv
  BY DEF BlockInv
<1>2. PICK c \in Client, ps \in ProcessLists :
        /\ Having(RowsOf(c), "active") = RowsOf(c)
        /\ script' = [script EXCEPT ![s] =
             [at |-> "ids", client |-> c, send |-> <<>>,
              plan |-> [i \in DOMAIN ps |-> [row |-> 0, process |-> ps[i]]]]]
  BY DEF Deassociate
<1>3. /\ ps \in Seq(Process) /\ Len(ps) \in Nat \ {0} /\ DOMAIN ps = 1 .. Len(ps)
      /\ \A i, j \in DOMAIN ps : i # j => ps[i] # ps[j]
  BY ListsArePlans
<1>4. PICK plan : plan = [i \in DOMAIN ps |-> [row |-> 0, process |-> ps[i]]]
  OBVIOUS
<1>5. /\ plan \in Seq(Steps) /\ plan # <<>>
      /\ \A i, j \in DOMAIN plan : i # j => plan[i].process # plan[j].process
  <2>1. \A i \in 1 .. Len(ps) : ps[i] \in Process
    BY <1>3, ElementOfSeq
  <2>2. plan \in [1 .. Len(ps) -> Steps]
    BY <1>3, <1>4, <2>1 DEF Steps
  <2>3. plan \in Seq(Steps) /\ Len(plan) = Len(ps)
    BY <1>3, <2>2
  <2>. QED BY <1>3, <1>4, <2>3, EmptySeq
<1>6. PICK x : x = [at |-> "ids", client |-> c, send |-> <<>>, plan |-> plan]
  OBVIOUS
<1>7. x \in ScriptType /\ x.at = "ids"
  BY <1>5, <1>6, EmptySeq DEF ScriptType
<1>8. script' = [script EXCEPT ![s] = x]
  BY <1>2, <1>4, <1>6
<1>9. /\ UNCHANGED <<rows, txQueue, lost>> /\ runs' = runs + 1
      /\ script[s].at = "idle"
  BY DEF Deassociate, queueVars
<1>10. script'[s] = x
  BY <1>1, <1>8 DEF TypeInv
<1>11. Having(RowsOf(x.client), "blocker")' = {}
  BY <1>2, <1>6, <1>9 DEF Having, RowsOf
<1>12. Phase(s)'
  BY <1>5, <1>6, <1>10, <1>11 DEF Phase
<1>13. ToSet(script[s].send) \subseteq ToSet(x.send)
  BY <1>6, <1>9 DEF BlockInv, Phase, Idle
<1>. QED BY <1>7, <1>8, <1>9, <1>12, <1>13, ReadBlocks

(* As many ids as processes, and every one has its marker.                 *)
IdsOf(c, k, ps, id, ids) ==
  /\ k \in Nat /\ ps \in [1 .. k -> Process]
  /\ \A i, j \in 1 .. k : i # j => ps[i] # ps[j]
  /\ \A i \in 1 .. k : AtProcess(c, ps[i]) # {}
  /\ id = [i \in 1 .. k |-> First(AtProcess(c, ps[i]))]
  /\ ids = ById({id[i] : i \in 1 .. k})

IdsCover(c, k, id, ids) ==
  /\ id \in [1 .. k -> RowsOf(c)] /\ ids \in [1 .. k -> RowsOf(c)]
  /\ \A i \in 1 .. k : \E j \in 1 .. k : ids[j] = id[i]

LEMMA IdsOfProcesses ==
  ASSUME TypeInv, NEW c, NEW k, NEW ps, NEW id, NEW ids, IdsOf(c, k, ps, id, ids)
  PROVE  IdsCover(c, k, id, ids)
<1>. USE DEF IdsOf
<1>1. ASSUME NEW i \in 1 .. k
      PROVE  id[i] \in AtProcess(c, ps[i])
  <2>1. AtProcess(c, ps[i]) \in SUBSET Row /\ AtProcess(c, ps[i]) # {}
    BY DEF AtProcess, RowsOf
  <2>2. \E r \in AtProcess(c, ps[i]) : \A q \in AtProcess(c, ps[i]) : r <= q
    BY <2>1, ByIdOrders, RowsAreFinite
  <2>. QED BY <2>2 DEF First
<1>2. \A i \in 1 .. k : /\ id[i] \in RowsOf(c) /\ id[i] \in Row
                        /\ rows[id[i]].process = ps[i]
  BY <1>1 DEF AtProcess, RowsOf
<1>3. PICK R : R = {id[i] : i \in 1 .. k}
  OBVIOUS
<1>4. R \in SUBSET Row /\ R \subseteq RowsOf(c) /\ R \subseteq Nat /\ IsFiniteSet(R)
  <2>1. R \in SUBSET Row /\ R \subseteq RowsOf(c)
    BY <1>2, <1>3
  <2>. QED BY <2>1, RowsAreFinite
<1>5. Cardinality(R) = k
  <2>1. id \in Bijection(1 .. k, R)
    <3>1. id \in [1 .. k -> R]
      BY <1>3
    <3>2. \A i, j \in 1 .. k : id[i] = id[j] => i = j
      BY <1>2
    <3>3. \A r \in R : \E i \in 1 .. k : id[i] = r
      BY <1>3
    <3>. QED BY <3>1, <3>2, <3>3 DEF Bijection, Injection, IsInjective, Surjection
  <2>2. ExistsBijection(1 .. k, R)
    BY <2>1 DEF ExistsBijection
  <2>3. IsFiniteSet(1 .. k) /\ Cardinality(1 .. k) = k
    BY FS_Interval
  <2>. QED BY <2>2, <2>3, FS_Bijection
<1>6. ids \in [1 .. k -> R] /\ ToSet(ids) = R
  <2>1. ById(R) \in [1 .. Cardinality(R) -> R] /\ ToSet(ById(R)) = R
    BY <1>4, ByIdOrders
  <2>2. ids = ById(R)
    BY <1>3
  <2>. QED BY <1>5, <2>1, <2>2
<1>8. ids \in [1 .. k -> RowsOf(c)]
  BY <1>4, <1>6
<1>9. id \in [1 .. k -> RowsOf(c)]
  BY <1>2
<1>7. ASSUME NEW i \in 1 .. k PROVE \E j \in 1 .. k : ids[j] = id[i]
  <2>1. id[i] \in ToSet(ids)
    BY <1>3, <1>6
  <2>. QED BY <1>6, <2>1 DEF ToSet
<1>. QED BY <1>7, <1>8, <1>9 DEF IdsCover


LEMMA IdsBlocks ==
  ASSUME BlockInv, OneScript, OneScript', NEW s \in Script, GetAssociationIds(s)
  PROVE  BlockInv'
<1>1. TypeInv
  BY DEF BlockInv
<1>2. PICK x \in ScriptType : x = script[s]
  BY <1>1 DEF TypeInv
<1>3. PICK c : c = x.client
  OBVIOUS
<1>4. /\ x.at = "ids" /\ x.plan # <<>> /\ x.send = <<>>
      /\ Having(RowsOf(c), "blocker") = {}
      /\ \A i, j \in DOMAIN x.plan : i # j => x.plan[i].process # x.plan[j].process
  BY <1>2, <1>3 DEF GetAssociationIds, BlockInv, Phase
<1>5. UNCHANGED <<rows, txQueue, lost, runs>>
  BY DEF GetAssociationIds, queueVars, countVars
<1>6. ToSet(x.send) = {}
  BY <1>4 DEF ToSet
<1>7. CASE Ends(s)
  <2>1. PICK y : y = Idle
    OBVIOUS
  <2>2. y \in ScriptType /\ y.at = "idle"
    BY <2>1 DEF ScriptType, Idle
  <2>3. script' = [script EXCEPT ![s] = y]
    BY <1>7, <2>1 DEF Ends
  <2>4. script'[s] = y
    BY <1>1, <2>3 DEF TypeInv
  <2>5. Phase(s)'
    BY <2>1, <2>2, <2>4 DEF Phase
  <2>. QED BY <1>2, <1>4, <1>5, <1>6, <2>2, <2>3, <2>5, ReadBlocks
<1>8. CASE ~Ends(s)
  <2>1. PICK k \in Nat \ {0} :
          /\ DOMAIN x.plan = 1 .. k /\ \A i \in 1 .. k : x.plan[i] \in Steps
    <3>1. x.plan \in Seq(Steps)
      BY DEF ScriptType
    <3>. QED BY <1>4, <3>1, LenProperties, ElementOfSeq, EmptySeq
  <2> DEFINE thePs == [i \in DOMAIN script[s].plan |-> script[s].plan[i].process]
             theC == script[s].client
             theOf == [p \in ToSet(thePs) |-> First(AtProcess(theC, p))]
             theIds == ById({theOf[p] : p \in ToSet(thePs)})
             thePlan == [i \in DOMAIN thePs |->
                           [row |-> theOf[thePs[i]], process |-> thePs[i]]]
             theSend == [i \in DOMAIN thePs |->
                 To(thePs[i], Marker(theIds[i], rows[theIds[i]].status))]
  <2>22. /\ ~(\E p \in ToSet(thePs) : AtProcess(theC, p) = {})
         /\ script' = [script EXCEPT ![s].at = "remove", ![s].plan = thePlan,
                                     ![s].send = theSend]
    BY <1>8 DEF GetAssociationIds
  <2>2. PICK ps : ps = thePs
    OBVIOUS
  <2>5. PICK of : of = theOf
    OBVIOUS
  <2>6. PICK ids : ids = theIds
    OBVIOUS
  <2>7. PICK plan : plan = thePlan
    OBVIOUS
  <2>8. PICK send : send = theSend
    OBVIOUS
  <2>3. /\ ps \in [1 .. k -> Process] /\ DOMAIN ps = 1 .. k
        /\ \A i, j \in 1 .. k : i # j => ps[i] # ps[j]
    BY <1>2, <1>4, <2>1, <2>2 DEF Steps
  <2>. HIDE DEF thePs
  <2>25. of = [p \in ToSet(ps) |-> First(AtProcess(c, p))]
    BY <1>2, <1>3, <2>2, <2>5
  <2>. HIDE DEF theOf
  <2>26. ids = ById({of[p] : p \in ToSet(ps)})
    BY <2>2, <2>5, <2>6
  <2>. HIDE DEF theIds
  <2>27. plan = [i \in DOMAIN ps |-> [row |-> of[ps[i]], process |-> ps[i]]]
    BY <2>2, <2>5, <2>7
  <2>28. send = [i \in DOMAIN ps |->
                   To(ps[i], Marker(ids[i], rows[ids[i]].status))]
    BY <2>2, <2>6, <2>8
  <2>. HIDE DEF thePlan, theSend
  <2>9. /\ ~(\E p \in ToSet(ps) : AtProcess(c, p) = {})
        /\ script' = [script EXCEPT ![s].at = "remove", ![s].plan = plan,
                                    ![s].send = send]
    BY <1>2, <1>3, <2>2, <2>7, <2>8, <2>22
  <2>4. ToSet(ps) = {ps[i] : i \in 1 .. k}
    BY <2>3 DEF ToSet
  <2>11. PICK id : id = [i \in 1 .. k |-> First(AtProcess(c, ps[i]))]
    OBVIOUS
  <2>12. \A i \in 1 .. k : of[ps[i]] = id[i]
    BY <2>4, <2>11, <2>25
  <2>13. ids = ById({id[i] : i \in 1 .. k})
    <3>1. {of[p] : p \in ToSet(ps)} = {id[i] : i \in 1 .. k}
      BY <2>4, <2>12
    <3>. QED BY <2>26, <3>1
  <2>14. \A i \in 1 .. k : AtProcess(c, ps[i]) # {}
    BY <2>4, <2>9
  <2>15. /\ id \in [1 .. k -> RowsOf(c)] /\ ids \in [1 .. k -> RowsOf(c)]
         /\ \A i \in 1 .. k : \E j \in 1 .. k : ids[j] = id[i]
    <3>1. IdsOf(c, k, ps, id, ids)
      BY <2>1, <2>3, <2>11, <2>13, <2>14 DEF IdsOf
    <3>2. IdsCover(c, k, id, ids)
      BY <1>1, <3>1, IdsOfProcesses
    <3>. QED BY <3>2 DEF IdsCover
  <2>16. plan \in Seq(Steps) /\ \A i \in DOMAIN plan : i \in 1 .. k /\ plan[i].row = id[i]
    <3>1. plan = [i \in 1 .. k |-> [row |-> id[i], process |-> ps[i]]]
      BY <2>3, <2>12, <2>27
    <3>2. plan \in [1 .. k -> Steps]
      BY <2>3, <2>15, <3>1 DEF Steps, RowsOf
    <3>. QED BY <3>1, <3>2
  <2>17. send \in Seq(Letters) /\ DOMAIN send = 1 .. k
         /\ \A j \in 1 .. k : IsMarker(send[j].cmd, ids[j])
    <3>1. ASSUME NEW r \in RowsOf(c)
          PROVE  r \in Row /\ rows[r].status \in Status \ {"blocker"}
      BY <1>1, <1>4 DEF RowsOf, Having, TypeInv
    <3>2. \A j \in 1 .. k : send[j] \in Letters /\ IsMarker(send[j].cmd, ids[j])
      <4> SUFFICES ASSUME NEW j \in 1 .. k
                   PROVE  send[j] \in Letters /\ IsMarker(send[j].cmd, ids[j])
        OBVIOUS
      <4>1. send[j] = To(ps[j], Marker(ids[j], rows[ids[j]].status))
        BY <2>3, <2>28
      <4>2. /\ ps[j] \in Process /\ ids[j] \in Row
            /\ rows[ids[j]].status \in Status \ {"blocker"}
        BY <2>3, <2>15, <3>1
      <4>. QED BY <4>1, <4>2
               DEF Letters, To, Marker, Command, Sound, Queued, IsMarker
    <3>3. send \in [1 .. k -> Letters]
      BY <2>3, <2>28, <3>2
    <3>. QED BY <3>2, <3>3
  <2>18. \A u \in ToSet(plan) : \E m \in ToSet(send) : IsMarker(m.cmd, u.row)
    <3> SUFFICES ASSUME NEW u \in ToSet(plan)
                 PROVE  \E m \in ToSet(send) : IsMarker(m.cmd, u.row)
      OBVIOUS
    <3>1. PICK i \in 1 .. k : u.row = id[i]
      BY <2>16 DEF ToSet
    <3>2. PICK j \in 1 .. k : ids[j] = id[i]
      BY <2>15
    <3>. QED BY <2>17, <3>1, <3>2 DEF ToSet
  <2>19. send # <<>>
    BY <2>1, <2>17
  <2>20. PICK y : y = [x EXCEPT !.at = "remove", !.plan = plan, !.send = send]
    OBVIOUS
  <2>21. /\ y \in ScriptType /\ y.at = "remove" /\ y.plan = plan /\ y.send = send
    BY <2>16, <2>17, <2>20 DEF ScriptType
  <2>29. script' = [script EXCEPT ![s] = y]
    BY <1>1, <1>2, <2>9, <2>20 DEF TypeInv
  <2>23. script'[s] = y
    BY <1>1, <2>29 DEF TypeInv
  <2>24. Phase(s)'
    <3>1. \A u \in ToSet(y.plan) : InSend(s, u.row)'
      BY <2>18, <2>21, <2>23 DEF InSend
    <3>. QED BY <2>19, <2>21, <2>23, <3>1 DEF Phase
  <2>. QED BY <1>2, <1>4, <1>5, <1>6, <2>21, <2>24, <2>29, ReadBlocks
<1>. QED BY <1>7, <1>8

LEMMA RemoveBlocks ==
  ASSUME BlockInv, OneScript, OneScript', NEW s \in Script,
         RemoveProcessWorkerAssociation(s)
  PROVE  BlockInv'
<1>1. TypeInv
  BY DEF BlockInv
<1>2. PICK x \in ScriptType : x = script[s]
  BY <1>1 DEF TypeInv
<1>3. /\ x.at = "remove" /\ x.send # <<>>
      /\ \A u \in ToSet(x.plan) : InSend(s, u.row)
  BY <1>2 DEF RemoveProcessWorkerAssociation, BlockInv, Phase
<1>4. PICK ids : ids = {step.row : step \in ToSet(x.plan)}
  OBVIOUS
<1>5. rows' = [r \in Row |-> IF r \in ids
                             THEN [process |-> None, status |-> "blocker"]
                             ELSE rows[r]]
  BY <1>2, <1>4 DEF RemoveProcessWorkerAssociation
<1>6. /\ rows' \in [Row -> [process : Process \cup {None}, status : Status]]
      /\ \A r \in Row : \/ r \in ids /\ rows'[r].process = None
                        \/ rows'[r] = rows[r]
  BY <1>1, <1>5 DEF TypeInv, Status
<1>7. UNCHANGED <<txQueue, lost, runs>>
  BY DEF RemoveProcessWorkerAssociation, queueVars, countVars
<1>8. PICK y : y = [x EXCEPT !.at = "removed", !.plan = <<>>]
  OBVIOUS
<1>9. y \in ScriptType /\ y.at = "removed" /\ y.send = x.send
  BY <1>8, EmptySeq DEF ScriptType
<1>10. script' = [script EXCEPT ![s] = y]
  BY <1>1, <1>2, <1>8 DEF RemoveProcessWorkerAssociation, TypeInv
<1>11. script' \in [Script -> ScriptType] /\ script'[s] = y /\ Alone(s)
  BY <1>1, <1>9, <1>10, ScriptIs
<1>12. TypeInv' /\ OneRow'
  <2>1. TypeInv'
    BY <1>1, <1>6, <1>7, <1>11 DEF TypeInv
  <2>2. OneRow'
    BY <1>6 DEF OneRow, BlockInv
  <2>. QED BY <2>1, <2>2
<1>13. Phase(s)'
  BY <1>3, <1>9, <1>11 DEF Phase
<1>14. \A r : InSend(s, r) => InSend(s, r)'
  BY <1>2, <1>9, <1>11 DEF InSend
<1>15. \A r : InSend(s, r)' => MarkerUnderWay(r)'
  BY DEF InSend, MarkerUnderWay
<1>16. \A r \in ids : InSend(s, r)
  BY <1>3, <1>4
<1>17. QueuesKeep /\ LettersKept(s) /\ NewMarked
  BY <1>6, <1>7, <1>14, <1>15, <1>16 DEF QueuesKeep, LettersKept, NewMarked
<1>. QED BY <1>7, <1>11, <1>12, <1>13, <1>17, ScriptBlocks

LEMMA SiblingsBlocks ==
  ASSUME BlockInv, OneScript, OneScript', NEW s \in Script, GetSiblings(s)
  PROVE  BlockInv'
<1>1. TypeInv
  BY DEF BlockInv
<1>2. PICK x \in ScriptType : x = script[s]
  BY <1>1 DEF TypeInv
<1>3. x.at = "siblings" /\ x.send = <<>>
  BY <1>2 DEF GetSiblings, BlockInv, Phase
<1>4. UNCHANGED <<rows, txQueue, lost, runs>>
  BY DEF GetSiblings, queueVars, countVars
<1>5. ToSet(x.send) = {}
  BY <1>3 DEF ToSet
<1>6. CASE Ends(s)
  <2>1. PICK y : y = Idle
    OBVIOUS
  <2>2. y \in ScriptType /\ y.at = "idle"
    BY <2>1 DEF ScriptType, Idle
  <2>3. script' = [script EXCEPT ![s] = y]
    BY <1>6, <2>1 DEF Ends
  <2>4. script'[s] = y
    BY <1>1, <2>3 DEF TypeInv
  <2>5. Phase(s)'
    BY <2>1, <2>2, <2>4 DEF Phase
  <2>. QED BY <1>2, <1>3, <1>4, <1>5, <2>2, <2>3, <2>5, ReadBlocks
<1>7. CASE ~Ends(s)
  <2>1. PICK working : working = ById(Working(x.client))
    OBVIOUS
  <2>2. PICK send : send = [i \in DOMAIN working |->
                              To(rows[working[i]].process, GoOnHold(working[i]))]
    OBVIOUS
  <2>3. /\ working # <<>>
        /\ script' = [script EXCEPT ![s].at = "holds", ![s].send = send]
    BY <1>2, <1>7, <2>1, <2>2 DEF GetSiblings
  <2>4. PICK k \in Nat : working \in [1 .. k -> Working(x.client)]
    <3>1. Working(x.client) \in SUBSET Row
      BY DEF Working, RowsOf
    <3>. QED BY <2>1, <3>1, ByIdOrders, RowsAreFinite
  <2>5. send \in Seq(Letters) /\ send # <<>>
    <3>1. \A i \in 1 .. k : send[i] \in Letters
      <4> SUFFICES ASSUME NEW i \in 1 .. k PROVE send[i] \in Letters
        OBVIOUS
      <4>1. send[i] = To(rows[working[i]].process, GoOnHold(working[i]))
        BY <2>2, <2>4
      <4>2. working[i] \in Row /\ rows[working[i]].process \in Process
        BY <1>1, <2>4 DEF Working, RowsOf, TypeInv
      <4>. QED BY <4>1, <4>2
               DEF Letters, To, GoOnHold, Command, Sound, Queued, Status
    <3>2. send \in [1 .. k -> Letters]
      BY <2>2, <2>4, <3>1
    <3>3. send \in Seq(Letters) /\ Len(send) = k
      BY <3>2
    <3>4. k # 0
      <4>1. working \in Seq(Working(x.client)) /\ Len(working) = k
        BY <2>4
      <4>. QED BY <2>3, <4>1, EmptySeq
    <3>. QED BY <3>3, <3>4, EmptySeq
  <2>6. PICK y : y = [x EXCEPT !.at = "holds", !.send = send]
    OBVIOUS
  <2>7. y \in ScriptType /\ y.at = "holds" /\ y.send = send
    BY <2>5, <2>6 DEF ScriptType
  <2>8. script' = [script EXCEPT ![s] = y]
    BY <1>1, <1>2, <2>3, <2>6 DEF TypeInv
  <2>9. script'[s] = y
    BY <1>1, <2>8 DEF TypeInv
  <2>10. Phase(s)'
    BY <2>5, <2>7, <2>9 DEF Phase
  <2>. QED BY <1>2, <1>3, <1>4, <1>5, <2>7, <2>8, <2>10, ReadBlocks
<1>. QED BY <1>6, <1>7


LEMMA BlockInit ==
  Init => BlockInv
<1> SUFFICES ASSUME Init PROVE BlockInv
  OBVIOUS
<1>1. TypeInv
  <2>1. rows \in [Row -> [process : Process \cup {None}, status : Status]]
    BY AssociationAssumption DEF Init, Status
  <2>2. txQueue \in [Process -> Seq(Sound)]
    BY EmptySeq DEF Init
  <2>3. script \in [Script -> ScriptType]
    <3>1. Idle \in ScriptType
      BY EmptySeq DEF Idle, ScriptType
    <3>. QED BY <3>1 DEF Init
  <2>. QED BY <2>1, <2>2, <2>3 DEF Init, TypeInv
<1>2. OneRow
  BY AssociationAssumption DEF Init, OneRow
<1>3. ASSUME NEW s \in Script PROVE Phase(s)
  <2>1. script[s] = Idle /\ Idle.at = "idle"
    BY DEF Init, Idle
  <2>. QED BY <2>1 DEF Phase
<1>4. BlockerHasMarker
  BY DEF Init, BlockerHasMarker, Having
<1>. QED BY <1>1, <1>2, <1>3, <1>4 DEF BlockInv

LEMMA BlockStep ==
  ASSUME BlockInv, OneScript, OneScript', [Next]_vars
  PROVE  BlockInv'
<1>1. ASSUME NEW s \in Script,
             Associate(s) \/ Deassociate(s) \/ ScriptStep(s) \/ ScriptDies(s)
      PROVE  BlockInv'
  <2>1. SendBlockingMessage(s) => BlockInv'
    BY SendNextBlocks DEF SendBlockingMessage
  <2>2. SendCommandMsg(s) => BlockInv'
    BY SendNextBlocks DEF SendCommandMsg
  <2>3. SendHoldToSiblings(s) => BlockInv'
    BY SendNextBlocks DEF SendHoldToSiblings
  <2>. QED BY <1>1, <2>1, <2>2, <2>3, AssociateBlocks, DeassociateBlocks,
              DiesBlocks, ValidateBlocks, MarkBlocks, AssociateWorkerBlocks,
              SendGoOnHoldBlocks, IdsBlocks, RemoveBlocks, SiblingsBlocks
           DEF ScriptStep
<1>2. ASSUME NEW p \in Process,
             \/ Deliver(p) \/ ReleaseStep(p) \/ ReleaseFails(p)
             \/ InitStep(p) \/ Stop(p) \/ Crash(p)
      PROVE  BlockInv'
  BY <1>2, ProcessBlocks
<1>3. ASSUME NEW p \in Process, NEW i \in DOMAIN txQueue[p],
             TxStep(p, i) \/ CommandFails(p, i)
      PROVE  BlockInv'
  BY <1>3, TxBlocks
<1>4. CASE UNCHANGED vars
  <2>1. UNCHANGED <<rows, script, txQueue, runs, lost>>
    BY <1>4 DEF vars, queueVars, countVars
  <2>2. Settling
    BY <2>1, SettlingKept DEF BlockInv
  <2>. QED BY <2>1, <2>2, RowsBlock
<1>. QED BY <1>1, <1>2, <1>3, <1>4 DEF Next

(* As long as scripts run one at a time (they are started by hand), and no *)
(* message or script is lost, whoever blocks the others of its client has  *)
(* a marker under way that ends it, whatever the clients, the processes,   *)
(* the number of runs, crashes and redeliveries.                           *)
THEOREM BlockersHaveMarkers ==
  ASSUME NEW s0, Script = {s0}
  PROVE  Spec => []BlockerHasMarker
<1>1. OneScript /\ OneScript'
  BY DEF OneScript
<1>2. BlockInv /\ [Next]_vars => BlockInv'
  BY <1>1, BlockStep
<1>3. BlockInv => BlockerHasMarker
  BY DEF BlockInv
<1>. QED BY <1>2, <1>3, BlockInit, PTL DEF Spec


-----------------------------------------------------------------------------
(* Held processes do not consume.  What is at one process is of one row.   *)
LEMMA OneAtProcess ==
  ASSUME OneRow, OneClient, NEW r \in Row, NEW q \in Row, ~Quiet(r), ~Quiet(q),
         rows[r].process = rows[q].process, rows[r].process # None
  PROVE  r = q
BY DEF OneRow, OneClient

(* What processes do leaves rows alone that nothing has been heard of.     *)
QuietKept ==
  \A r \in Row : /\ rows'[r].process = rows[r].process
                 /\ Quiet(r) => Quiet(r)'
                 /\ Quiet(r) /\ rows[r].status = "active" =>
                      rows'[r].status = "active"

LEMMA ProcessTells ==
  ASSUME RunInv, TypeInv, script' = script, runs' = runs, QuietKept
  PROVE  NotYet' /\ OneClient'
<1>1. OneClient'
  <2>1. PICK c \in Client \cup {None} :
          /\ \A r \in Row : ClientOf[r] # c => Quiet(r)
          /\ \A s \in Script : script[s].at # "idle" => script[s].client = c
    BY DEF RunInv, OneClient
  <2>2. \A r \in Row : ClientOf[r] # c => Quiet(r)'
    BY <2>1 DEF QuietKept
  <2>. QED BY <2>1, <2>2 DEF OneClient
<1>2. ASSUME NEW s \in Script PROVE Told(s)'
  <2>1. PICK x \in ScriptType : x = script[s] /\ x = script'[s]
    BY DEF TypeInv
  <2>2. Told(s)
    BY DEF RunInv, NotYet
  <2>3. \A m \in ToSet(x.send) : m.cmd.row \in Row
    <3>1. x.send \in Seq(Letters)
      BY DEF ScriptType
    <3>2. \A i \in DOMAIN x.send : x.send[i] \in Letters
      BY <3>1, LenProperties, ElementOfSeq
    <3>. QED BY <3>2 DEF ToSet, Letters, Sound, Queued
  <2>4. x.at \in {"validate", "mark", "ids", "remove", "removed",
                  "siblings"} => \A r \in Row : Quiet(r)'
    BY <2>1, <2>2 DEF Told, QuietKept
  <2>5. x.at \in {"associate", "hold"} =>
          \A u \in ToSet(x.plan) : u.row \in Row /\ Quiet(u.row)'
    BY <2>1, <2>2 DEF Told, QuietKept
  <2>6. x.at = "holds" => \A m \in ToSet(x.send) :
          Quiet(m.cmd.row)' /\ rows'[m.cmd.row].process = m.process
    BY <2>1, <2>2, <2>3 DEF Told, QuietKept
  <2>. QED BY <2>1, <2>2, <2>4, <2>5, <2>6 DEF Told
<1>3. runs' = 0 => /\ \A s \in Script : script'[s].at = "idle"
                   /\ \A r \in Row : Quiet(r)' /\ rows'[r].status = "active"
  BY DEF RunInv, NotYet, QuietKept
<1>. QED BY <1>1, <1>2, <1>3 DEF NotYet

(* A command for a row that nothing has been heard of.                     *)
LEMMA PublishHolds ==
  ASSUME RunInv, TypeInv, NEW m \in Letters, Publish(m), lost' = 0,
         UNCHANGED <<rows, cmdQueue, release, proc, consuming>>,
         m.cmd.original = "active",
         m.cmd.kind = Hold =>
           Quiet(m.cmd.row) /\ rows[m.cmd.row].process = m.process
  PROVE  /\ HoldType' /\ Commands' /\ Held' /\ Released'
         /\ \A r \in Row : Quiet(r) /\ (m.cmd.kind = Hold => r # m.cmd.row) =>
              Quiet(r)'
<1>1. PICK p \in Process, e \in Sound :
        /\ p = m.process /\ e = m.cmd /\ e.rest = {} /\ e.at = "queued"
        /\ e.row \in Row
  BY DEF Letters, Sound, Queued
<1>2. txQueue[p] \in Seq(Sound)
  BY DEF TypeInv
<1>3. /\ txQueue'[p] = Append(txQueue[p], e)
      /\ \A u \in Process : u # p => txQueue'[u] = txQueue[u]
  BY <1>1, PublishIs
<1>4. Commands
  BY DEF RunInv
<1>5. e.kind = Hold => StageOf(txQueue[p], Hold, e.row) = {}
  BY <1>1 DEF Quiet, Stage
<1>6. /\ ToSet(txQueue'[p]) = ToSet(txQueue[p]) \cup {e}
      /\ Rests(txQueue'[p]) = Rests(txQueue[p])
      /\ Once(txQueue'[p])
      /\ \A kind, r : StageOf(txQueue'[p], kind, r) =
           StageOf(txQueue[p], kind, r)
             \cup IF OfRow(e, kind, r) THEN {e.at} ELSE {}
  BY <1>1, <1>2, <1>3, <1>4, <1>5, AppendKeeps DEF Commands
<1>7. \A r \in Row, u \in Process :
        \/ StageOf(txQueue'[u], Hold, r) = StageOf(txQueue[u], Hold, r)
        \/ /\ u = p /\ e.kind = Hold /\ r = e.row
           /\ StageOf(txQueue'[u], Hold, r) = {"queued"}
  <2> SUFFICES ASSUME NEW r \in Row, NEW u \in Process
               PROVE  \/ StageOf(txQueue'[u], Hold, r) = StageOf(txQueue[u], Hold, r)
                      \/ /\ u = p /\ e.kind = Hold /\ r = e.row
                         /\ StageOf(txQueue'[u], Hold, r) = {"queued"}
    OBVIOUS
  <2>1. CASE u # p
    BY <1>3, <2>1
  <2>2. CASE u = p /\ OfRow(e, Hold, r)
    BY <1>1, <1>5, <1>6, <2>2 DEF OfRow
  <2>3. CASE u = p /\ ~OfRow(e, Hold, r)
    BY <1>6, <2>3
  <2>. QED BY <2>1, <2>2, <2>3
<1>8. HoldType'
  BY DEF RunInv, HoldType
<1>9. ASSUME NEW u \in Process
      PROVE  /\ Once(txQueue'[u])
             /\ \A cmd \in ToSet(txQueue'[u]) : Ready(cmd)
             /\ Rests(txQueue'[u]) = Rests(txQueue[u])
  <2>1. /\ Once(txQueue[u])
        /\ \A cmd \in ToSet(txQueue[u]) : Ready(cmd)
    BY <1>4 DEF Commands
  <2>2. CASE u # p
    BY <1>3, <2>1, <2>2
  <2>3. CASE u = p
    <3>1. Ready(e)
      BY <1>1 DEF Ready
    <3>. QED BY <1>6, <2>1, <2>3, <3>1
  <2>. QED BY <2>2, <2>3
<1>10. Commands'
  <2>1. \A u \in Process, r \in Row :
          StageOf(txQueue'[u], Hold, r) # {} => rows[r].process = u
    BY <1>1, <1>4, <1>7 DEF Commands, Stage
  <2>2. \A u \in Process : proc[u].at # "up" => \A r \in Row :
          StageOf(txQueue'[u], Hold, r) \subseteq {"queued"}
    BY <1>4, <1>7 DEF Commands, Stage
  <2>. QED BY <1>4, <1>9, <2>1, <2>2 DEF Commands, Stage, RestsAt
<1>11. Held'
  <2>1. Held
    BY DEF RunInv
  <2>2. \A r \in Row : rows[r].status = "hold" => ~(e.kind = Hold /\ r = e.row)
    BY <1>1 DEF Quiet
  <2>. QED BY <1>7, <2>1, <2>2 DEF Held, Stage
<1>12. Released'
  <2>1. Released
    BY DEF RunInv
  <2>2. ASSUME NEW u \in Process, release[u] # "none"
        PROVE  /\ Head(cmdQueue[u]) \in Row
               /\ ~(e.kind = Hold /\ Head(cmdQueue[u]) = e.row)
    <3>1. cmdQueue[u] \in Seq(Row) /\ cmdQueue[u] # <<>>
      BY <2>1, <2>2 DEF Released, RunInv, HoldType
    <3>2. Head(cmdQueue[u]) \in Row /\ Head(cmdQueue[u]) \in ToSet(cmdQueue[u])
      BY <3>1, HeadTail
    <3>. QED BY <1>1, <3>2 DEF Quiet
  <2>. QED BY <1>7, <2>1, <2>2 DEF Released, Stage, HeldAt
<1>13. ASSUME NEW r \in Row, Quiet(r), m.cmd.kind = Hold => r # m.cmd.row
       PROVE  Quiet(r)'
  BY <1>1, <1>7, <1>9, <1>13 DEF Quiet, Stage, RestsAt
<1>. QED BY <1>8, <1>10, <1>11, <1>12, <1>13

(* Rows change that nothing has been heard of.                             *)
LEMMA RowsHold ==
  ASSUME RunInv, TypeInv,
         UNCHANGED <<txQueue, cmdQueue, release, proc, consuming>>,
         \A r \in Row : rows'[r] = rows[r]
                        \/ (Quiet(r) /\ rows'[r].status # "hold")
  PROVE  /\ HoldType' /\ Commands' /\ Held' /\ Released'
         /\ \A r \in Row : Quiet(r) => Quiet(r)'
<1>1. HoldType'
  BY DEF RunInv, HoldType
<1>2. Commands'
  <2>1. Commands
    BY DEF RunInv
  <2>2. \A p \in Process : \A r \in ToSet(cmdQueue[p]) : r \in Row
    BY DEF RunInv, HoldType, ToSet
  <2>3. ASSUME NEW p \in Process, NEW x \in RestsAt(p) PROVE x.row \in Row
    <3>1. txQueue[p] \in Seq(Sound)
      BY DEF TypeInv
    <3>2. \A i \in DOMAIN txQueue[p] : txQueue[p][i] \in Sound
      BY <3>1, LenProperties, ElementOfSeq
    <3>. QED BY <3>2 DEF RestsAt, Rests, Sound, Queued
  <2>4. \A p \in Process, r \in Row :
          Stage(Hold, p, r) # {} => rows'[r].process = p
    BY <2>1 DEF Commands, Quiet
  <2>5. \A p \in Process : \A r \in ToSet(cmdQueue[p]) : rows'[r].process = p
    BY <2>1, <2>2 DEF Commands, Quiet
  <2>6. \A p \in Process : \A x \in RestsAt(p) : rows'[x.row].process = x.process
    BY <2>1, <2>3 DEF Commands, Quiet
  <2>. QED BY <2>1, <2>4, <2>5, <2>6 DEF Commands, Stage, RestsAt
<1>3. \A r \in Row : rows'[r].status = "hold" => rows'[r] = rows[r]
  OBVIOUS
<1>4. Held'
  BY <1>3 DEF RunInv, Held, Stage
<1>5. Released'
  BY <1>3 DEF RunInv, Released, Stage, HeldAt
<1>6. \A r \in Row : Quiet(r) => Quiet(r)'
  BY DEF Quiet, Stage, RestsAt
<1>. QED BY <1>1, <1>2, <1>4, <1>5, <1>6


(* A release that is added to a queue.                                     *)
LEMMA ReleaseAdded ==
  ASSUME NEW q \in Seq(Row), NEW r \in Row
  PROVE  /\ Append(q, r) # <<>> /\ ToSet(Append(q, r)) = ToSet(q) \cup {r}
         /\ q # <<>> => Head(Append(q, r)) = Head(q)
<1>1. Len(q) \in Nat /\ DOMAIN q = 1 .. Len(q)
  BY LenProperties
<1>2. PICK n : n = Append(q, r)
  OBVIOUS
<1>3. /\ n \in Seq(Row) /\ Len(n) = Len(q) + 1
      /\ DOMAIN n = DOMAIN q \cup {Len(q) + 1}
      /\ Len(q) + 1 \notin DOMAIN q /\ n[Len(q) + 1] = r
      /\ \A j \in DOMAIN q : n[j] = q[j]
  BY <1>1, <1>2, AppendProperties
<1>4. n # <<>>
  BY <1>1, <1>3, EmptySeq
<1>5. ToSet(n) = ToSet(q) \cup {r}
  BY <1>3 DEF ToSet
<1>6. ASSUME q # <<>> PROVE Head(n) = Head(q)
  <2>1. Head(n) = n[1] /\ Head(q) = q[1] /\ 1 \in DOMAIN q
    BY <1>3, <1>4, <1>6, HeadTail
  <2>. QED BY <1>3, <2>1
<1>. QED BY <1>2, <1>4, <1>5, <1>6

(* A process works on a marker: the commands to hold stay as they are.     *)
MarkersWorkedOn ==
  \A p \in Process :
    /\ Once(txQueue'[p])
    /\ \A cmd \in ToSet(txQueue'[p]) : Ready(cmd)
    /\ \A r : StageOf(txQueue'[p], Hold, r) = StageOf(txQueue[p], Hold, r)
RestsHeard ==
  \A p \in Process : \A x \in Rests(txQueue'[p]) :
    x.row \in Row /\ ~Quiet(x.row) /\ rows[x.row].process = x.process
ReleasesAdded ==
  \A p \in Process :
    \/ cmdQueue'[p] = cmdQueue[p]
    \/ \E r \in Row : /\ cmdQueue'[p] = Append(cmdQueue[p], r)
                      /\ ~Quiet(r) /\ rows[r].process = p
Restoring ==
  \A r \in Row : /\ rows'[r].process = rows[r].process
                 /\ rows'[r].status \in {rows[r].status, "active"}

LEMMA MarkerHolds ==
  ASSUME RunInv, TypeInv, UNCHANGED <<script, runs, release, proc, consuming>>,
         cmdQueue' \in [Process -> Seq(Row)], BlockInv',
         MarkersWorkedOn, RestsHeard, ReleasesAdded, Restoring
  PROVE  RunInv'
<1>1. HoldType /\ Commands /\ Held /\ Released
  BY DEF RunInv
<1>2. HoldType'
  BY <1>1 DEF HoldType
<1>3. ASSUME NEW p \in Process
      PROVE  /\ \A r \in ToSet(cmdQueue'[p]) :
                  r \in Row /\ rows[r].process = p /\ ~Quiet(r)
             /\ release[p] # "none" =>
                  /\ cmdQueue[p] # <<>> /\ cmdQueue'[p] # <<>>
                  /\ Head(cmdQueue'[p]) = Head(cmdQueue[p])
  <2>1. PICK q \in Seq(Row) : q = cmdQueue[p]
    BY <1>1 DEF HoldType
  <2>2. \A r \in ToSet(q) : r \in Row /\ rows[r].process = p /\ ~Quiet(r)
    <3>1. \A r \in ToSet(q) : rows[r].process = p
      BY <1>1, <2>1 DEF Commands
    <3>2. \A r \in ToSet(q) : ~Quiet(r)
      BY <2>1 DEF Quiet
    <3>3. \A i \in DOMAIN q : q[i] \in Row
      BY LenProperties, ElementOfSeq
    <3>. QED BY <3>1, <3>2, <3>3 DEF ToSet
  <2>3. release[p] # "none" => q # <<>>
    BY <1>1, <2>1 DEF Released
  <2>4. CASE cmdQueue'[p] = q
    BY <2>1, <2>2, <2>3, <2>4
  <2>5. CASE cmdQueue'[p] # q
    <3>1. PICK r \in Row : /\ cmdQueue'[p] = Append(q, r)
                          /\ ~Quiet(r) /\ rows[r].process = p
      BY <2>1, <2>5 DEF ReleasesAdded
    <3>. QED BY <2>1, <2>2, <2>3, <3>1, ReleaseAdded
  <2>. QED BY <2>4, <2>5
<1>4. \A p \in Process : \A r :
        StageOf(txQueue'[p], Hold, r) = StageOf(txQueue[p], Hold, r)
  BY DEF MarkersWorkedOn
<1>5. \A r \in Row : /\ rows'[r].process = rows[r].process
                     /\ rows'[r].status = "hold" => rows[r].status = "hold"
  BY DEF Restoring
<1>6. Commands'
  <2>1. \A p \in Process, r \in Row :
          StageOf(txQueue'[p], Hold, r) # {} => rows'[r].process = p
    <3>1. \A p \in Process, r \in Row :
            StageOf(txQueue[p], Hold, r) # {} => rows[r].process = p
      BY <1>1 DEF Commands, Stage
    <3>. QED BY <1>4, <1>5, <3>1
  <2>2. \A p \in Process : \A r \in ToSet(cmdQueue'[p]) : rows'[r].process = p
    BY <1>3, <1>5
  <2>3. \A p \in Process : \A x \in Rests(txQueue'[p]) :
          rows'[x.row].process = x.process
    BY <1>5 DEF RestsHeard
  <2>4. \A p \in Process : proc[p].at # "up" =>
          /\ ~consuming[p] /\ release[p] = "none"
          /\ \A r \in Row : StageOf(txQueue'[p], Hold, r) \subseteq {"queued"}
    BY <1>1, <1>4 DEF Commands, Stage
  <2>5. \A p \in Process :
          /\ Once(txQueue'[p])
          /\ \A cmd \in ToSet(txQueue'[p]) : Ready(cmd)
    BY DEF MarkersWorkedOn
  <2>. QED BY <2>1, <2>2, <2>3, <2>4, <2>5 DEF Commands, Stage, RestsAt
<1>7. Held'
  <2> SUFFICES ASSUME NEW r \in Row, rows'[r].status = "hold"
               PROVE  LET p == rows'[r].process
                      IN /\ p \in Process
                         /\ StageOf(txQueue'[p], Hold, r) \subseteq {"queued", "stop"}
                         /\ consuming'[p] => "stop" \in StageOf(txQueue'[p], Hold, r)
    BY DEF Held, Stage
  <2>1. PICK p : p = rows[r].process /\ p = rows'[r].process
    BY <1>5
  <2>2. /\ p \in Process /\ StageOf(txQueue[p], Hold, r) \subseteq {"queued", "stop"}
        /\ consuming[p] => "stop" \in StageOf(txQueue[p], Hold, r)
    BY <1>1, <1>5, <2>1 DEF Held, Stage
  <2>. QED BY <1>4, <2>1, <2>2
<1>8. Released'
  <2> SUFFICES ASSUME NEW p \in Process, release[p] # "none"
               PROVE  /\ cmdQueue'[p] # <<>>
                      /\ StageOf(txQueue'[p], Hold, Head(cmdQueue'[p]))
                           \subseteq {"queued", "stop"}
                      /\ consuming[p] => "queued" \notin
                           StageOf(txQueue'[p], Hold, Head(cmdQueue'[p]))
                      /\ release[p] = "start" => HeldAt(p)' = {}
    BY DEF Released, Stage
  <2>1. /\ StageOf(txQueue[p], Hold, Head(cmdQueue[p])) \subseteq {"queued", "stop"}
        /\ consuming[p] => "queued" \notin
             StageOf(txQueue[p], Hold, Head(cmdQueue[p]))
        /\ release[p] = "start" => HeldAt(p) = {}
    BY <1>1 DEF Released, Stage
  <2>2. cmdQueue'[p] # <<>> /\ Head(cmdQueue'[p]) = Head(cmdQueue[p])
    BY <1>3
  <2>3. HeldAt(p) = {} => HeldAt(p)' = {}
    BY <1>5 DEF HeldAt
  <2>4. StageOf(txQueue'[p], Hold, Head(cmdQueue[p])) =
          StageOf(txQueue[p], Hold, Head(cmdQueue[p]))
    BY <1>4
  <2>. QED BY <2>1, <2>2, <2>3, <2>4
<1>9. QuietKept
  <2>1. ASSUME NEW r \in Row, Quiet(r) PROVE Quiet(r)'
    <3>1. rows'[r].status # "hold"
      BY <1>5, <2>1 DEF Quiet
    <3>2. \A p \in Process : StageOf(txQueue'[p], Hold, r) = {}
      BY <1>4, <2>1 DEF Quiet, Stage
    <3>3. \A p \in Process : r \notin ToSet(cmdQueue'[p])
      BY <1>3, <2>1
    <3>4. \A p \in Process : \A x \in Rests(txQueue'[p]) : x.row # r
      BY <2>1 DEF RestsHeard
    <3>. QED BY <3>1, <3>2, <3>3, <3>4 DEF Quiet, Stage, RestsAt
  <2>. QED BY <2>1 DEF QuietKept, Restoring
<1>10. NotYet' /\ OneClient'
  BY <1>9, ProcessTells
<1>11. OneScript'
  BY DEF RunInv, OneScript
<1>. QED BY <1>2, <1>6, <1>7, <1>8, <1>10, <1>11 DEF RunInv


LEMMA RestsAreHeard ==
  ASSUME Commands, TypeInv, NEW p \in Process, NEW x \in RestsAt(p)
  PROVE  x.row \in Row /\ ~Quiet(x.row) /\ rows[x.row].process = x.process
<1>1. txQueue[p] \in Seq(Sound)
  BY DEF TypeInv
<1>2. \A i \in DOMAIN txQueue[p] : txQueue[p][i] \in Sound
  BY <1>1, LenProperties, ElementOfSeq
<1>3. x.row \in Row
  BY <1>2 DEF RestsAt, Rests, Sound, Queued
<1>4. ~Quiet(x.row)
  BY DEF Quiet
<1>. QED BY <1>3, <1>4 DEF Commands

(* A marker that is acknowledged, and one that goes a step further.        *)
LEMMA MarkerAcked ==
  ASSUME Commands, TypeInv, NEW p \in Process, NEW i \in DOMAIN txQueue[p],
         txQueue[p][i].kind = Mark, Ack(p, i)
  PROVE  MarkersWorkedOn /\ RestsHeard
<1>1. /\ txQueue[p] \in Seq(Sound)
      /\ txQueue'[p] = RemoveAt(txQueue[p], i)
      /\ \A u \in Process : u # p => txQueue'[u] = txQueue[u]
  BY AckIs
<1> PICK q : q = txQueue[p]
  OBVIOUS
<1> PICK n : n = txQueue'[p]
  OBVIOUS
<1>2. q \in Seq(Sound) /\ q = txQueue[p] /\ n = txQueue'[p]
  BY <1>1
<1>3. /\ ToSet(n) \subseteq ToSet(q) /\ Rests(n) \subseteq Rests(q)
      /\ Once(q) => Once(n)
      /\ \A r : ~OfRow(q[i], Hold, r) => StageOf(n, Hold, r) = StageOf(q, Hold, r)
  BY <1>1, <1>2, RemoveKeeps
<1>4. \A r : ~OfRow(q[i], Hold, r)
  BY <1>2 DEF OfRow, Mark, Hold
<1>5. ASSUME NEW u \in Process
      PROVE  /\ Once(txQueue'[u])
             /\ \A cmd \in ToSet(txQueue'[u]) : Ready(cmd)
             /\ \A r : StageOf(txQueue'[u], Hold, r) = StageOf(txQueue[u], Hold, r)
             /\ Rests(txQueue'[u]) \subseteq RestsAt(u)
  <2>1. Once(txQueue[u]) /\ \A cmd \in ToSet(txQueue[u]) : Ready(cmd)
    BY DEF Commands
  <2>2. CASE u = p
    BY <1>2, <1>3, <1>4, <2>1, <2>2 DEF RestsAt
  <2>3. CASE u # p
    BY <1>1, <2>1, <2>3 DEF RestsAt
  <2>. QED BY <2>2, <2>3
<1>6. MarkersWorkedOn
  BY <1>5 DEF MarkersWorkedOn
<1>7. RestsHeard
  <2>1. \A u \in Process : \A x \in Rests(txQueue'[u]) : x \in RestsAt(u)
    BY <1>5
  <2>. QED BY <2>1, RestsAreHeard DEF RestsHeard
<1>. QED BY <1>6, <1>7

LEMMA MarkerBecomes ==
  ASSUME Commands, TypeInv, NEW p \in Process, NEW i \in DOMAIN txQueue[p],
         txQueue[p][i].kind = Mark, NEW e, Becomes(p, i, e),
         e.at = "send" => e.rest # {},
         \A x \in e.rest :
           x.row \in Row /\ ~Quiet(x.row) /\ rows[x.row].process = x.process
  PROVE  MarkersWorkedOn /\ RestsHeard
<1>1. /\ txQueue[p] \in Seq(Sound)
      /\ txQueue'[p] = [txQueue[p] EXCEPT ![i] = e]
      /\ \A u \in Process : u # p => txQueue'[u] = txQueue[u]
  BY BecomesIs
<1> PICK q : q = txQueue[p]
  OBVIOUS
<1> PICK n : n = txQueue'[p]
  OBVIOUS
<1>2. q \in Seq(Sound) /\ q = txQueue[p] /\ n = txQueue'[p]
  BY <1>1
<1>3. Changed(q, i, e, n)
  BY <1>1, <1>2 DEF Changed, Becomes
<1>4. /\ DOMAIN n = DOMAIN q
      /\ \A j \in DOMAIN q : n[j] = IF j = i THEN e ELSE q[j]
      /\ Rests(n) \subseteq Rests(q) \cup e.rest
      /\ Once(q) => Once(n)
      /\ \A kind, r :
           /\ StageOf(n, kind, r) \subseteq StageOf(q, kind, r) \cup {e.at}
           /\ StageOf(q, kind, r) \ {q[i].at} \subseteq StageOf(n, kind, r)
           /\ ~OfRow(q[i], kind, r) =>
                StageOf(n, kind, r) = StageOf(q, kind, r)
           /\ OfRow(q[i], kind, r) => e.at \in StageOf(n, kind, r)
  BY <1>3, ChangeKeeps
<1>5. \A r : ~OfRow(q[i], Hold, r)
  BY <1>2 DEF OfRow, Mark, Hold
<1>6. /\ Once(q) /\ \A cmd \in ToSet(q) : Ready(cmd)
  BY <1>2 DEF Commands
<1>7. \A cmd \in ToSet(n) : Ready(cmd)
  <2>1. \A j \in DOMAIN q : Ready(q[j])
    BY <1>6 DEF ToSet
  <2>2. Ready(e)
    BY <1>2, <2>1 DEF Ready, Becomes
  <2>. QED BY <1>4, <2>1, <2>2 DEF ToSet
<1>8. MarkersWorkedOn
  <2>1. \A u \in Process :
          /\ Once(txQueue[u]) /\ \A cmd \in ToSet(txQueue[u]) : Ready(cmd)
    BY DEF Commands
  <2>2. \A r : StageOf(n, Hold, r) = StageOf(q, Hold, r)
    BY <1>4, <1>5
  <2>. QED BY <1>1, <1>2, <1>4, <1>6, <1>7, <2>1, <2>2 DEF MarkersWorkedOn
<1>9. RestsHeard
  <2>1. \A x \in Rests(n) : x \in RestsAt(p) \/ x \in e.rest
    BY <1>2, <1>4 DEF RestsAt
  <2>2. \A u \in Process : u # p => Rests(txQueue'[u]) = RestsAt(u)
    BY <1>1 DEF RestsAt
  <2>. QED BY <1>2, <2>1, <2>2, RestsAreHeard DEF RestsHeard
<1>. QED BY <1>8, <1>9

LEMMA SmallestRest ==
  ASSUME NEW rest \in SUBSET [row : Row, process : Process \cup {None}],
         rest # {}
  PROVE  (CHOOSE x \in rest : \A y \in rest : x.row <= y.row) \in rest
<1>1. PICK R : R = {x.row : x \in rest}
  OBVIOUS
<1>2. R \in SUBSET Row /\ R # {}
  BY <1>1
<1>3. PICK r \in R : \A q \in R : r <= q
  BY <1>2, RowsAreFinite, ByIdOrders
<1>4. PICK x \in rest : x.row = r
  BY <1>1
<1>5. \A y \in rest : x.row <= y.row
  BY <1>1, <1>3, <1>4
<1>. QED BY <1>5

(* A marker that is acknowledged or goes on, with nothing to release yet.  *)
LEMMA MarkerSteps ==
  ASSUME RunInv, BlockInv', UNCHANGED <<script, runs, release, proc, consuming>>,
         cmdQueue' \in [Process -> Seq(Row)], ReleasesAdded, Restoring,
         NEW p \in Process, NEW i \in DOMAIN txQueue[p],
         txQueue[p][i].kind = Mark,
         Ack(p, i) \/ \E at \in Ats \ {"send"} : Step(p, i, at)
  PROVE  RunInv'
<1>1. TypeInv /\ Commands
  BY DEF RunInv, BlockInv
<1>2. CASE Ack(p, i)
  BY <1>1, <1>2, MarkerAcked, MarkerHolds
<1>3. ASSUME NEW at \in Ats \ {"send"}, Step(p, i, at) PROVE RunInv'
  <2>1. PICK e : Becomes(p, i, e) /\ e.at = at /\ e.rest = txQueue[p][i].rest
    BY <1>1, <1>3, StepIs
  <2>2. \A x \in e.rest : x \in RestsAt(p)
    BY <2>1 DEF RestsAt, Rests
  <2>3. \A x \in e.rest :
          x.row \in Row /\ ~Quiet(x.row) /\ rows[x.row].process = x.process
    BY <1>1, <2>2, RestsAreHeard
  <2>4. e.at = "send" => e.rest # {}
    BY <2>1
  <2>5. MarkersWorkedOn /\ RestsHeard
    BY <1>1, <2>1, <2>3, <2>4, MarkerBecomes
  <2>. QED BY <1>1, <2>5, MarkerHolds
<1>. QED BY <1>2, <1>3

LEMMA MarkHolds ==
  ASSUME RunInv, BlockInv', lost = 0, lost' = 0,
         NEW p \in Process, NEW i \in DOMAIN txQueue[p],
         \/ MarkRead(p, i) \/ MarkRestore(p, i)
         \/ MarkList(p, i) \/ MarkSend(p, i)
  PROVE  RunInv'
<1>1. TypeInv /\ Commands /\ HoldType
  BY DEF RunInv, BlockInv
<1>2. txQueue[p] \in Seq(Sound) /\ txQueue[p][i] \in Sound
  <2>1. txQueue[p] \in Seq(Sound)
    BY <1>1 DEF TypeInv
  <2>. QED BY <2>1, LenProperties, ElementOfSeq
<1>3. Ready(txQueue[p][i])
  BY <1>1, <1>2 DEF Commands, ToSet
<1>4. /\ UNCHANGED <<script, runs, release, proc, consuming>>
      /\ txQueue[p][i].kind = Mark
  BY DEF MarkRead, MarkRestore, MarkList, MarkSend, Handles, Mark, procVars,
     countVars
<1>6. UNCHANGED rows => Restoring
  BY DEF Restoring
<1>7. CASE MarkRead(p, i)
  <2>1. Ack(p, i) \/ Step(p, i, "restore")
    BY <1>7 DEF MarkRead
  <2>2. ReleasesAdded /\ cmdQueue' \in [Process -> Seq(Row)] /\ Restoring
    BY <1>1, <1>6, <1>7 DEF MarkRead, ReleasesAdded, HoldType
  <2>3. Ack(p, i) \/ \E at \in Ats \ {"send"} : Step(p, i, at)
    BY <2>1 DEF Ats
  <2>. QED BY <1>4, <2>2, <2>3, MarkerSteps
<1>8. CASE MarkRestore(p, i)
  <2>1. PICK x \in Row : x = txQueue[p][i].row
    BY <1>2 DEF Sound, Queued
  <2>2. rows' = [rows EXCEPT ![x].status = "active"]
    BY <1>3, <1>8, <2>1 DEF MarkRestore, Ready
  <2>3. Restoring
    BY <1>1, <2>2 DEF Restoring, TypeInv
  <2>4. ReleasesAdded /\ cmdQueue' \in [Process -> Seq(Row)]
    BY <1>1, <1>8 DEF MarkRestore, ReleasesAdded, HoldType
  <2>5. \E at \in Ats \ {"send"} : Step(p, i, at)
    BY <1>8 DEF MarkRestore, Ats
  <2>. QED BY <1>4, <2>3, <2>4, <2>5, MarkerSteps
<1>9. CASE MarkList(p, i)
  <2>1. ReleasesAdded /\ cmdQueue' \in [Process -> Seq(Row)] /\ Restoring
    BY <1>1, <1>6, <1>9 DEF MarkList, ReleasesAdded, HoldType
  <2>2. CASE Ack(p, i)
    BY <1>4, <2>1, <2>2, MarkerSteps
  <2>3. CASE ~Ack(p, i)
    <3>1. PICK held : held = Having(Siblings(txQueue[p][i].row), "hold")
      OBVIOUS
    <3>2. PICK rest : rest = {[row |-> r, process |-> rows[r].process] : r \in held}
      OBVIOUS
    <3>3. \A r \in held : r \in Row /\ ~Quiet(r)
      BY <3>1 DEF Having, Siblings, RowsOf, Quiet
    <3>4. \A x \in rest :
            x.row \in Row /\ ~Quiet(x.row) /\ rows[x.row].process = x.process
      BY <3>2, <3>3
    <3>5. rest \in SUBSET [row : Row, process : Process \cup {None}]
      BY <1>1, <3>2, <3>3 DEF TypeInv
    <3>6. StepWith(p, i, "send", rest)
      BY <1>9, <2>3, <3>1, <3>2 DEF MarkList, StepWith
    <3>7. "send" \in Ats
      BY DEF Ats
    <3>8. PICK e : Becomes(p, i, e) /\ e.at = "send" /\ e.rest = rest
      BY <1>1, <3>5, <3>6, <3>7, StepBecomes
    <3>9. held # {}
      BY <1>9, <2>3, <3>1 DEF MarkList
    <3>10. e.rest # {}
      BY <3>2, <3>8, <3>9
    <3>11. MarkersWorkedOn /\ RestsHeard
      BY <1>1, <1>4, <3>4, <3>8, <3>10, MarkerBecomes
    <3>. QED BY <1>1, <1>4, <2>1, <3>11, MarkerHolds
  <2>. QED BY <2>2, <2>3
<1>10. CASE MarkSend(p, i)
  <2>1. PICK rest : rest = txQueue[p][i].rest
    OBVIOUS
  <2>2. PICK m : m = CHOOSE x \in rest : \A y \in rest : x.row <= y.row
    OBVIOUS
  <2>3. rest \in SUBSET [row : Row, process : Process \cup {None}]
    BY <1>2, <2>1 DEF Sound, Queued
  <2>4. txQueue[p][i].at = "send"
    BY <1>10 DEF MarkSend, Handles
  <2>5. rest # {}
    BY <1>3, <2>1, <2>4 DEF Ready
  <2>6. m \in rest
    BY <2>2, <2>3, <2>5, SmallestRest
  <2>7. \A x \in rest : x \in RestsAt(p)
    BY <2>1 DEF RestsAt, Rests
  <2>8. \A x \in rest :
          x.row \in Row /\ ~Quiet(x.row) /\ rows[x.row].process = x.process
    BY <1>1, <2>7, RestsAreHeard
  <2>9. UNCHANGED rows
    BY <1>10 DEF MarkSend
  <2>10. Restoring
    BY <1>6, <2>9
  <2>11. CASE m.process = None
    <3>1. Ack(p, i) /\ UNCHANGED cmdQueue
      BY <1>10, <2>1, <2>2, <2>11 DEF MarkSend
    <3>2. ReleasesAdded /\ cmdQueue' \in [Process -> Seq(Row)]
      BY <1>1, <3>1 DEF ReleasesAdded, HoldType
    <3>. QED BY <1>4, <2>10, <3>1, <3>2, MarkerSteps
  <2>12. CASE m.process # None
    <3>1. PICK u \in Process, r \in Row : u = m.process /\ r = m.row
      BY <2>3, <2>6, <2>12
    <3>2. ~Quiet(r) /\ rows[r].process = u
      BY <2>6, <2>8, <3>1
    <3>3. cmdQueue' = [cmdQueue EXCEPT ![u] = Append(@, r)]
      <4>1. lost' # lost + 1
        OBVIOUS
      <4>. QED BY <1>10, <2>1, <2>2, <2>12, <3>1, <4>1 DEF MarkSend
    <3>4. cmdQueue[u] \in Seq(Row)
      BY <1>1 DEF HoldType
    <3>5. cmdQueue' \in [Process -> Seq(Row)]
      BY <1>1, <3>3, <3>4 DEF HoldType
    <3>6. ReleasesAdded
      BY <1>1, <3>2, <3>3 DEF ReleasesAdded, HoldType
    <3>7. CASE Ack(p, i)
      BY <1>4, <2>10, <3>5, <3>6, <3>7, MarkerSteps
    <3>8. CASE ~Ack(p, i)
      <4>1. StepBut(p, i, m) /\ rest # {m}
        BY <1>10, <2>1, <2>2, <2>12, <3>8 DEF MarkSend, StepBut
      <4>2. PICK e : Becomes(p, i, e) /\ e.rest = rest \ {m}
        BY <1>1, <2>1, <4>1, RestBecomes
      <4>3. e.rest # {}
        BY <2>6, <4>1, <4>2
      <4>4. \A x \in e.rest :
              x.row \in Row /\ ~Quiet(x.row) /\ rows[x.row].process = x.process
        BY <2>8, <4>2
      <4>5. MarkersWorkedOn /\ RestsHeard
        BY <1>1, <1>4, <4>2, <4>3, <4>4, MarkerBecomes
      <4>. QED BY <1>1, <1>4, <2>10, <3>5, <3>6, <4>5, MarkerHolds
    <3>. QED BY <3>7, <3>8
  <2>. QED BY <2>11, <2>12
<1>. QED BY <1>7, <1>8, <1>9, <1>10

(* A process works on its command to hold x: nothing else changes.         *)
HoldWorkedOn(p, x) ==
  /\ \A u \in Process :
       /\ Once(txQueue'[u])
       /\ \A cmd \in ToSet(txQueue'[u]) : Ready(cmd)
       /\ Rests(txQueue'[u]) \subseteq RestsAt(u)
  /\ \A u \in Process, r \in Row : u # p \/ r # x =>
       StageOf(txQueue'[u], Hold, r) = StageOf(txQueue[u], Hold, r)
OnlyHeld(x) ==
  /\ \A r \in Row : /\ rows'[r].process = rows[r].process
                    /\ r # x => rows'[r] = rows[r]
  /\ consuming' \in [Process -> BOOLEAN]
  /\ \A u \in Process : consuming'[u] => consuming[u]
StillHeld(p, x) ==
  /\ rows'[x].status = "hold" =>
       /\ StageOf(txQueue'[p], Hold, x) \subseteq {"queued", "stop"}
       /\ consuming'[p] => "stop" \in StageOf(txQueue'[p], Hold, x)
  /\ release[p] # "none" =>
       StageOf(txQueue'[p], Hold, x) = {} /\ UNCHANGED rows

LEMMA HoldHolds ==
  ASSUME RunInv, TypeInv, BlockInv',
         UNCHANGED <<script, runs, cmdQueue, release, proc>>,
         NEW p \in Process, NEW x \in Row, Up(p), Stage(Hold, p, x) # {},
         HoldWorkedOn(p, x), OnlyHeld(x), StillHeld(p, x)
  PROVE  RunInv'
<1>1. HoldType /\ Commands /\ Held /\ Released
  BY DEF RunInv
<1>2. HoldType'
  BY <1>1 DEF HoldType, OnlyHeld
<1>3. rows[x].process = p /\ ~Quiet(x)
  BY <1>1 DEF Commands, Quiet
<1>4. \A u \in Process, r \in Row : u # p \/ r # x =>
        StageOf(txQueue'[u], Hold, r) = StageOf(txQueue[u], Hold, r)
  BY DEF HoldWorkedOn
<1>5. \A r \in Row : /\ rows'[r].process = rows[r].process
                     /\ r # x => rows'[r] = rows[r]
  BY DEF OnlyHeld
<1>6. Commands'
  <2>1. \A u \in Process, r \in Row :
          StageOf(txQueue'[u], Hold, r) # {} => rows'[r].process = u
    BY <1>1, <1>3, <1>4, <1>5 DEF Commands, Stage
  <2>2. \A u \in Process : \A r \in ToSet(cmdQueue[u]) : rows'[r].process = u
    <3>1. \A u \in Process : \A r \in ToSet(cmdQueue[u]) : r \in Row
      BY <1>1 DEF HoldType, ToSet
    <3>. QED BY <1>1, <1>5, <3>1 DEF Commands
  <2>3. \A u \in Process : \A y \in Rests(txQueue'[u]) :
          rows'[y.row].process = y.process
    <3>1. \A u \in Process : \A y \in RestsAt(u) :
            y.row \in Row /\ rows[y.row].process = y.process
      BY <1>1, RestsAreHeard
    <3>. QED BY <1>5, <3>1 DEF HoldWorkedOn
  <2>4. \A u \in Process : proc[u].at # "up" =>
          /\ ~consuming'[u] /\ release[u] = "none"
          /\ \A r \in Row : StageOf(txQueue'[u], Hold, r) \subseteq {"queued"}
    <3>1. \A u \in Process : proc[u].at # "up" => u # p
      BY DEF Up
    <3>2. \A u \in Process : consuming'[u] => consuming[u]
      BY DEF OnlyHeld
    <3>. QED BY <1>1, <1>4, <3>1, <3>2 DEF Commands, Stage
  <2>5. \A u \in Process :
          /\ Once(txQueue'[u])
          /\ \A cmd \in ToSet(txQueue'[u]) : Ready(cmd)
    BY DEF HoldWorkedOn
  <2>. QED BY <2>1, <2>2, <2>3, <2>4, <2>5 DEF Commands, Stage, RestsAt
<1>7. Held'
  <2> SUFFICES ASSUME NEW r \in Row, rows'[r].status = "hold"
               PROVE  LET u == rows'[r].process
                      IN /\ u \in Process
                         /\ StageOf(txQueue'[u], Hold, r) \subseteq {"queued", "stop"}
                         /\ consuming'[u] => "stop" \in StageOf(txQueue'[u], Hold, r)
    BY DEF Held, Stage
  <2>1. PICK u : u = rows[r].process /\ u = rows'[r].process
    BY <1>5
  <2>2. CASE r = x
    BY <1>3, <2>1, <2>2 DEF StillHeld
  <2>3. CASE r # x
    <3>1. rows[r].status = "hold"
      BY <1>5, <2>3
    <3>2. /\ u \in Process
          /\ StageOf(txQueue[u], Hold, r) \subseteq {"queued", "stop"}
          /\ consuming[u] => "stop" \in StageOf(txQueue[u], Hold, r)
      BY <1>1, <2>1, <3>1 DEF Held, Stage
    <3>3. consuming'[u] => consuming[u]
      BY <3>2 DEF OnlyHeld
    <3>. QED BY <1>4, <2>1, <2>3, <3>2, <3>3
  <2>. QED BY <2>2, <2>3
<1>8. Released'
  <2> SUFFICES ASSUME NEW u \in Process, release[u] # "none"
               PROVE  /\ cmdQueue[u] # <<>>
                      /\ StageOf(txQueue'[u], Hold, Head(cmdQueue[u]))
                           \subseteq {"queued", "stop"}
                      /\ consuming'[u] => "queued" \notin
                           StageOf(txQueue'[u], Hold, Head(cmdQueue[u]))
                      /\ release[u] = "start" => HeldAt(u)' = {}
    BY DEF Released, Stage
  <2>1. PICK h : h = Head(cmdQueue[u])
    OBVIOUS
  <2>2. /\ cmdQueue[u] # <<>>
        /\ StageOf(txQueue[u], Hold, h) \subseteq {"queued", "stop"}
        /\ consuming[u] => "queued" \notin StageOf(txQueue[u], Hold, h)
        /\ release[u] = "start" => HeldAt(u) = {}
    BY <1>1, <2>1 DEF Released, Stage
  <2>3. h \in Row
    <3>1. cmdQueue[u] \in Seq(Row)
      BY <1>1 DEF HoldType
    <3>. QED BY <2>1, <2>2, <3>1, HeadTail
  <2>4. consuming'[u] => consuming[u]
    BY DEF OnlyHeld
  <2>5. \/ StageOf(txQueue'[u], Hold, h) = StageOf(txQueue[u], Hold, h)
        \/ StageOf(txQueue'[u], Hold, h) = {}
    BY <1>4, <2>3 DEF StillHeld
  <2>6. release[u] = "start" => HeldAt(u)' = {}
    <3>1. CASE u = p
      BY <2>2, <3>1 DEF StillHeld, HeldAt
    <3>2. CASE u # p
      BY <1>3, <1>5, <2>2, <3>2 DEF HeldAt
    <3>. QED BY <3>1, <3>2
  <2>. QED BY <2>1, <2>2, <2>4, <2>5, <2>6
<1>9. QuietKept
  <2>1. ASSUME NEW r \in Row, Quiet(r) PROVE Quiet(r)' /\ rows'[r] = rows[r]
    <3>1. r # x
      BY <1>3, <2>1
    <3>2. rows'[r] = rows[r]
      BY <1>5, <3>1
    <3>3. \A u \in Process : StageOf(txQueue'[u], Hold, r) = {}
      BY <1>4, <2>1, <3>1 DEF Quiet, Stage
    <3>4. \A u \in Process : \A y \in Rests(txQueue'[u]) : y.row # r
      BY <2>1 DEF HoldWorkedOn, Quiet
    <3>. QED BY <2>1, <3>2, <3>3, <3>4 DEF Quiet, Stage, RestsAt
  <2>. QED BY <1>5, <2>1 DEF QuietKept
<1>10. NotYet' /\ OneClient'
  BY <1>9, ProcessTells
<1>11. OneScript'
  BY DEF RunInv, OneScript
<1>. QED BY <1>2, <1>6, <1>7, <1>8, <1>10, <1>11 DEF RunInv

(* Where a process stands that is given a command to hold.                 *)
LEMMA HoldIsAlone ==
  ASSUME RunInv, NEW p \in Process, NEW i \in DOMAIN txQueue[p],
         txQueue[p][i].kind = Hold
  PROVE  LET x == txQueue[p][i].row
             at == txQueue[p][i].at
         IN /\ x \in Row /\ Stage(Hold, p, x) = {at}
            /\ at # "queued" => Up(p)
            /\ at \in {"given", "siblings", "write"}
               \/ (at = "queued" /\ consuming[p]) =>
                 release[p] = "none" /\ rows[x].status # "hold"
<1>1. TypeInv /\ Commands /\ Held /\ Released /\ HoldType /\ OneRow /\ OneClient
  BY DEF RunInv, BlockInv
<1>2. txQueue[p] \in Seq(Sound) /\ txQueue[p][i] \in Sound
  <2>1. txQueue[p] \in Seq(Sound)
    BY <1>1 DEF TypeInv
  <2>. QED BY <2>1, LenProperties, ElementOfSeq
<1>3. PICK x \in Row : x = txQueue[p][i].row
  BY <1>2 DEF Sound, Queued
<1>4. PICK at : at = txQueue[p][i].at
  OBVIOUS
<1>5. PICK q : q = txQueue[p]
  OBVIOUS
<1>6. Once(q)
  BY <1>1, <1>5 DEF Commands
<1>7. StageOf(q, Hold, x) = {at}
  BY <1>3, <1>4, <1>5, <1>6 DEF StageOf, Once, OfRow
<1>8. Stage(Hold, p, x) = {at}
  BY <1>5, <1>7 DEF Stage
<1>9. rows[x].process = p /\ ~Quiet(x)
  BY <1>1, <1>8 DEF Commands, Quiet
<1>10. at # "queued" => Up(p)
  BY <1>1, <1>8 DEF Commands, Up
<1>11. ASSUME at \in {"given", "siblings", "write"}
              \/ (at = "queued" /\ consuming[p])
       PROVE  release[p] = "none" /\ rows[x].status # "hold"
  <2>1. rows[x].status # "hold"
    BY <1>1, <1>8, <1>9, <1>11 DEF Held
  <2>2. ASSUME release[p] # "none" PROVE FALSE
    <3>1. PICK h : h = Head(cmdQueue[p])
      OBVIOUS
    <3>2. cmdQueue[p] # <<>> /\ cmdQueue[p] \in Seq(Row)
      BY <1>1, <2>2 DEF Released, HoldType
    <3>3. h \in Row /\ h \in ToSet(cmdQueue[p])
      BY <3>1, <3>2, HeadTail
    <3>4. rows[h].process = p /\ ~Quiet(h)
      BY <1>1, <3>3 DEF Commands, Quiet
    <3>5. h = x
      BY <1>1, <1>9, <3>3, <3>4, OneAtProcess, AssociationAssumption
    <3>. QED BY <1>1, <1>8, <1>11, <2>2, <3>1, <3>5 DEF Released
  <2>. QED BY <2>1, <2>2
<1>. QED BY <1>3, <1>4, <1>8, <1>10, <1>11

(* A command to hold that is acknowledged, and one that goes a step on.    *)
LEMMA HoldAcked ==
  ASSUME Commands, TypeInv, NEW p \in Process, NEW i \in DOMAIN txQueue[p],
         txQueue[p][i].kind = Hold, Ack(p, i)
  PROVE  /\ HoldWorkedOn(p, txQueue[p][i].row)
         /\ StageOf(txQueue'[p], Hold, txQueue[p][i].row) = {}
<1>1. /\ txQueue[p] \in Seq(Sound)
      /\ txQueue'[p] = RemoveAt(txQueue[p], i)
      /\ \A u \in Process : u # p => txQueue'[u] = txQueue[u]
  BY AckIs
<1> PICK q : q = txQueue[p]
  OBVIOUS
<1> PICK n : n = txQueue'[p]
  OBVIOUS
<1>2. q \in Seq(Sound) /\ q = txQueue[p] /\ n = txQueue'[p]
  BY <1>1
<1>11. Once(q) /\ q[i].kind = Hold => StageOf(n, Hold, q[i].row) = {}
  <2>1. Once(q) /\ q[i].kind = Hold => StageOf(RemoveAt(q, i), Hold, q[i].row) = {}
    BY <1>2, RemoveKeeps
  <2>. QED BY <1>1, <1>2, <2>1
<1>3. /\ ToSet(n) \subseteq ToSet(q) /\ Rests(n) \subseteq Rests(q)
      /\ Once(q) => Once(n)
      /\ \A r : ~OfRow(q[i], Hold, r) => StageOf(n, Hold, r) = StageOf(q, Hold, r)
  BY <1>1, <1>2, RemoveKeeps
<1>4. \A r : r # q[i].row => ~OfRow(q[i], Hold, r)
  BY DEF OfRow
<1>5. \A u \in Process :
        Once(txQueue[u]) /\ \A cmd \in ToSet(txQueue[u]) : Ready(cmd)
  BY DEF Commands
<1>6. ASSUME NEW u \in Process
      PROVE  /\ Once(txQueue'[u])
             /\ \A cmd \in ToSet(txQueue'[u]) : Ready(cmd)
             /\ Rests(txQueue'[u]) \subseteq RestsAt(u)
             /\ \A r : u # p \/ r # q[i].row =>
                  StageOf(txQueue'[u], Hold, r) = StageOf(txQueue[u], Hold, r)
  <2>1. CASE u = p
    <3>1. Rests(n) \subseteq RestsAt(p)
      BY <1>2, <1>3 DEF RestsAt
    <3>2. Once(n) /\ \A cmd \in ToSet(n) : Ready(cmd)
      BY <1>2, <1>3, <1>5
    <3>. QED BY <1>2, <1>3, <1>4, <2>1, <3>1, <3>2
  <2>2. CASE u # p
    BY <1>1, <1>5, <2>2 DEF RestsAt
  <2>. QED BY <2>1, <2>2
<1>7. HoldWorkedOn(p, q[i].row)
  BY <1>6 DEF HoldWorkedOn
<1>. QED BY <1>2, <1>5, <1>7, <1>11

LEMMA HoldBecomes ==
  ASSUME Commands, TypeInv, NEW p \in Process, NEW i \in DOMAIN txQueue[p],
         txQueue[p][i].kind = Hold, NEW e, Becomes(p, i, e),
         e.rest = txQueue[p][i].rest, e.at # "send"
  PROVE  /\ HoldWorkedOn(p, txQueue[p][i].row)
         /\ StageOf(txQueue'[p], Hold, txQueue[p][i].row) = {e.at}
<1>1. /\ txQueue[p] \in Seq(Sound)
      /\ txQueue'[p] = [txQueue[p] EXCEPT ![i] = e]
      /\ \A u \in Process : u # p => txQueue'[u] = txQueue[u]
  BY BecomesIs
<1> PICK q : q = txQueue[p]
  OBVIOUS
<1> PICK n : n = txQueue'[p]
  OBVIOUS
<1>2. q \in Seq(Sound) /\ q = txQueue[p] /\ n = txQueue'[p]
  BY <1>1
<1>3. Changed(q, i, e, n)
  BY <1>1, <1>2 DEF Changed, Becomes
<1>4. /\ DOMAIN n = DOMAIN q
      /\ \A j \in DOMAIN q : n[j] = IF j = i THEN e ELSE q[j]
      /\ Rests(n) \subseteq Rests(q) \cup e.rest
      /\ Once(q) => Once(n)
      /\ \A kind, r :
           /\ StageOf(n, kind, r) \subseteq StageOf(q, kind, r) \cup {e.at}
           /\ StageOf(q, kind, r) \ {q[i].at} \subseteq StageOf(n, kind, r)
           /\ ~OfRow(q[i], kind, r) =>
                StageOf(n, kind, r) = StageOf(q, kind, r)
           /\ OfRow(q[i], kind, r) => e.at \in StageOf(n, kind, r)
  BY <1>3, ChangeKeeps
<1>11. Once(q) /\ q[i].kind = Hold => StageOf(n, Hold, q[i].row) = {e.at}
  <2>1. /\ DOMAIN n = DOMAIN q /\ i \in DOMAIN q
        /\ \A j \in DOMAIN q : n[j] = IF j = i THEN e ELSE q[j]
        /\ e.kind = q[i].kind /\ e.row = q[i].row
    BY <1>3, <1>4 DEF Changed
  <2>. QED BY <2>1 DEF StageOf, OfRow, Once
<1>5. \A r : r # q[i].row => ~OfRow(q[i], Hold, r)
  BY DEF OfRow
<1>6. \A u \in Process :
        Once(txQueue[u]) /\ \A cmd \in ToSet(txQueue[u]) : Ready(cmd)
  BY DEF Commands
<1>7. \A cmd \in ToSet(n) : Ready(cmd)
  <2>1. \A j \in DOMAIN q : Ready(q[j])
    BY <1>2, <1>6 DEF ToSet
  <2>2. Ready(e)
    BY <1>2, <2>1 DEF Ready, Becomes
  <2>. QED BY <1>4, <2>1, <2>2 DEF ToSet
<1>8. Rests(n) \subseteq Rests(q)
  BY <1>2, <1>4 DEF Rests
<1>9. ASSUME NEW u \in Process
      PROVE  /\ Once(txQueue'[u])
             /\ \A cmd \in ToSet(txQueue'[u]) : Ready(cmd)
             /\ Rests(txQueue'[u]) \subseteq RestsAt(u)
             /\ \A r : u # p \/ r # q[i].row =>
                  StageOf(txQueue'[u], Hold, r) = StageOf(txQueue[u], Hold, r)
  <2>1. CASE u = p
    <3>1. Rests(n) \subseteq RestsAt(p)
      BY <1>2, <1>8 DEF RestsAt
    <3>2. Once(n) /\ \A cmd \in ToSet(n) : Ready(cmd)
      BY <1>2, <1>4, <1>6, <1>7
    <3>. QED BY <1>2, <1>4, <1>5, <2>1, <3>1, <3>2
  <2>2. CASE u # p
    BY <1>1, <1>6, <2>2 DEF RestsAt
  <2>. QED BY <2>1, <2>2
<1>10. HoldWorkedOn(p, q[i].row)
  BY <1>9 DEF HoldWorkedOn
<1>. QED BY <1>2, <1>6, <1>10, <1>11

LEMMA HoldSteps ==
  ASSUME RunInv, BlockInv',
         NEW p \in Process, NEW i \in DOMAIN txQueue[p],
         \/ HoldRead(p, i) \/ HoldSiblings(p, i)
         \/ HoldWrite(p, i) \/ HoldStop(p, i)
  PROVE  RunInv'
<1>1. TypeInv /\ Commands /\ HoldType
  BY DEF RunInv, BlockInv
<1>2. /\ UNCHANGED <<script, runs, cmdQueue, release, proc>>
      /\ txQueue[p][i].kind = Hold
  BY DEF HoldRead, HoldSiblings, HoldWrite, HoldStop, Handles, Hold, procVars,
     countVars
<1>3. PICK x : x = txQueue[p][i].row
  OBVIOUS
<1>4. PICK at : at = txQueue[p][i].at
  OBVIOUS
<1>5. /\ x \in Row /\ Stage(Hold, p, x) = {at}
      /\ at # "queued" => Up(p)
      /\ at \in {"given", "siblings", "write"} =>
           release[p] = "none" /\ rows[x].status # "hold"
  BY <1>2, <1>3, <1>4, HoldIsAlone
<1>6. UNCHANGED <<rows, consuming>> => OnlyHeld(x)
  BY <1>1 DEF OnlyHeld, HoldType
<1>7. Stage(Hold, p, x) # {}
  BY <1>5
<1>8. CASE HoldRead(p, i) \/ HoldSiblings(p, i)
  <2>1. at \in {"given", "siblings"} /\ UNCHANGED <<rows, consuming>>
    BY <1>4, <1>8 DEF HoldRead, HoldSiblings, Handles, procVars
  <2>2. Up(p) /\ release[p] = "none" /\ rows'[x].status # "hold"
    BY <1>5, <2>1
  <2>3. StillHeld(p, x) /\ OnlyHeld(x)
    BY <1>6, <2>1, <2>2 DEF StillHeld
  <2>4. HoldWorkedOn(p, x)
    <3>1. CASE Ack(p, i)
      BY <1>1, <1>2, <1>3, <3>1, HoldAcked
    <3>2. CASE ~Ack(p, i)
      <4>1. PICK to \in Ats \ {"send"} : Step(p, i, to)
        BY <1>8, <3>2 DEF HoldRead, HoldSiblings, Ats
      <4>2. PICK e : Becomes(p, i, e) /\ e.at = to /\ e.rest = txQueue[p][i].rest
        BY <1>1, <4>1, StepIs
      <4>. QED BY <1>1, <1>2, <1>3, <4>2, HoldBecomes
    <3>. QED BY <3>1, <3>2
  <2>. QED BY <1>1, <1>2, <1>5, <1>7, <2>2, <2>3, <2>4, HoldHolds
<1>9. CASE HoldWrite(p, i)
  <2>1. at = "write" /\ consuming' = consuming
    BY <1>4, <1>9 DEF HoldWrite, Handles, procVars
  <2>2. Up(p) /\ release[p] = "none"
    BY <1>5, <2>1
  <2>3. rows' = [rows EXCEPT ![x].status = "hold"]
    BY <1>3, <1>9 DEF HoldWrite
  <2>4. OnlyHeld(x)
    BY <1>1, <1>5, <2>1, <2>3 DEF OnlyHeld, HoldType, TypeInv
  <2>5. PICK e : Becomes(p, i, e) /\ e.at = "stop" /\ e.rest = txQueue[p][i].rest
    <3>1. "stop" \in Ats /\ Step(p, i, "stop")
      BY <1>9 DEF HoldWrite, Ats
    <3>. QED BY <1>1, <3>1, StepIs
  <2>6. HoldWorkedOn(p, x) /\ StageOf(txQueue'[p], Hold, x) = {"stop"}
    BY <1>1, <1>2, <1>3, <2>5, HoldBecomes
  <2>7. StillHeld(p, x)
    BY <1>2, <2>2, <2>6 DEF StillHeld
  <2>. QED BY <1>1, <1>2, <1>5, <1>7, <2>2, <2>4, <2>6, <2>7, HoldHolds
<1>10. CASE HoldStop(p, i)
  <2>1. at = "stop" /\ UNCHANGED rows /\ Ack(p, i)
    BY <1>4, <1>10 DEF HoldStop, Handles
  <2>2. consuming' = [consuming EXCEPT ![p] = FALSE]
    BY <1>10 DEF HoldStop
  <2>3. OnlyHeld(x) /\ ~consuming'[p]
    BY <1>1, <2>1, <2>2 DEF OnlyHeld, HoldType
  <2>4. HoldWorkedOn(p, x) /\ StageOf(txQueue'[p], Hold, x) = {}
    BY <1>1, <1>2, <1>3, <2>1, HoldAcked
  <2>5. StillHeld(p, x)
    BY <2>1, <2>3, <2>4 DEF StillHeld
  <2>6. Up(p)
    BY <1>5, <2>1
  <2>. QED BY <1>1, <1>2, <1>5, <1>7, <2>3, <2>4, <2>5, <2>6, HoldHolds
<1>. QED BY <1>8, <1>9, <1>10

LEMMA DeliverHolds ==
  ASSUME RunInv, BlockInv', NEW p \in Process, Deliver(p)
  PROVE  RunInv'
<1>1. TypeInv /\ Commands /\ HoldType
  BY DEF RunInv, BlockInv
<1>2. PICK i \in DOMAIN txQueue[p] :
        txQueue[p][i].at = "queued" /\ Step(p, i, "given")
  BY DEF Deliver, Step
<1>3. /\ UNCHANGED <<rows, script, runs, cmdQueue, release, proc, consuming>>
      /\ consuming[p] /\ Up(p)
  BY DEF Deliver, procVars, countVars
<1>4. "given" \in Ats \ {"send"}
  BY DEF Ats
<1>5. CASE txQueue[p][i].kind = Mark
  <2>1. /\ ReleasesAdded /\ cmdQueue' \in [Process -> Seq(Row)] /\ Restoring
    BY <1>1, <1>3 DEF ReleasesAdded, HoldType, Restoring
  <2>. QED BY <1>2, <1>3, <1>4, <1>5, <2>1, MarkerSteps
<1>6. CASE txQueue[p][i].kind = Hold
  <2>1. PICK x : x = txQueue[p][i].row
    OBVIOUS
  <2>2. /\ x \in Row /\ Stage(Hold, p, x) = {"queued"}
        /\ release[p] = "none" /\ rows[x].status # "hold"
    BY <1>2, <1>3, <1>6, <2>1, HoldIsAlone
  <2>3. OnlyHeld(x) /\ StillHeld(p, x)
    BY <1>1, <1>3, <2>2 DEF OnlyHeld, HoldType, StillHeld
  <2>4. PICK e : Becomes(p, i, e) /\ e.at = "given" /\ e.rest = txQueue[p][i].rest
    BY <1>1, <1>2, <1>4, StepIs
  <2>5. HoldWorkedOn(p, x)
    BY <1>1, <1>6, <2>1, <2>4, HoldBecomes
  <2>6. Stage(Hold, p, x) # {}
    BY <2>2
  <2>. QED BY <1>1, <1>3, <2>2, <2>3, <2>5, <2>6, HoldHolds
<1>7. txQueue[p][i].kind \in {Mark, Hold}
  <2>1. txQueue[p] \in Seq(Sound)
    BY <1>1 DEF TypeInv
  <2>2. txQueue[p][i] \in Sound
    BY <2>1, LenProperties, ElementOfSeq
  <2>. QED BY <2>2 DEF Sound, Queued, Mark, Hold
<1>. QED BY <1>5, <1>6, <1>7

(* A process is released, or begins: its queue of transactions stays.      *)
OnlyAt(p) ==
  /\ HoldType'
  /\ \A u \in Process \ {p} :
       /\ cmdQueue'[u] = cmdQueue[u] /\ release'[u] = release[u]
       /\ proc'[u] = proc[u] /\ consuming'[u] = consuming[u]
  /\ ToSet(cmdQueue'[p]) \subseteq ToSet(cmdQueue[p])
IsStopped(p) ==
  /\ proc'[p].at # "up" =>
       /\ ~consuming'[p] /\ release'[p] = "none"
       /\ \A r \in Row : Stage(Hold, p, r) \subseteq {"queued"}
  /\ consuming'[p] => \A r \in HeldAt(p)' : "stop" \in Stage(Hold, p, r)
IsReleased(p) ==
  release'[p] # "none" =>
    /\ cmdQueue'[p] # <<>>
    /\ Stage(Hold, p, Head(cmdQueue'[p])) \subseteq {"queued", "stop"}
    /\ consuming'[p] => "queued" \notin Stage(Hold, p, Head(cmdQueue'[p]))
    /\ release'[p] = "start" => HeldAt(p)' = {}

LEMMA ReleaseHolds ==
  ASSUME RunInv, TypeInv, BlockInv', UNCHANGED <<script, runs, txQueue>>,
         NEW p \in Process, Restoring, OnlyAt(p), IsStopped(p), IsReleased(p)
  PROVE  RunInv'
<1>1. HoldType /\ Commands /\ Held /\ Released
  BY DEF RunInv
<1>2. \A r \in Row : /\ rows'[r].process = rows[r].process
                     /\ rows'[r].status = "hold" => rows[r].status = "hold"
  BY DEF Restoring
<1>3. \A u \in Process : ToSet(cmdQueue'[u]) \subseteq ToSet(cmdQueue[u])
  BY DEF OnlyAt
<1>4. \A u \in Process : HeldAt(u)' \subseteq HeldAt(u)
  BY <1>2 DEF HeldAt
<1>5. Commands'
  <2>1. \A u \in Process, r \in Row :
          Stage(Hold, u, r) # {} => rows'[r].process = u
    BY <1>1, <1>2 DEF Commands
  <2>2. \A u \in Process : \A r \in ToSet(cmdQueue'[u]) : rows'[r].process = u
    <3>1. \A u \in Process : \A r \in ToSet(cmdQueue[u]) : r \in Row
      BY <1>1 DEF HoldType, ToSet
    <3>. QED BY <1>1, <1>2, <1>3, <3>1 DEF Commands
  <2>3. \A u \in Process : \A y \in RestsAt(u) : rows'[y.row].process = y.process
    BY <1>1, <1>2, RestsAreHeard
  <2>4. \A u \in Process : proc'[u].at # "up" =>
          /\ ~consuming'[u] /\ release'[u] = "none"
          /\ \A r \in Row : Stage(Hold, u, r) \subseteq {"queued"}
    BY <1>1 DEF Commands, OnlyAt, IsStopped
  <2>5. \A u \in Process :
          /\ Once(txQueue[u]) /\ \A cmd \in ToSet(txQueue[u]) : Ready(cmd)
    BY <1>1 DEF Commands
  <2>. QED BY <2>1, <2>2, <2>3, <2>4, <2>5 DEF Commands, Stage, RestsAt
<1>6. Held'
  <2> SUFFICES ASSUME NEW r \in Row, rows'[r].status = "hold"
               PROVE  LET u == rows'[r].process
                      IN /\ u \in Process
                         /\ Stage(Hold, u, r) \subseteq {"queued", "stop"}
                         /\ consuming'[u] => "stop" \in Stage(Hold, u, r)
    BY DEF Held, Stage
  <2>1. PICK u : u = rows[r].process /\ u = rows'[r].process
    BY <1>2
  <2>2. /\ u \in Process /\ Stage(Hold, u, r) \subseteq {"queued", "stop"}
        /\ consuming[u] => "stop" \in Stage(Hold, u, r)
    BY <1>1, <1>2, <2>1 DEF Held
  <2>3. CASE u = p
    BY <2>1, <2>2, <2>3 DEF IsStopped, HeldAt
  <2>4. CASE u # p
    BY <2>1, <2>2, <2>4 DEF OnlyAt
  <2>. QED BY <2>3, <2>4
<1>7. Released'
  <2> SUFFICES ASSUME NEW u \in Process, release'[u] # "none"
               PROVE  /\ cmdQueue'[u] # <<>>
                      /\ Stage(Hold, u, Head(cmdQueue'[u])) \subseteq {"queued", "stop"}
                      /\ consuming'[u] =>
                           "queued" \notin Stage(Hold, u, Head(cmdQueue'[u]))
                      /\ release'[u] = "start" => HeldAt(u)' = {}
    BY DEF Released, Stage
  <2>1. CASE u = p
    BY <2>1 DEF IsReleased
  <2>2. CASE u # p
    <3>1. /\ cmdQueue'[u] = cmdQueue[u] /\ release'[u] = release[u]
          /\ consuming'[u] = consuming[u]
      BY <2>2 DEF OnlyAt
    <3>2. release'[u] = "start" => HeldAt(u)' = {}
      BY <1>1, <1>4, <3>1 DEF Released
    <3>. QED BY <1>1, <3>1, <3>2 DEF Released
  <2>. QED BY <2>1, <2>2
<1>8. QuietKept
  <2>1. ASSUME NEW r \in Row, Quiet(r) PROVE Quiet(r)'
    BY <1>2, <1>3, <2>1 DEF Quiet, Stage, RestsAt
  <2>. QED BY <2>1 DEF QuietKept, Restoring
<1>9. NotYet' /\ OneClient'
  BY <1>8, ProcessTells
<1>10. OneScript' /\ HoldType'
  BY DEF RunInv, OneScript, OnlyAt
<1>. QED BY <1>5, <1>6, <1>7, <1>9, <1>10 DEF RunInv

(* The release of a row, and where its process stands.                     *)
LEMMA HeadIs ==
  ASSUME RunInv, NEW p \in Process, cmdQueue[p] # <<>>
  PROVE  LET h == Head(cmdQueue[p])
         IN /\ h \in Row /\ ~Quiet(h) /\ rows[h].process = p
            /\ \A r \in HeldAt(p) : r = h
            /\ \A a, b \in Stage(Hold, p, h) : a = b
            /\ Tail(cmdQueue[p]) \in Seq(Row)
            /\ ToSet(Tail(cmdQueue[p])) \subseteq ToSet(cmdQueue[p])
<1>1. HoldType /\ Commands /\ OneRow /\ OneClient
  BY DEF RunInv, BlockInv
<1>2. cmdQueue[p] \in Seq(Row)
  BY <1>1 DEF HoldType
<1>3. PICK h : h = Head(cmdQueue[p])
  OBVIOUS
<1>4. /\ h \in Row /\ h \in ToSet(cmdQueue[p]) /\ Tail(cmdQueue[p]) \in Seq(Row)
      /\ ToSet(Tail(cmdQueue[p])) \subseteq ToSet(cmdQueue[p])
  BY <1>2, <1>3, HeadTail
<1>5. ~Quiet(h) /\ rows[h].process = p
  BY <1>1, <1>4 DEF Commands, Quiet
<1>6. \A r \in HeldAt(p) : r \in Row /\ ~Quiet(r) /\ rows[r].process = p
  BY DEF HeldAt, Quiet
<1>7. \A r \in HeldAt(p) : r = h
  BY <1>1, <1>4, <1>5, <1>6, OneAtProcess, AssociationAssumption
<1>8. Once(txQueue[p])
  BY <1>1 DEF Commands
<1>9. \A a, b \in Stage(Hold, p, h) : a = b
  BY <1>8 DEF Stage, StageOf, Once, OfRow
<1>. QED BY <1>3, <1>4, <1>5, <1>7, <1>9

LEMMA ReleaseSteps ==
  ASSUME RunInv, BlockInv', NEW p \in Process, ReleaseStep(p)
  PROVE  RunInv'
<1>1. TypeInv /\ Commands /\ HoldType /\ Held /\ Released
  BY DEF RunInv, BlockInv
<1>2. UNCHANGED <<script, runs, txQueue, proc>>
  BY DEF ReleaseStep, ReleaseRead, ReleaseSiblings, ReleaseWrite, ReleaseStart,
     procVars, countVars
<1>3. /\ cmdQueue[p] # <<>> /\ proc[p].at = "up"
      /\ release[p] # "none" \/ ReleaseRead(p)
  BY <1>1 DEF ReleaseStep, ReleaseRead, ReleaseSiblings, ReleaseWrite,
     ReleaseStart, Released, Commands, Up
<1>4. PICK h : h = Head(cmdQueue[p])
  OBVIOUS
<1>5. PICK left : left = Tail(cmdQueue[p])
  OBVIOUS
<1>6. /\ h \in Row /\ ~Quiet(h) /\ rows[h].process = p
      /\ \A r \in HeldAt(p) : r = h
      /\ \A a, b \in Stage(Hold, p, h) : a = b
      /\ left \in Seq(Row) /\ ToSet(left) \subseteq ToSet(cmdQueue[p])
  BY <1>3, <1>4, <1>5, HeadIs
<1>7. \A r \in HeldAt(p) : consuming[p] => "stop" \in Stage(Hold, p, r)
  BY <1>1 DEF Held, HeldAt
<1>8. UNCHANGED rows => Restoring /\ HeldAt(p)' = HeldAt(p)
  BY DEF Restoring, HeldAt
<1>9. ASSUME AckRelease(p), UNCHANGED rows,
             \/ consuming' = consuming
             \/ consuming' = [consuming EXCEPT ![p] = TRUE] /\ HeldAt(p) = {}
      PROVE  RunInv'
  <2>1. /\ cmdQueue' = [cmdQueue EXCEPT ![p] = left]
        /\ release' = [release EXCEPT ![p] = "none"]
    BY <1>5, <1>9 DEF AckRelease
  <2>2. OnlyAt(p) /\ release'[p] = "none"
    BY <1>1, <1>2, <1>6, <1>9, <2>1 DEF OnlyAt, HoldType
  <2>3. IsStopped(p)
    BY <1>1, <1>2, <1>3, <1>7, <1>8, <1>9 DEF IsStopped, HoldType
  <2>4. IsReleased(p)
    BY <2>2 DEF IsReleased
  <2>. QED BY <1>1, <1>2, <1>8, <1>9, <2>2, <2>3, <2>4, ReleaseHolds
<1>10. ASSUME NEW at \in {"siblings", "write", "start"}, ReleaseAt(p, at),
              consuming' = consuming, Restoring,
              at = "start" => HeldAt(p)' = {},
              Stage(Hold, p, h) \subseteq {"queued", "stop"},
              consuming[p] => "queued" \notin Stage(Hold, p, h)
       PROVE  RunInv'
  <2>1. cmdQueue' = cmdQueue /\ release' = [release EXCEPT ![p] = at]
    BY <1>10 DEF ReleaseAt
  <2>2. OnlyAt(p) /\ release'[p] = at
    BY <1>1, <1>2, <1>10, <2>1 DEF OnlyAt, HoldType
  <2>3. HeldAt(p)' \subseteq HeldAt(p)
    BY <1>10 DEF HeldAt, Restoring
  <2>4. IsStopped(p)
    BY <1>2, <1>3, <1>7, <1>10, <2>3 DEF IsStopped
  <2>5. IsReleased(p)
    BY <1>3, <1>4, <1>10, <2>1, <2>2 DEF IsReleased
  <2>. QED BY <1>1, <1>2, <1>10, <2>2, <2>4, <2>5, ReleaseHolds
<1>11. release[p] # "none" =>
         /\ Stage(Hold, p, h) \subseteq {"queued", "stop"}
         /\ consuming[p] => "queued" \notin Stage(Hold, p, h)
  BY <1>1, <1>4 DEF Released
<1>12. CASE ReleaseRead(p)
  <2>1. UNCHANGED <<rows, consuming>>
    BY <1>12 DEF ReleaseRead, procVars
  <2>2. CASE AckRelease(p)
    BY <1>9, <2>1, <2>2
  <2>3. CASE ~AckRelease(p)
    <3>1. rows[h].status = "hold" /\ ReleaseAt(p, "siblings")
      BY <1>4, <1>12, <2>3 DEF ReleaseRead
    <3>2. /\ Stage(Hold, p, h) \subseteq {"queued", "stop"}
          /\ consuming[p] => "stop" \in Stage(Hold, p, h)
      BY <1>1, <1>6, <3>1 DEF Held
    <3>3. consuming[p] => "queued" \notin Stage(Hold, p, h)
      BY <1>6, <3>2
    <3>. QED BY <1>8, <1>10, <2>1, <3>1, <3>2, <3>3
  <2>. QED BY <2>2, <2>3
<1>13. CASE ReleaseSiblings(p)
  <2>1. UNCHANGED <<rows, consuming>> /\ release[p] # "none"
    BY <1>13 DEF ReleaseSiblings, procVars
  <2>2. AckRelease(p) \/ ReleaseAt(p, "write")
    BY <1>13 DEF ReleaseSiblings
  <2>. QED BY <1>8, <1>9, <1>10, <1>11, <2>1, <2>2
<1>14. CASE ReleaseWrite(p)
  <2>1. /\ consuming' = consuming /\ release[p] # "none" /\ ReleaseAt(p, "start")
        /\ rows' = [rows EXCEPT ![h].status = "active"]
    BY <1>4, <1>14 DEF ReleaseWrite, procVars
  <2>2. Restoring /\ rows'[h].status = "active"
    BY <1>1, <1>6, <2>1 DEF Restoring, TypeInv
  <2>3. HeldAt(p)' = {}
    <3>1. HeldAt(p)' \subseteq HeldAt(p) /\ h \notin HeldAt(p)'
      BY <2>2 DEF HeldAt, Restoring
    <3>. QED BY <1>6, <3>1
  <2>. QED BY <1>10, <1>11, <2>1, <2>2, <2>3
<1>15. CASE ReleaseStart(p)
  <2>1. /\ AckRelease(p) /\ UNCHANGED rows /\ release[p] = "start"
        /\ consuming' = [consuming EXCEPT ![p] = TRUE]
    BY <1>15 DEF ReleaseStart
  <2>2. HeldAt(p) = {}
    BY <1>1, <2>1 DEF Released
  <2>. QED BY <1>9, <2>1, <2>2
<1>. QED BY <1>12, <1>13, <1>14, <1>15 DEF ReleaseStep

(* A process begins, and a process ends.                                   *)
LEMMA InitSteps ==
  ASSUME RunInv, BlockInv', NEW p \in Process, InitStep(p)
  PROVE  RunInv'
<1>1. TypeInv /\ Commands /\ HoldType
  BY DEF RunInv, BlockInv
<1>2. /\ UNCHANGED <<script, runs, txQueue, cmdQueue, release>>
      /\ proc[p].at # "up"
  BY DEF InitStep, InitHolds, InitSiblings, InitRelease, queueVars, countVars
<1>3. /\ ~consuming[p] /\ release[p] = "none"
      /\ \A r \in Row : Stage(Hold, p, r) \subseteq {"queued"}
  BY <1>1, <1>2 DEF Commands
<1>4. IsReleased(p)
  BY <1>2, <1>3 DEF IsReleased
<1>5. ASSUME NEW c \in BOOLEAN, Starts(p, c), Restoring, c => HeldAt(p)' = {}
      PROVE  RunInv'
  <2>1. PICK x : x = [at |-> "up", clients |-> {}]
    OBVIOUS
  <2>2. proc' = [proc EXCEPT ![p] = x] /\ consuming' = [consuming EXCEPT ![p] = c]
    BY <1>5, <2>1 DEF Starts
  <2>3. x \in [at : {"up", "down", "siblings", "release"}, clients : SUBSET Client]
    BY <2>1
  <2>4. OnlyAt(p)
    BY <1>1, <1>2, <2>2, <2>3 DEF OnlyAt, HoldType
  <2>5. proc'[p].at = "up" /\ consuming'[p] = c
    BY <1>1, <2>1, <2>2 DEF HoldType
  <2>6. IsStopped(p)
    BY <1>5, <2>5 DEF IsStopped
  <2>. QED BY <1>1, <1>2, <1>4, <1>5, <2>4, <2>6, ReleaseHolds
<1>6. ASSUME NEW x \in [at : {"siblings", "release"}, clients : SUBSET Client],
             proc' = [proc EXCEPT ![p] = x], consuming' = consuming,
             UNCHANGED rows
      PROVE  RunInv'
  <2>1. OnlyAt(p)
    BY <1>1, <1>2, <1>6 DEF OnlyAt, HoldType
  <2>2. IsStopped(p)
    BY <1>2, <1>3, <1>6 DEF IsStopped
  <2>3. Restoring
    BY <1>6 DEF Restoring
  <2>. QED BY <1>1, <1>2, <1>4, <2>1, <2>2, <2>3, ReleaseHolds
<1>7. UNCHANGED rows => Restoring /\ HeldAt(p)' = HeldAt(p)
  BY DEF Restoring, HeldAt
<1>8. CASE InitHolds(p)
  <2>1. UNCHANGED rows
    BY <1>8 DEF InitHolds
  <2>2. CASE HeldAt(p) = {}
    <3>1. Starts(p, TRUE)
      BY <1>8, <2>2 DEF InitHolds
    <3>. QED BY <1>5, <1>7, <2>1, <2>2, <3>1
  <2>3. CASE HeldAt(p) # {}
    <3>1. PICK x : x = [at |-> "siblings", clients |-> {ClientOf[r] : r \in HeldAt(p)}]
      OBVIOUS
    <3>2. proc' = [proc EXCEPT ![p] = x] /\ consuming' = consuming
      BY <1>8, <2>3, <3>1 DEF InitHolds
    <3>3. {ClientOf[r] : r \in HeldAt(p)} \in SUBSET Client
      BY AssociationAssumption DEF HeldAt
    <3>4. x \in [at : {"siblings", "release"}, clients : SUBSET Client]
      BY <3>1, <3>3
    <3>. QED BY <1>6, <2>1, <3>2, <3>4
  <2>. QED BY <2>2, <2>3
<1>9. CASE InitSiblings(p)
  <2>1. UNCHANGED rows
    BY <1>9 DEF InitSiblings
  <2>2. CASE Starts(p, FALSE)
    BY <1>5, <1>7, <2>1, <2>2
  <2>3. CASE ~Starts(p, FALSE)
    <3>1. PICK x : x = [proc[p] EXCEPT !.at = "release"]
      OBVIOUS
    <3>2. proc' = [proc EXCEPT ![p] = x] /\ consuming' = consuming
      BY <1>1, <1>9, <2>3, <3>1 DEF InitSiblings, HoldType
    <3>3. x \in [at : {"siblings", "release"}, clients : SUBSET Client]
      BY <1>1, <3>1 DEF HoldType
    <3>. QED BY <1>6, <2>1, <3>2, <3>3
  <2>. QED BY <2>2, <2>3
<1>10. CASE InitRelease(p)
  <2>1. /\ rows' = [r \in Row |-> IF r \in HeldAt(p)
              THEN [rows[r] EXCEPT !.status = "active"] ELSE rows[r]]
        /\ Starts(p, TRUE)
    BY <1>10 DEF InitRelease
  <2>2. \A r \in Row :
          /\ rows'[r].process = rows[r].process
          /\ rows'[r].status = IF r \in HeldAt(p) THEN "active" ELSE rows[r].status
    BY <1>1, <2>1 DEF TypeInv
  <2>3. Restoring /\ HeldAt(p)' = {}
    BY <2>2 DEF Restoring, HeldAt
  <2>. QED BY <1>5, <2>1, <2>3
<1>. QED BY <1>8, <1>9, <1>10 DEF InitStep

LEMMA DownHolds ==
  ASSUME RunInv, BlockInv', NEW p \in Process, Down(p),
         UNCHANGED <<rows, script, cmdQueue, runs>>
  PROVE  RunInv'
<1>1. TypeInv /\ Commands /\ HoldType /\ Held /\ Released
  BY DEF RunInv, BlockInv
<1>2. PICK q \in Seq(Sound) : q = txQueue[p]
  BY <1>1 DEF TypeInv
<1>3. PICK n : n = [i \in DOMAIN q |-> Requeued(q[i])]
  OBVIOUS
<1>4. txQueue' = [txQueue EXCEPT ![p] = n]
  BY <1>1, <1>2, <1>3 DEF Down, Requeued, TypeInv
<1>5. /\ n \in Seq(Sound) /\ DOMAIN n = DOMAIN q /\ Rests(n) = {}
      /\ Once(q) => Once(n)
      /\ \A kind, r :
           /\ StageOf(n, kind, r) \subseteq {"queued"}
           /\ StageOf(n, kind, r) = {} <=> StageOf(q, kind, r) = {}
  BY <1>3, RequeueKeeps
<1>6. /\ txQueue' \in [Process -> Seq(Sound)] /\ txQueue'[p] = n
      /\ \A u \in Process : u # p => txQueue'[u] = txQueue[u]
  BY <1>1, <1>4, <1>5, QueueChanges
<1>7. /\ \A u \in Process, r \in Row :
           StageOf(txQueue'[u], Hold, r) = {} <=> StageOf(txQueue[u], Hold, r) = {}
      /\ \A u \in Process : Once(txQueue'[u])
      /\ \A u \in Process : Rests(txQueue'[u]) \subseteq RestsAt(u)
  <2>1. \A u \in Process : Once(txQueue[u])
    BY <1>1 DEF Commands
  <2>. QED BY <1>2, <1>5, <1>6, <2>1 DEF RestsAt
<1>8. \A u \in Process : \A cmd \in ToSet(txQueue'[u]) : Ready(cmd)
  <2>1. \A u \in Process : \A cmd \in ToSet(txQueue[u]) : Ready(cmd)
    BY <1>1 DEF Commands
  <2>2. \A cmd \in ToSet(n) : Ready(cmd)
    <3>1. \A i \in DOMAIN q : Ready(q[i])
      BY <1>2, <2>1 DEF ToSet
    <3>2. \A i \in DOMAIN q :
            n[i].original = q[i].original /\ n[i].at = "queued"
      <4>1. \A i \in DOMAIN q : q[i] \in Sound
        BY LenProperties, ElementOfSeq
      <4>. QED BY <1>3, <4>1 DEF Sound, Queued, Requeued
    <3>. QED BY <1>5, <3>1, <3>2 DEF Ready, ToSet
  <2>. QED BY <1>6, <2>1, <2>2
<1>9. /\ proc' = [proc EXCEPT ![p] = [at |-> "down", clients |-> {}]]
      /\ consuming' = [consuming EXCEPT ![p] = FALSE]
      /\ release' = [release EXCEPT ![p] = "none"]
  BY DEF Down
<1>10. HoldType' /\ ~consuming'[p] /\ release'[p] = "none"
  BY <1>1, <1>9 DEF HoldType
<1>11. \A u \in Process \ {p} :
         /\ release'[u] = release[u] /\ proc'[u] = proc[u]
         /\ consuming'[u] = consuming[u]
  BY <1>1, <1>9 DEF HoldType
<1>12. Commands'
  <2>1. \A u \in Process, r \in Row :
          StageOf(txQueue'[u], Hold, r) # {} => rows[r].process = u
    BY <1>1, <1>7 DEF Commands, Stage
  <2>2. \A u \in Process : \A y \in Rests(txQueue'[u]) :
          rows[y.row].process = y.process
    BY <1>1, <1>7 DEF Commands
  <2>3. \A u \in Process : proc'[u].at # "up" =>
          /\ ~consuming'[u] /\ release'[u] = "none"
          /\ \A r \in Row : StageOf(txQueue'[u], Hold, r) \subseteq {"queued"}
    <3>1. \A u \in Process \ {p} : proc'[u].at # "up" =>
            /\ ~consuming'[u] /\ release'[u] = "none"
            /\ \A r \in Row : StageOf(txQueue'[u], Hold, r) \subseteq {"queued"}
      BY <1>1, <1>6, <1>11 DEF Commands, Stage
    <3>2. \A r \in Row : StageOf(txQueue'[p], Hold, r) \subseteq {"queued"}
      BY <1>5, <1>6
    <3>. QED BY <1>10, <3>1, <3>2
  <2>. QED BY <1>1, <1>7, <1>8, <2>1, <2>2, <2>3 DEF Commands, Stage, RestsAt
<1>13. Held'
  <2> SUFFICES ASSUME NEW r \in Row, rows[r].status = "hold"
               PROVE  LET u == rows[r].process
                      IN /\ u \in Process
                         /\ StageOf(txQueue'[u], Hold, r) \subseteq {"queued", "stop"}
                         /\ consuming'[u] => "stop" \in StageOf(txQueue'[u], Hold, r)
    BY DEF Held, Stage
  <2>1. PICK u : u = rows[r].process
    OBVIOUS
  <2>2. /\ u \in Process /\ StageOf(txQueue[u], Hold, r) \subseteq {"queued", "stop"}
        /\ consuming[u] => "stop" \in StageOf(txQueue[u], Hold, r)
    BY <1>1, <2>1 DEF Held, Stage
  <2>3. CASE u = p
    BY <1>5, <1>6, <1>10, <2>1, <2>2, <2>3
  <2>4. CASE u # p
    BY <1>6, <1>11, <2>1, <2>2, <2>4
  <2>. QED BY <2>3, <2>4
<1>14. Released'
  <2>1. HeldAt(p)' = HeldAt(p) /\ \A u : HeldAt(u)' = HeldAt(u)
    BY DEF HeldAt
  <2>. QED BY <1>1, <1>6, <1>10, <1>11, <2>1 DEF Released, Stage
<1>15. QuietKept
  <2>1. ASSUME NEW r \in Row, Quiet(r) PROVE Quiet(r)'
    BY <1>7, <2>1 DEF Quiet, Stage, RestsAt
  <2>. QED BY <2>1 DEF QuietKept
<1>16. NotYet' /\ OneClient'
  BY <1>1, <1>15, ProcessTells
<1>17. OneScript'
  BY DEF RunInv, OneScript
<1>. QED BY <1>10, <1>12, <1>13, <1>14, <1>16, <1>17 DEF RunInv

-----------------------------------------------------------------------------
(* The scripts.  What a step of a script leaves as it is.                  *)
OthersStay(s) == \A u \in Script \ {s} : script'[u] = script[u]
OthersQuiet(s) ==
  \A r \in Row : ClientOf[r] # script[s].client /\ Quiet(r) => Quiet(r)'
SameClient(s) ==
  script'[s].at = "idle" \/ script'[s].client = script[s].client

LEMMA IdleIsTold ==
  ASSUME NEW s, script'[s] = Idle PROVE Told(s)'
<1>1. script'[s].at = "idle" /\ script'[s].send = <<>>
  BY DEF Idle
<1>2. ToSet(<<>>) = {}
  BY DEF ToSet
<1>. QED BY <1>1, <1>2 DEF Told

LEMMA OthersAreTold ==
  ASSUME BlockInv', OneScript, NEW s \in Script, OthersStay(s),
         script[s].at # "idle" \/ \A u \in Script : script[u].at = "idle"
  PROVE  \A u \in Script \ {s} : script'[u].at = "idle" /\ Told(u)'
<1> SUFFICES ASSUME NEW u \in Script \ {s}
             PROVE  script'[u].at = "idle" /\ Told(u)'
  OBVIOUS
<1>1. script'[u].at = "idle"
  BY DEF OneScript, OthersStay
<1>2. script'[u] = Idle
  BY <1>1 DEF BlockInv, Phase
<1>. QED BY <1>1, <1>2, IdleIsTold

LEMMA ScriptHolds ==
  ASSUME RunInv, BlockInv', NEW s \in Script, script[s].at # "idle",
         OthersStay(s), SameClient(s), runs' = runs,
         HoldType', Commands', Held', Released', OthersQuiet(s), Told(s)'
  PROVE  RunInv'
<1>1. OneScript /\ NotYet /\ OneClient
  BY DEF RunInv
<1>2. \A u \in Script \ {s} : script'[u].at = "idle" /\ Told(u)'
  BY <1>1, OthersAreTold
<1>3. NotYet'
  <2>1. runs' # 0
    BY <1>1 DEF NotYet
  <2>. QED BY <1>2, <2>1 DEF NotYet
<1>4. OneClient'
  <2>1. PICK c \in Client \cup {None} :
          /\ \A r \in Row : ClientOf[r] # c => Quiet(r)
          /\ \A u \in Script : script[u].at # "idle" => script[u].client = c
    BY <1>1 DEF OneClient
  <2>2. \A r \in Row : ClientOf[r] # c => Quiet(r)'
    BY <2>1 DEF OthersQuiet
  <2>3. \A u \in Script : script'[u].at # "idle" => script'[u].client = c
    BY <1>2, <2>1 DEF SameClient
  <2>. QED BY <2>1, <2>2, <2>3 DEF OneClient
<1>5. OneScript'
  BY <1>2 DEF OneScript
<1>. QED BY <1>3, <1>4, <1>5 DEF RunInv

(* A script that only reads, and one that changes rows that are quiet.     *)
QuietRows ==
  \A r \in Row : rows'[r] = rows[r] \/ (Quiet(r) /\ rows'[r].status # "hold")
StaysTold(s) == (\A r \in Row : Quiet(r) => Quiet(r)') => Told(s)'

LEMMA ReadHolds ==
  ASSUME RunInv, BlockInv', NEW s \in Script, script[s].at # "idle",
         OthersStay(s), SameClient(s), runs' = runs,
         UNCHANGED <<txQueue, cmdQueue, release, proc, consuming>>,
         QuietRows, StaysTold(s)
  PROVE  RunInv'
<1>1. TypeInv
  BY DEF RunInv, BlockInv
<1>2. /\ HoldType' /\ Commands' /\ Held' /\ Released'
      /\ \A r \in Row : Quiet(r) => Quiet(r)'
  BY <1>1, RowsHold DEF QuietRows
<1>3. OthersQuiet(s) /\ Told(s)'
  BY <1>2 DEF OthersQuiet, StaysTold
<1>. QED BY <1>2, <1>3, ScriptHolds

(* How the scripts write what they have come to.                           *)
LEMMA GoesIs ==
  ASSUME TypeInv, NEW s \in Script, NEW at, Goes(s, at)
  PROVE  /\ OthersStay(s) /\ script'[s].at = at
         /\ script'[s].client = script[s].client
         /\ script'[s].plan = script[s].plan /\ script'[s].send = script[s].send
<1>1. PICK x \in ScriptType : x = script[s]
  BY DEF TypeInv
<1>2. PICK y : y = [x EXCEPT !.at = at]
  OBVIOUS
<1>3. script' = [script EXCEPT ![s] = y]
  BY <1>1, <1>2 DEF Goes, TypeInv
<1>4. script'[s] = y /\ OthersStay(s)
  BY <1>3 DEF OthersStay, TypeInv
<1>5. y.at = at /\ y.client = x.client /\ y.plan = x.plan /\ y.send = x.send
  BY <1>2 DEF ScriptType
<1>. QED BY <1>1, <1>4, <1>5

LEMMA EndsIs ==
  ASSUME TypeInv, NEW s \in Script, Ends(s)
  PROVE  OthersStay(s) /\ script'[s] = Idle /\ SameClient(s) /\ Told(s)'
<1>1. OthersStay(s) /\ script'[s] = Idle
  BY DEF Ends, OthersStay, TypeInv
<1>2. SameClient(s)
  BY <1>1 DEF SameClient, Idle
<1>. QED BY <1>1, <1>2, IdleIsTold

(* Markers made from the rows there are: none of them is on hold.          *)
LEMMA MarkersAreActive ==
  ASSUME TypeInv', NEW s \in Script, \A r \in Row : Quiet(r),
         \A m \in ToSet(script'[s].send) :
           m.cmd.kind = Mark /\ m.cmd.original = rows[m.cmd.row].status
  PROVE  \A m \in ToSet(script'[s].send) : m.cmd.original = "active"
<1> SUFFICES ASSUME NEW m \in ToSet(script'[s].send)
             PROVE  m.cmd.original = "active"
  OBVIOUS
<1>1. script'[s].send \in Seq(Letters)
  BY DEF TypeInv, ScriptType
<1>2. \A i \in DOMAIN script'[s].send : script'[s].send[i] \in Letters
  BY <1>1, LenProperties, ElementOfSeq
<1>3. m \in Letters
  BY <1>2 DEF ToSet
<1>4. m.cmd.row \in Row /\ m.cmd.original \in Status \ {"blocker"}
  BY <1>3 DEF Letters, Sound, Queued
<1>5. m.cmd.original # "hold"
  BY <1>4 DEF Quiet
<1>. QED BY <1>4, <1>5 DEF Status

LEMMA ValidateHolds ==
  ASSUME RunInv, BlockInv', NEW s \in Script, ValidateAllWorkers(s)
  PROVE  RunInv'
<1>1. TypeInv /\ TypeInv' /\ Told(s) /\ script[s].at = "validate"
  BY DEF RunInv, BlockInv, NotYet, ValidateAllWorkers
<1>2. /\ UNCHANGED <<rows, txQueue, cmdQueue, release, proc, consuming, runs>>
      /\ script[s].at # "idle"
  BY <1>1 DEF ValidateAllWorkers, queueVars, procVars, countVars
<1>3. QuietRows
  BY <1>2 DEF QuietRows
<1>4. CASE Ends(s)
  <2>1. OthersStay(s) /\ SameClient(s) /\ StaysTold(s)
    BY <1>1, <1>4, EndsIs DEF StaysTold
  <2>. QED BY <1>2, <1>3, <2>1, ReadHolds
<1>5. CASE ~Ends(s)
  <2>1. PICK x \in ScriptType : x = script[s]
    BY <1>1 DEF TypeInv
  <2>2. PICK send : send = MarkersOf(x.client)
    OBVIOUS
  <2>3. script' = [script EXCEPT ![s].at = "mark", ![s].send = send]
    BY <1>5, <2>1, <2>2 DEF ValidateAllWorkers
  <2>4. PICK y : y = [x EXCEPT !.at = "mark", !.send = send]
    OBVIOUS
  <2>5. script' = [script EXCEPT ![s] = y]
    BY <1>1, <2>1, <2>3, <2>4 DEF TypeInv
  <2>6. OthersStay(s) /\ script'[s] = y
    BY <1>1, <2>5 DEF OthersStay, TypeInv
  <2>7. y.at = "mark" /\ y.client = x.client /\ y.send = send
    BY <2>4 DEF ScriptType
  <2>8. SameClient(s)
    BY <2>1, <2>6, <2>7 DEF SameClient
  <2>9. \A r \in Row : Quiet(r)
    BY <1>1 DEF Told
  <2>10. \A m \in ToSet(send) :
           m.cmd.kind = Mark /\ m.cmd.original = rows[m.cmd.row].status
    <3>1. PICK working : working = ById(Working(x.client))
      OBVIOUS
    <3>2. PICK first : first = [i \in DOMAIN working |->
                 First(AtProcess(x.client, rows[working[i]].process))]
      OBVIOUS
    <3>3. send = [i \in DOMAIN working |->
            To(rows[working[i]].process, Marker(first[i], rows[first[i]].status))]
      BY <2>2, <3>1, <3>2 DEF MarkersOf
    <3>4. \A i \in DOMAIN send :
            send[i] = To(rows[working[i]].process, Marker(first[i], rows[first[i]].status))
      BY <3>3
    <3>. QED BY <3>4 DEF ToSet, To, Marker, Command, Mark
  <2>11. \A m \in ToSet(send) : m.cmd.original = "active"
    BY <1>1, <2>6, <2>7, <2>9, <2>10, MarkersAreActive
  <2>12. StaysTold(s)
    BY <2>6, <2>7, <2>9, <2>10, <2>11 DEF StaysTold, Told
  <2>. QED BY <1>2, <1>3, <2>6, <2>8, <2>12, ReadHolds
<1>. QED BY <1>4, <1>5

LEMMA MarkStatusHolds ==
  ASSUME RunInv, BlockInv', NEW s \in Script, MarkBlockingStatus(s)
  PROVE  RunInv'
<1>1. /\ TypeInv /\ Told(s) /\ script[s].at = "mark"
      /\ Free(script[s].client, script[s].plan)
  BY DEF RunInv, BlockInv, NotYet, MarkBlockingStatus, Phase
<1>2. /\ UNCHANGED <<txQueue, cmdQueue, release, proc, consuming, runs>>
      /\ script[s].at # "idle" /\ Goes(s, "associate")
  BY <1>1 DEF MarkBlockingStatus, queueVars, procVars, countVars
<1>3. /\ OthersStay(s) /\ script'[s].at = "associate"
      /\ script'[s].client = script[s].client
      /\ script'[s].plan = script[s].plan /\ script'[s].send = script[s].send
  BY <1>1, <1>2, GoesIs
<1>4. \A r \in Row : Quiet(r)
  BY <1>1 DEF Told
<1>5. QuietRows
  <2>1. PICK c : c = script[s].client
    OBVIOUS
  <2>2. PICK new : new = {step.process : step \in ToSet(script[s].plan)}
    OBVIOUS
  <2>3. rows' = [r \in Row |->
          IF r \in Working(c) /\ rows[r].process \notin new
          THEN [rows[r] EXCEPT !.status = "blocker"] ELSE rows[r]]
    BY <2>1, <2>2 DEF MarkBlockingStatus
  <2>4. \A r \in Row : rows'[r] = rows[r] \/ rows'[r].status # "hold"
    BY <1>1, <2>3 DEF TypeInv
  <2>. QED BY <1>4, <2>4 DEF QuietRows
<1>6. \A u \in ToSet(script[s].plan) : u.row \in Row
  BY <1>1 DEF Free, ToSet, RowsOf
<1>7. SameClient(s) /\ StaysTold(s)
  BY <1>1, <1>3, <1>4, <1>6 DEF SameClient, StaysTold, Told
<1>. QED BY <1>2, <1>3, <1>5, <1>7, ReadHolds

LEMMA AssociateWorkerHolds ==
  ASSUME RunInv, BlockInv', NEW s \in Script, AssociateAvailableWorker(s)
  PROVE  RunInv'
<1>1. /\ TypeInv /\ Told(s) /\ script[s].at = "associate"
      /\ script[s].plan # <<>>
  BY DEF RunInv, BlockInv, NotYet, AssociateAvailableWorker, Phase
<1>2. /\ UNCHANGED <<txQueue, cmdQueue, release, proc, consuming, runs>>
      /\ script[s].at # "idle" /\ Goes(s, "hold")
  BY <1>1 DEF AssociateAvailableWorker, queueVars, procVars, countVars
<1>3. /\ OthersStay(s) /\ script'[s].at = "hold"
      /\ script'[s].client = script[s].client
      /\ script'[s].plan = script[s].plan /\ script'[s].send = script[s].send
  BY <1>1, <1>2, GoesIs
<1>4. PICK step : step = Head(script[s].plan)
  OBVIOUS
<1>5. step.row \in Row /\ Quiet(step.row)
  <2>1. script[s].plan \in Seq(Steps)
    BY <1>1 DEF TypeInv, ScriptType
  <2>2. step \in ToSet(script[s].plan)
    BY <1>1, <1>4, <2>1, HeadTail
  <2>. QED BY <1>1, <2>2 DEF Told
<1>6. QuietRows
  <2>1. rows' = [rows EXCEPT ![step.row].process = step.process]
    BY <1>4 DEF AssociateAvailableWorker
  <2>2. \A r \in Row : rows'[r] = rows[r] \/ r = step.row
    BY <1>1, <2>1 DEF TypeInv
  <2>3. rows'[step.row].status = rows[step.row].status
    BY <1>1, <1>5, <2>1 DEF TypeInv
  <2>. QED BY <1>5, <2>2, <2>3 DEF QuietRows, Quiet
<1>7. SameClient(s) /\ StaysTold(s)
  BY <1>1, <1>3 DEF SameClient, StaysTold, Told
<1>. QED BY <1>2, <1>3, <1>6, <1>7, ReadHolds

LEMMA RemoveHolds ==
  ASSUME RunInv, BlockInv', NEW s \in Script, RemoveProcessWorkerAssociation(s)
  PROVE  RunInv'
<1>1. TypeInv /\ Told(s) /\ script[s].at = "remove"
  BY DEF RunInv, BlockInv, NotYet, RemoveProcessWorkerAssociation
<1>2. /\ UNCHANGED <<txQueue, cmdQueue, release, proc, consuming, runs>>
      /\ script[s].at # "idle"
  BY <1>1 DEF RemoveProcessWorkerAssociation, queueVars, procVars, countVars
<1>3. PICK x \in ScriptType : x = script[s]
  BY <1>1 DEF TypeInv
<1>4. PICK y : y = [x EXCEPT !.at = "removed", !.plan = <<>>]
  OBVIOUS
<1>5. y.at = "removed" /\ y.client = x.client /\ y.send = x.send
  BY <1>4 DEF ScriptType
<1>6. script' = [script EXCEPT ![s] = y]
  BY <1>1, <1>3, <1>4 DEF RemoveProcessWorkerAssociation, TypeInv
<1>7. OthersStay(s) /\ script'[s] = y
  BY <1>1, <1>6 DEF OthersStay, TypeInv
<1>8. \A r \in Row : Quiet(r)
  BY <1>1 DEF Told
<1>9. QuietRows
  <2>1. PICK ids : rows' = [r \in Row |-> IF r \in ids
                       THEN [process |-> None, status |-> "blocker"] ELSE rows[r]]
    BY DEF RemoveProcessWorkerAssociation
  <2>2. \A r \in Row : rows'[r] = rows[r] \/ rows'[r].status # "hold"
    BY <2>1
  <2>. QED BY <1>8, <2>2 DEF QuietRows
<1>10. SameClient(s) /\ StaysTold(s)
  BY <1>1, <1>3, <1>5, <1>7, <1>8 DEF SameClient, StaysTold, Told
<1>. QED BY <1>2, <1>7, <1>9, <1>10, ReadHolds

LEMMA IdsHolds ==
  ASSUME RunInv, BlockInv', NEW s \in Script, GetAssociationIds(s)
  PROVE  RunInv'
<1>1. TypeInv /\ TypeInv' /\ Told(s) /\ script[s].at = "ids"
  BY DEF RunInv, BlockInv, NotYet, GetAssociationIds
<1>2. /\ UNCHANGED <<rows, txQueue, cmdQueue, release, proc, consuming, runs>>
      /\ script[s].at # "idle"
  BY <1>1 DEF GetAssociationIds, queueVars, procVars, countVars
<1>3. QuietRows
  BY <1>2 DEF QuietRows
<1>4. CASE Ends(s)
  <2>1. OthersStay(s) /\ SameClient(s) /\ StaysTold(s)
    BY <1>1, <1>4, EndsIs DEF StaysTold
  <2>. QED BY <1>2, <1>3, <2>1, ReadHolds
<1>5. CASE ~Ends(s)
  <2> DEFINE thePs == [i \in DOMAIN script[s].plan |-> script[s].plan[i].process]
             theC == script[s].client
             theOf == [p \in ToSet(thePs) |-> First(AtProcess(theC, p))]
             theIds == ById({theOf[p] : p \in ToSet(thePs)})
             thePlan == [i \in DOMAIN thePs |->
                           [row |-> theOf[thePs[i]], process |-> thePs[i]]]
             theSend == [i \in DOMAIN thePs |->
                 To(thePs[i], Marker(theIds[i], rows[theIds[i]].status))]
  <2>1. script' = [script EXCEPT ![s].at = "remove", ![s].plan = thePlan,
                                 ![s].send = theSend]
    BY <1>5 DEF GetAssociationIds
  <2>2. PICK ps : ps = thePs
    OBVIOUS
  <2>3. PICK ids : ids = theIds
    OBVIOUS
  <2>4. PICK plan : plan = thePlan
    OBVIOUS
  <2>5. PICK send : send = theSend
    OBVIOUS
  <2>. HIDE DEF thePs, theIds
  <2>6. send = [i \in DOMAIN ps |-> To(ps[i], Marker(ids[i], rows[ids[i]].status))]
    BY <2>2, <2>3, <2>5
  <2>. HIDE DEF theC, theOf, thePlan, theSend
  <2>7. script' = [script EXCEPT ![s].at = "remove", ![s].plan = plan,
                                 ![s].send = send]
    BY <2>1, <2>4, <2>5
  <2>8. PICK x \in ScriptType : x = script[s]
    BY <1>1 DEF TypeInv
  <2>9. PICK y : y = [x EXCEPT !.at = "remove", !.plan = plan, !.send = send]
    OBVIOUS
  <2>10. script' = [script EXCEPT ![s] = y]
    BY <1>1, <2>7, <2>8, <2>9 DEF TypeInv
  <2>11. OthersStay(s) /\ script'[s] = y
    BY <1>1, <2>10 DEF OthersStay, TypeInv
  <2>12. y.at = "remove" /\ y.client = x.client /\ y.send = send
    BY <2>9 DEF ScriptType
  <2>13. \A r \in Row : Quiet(r)
    BY <1>1 DEF Told
  <2>14. \A m \in ToSet(send) :
           m.cmd.kind = Mark /\ m.cmd.original = rows[m.cmd.row].status
    <3>1. \A i \in DOMAIN send :
            send[i] = To(ps[i], Marker(ids[i], rows[ids[i]].status))
      BY <2>6
    <3>. QED BY <3>1 DEF ToSet, To, Marker, Command, Mark
  <2>15. \A m \in ToSet(send) : m.cmd.original = "active"
    BY <1>1, <2>11, <2>12, <2>13, <2>14, MarkersAreActive
  <2>16. SameClient(s) /\ StaysTold(s)
    BY <2>8, <2>11, <2>12, <2>13, <2>14, <2>15 DEF SameClient, StaysTold, Told
  <2>. QED BY <1>2, <1>3, <2>11, <2>16, ReadHolds
<1>. QED BY <1>4, <1>5

LEMMA SiblingsHolds ==
  ASSUME RunInv, BlockInv', NEW s \in Script, GetSiblings(s)
  PROVE  RunInv'
<1>1. TypeInv /\ Told(s) /\ script[s].at = "siblings"
  BY DEF RunInv, BlockInv, NotYet, GetSiblings
<1>2. /\ UNCHANGED <<rows, txQueue, cmdQueue, release, proc, consuming, runs>>
      /\ script[s].at # "idle"
  BY <1>1 DEF GetSiblings, queueVars, procVars, countVars
<1>3. QuietRows
  BY <1>2 DEF QuietRows
<1>4. CASE Ends(s)
  <2>1. OthersStay(s) /\ SameClient(s) /\ StaysTold(s)
    BY <1>1, <1>4, EndsIs DEF StaysTold
  <2>. QED BY <1>2, <1>3, <2>1, ReadHolds
<1>5. CASE ~Ends(s)
  <2>1. PICK x \in ScriptType : x = script[s]
    BY <1>1 DEF TypeInv
  <2>2. PICK working : working = ById(Working(x.client))
    OBVIOUS
  <2>3. PICK k \in Nat : /\ working \in [1 .. k -> Working(x.client)]
                        /\ \A i, j \in 1 .. k : i # j => working[i] # working[j]
    <3>1. PICK R : R = Working(x.client)
      OBVIOUS
    <3>2. R \subseteq Nat /\ IsFiniteSet(R)
      <4>1. R \in SUBSET Row
        BY <3>1 DEF Working, RowsOf
      <4>. QED BY <4>1, RowsAreFinite
    <3>3. PICK n \in Nat : n = Cardinality(R)
      BY <3>2, FS_CardinalityType
    <3>4. /\ ById(R) \in [1 .. n -> R]
          /\ \A i, j \in 1 .. n : i # j => ById(R)[i] # ById(R)[j]
      BY <3>2, <3>3, ByIdOrders
    <3>. QED BY <2>2, <3>1, <3>4
  <2>4. PICK send : send = [i \in DOMAIN working |->
                              To(rows[working[i]].process, GoOnHold(working[i]))]
    OBVIOUS
  <2>5. script' = [script EXCEPT ![s].at = "holds", ![s].send = send]
    BY <1>5, <2>1, <2>2, <2>4 DEF GetSiblings
  <2>6. PICK y : y = [x EXCEPT !.at = "holds", !.send = send]
    OBVIOUS
  <2>7. script' = [script EXCEPT ![s] = y]
    BY <1>1, <2>1, <2>5, <2>6 DEF TypeInv
  <2>8. OthersStay(s) /\ script'[s] = y
    BY <1>1, <2>7 DEF OthersStay, TypeInv
  <2>9. y.at = "holds" /\ y.client = x.client /\ y.send = send
    BY <2>6 DEF ScriptType
  <2>10. \A r \in Row : Quiet(r)
    BY <1>1 DEF Told
  <2>11. /\ DOMAIN send = 1 .. k
         /\ \A i \in 1 .. k :
              /\ send[i].process = rows[working[i]].process
              /\ send[i].cmd.kind = Hold /\ send[i].cmd.row = working[i]
              /\ send[i].cmd.original = "active"
              /\ working[i] \in Row /\ ClientOf[working[i]] = x.client
    <3>1. DOMAIN send = 1 .. k
      BY <2>3, <2>4
    <3>2. \A i \in 1 .. k :
            send[i] = To(rows[working[i]].process, GoOnHold(working[i]))
      BY <2>3, <2>4
    <3>3. \A i \in 1 .. k : working[i] \in Row /\ ClientOf[working[i]] = x.client
      BY <2>3 DEF Working, RowsOf
    <3>. QED BY <3>1, <3>2, <3>3 DEF To, GoOnHold, Command, Hold
  <2>12. StaysTold(s)
    <3> SUFFICES ASSUME \A r \in Row : Quiet(r)' PROVE Told(s)'
      BY <2>10 DEF StaysTold
    <3>1. \A m \in ToSet(send) :
            /\ m.cmd.kind = Hold /\ m.cmd.row \in Row
            /\ rows[m.cmd.row].process = m.process
            /\ ClientOf[m.cmd.row] = x.client /\ m.cmd.original = "active"
      BY <2>11 DEF ToSet
    <3>2. \A i, j \in DOMAIN send : i # j => send[i].cmd.row # send[j].cmd.row
      BY <2>3, <2>11
    <3>. QED BY <1>2, <2>8, <2>9, <3>1, <3>2 DEF Told
  <2>13. SameClient(s)
    BY <2>1, <2>8, <2>9 DEF SameClient
  <2>. QED BY <1>2, <1>3, <2>8, <2>12, <2>13, ReadHolds
<1>. QED BY <1>4, <1>5

LEMMA SendGoOnHoldHolds ==
  ASSUME RunInv, BlockInv', NEW s \in Script, SendGoOnHold(s), lost' = 0
  PROVE  RunInv'
<1>1. TypeInv /\ Told(s) /\ script[s].at = "hold" /\ script[s].plan # <<>>
  BY DEF RunInv, BlockInv, NotYet, SendGoOnHold, Phase
<1>2. PICK x \in ScriptType : x = script[s]
  BY <1>1 DEF TypeInv
<1>3. PICK step : step = Head(x.plan)
  OBVIOUS
<1>4. PICK left : left = Tail(x.plan)
  OBVIOUS
<1>5. /\ step \in Steps /\ step \in ToSet(x.plan) /\ left \in Seq(Steps)
      /\ ToSet(left) \subseteq ToSet(x.plan)
  <2>1. x.plan \in Seq(Steps)
    BY DEF ScriptType
  <2>. QED BY <1>1, <1>2, <1>3, <1>4, <2>1, HeadTail
<1>6. /\ Free(x.client, left) /\ step.row \in RowsOf(x.client)
      /\ rows[step.row].process = step.process
  BY <1>1, <1>2, <1>3, <1>4 DEF RunInv, BlockInv, Phase
<1>7. step.row \in Row /\ step.process \in Process /\ Quiet(step.row)
  BY <1>1, <1>2, <1>5 DEF Steps, Told
<1>8. PICK m : m = To(step.process, GoOnHold(step.row))
  OBVIOUS
<1>9. /\ m \in Letters /\ m.process = step.process /\ m.cmd.row = step.row
      /\ m.cmd.original = "active" /\ m.cmd.kind = Hold
  BY <1>7, <1>8
  DEF To, GoOnHold, Command, Letters, Sound, Queued, Status, Hold
<1>10. /\ Publish(m) /\ script[s].at # "idle"
       /\ UNCHANGED <<rows, cmdQueue, release, proc, consuming, runs>>
  BY <1>1, <1>2, <1>3, <1>8 DEF SendGoOnHold, procVars
<1>11. m.cmd.kind = Hold => Quiet(m.cmd.row) /\ rows[m.cmd.row].process = m.process
  BY <1>6, <1>7, <1>9
<1>12. /\ HoldType' /\ Commands' /\ Held' /\ Released'
       /\ \A r \in Row : Quiet(r) /\ (m.cmd.kind = Hold => r # m.cmd.row) =>
            Quiet(r)'
  BY <1>1, <1>9, <1>10, <1>11, PublishHolds
<1>13. \A r \in Row : Quiet(r) /\ r # step.row => Quiet(r)'
  BY <1>9, <1>12
<1>14. OthersQuiet(s)
  BY <1>2, <1>6, <1>13 DEF OthersQuiet, RowsOf
<1>15. CASE Ends(s)
  <2>1. OthersStay(s) /\ SameClient(s) /\ Told(s)'
    BY <1>1, <1>15, EndsIs
  <2>. QED BY <1>10, <1>12, <1>14, <2>1, ScriptHolds
<1>16. CASE ~Ends(s)
  <2>1. PICK at : at = IF left = <<>> THEN "markers" ELSE "associate"
    OBVIOUS
  <2>2. PICK y : y = [x EXCEPT !.plan = left, !.at = at]
    OBVIOUS
  <2>3. y.at = at /\ y.send = x.send /\ y.client = x.client /\ y.plan = left
    BY <2>2 DEF ScriptType
  <2>4. script' = [script EXCEPT ![s].plan = left, ![s].at = at]
    BY <1>2, <1>4, <1>16, <2>1 DEF SendGoOnHold
  <2>5. script' = [script EXCEPT ![s] = y]
    BY <1>1, <1>2, <2>2, <2>4 DEF TypeInv
  <2>6. OthersStay(s) /\ script'[s] = y
    BY <1>1, <2>5 DEF OthersStay, TypeInv
  <2>7. SameClient(s)
    BY <1>2, <2>3, <2>6 DEF SameClient
  <2>8. \A u \in ToSet(left) : u.row \in Row /\ Quiet(u.row)'
    <3> SUFFICES ASSUME NEW u \in ToSet(left)
                 PROVE  u.row \in Row /\ Quiet(u.row)'
      OBVIOUS
    <3>1. u.row \in Row /\ Quiet(u.row)
      BY <1>1, <1>2, <1>5 DEF Told
    <3>2. rows[u.row].process = None
      BY <1>6 DEF Free, ToSet
    <3>3. u.row # step.row
      BY <1>6, <1>7, <3>2, AssociationAssumption
    <3>. QED BY <1>13, <3>1, <3>3
  <2>9. at \in {"markers", "associate"}
    BY <2>1
  <2>10. /\ \A u \in ToSet(x.send) : u.cmd.kind = Mark
         /\ \A u \in ToSet(x.send) : u.cmd.original = "active"
    BY <1>1, <1>2 DEF Told
  <2>11. Told(s)'
    BY <2>3, <2>6, <2>8, <2>9, <2>10 DEF Told
  <2>. QED BY <1>10, <1>12, <1>14, <2>6, <2>7, <2>11, ScriptHolds
<1>. QED BY <1>15, <1>16

LEMMA SendNextHolds ==
  ASSUME RunInv, BlockInv', NEW s \in Script, NEW from, NEW next,
         SendNext(s, from, next), lost' = 0,
         \/ from \in {"markers", "holds"} /\ next = "idle"
         \/ from = "removed" /\ next = "siblings"
  PROVE  RunInv'
<1>1. TypeInv /\ Told(s) /\ script[s].at = from /\ script[s].send # <<>>
  BY DEF RunInv, BlockInv, NotYet, SendNext, Phase
<1>2. PICK x \in ScriptType : x = script[s]
  BY <1>1 DEF TypeInv
<1>3. PICK m : m = Head(x.send)
  OBVIOUS
<1>4. PICK left : left = Tail(x.send)
  OBVIOUS
<1>5. /\ m \in Letters /\ m \in ToSet(x.send) /\ left \in Seq(Letters)
      /\ ToSet(left) \subseteq ToSet(x.send)
      /\ m = x.send[1] /\ 1 \in DOMAIN x.send
      /\ \A i \in DOMAIN left : /\ i + 1 \in DOMAIN x.send /\ i + 1 # 1
                                /\ left[i] = x.send[i + 1]
      /\ \A i, j \in DOMAIN left : i # j => i + 1 # j + 1
  <2>1. x.send \in Seq(Letters)
    BY DEF ScriptType
  <2>. QED BY <1>1, <1>2, <1>3, <1>4, <2>1, HeadTail
<1>6. /\ Publish(m) /\ script[s].at # "idle"
      /\ UNCHANGED <<rows, cmdQueue, release, proc, consuming, runs>>
  BY <1>1, <1>2, <1>3 DEF SendNext, procVars
<1>7. /\ m.cmd.original = "active"
      /\ from # "holds" => m.cmd.kind = Mark
      /\ from = "holds" =>
           /\ m.cmd.kind = Hold /\ Quiet(m.cmd.row)
           /\ rows[m.cmd.row].process = m.process
           /\ ClientOf[m.cmd.row] = x.client
  <2>1. \A u \in ToSet(x.send) : u.cmd.original = "active"
    BY <1>1, <1>2 DEF Told
  <2>2. from \in {"markers", "removed"} => \A u \in ToSet(x.send) : u.cmd.kind = Mark
    BY <1>1, <1>2 DEF Told
  <2>3. from = "holds" => \A u \in ToSet(x.send) :
          /\ u.cmd.kind = Hold /\ Quiet(u.cmd.row)
          /\ rows[u.cmd.row].process = u.process
          /\ ClientOf[u.cmd.row] = x.client
    BY <1>1, <1>2 DEF Told
  <2>4. from \in {"markers", "removed", "holds"}
    OBVIOUS
  <2>. QED BY <1>5, <2>1, <2>2, <2>3, <2>4
<1>13. m.cmd.kind = Hold => from = "holds"
  BY <1>7 DEF Mark, Hold
<1>8. m.cmd.kind = Hold => Quiet(m.cmd.row) /\ rows[m.cmd.row].process = m.process
  BY <1>7, <1>13
<1>9. /\ HoldType' /\ Commands' /\ Held' /\ Released'
      /\ \A r \in Row : Quiet(r) /\ (m.cmd.kind = Hold => r # m.cmd.row) =>
           Quiet(r)'
  BY <1>1, <1>5, <1>6, <1>7, <1>8, PublishHolds
<1>14. \A r \in Row : Quiet(r) /\ (m.cmd.kind = Hold => r # m.cmd.row) =>
         Quiet(r)'
  BY <1>9
<1>10. OthersQuiet(s)
  <2>1. m.cmd.kind = Hold => ClientOf[m.cmd.row] = script[s].client
    BY <1>2, <1>7, <1>13
  <2>. QED BY <1>14, <2>1 DEF OthersQuiet
<1>11. CASE Ends(s)
  <2>1. OthersStay(s) /\ SameClient(s) /\ Told(s)'
    BY <1>1, <1>11, EndsIs
  <2>. QED BY <1>6, <1>9, <1>10, <2>1, ScriptHolds
<1>12. CASE ~Ends(s)
  <2>1. PICK at : at = IF left = <<>> THEN "siblings" ELSE from
    OBVIOUS
  <2>2. PICK y : y = [x EXCEPT !.send = left, !.at = at]
    OBVIOUS
  <2>3. /\ y.at = at /\ y.send = left /\ y.client = x.client
        /\ y.plan = x.plan
    BY <2>2 DEF ScriptType
  <2>4. script' = [script EXCEPT ![s] = y]
    <3>1. CASE left # <<>>
      <4>1. script' = [script EXCEPT ![s].send = left]
        BY <1>2, <1>4, <3>1 DEF SendNext
      <4>2. y = [x EXCEPT !.send = left]
        BY <1>1, <1>2, <2>1, <2>2, <3>1 DEF ScriptType
      <4>. QED BY <1>1, <1>2, <4>1, <4>2 DEF TypeInv
    <3>2. CASE left = <<>>
      <4>1. script' = [script EXCEPT ![s].send = left, ![s].at = "siblings"]
        BY <1>2, <1>4, <1>12, <3>2 DEF SendNext
      <4>. QED BY <1>1, <1>2, <2>1, <2>2, <3>2, <4>1 DEF TypeInv
    <3>. QED BY <3>1, <3>2
  <2>5. OthersStay(s) /\ script'[s] = y
    BY <1>1, <2>4 DEF OthersStay, TypeInv
  <2>6. SameClient(s)
    BY <1>2, <2>3, <2>5 DEF SameClient
  <2>7. left = <<>> => from = "removed"
    BY <1>2, <1>4, <1>12 DEF SendNext
  <2>8. \A u \in ToSet(left) : u.cmd.original = "active"
    BY <1>1, <1>2, <1>5 DEF Told
  <2>9. CASE from \in {"markers", "removed"}
    <3>1. at \in {"markers", "removed", "siblings"}
          /\ (at # "markers" => from = "removed")
      BY <2>1, <2>7, <2>9
    <3>2. \A r \in Row : Quiet(r) => Quiet(r)'
      BY <1>13, <1>14, <2>9
    <3>3. at # "markers" => \A r \in Row : Quiet(r)'
      BY <1>1, <3>1, <3>2 DEF Told
    <3>4. \A u \in ToSet(left) : u.cmd.kind = Mark
      BY <1>1, <1>2, <1>5, <2>9 DEF Told
    <3>5. Told(s)'
      BY <2>3, <2>5, <2>8, <3>1, <3>3, <3>4 DEF Told
    <3>. QED BY <1>6, <1>9, <1>10, <2>5, <2>6, <3>5, ScriptHolds
  <2>10. CASE from = "holds"
    <3>1. at = "holds"
      BY <2>1, <2>7, <2>10
    <3>2. \A i \in DOMAIN left :
            /\ left[i].cmd.row \in Row /\ left[i].cmd.row # m.cmd.row
            /\ left[i].cmd.kind = Hold /\ Quiet(left[i].cmd.row)
            /\ rows[left[i].cmd.row].process = left[i].process
            /\ ClientOf[left[i].cmd.row] = x.client
      <4> SUFFICES ASSUME NEW i \in DOMAIN left
                   PROVE  /\ left[i].cmd.row \in Row /\ left[i].cmd.row # m.cmd.row
                          /\ left[i].cmd.kind = Hold /\ Quiet(left[i].cmd.row)
                          /\ rows[left[i].cmd.row].process = left[i].process
                          /\ ClientOf[left[i].cmd.row] = x.client
        OBVIOUS
      <4>1. PICK j \in DOMAIN x.send : j # 1 /\ left[i] = x.send[j]
        BY <1>5
      <4>2. x.send[j].cmd.row # x.send[1].cmd.row
        BY <1>1, <1>2, <1>5, <2>10, <4>1 DEF Told
      <4>3. left[i] \in ToSet(x.send)
        BY <4>1 DEF ToSet
      <4>4. left[i] \in Letters
        BY <1>5, LenProperties, ElementOfSeq
      <4>5. left[i].cmd.row \in Row
        BY <4>4 DEF Letters, Sound, Queued
      <4>. QED BY <1>1, <1>2, <1>5, <2>10, <4>1, <4>2, <4>3, <4>5 DEF Told
    <3>3. \A i \in DOMAIN left : Quiet(left[i].cmd.row)'
      BY <1>14, <3>2
    <3>4. \A i, j \in DOMAIN left : i # j => left[i].cmd.row # left[j].cmd.row
      <4>1. \A i, j \in DOMAIN x.send :
              i # j => x.send[i].cmd.row # x.send[j].cmd.row
        BY <1>1, <1>2, <2>10 DEF Told
      <4>. QED BY <1>5, <4>1
    <3>5. \A u \in ToSet(left) :
            /\ u.cmd.kind = Hold /\ Quiet(u.cmd.row)'
            /\ rows'[u.cmd.row].process = u.process
            /\ ClientOf[u.cmd.row] = x.client
      BY <1>6, <3>2, <3>3 DEF ToSet
    <3>6. Told(s)'
      BY <2>3, <2>5, <2>8, <3>1, <3>4, <3>5 DEF Told
    <3>. QED BY <1>6, <1>9, <1>10, <2>5, <2>6, <3>6, ScriptHolds
  <2>. QED BY <2>9, <2>10
<1>. QED BY <1>11, <1>12

(* A run begins: nothing has been heard of any row.                        *)
LEMMA BeginHolds ==
  ASSUME RunInv, BlockInv', NEW s \in Script, Associate(s) \/ Deassociate(s),
         runs = 0
  PROVE  RunInv'
<1>1. /\ TypeInv /\ HoldType /\ Commands /\ Held /\ Released /\ OneScript
      /\ \A u \in Script : script[u].at = "idle"
      /\ \A r \in Row : Quiet(r)
  BY DEF RunInv, BlockInv, NotYet
<1>2. UNCHANGED <<rows, txQueue, cmdQueue, release, proc, consuming>>
  BY DEF Associate, Deassociate, queueVars, procVars
<1>3. PICK x : /\ script' = [script EXCEPT ![s] = x] /\ x.client \in Client
              /\ x.at \in {"validate", "ids"} /\ x.send = <<>>
  <2>1. CASE Associate(s)
    <3>1. PICK c \in Client : \E plan :
            script' = [script EXCEPT ![s] =
              [at |-> "validate", client |-> c, send |-> <<>>, plan |-> plan]]
      BY <2>1 DEF Associate
    <3>3. PICK plan :
            script' = [script EXCEPT ![s] =
              [at |-> "validate", client |-> c, send |-> <<>>, plan |-> plan]]
      BY <3>1
    <3>2. PICK x : x = [at |-> "validate", client |-> c, send |-> <<>>, plan |-> plan]
      OBVIOUS
    <3>4. x.at = "validate" /\ x.client = c /\ x.send = <<>>
      BY <3>2
    <3>5. script' = [script EXCEPT ![s] = x]
      BY <3>2, <3>3
    <3>. QED BY <3>4, <3>5
  <2>2. CASE Deassociate(s)
    <3>1. PICK c \in Client : \E plan :
            script' = [script EXCEPT ![s] =
              [at |-> "ids", client |-> c, send |-> <<>>, plan |-> plan]]
      BY <2>2 DEF Deassociate
    <3>3. PICK plan :
            script' = [script EXCEPT ![s] =
              [at |-> "ids", client |-> c, send |-> <<>>, plan |-> plan]]
      BY <3>1
    <3>2. PICK x : x = [at |-> "ids", client |-> c, send |-> <<>>, plan |-> plan]
      OBVIOUS
    <3>4. x.at = "ids" /\ x.client = c /\ x.send = <<>>
      BY <3>2
    <3>5. script' = [script EXCEPT ![s] = x]
      BY <3>2, <3>3
    <3>. QED BY <3>4, <3>5
  <2>. QED BY <2>1, <2>2
<1>4. OthersStay(s) /\ script'[s] = x
  BY <1>1, <1>3 DEF OthersStay, TypeInv
<1>5. QuietRows
  BY <1>2 DEF QuietRows
<1>6. /\ HoldType' /\ Commands' /\ Held' /\ Released'
      /\ \A r \in Row : Quiet(r) => Quiet(r)'
  BY <1>1, <1>2, <1>5, RowsHold DEF QuietRows
<1>7. \A r \in Row : Quiet(r)'
  BY <1>1, <1>6
<1>8. \A u \in Script \ {s} : script'[u].at = "idle" /\ Told(u)'
  BY <1>1, <1>4, OthersAreTold
<1>9. Told(s)'
  <2>1. ToSet(<<>>) = {}
    BY DEF ToSet
  <2>. QED BY <1>3, <1>4, <1>7, <2>1 DEF Told
<1>10. NotYet'
  <2>1. runs' # 0
    BY <1>1 DEF Associate, Deassociate, TypeInv
  <2>. QED BY <1>8, <1>9, <2>1 DEF NotYet
<1>11. OneClient'
  BY <1>3, <1>4, <1>7, <1>8 DEF OneClient
<1>12. OneScript'
  BY <1>8 DEF OneScript
<1>. QED BY <1>6, <1>10, <1>11, <1>12 DEF RunInv

-----------------------------------------------------------------------------
LEMMA CountsKept ==
  ASSUME [Next]_vars
  PROVE  lost' \in {lost, lost + 1} /\ runs' \in {runs, runs + 1}
<1>1. ASSUME NEW s \in Script,
             Associate(s) \/ Deassociate(s) \/ ScriptStep(s) \/ ScriptDies(s)
      PROVE  lost' \in {lost, lost + 1} /\ runs' \in {runs, runs + 1}
  <2>1. \A m : Publish(m) => lost' \in {lost, lost + 1}
    BY DEF Publish
  <2>2. \A from, next : SendNext(s, from, next) =>
          lost' \in {lost, lost + 1} /\ runs' = runs
    BY <2>1 DEF SendNext
  <2>3. SendGoOnHold(s) => lost' \in {lost, lost + 1} /\ runs' = runs
    BY <2>1 DEF SendGoOnHold
  <2>4. SendBlockingMessage(s) \/ SendCommandMsg(s) \/ SendHoldToSiblings(s) =>
          lost' \in {lost, lost + 1} /\ runs' = runs
    BY <2>2 DEF SendBlockingMessage, SendCommandMsg, SendHoldToSiblings
  <2>5. ASSUME \/ Associate(s) \/ Deassociate(s) \/ ScriptDies(s)
               \/ ValidateAllWorkers(s) \/ MarkBlockingStatus(s)
               \/ AssociateAvailableWorker(s) \/ GetAssociationIds(s)
               \/ RemoveProcessWorkerAssociation(s) \/ GetSiblings(s)
        PROVE  lost' \in {lost, lost + 1} /\ runs' \in {runs, runs + 1}
    BY <2>5 DEF Associate, Deassociate, ScriptDies, ValidateAllWorkers,
       MarkBlockingStatus, AssociateAvailableWorker, GetAssociationIds,
       RemoveProcessWorkerAssociation, GetSiblings, countVars
  <2>. QED BY <1>1, <2>3, <2>4, <2>5 DEF ScriptStep
<1>2. ASSUME NEW p \in Process,
             \/ Deliver(p) \/ ReleaseStep(p) \/ ReleaseFails(p)
             \/ InitStep(p) \/ Stop(p) \/ Crash(p)
      PROVE  lost' \in {lost, lost + 1} /\ runs' \in {runs, runs + 1}
  BY <1>2 DEF Deliver, ReleaseStep, ReleaseRead, ReleaseSiblings, ReleaseWrite,
     ReleaseStart, ReleaseFails, InitStep, InitHolds, InitSiblings, InitRelease,
     Stop, Crash, countVars
<1>3. ASSUME NEW p \in Process, NEW i \in DOMAIN txQueue[p],
             TxStep(p, i) \/ CommandFails(p, i)
      PROVE  lost' \in {lost, lost + 1} /\ runs' \in {runs, runs + 1}
  BY <1>3 DEF TxStep, MarkRead, MarkRestore, MarkList, MarkSend, HoldRead,
     HoldSiblings, HoldWrite, HoldStop, CommandFails, countVars
<1>4. UNCHANGED vars => lost' = lost /\ runs' = runs
  BY DEF vars, countVars
<1>. QED BY <1>1, <1>2, <1>3, <1>4 DEF Next

(* One script runs at a time when it is the only one ever begun.           *)
LEMMA OneScriptKept ==
  ASSUME RunInv, [Next]_vars, runs' <= 1
  PROVE  OneScript'
<1>1. TypeInv /\ OneScript /\ NotYet
  BY DEF RunInv, BlockInv
<1>2. ASSUME NEW s \in Script,
             Associate(s) \/ Deassociate(s) \/ ScriptStep(s) \/ ScriptDies(s)
      PROVE  OneScript'
  <2>1. \A from, next : SendNext(s, from, next) =>
          OthersStay(s) /\ script[s].at = from
    BY <1>1 DEF SendNext, Ends, OthersStay, TypeInv
  <2>2. SendBlockingMessage(s) \/ SendCommandMsg(s) \/ SendHoldToSiblings(s) =>
          OthersStay(s) /\ script[s].at # "idle"
    BY <2>1 DEF SendBlockingMessage, SendCommandMsg, SendHoldToSiblings
  <2>3. ASSUME \/ ValidateAllWorkers(s) \/ MarkBlockingStatus(s)
               \/ AssociateAvailableWorker(s) \/ SendGoOnHold(s)
               \/ RemoveProcessWorkerAssociation(s) \/ GetSiblings(s)
               \/ ScriptDies(s)
        PROVE  OthersStay(s) /\ script[s].at # "idle"
    BY <1>1, <2>3 DEF ValidateAllWorkers, MarkBlockingStatus, AssociateAvailableWorker,
       SendGoOnHold, RemoveProcessWorkerAssociation, GetSiblings, ScriptDies,
       Goes, Ends, OthersStay, TypeInv
  <2>4. GetAssociationIds(s) => OthersStay(s) /\ script[s].at # "idle"
    <3>1. GetAssociationIds(s) => \E x : script' = [script EXCEPT ![s] = x]
      BY <1>1 DEF GetAssociationIds, Ends, TypeInv
    <3>. QED BY <1>1, <3>1 DEF GetAssociationIds, OthersStay, TypeInv
  <2>5. Associate(s) \/ Deassociate(s) =>
          OthersStay(s) /\ \A u \in Script : script[u].at = "idle"
    <3>1. Associate(s) \/ Deassociate(s) =>
            runs' = runs + 1 /\ \E x : script' = [script EXCEPT ![s] = x]
      BY DEF Associate, Deassociate
    <3>2. runs' = runs + 1 => runs = 0
      BY <1>1 DEF TypeInv
    <3>. QED BY <1>1, <3>1, <3>2 DEF OthersStay, NotYet, TypeInv
  <2>6. /\ OthersStay(s)
        /\ script[s].at # "idle" \/ \A u \in Script : script[u].at = "idle"
    BY <1>2, <2>2, <2>3, <2>4, <2>5 DEF ScriptStep
  <2>. QED BY <1>1, <2>6 DEF OneScript, OthersStay
<1>3. ASSUME NEW p \in Process,
             \/ Deliver(p) \/ ReleaseStep(p) \/ ReleaseFails(p)
             \/ InitStep(p) \/ Stop(p) \/ Crash(p)
      PROVE  script' = script
  BY <1>3 DEF Deliver, ReleaseStep, ReleaseRead, ReleaseSiblings, ReleaseWrite,
     ReleaseStart, ReleaseFails, InitStep, InitHolds, InitSiblings, InitRelease,
     Stop, Crash
<1>4. ASSUME NEW p \in Process, NEW i \in DOMAIN txQueue[p],
             TxStep(p, i) \/ CommandFails(p, i)
      PROVE  script' = script
  BY <1>4 DEF TxStep, MarkRead, MarkRestore, MarkList, MarkSend, HoldRead,
     HoldSiblings, HoldWrite, HoldStop, CommandFails
<1>5. script' = script => OneScript'
  BY <1>1 DEF OneScript
<1>6. UNCHANGED vars => script' = script
  BY DEF vars
<1>. QED BY <1>2, <1>3, <1>4, <1>5, <1>6 DEF Next

LEMMA HoldInit ==
  Init => HoldInv
<1> SUFFICES ASSUME Init PROVE HoldInv
  OBVIOUS
<1>1. BlockInv
  BY BlockInit
<1>2. ASSUME NEW r \in Row PROVE Quiet(r)
  BY DEF Init, Quiet, Stage, StageOf, RestsAt, Rests, ToSet
<1>3. HoldType
  BY EmptySeq DEF Init, HoldType
<1>4. \A s \in Script : script[s].at = "idle"
  BY DEF Init, Idle
<1>5. OneScript /\ OneClient
  BY <1>2, <1>4 DEF OneScript, OneClient
<1>6. NotYet
  <2>1. \A s \in Script : Told(s)
    BY <1>4 DEF Init, Idle, Told, ToSet
  <2>2. \A r \in Row : rows[r].status = "active"
    BY DEF Init
  <2>. QED BY <1>2, <1>4, <2>1, <2>2 DEF NotYet
<1>7. Commands
  BY DEF Init, Commands, Once, Stage, StageOf, RestsAt, Rests, ToSet
<1>8. Held /\ Released
  BY DEF Init, Held, Released
<1>9. lost = 0 /\ runs = 0
  BY DEF Init
<1>. QED BY <1>1, <1>3, <1>5, <1>6, <1>7, <1>8, <1>9 DEF HoldInv, RunInv

LEMMA HoldStep ==
  HoldInv /\ [Next]_vars => HoldInv'
<1> SUFFICES ASSUME HoldInv, [Next]_vars PROVE HoldInv'
  OBVIOUS
<1>1. lost' \in {lost, lost + 1} /\ runs' \in {runs, runs + 1}
  BY CountsKept
<1>2. lost' \in Nat /\ runs' \in Nat
  BY <1>1 DEF HoldInv
<1>3. SUFFICES ASSUME lost' = 0, runs' <= 1 PROVE RunInv'
  BY <1>2 DEF HoldInv
<1>4. lost = 0 /\ lost' # lost + 1 /\ runs <= 1 /\ (runs' = runs + 1 => runs = 0)
  BY <1>1, <1>3 DEF HoldInv
<1>5. RunInv
  BY <1>4 DEF HoldInv
<1>6. BlockInv'
  <2>1. OneScript /\ BlockInv
    BY <1>5 DEF RunInv
  <2>. QED BY <1>3, <1>5, <2>1, OneScriptKept, BlockStep
<1>7. ASSUME NEW s \in Script,
             Associate(s) \/ Deassociate(s) \/ ScriptStep(s) \/ ScriptDies(s)
      PROVE  RunInv'
  <2>1. CASE Associate(s) \/ Deassociate(s)
    <3>1. runs = 0
      BY <1>4, <2>1 DEF Associate, Deassociate
    <3>. QED BY <1>5, <1>6, <2>1, <3>1, BeginHolds
  <2>2. CASE SendBlockingMessage(s)
    BY <1>3, <1>5, <1>6, <2>2, SendNextHolds DEF SendBlockingMessage
  <2>3. CASE SendCommandMsg(s)
    BY <1>3, <1>5, <1>6, <2>3, SendNextHolds DEF SendCommandMsg
  <2>4. CASE SendHoldToSiblings(s)
    BY <1>3, <1>5, <1>6, <2>4, SendNextHolds DEF SendHoldToSiblings
  <2>5. ~ScriptDies(s)
    BY <1>4 DEF ScriptDies
  <2>. QED BY <1>3, <1>5, <1>6, <1>7, <2>1, <2>2, <2>3, <2>4, <2>5,
              ValidateHolds, MarkStatusHolds, AssociateWorkerHolds,
              SendGoOnHoldHolds, IdsHolds, RemoveHolds, SiblingsHolds
           DEF ScriptStep
<1>8. ASSUME NEW p \in Process,
             \/ Deliver(p) \/ ReleaseStep(p) \/ ReleaseFails(p)
             \/ InitStep(p) \/ Stop(p) \/ Crash(p)
      PROVE  RunInv'
  <2>1. ~ReleaseFails(p)
    BY <1>4 DEF ReleaseFails
  <2>2. CASE Stop(p) \/ Crash(p)
    <3>1. Down(p) /\ UNCHANGED <<rows, script, cmdQueue, runs>>
      BY <2>2 DEF Stop, Crash, countVars
    <3>. QED BY <1>5, <1>6, <3>1, DownHolds
  <2>. QED BY <1>5, <1>6, <1>8, <2>1, <2>2, DeliverHolds, ReleaseSteps, InitSteps
<1>9. ASSUME NEW p \in Process, NEW i \in DOMAIN txQueue[p],
             TxStep(p, i) \/ CommandFails(p, i)
      PROVE  RunInv'
  <2>1. ~CommandFails(p, i)
    BY <1>4 DEF CommandFails
  <2>. QED BY <1>3, <1>4, <1>5, <1>6, <1>9, <2>1, MarkHolds, HoldSteps DEF TxStep
<1>10. CASE UNCHANGED vars
  <2>1. UNCHANGED <<rows, script, txQueue, cmdQueue, release, proc, consuming, runs>>
    BY <1>10 DEF vars, queueVars, procVars, countVars
  <2>2. TypeInv /\ QuietRows /\ HoldType
    BY <1>5, <2>1 DEF RunInv, BlockInv, QuietRows
  <2>3. /\ HoldType' /\ Commands' /\ Held' /\ Released'
        /\ \A r \in Row : Quiet(r) => Quiet(r)'
    BY <1>5, <2>1, <2>2, RowsHold DEF QuietRows
  <2>4. QuietKept
    BY <2>1, <2>3 DEF QuietKept
  <2>5. NotYet' /\ OneClient'
    BY <1>5, <2>1, <2>2, <2>4, ProcessTells
  <2>6. OneScript'
    BY <1>5, <2>1 DEF RunInv, OneScript
  <2>. QED BY <1>6, <2>3, <2>5, <2>6 DEF RunInv
<1>. QED BY <1>7, <1>8, <1>9, <1>10 DEF Next

(* In one run of a script, whatever the crashes, the redeliveries and the  *)
(* interleavings with the commands of the processes, a process that has a  *)
(* worker on hold and is up does not consume transactions, or cancels the  *)
(* consumption next.                                                       *)
THEOREM HeldProcessesStop == Spec => []HeldIsStopped
<1>1. HoldInv => HeldIsStopped
  <2> SUFFICES ASSUME HoldInv, lost = 0, runs <= 1,
                      NEW r \in Row, rows[r].status = "hold",
                      NEW p, p = rows[r].process, consuming[p]
               PROVE  \E cmd \in ToSet(txQueue[p]) :
                        cmd.kind = "goOnHold" /\ cmd.row = r /\ cmd.at = "stop"
    BY DEF HeldIsStopped, Having
  <2>1. Held
    BY DEF HoldInv, RunInv
  <2>2. "stop" \in StageOf(txQueue[p], Hold, r)
    BY <2>1 DEF Held, Stage
  <2>. QED BY <2>2 DEF StageOf, OfRow, ToSet, Hold
<1>. QED BY <1>1, HoldInit, HoldStep, PTL DEF Spec

(***************************************************************************)
(* The nonces of an address: theorems about NonceManager, for any callers, *)
(* nodes and limits.                                                       *)
(***************************************************************************)
(* The counter is at least every nonce it has handed out in this epoch.    *)
CounterAhead ==
  \A c \in Caller : nonce[c] # NoNonce =>
    /\ born[c] <= epoch
    /\ born[c] = epoch /\ cache # NoNonce => nonce[c] <= cache

CounterInv == TypeOK /\ CounterAhead /\ UniqueWithinEpoch

(* Every variable keeps its type. *)
LEMMA NonceTypeInit == InitNonce => TypeOK
<1> SUFFICES ASSUME InitNonce PROVE TypeOK
  OBVIOUS
<1>1. cache \in Nat \cup {NoNonce} /\ lock \in BOOLEAN /\ epoch \in Nat
  BY DEF InitNonce
<1>2. /\ pc \in [Caller -> CallerStates]
      /\ nonce \in [Caller -> Nat \cup {NoNonce}]
      /\ acc \in [Caller -> Nat \cup {NoNonce}]
      /\ waits \in [Caller -> Nat] /\ retries \in [Caller -> Nat]
      /\ born \in [Caller -> Nat]
  BY DEF InitNonce, CallerStates
<1>3. /\ reads \in [Caller -> SUBSET Requests]
      /\ stable \in [Caller -> SUBSET (Node \X Nat)]
  BY DEF InitNonce
<1>4. head \in [Node -> Nat] /\ pool \in [Node -> SUBSET Nat]
  BY DEF InitNonce
<1>. QED BY <1>1, <1>2, <1>3, <1>4 DEF TypeOK

LEMMA NonceTypeNext == TypeOK /\ [NonceNext]_nonceVars => TypeOK'
<1> USE DEF NoNonce, CallerStates, memVars, syncVars, chainVars, Goto
<1> SUFFICES ASSUME TypeOK, [NonceNext]_nonceVars PROVE TypeOK'
  OBVIOUS
<1>1. CASE UNCHANGED nonceVars
  BY <1>1 DEF TypeOK, nonceVars
<1>2. ASSUME NEW c \in Caller, Increment(c) PROVE TypeOK'
  BY <1>2 DEF TypeOK, Increment
<1>3. ASSUME NEW c \in Caller, IncrementFails(c) PROVE TypeOK'
  BY <1>3 DEF TypeOK, IncrementFails
<1>4. ASSUME NEW c \in Caller, TimedOut(c) PROVE TypeOK'
  BY <1>4 DEF TypeOK, TimedOut
<1>5. ASSUME NEW c \in Caller, AcquireLock(c) PROVE TypeOK'
  <2>1. UNION {{n} \X Known(n) : n \in Node} \in SUBSET (Node \X Nat)
    BY DEF TypeOK, Known
  <2>. QED BY <1>5, <2>1 DEF TypeOK, AcquireLock
<1>6. ASSUME NEW c \in Caller, LockFails(c) PROVE TypeOK'
  BY <1>6 DEF TypeOK, LockFails
<1>7. ASSUME NEW c \in Caller, NEW n \in Node, ReadMined(c, n) PROVE TypeOK'
  BY <1>7 DEF TypeOK, ReadMined, Answer, Max2
<1>8. ASSUME NEW c \in Caller, NEW n \in Node, ReadPool(c, n) PROVE TypeOK'
  BY <1>8 DEF TypeOK, ReadPool, Answer, Max2
<1>9. ASSUME NEW c \in Caller, NEW n \in Node, ReadHangs(c, n) PROVE TypeOK'
  BY <1>9 DEF TypeOK, ReadHangs
<1>10. ASSUME NEW c \in Caller, NEW n \in Node,
              NEW kind \in {"mined", "pool"}, ReadFails(c, n, kind)
       PROVE TypeOK'
  BY <1>10 DEF TypeOK, ReadFails
<1>11. ASSUME NEW c \in Caller, SetCache(c) PROVE TypeOK'
  BY <1>11 DEF TypeOK, SetCache
<1>12. ASSUME NEW c \in Caller, SyncFails(c) PROVE TypeOK'
  BY <1>12 DEF TypeOK, SyncFails
<1>13. ASSUME NEW c \in Caller, ReleaseLock(c) PROVE TypeOK'
  BY <1>13 DEF TypeOK, ReleaseLock
<1>14. ASSUME NEW c \in Caller, WaitElapses(c) PROVE TypeOK'
  BY <1>14 DEF TypeOK, WaitElapses
<1>15. ASSUME NEW c \in Caller, NEW n \in Node, SubmitAccepted(c, n)
       PROVE TypeOK'
  BY <1>15 DEF TypeOK, SubmitAccepted, Accepts
<1>16. ASSUME NEW c \in Caller, NEW n \in Node, SubmitNodeDown(c, n)
       PROVE TypeOK'
  <2>1. pool' \in [Node -> SUBSET Nat]
    BY <1>16 DEF TypeOK, SubmitNodeDown, Accepts
  <2>2. pc' \in [Caller -> CallerStates] /\ retries' \in [Caller -> Nat]
    BY <1>16 DEF TypeOK, SubmitNodeDown
  <2>. QED BY <1>16, <2>1, <2>2 DEF TypeOK, SubmitNodeDown
<1>17. ASSUME NEW c \in Caller, SubmitRejected(c) PROVE TypeOK'
  BY <1>17 DEF TypeOK, SubmitRejected
<1>18. ASSUME NEW c \in Caller, CallerDies(c) PROVE TypeOK'
  BY <1>18 DEF TypeOK, CallerDies
<1>19. ASSUME ExpireLock PROVE TypeOK'
  BY <1>19 DEF TypeOK, ExpireLock
<1>20. ASSUME EvictCache PROVE TypeOK'
  BY <1>20 DEF TypeOK, EvictCache
<1>21. ASSUME NEW n \in Node, ImportBlock(n) PROVE TypeOK'
  BY <1>21 DEF TypeOK, ImportBlock
<1>22. ASSUME NEW n \in Node, NEW m \in Node, Gossip(n, m) PROVE TypeOK'
  BY <1>22 DEF TypeOK, Gossip, Accepts
<1>. QED
  BY <1>1, <1>2, <1>3, <1>4, <1>5, <1>6, <1>7, <1>8, <1>9, <1>10, <1>11,
     <1>12, <1>13, <1>14, <1>15, <1>16, <1>17, <1>18, <1>19, <1>20, <1>21,
     <1>22
  DEF NonceNext, GetNonceStep, SyncStep, SendStep, Environment

(* Type correctness of every reachable state of the nonce manager (TypeOK):*)
(* getNonce, its sync, its waits and the sending that follows.             *)
THEOREM NonceTypeCorrect == NonceSpec => []TypeOK
  BY NonceTypeInit, NonceTypeNext, PTL DEF NonceSpec

-----------------------------------------------------------------------------
(* Steps that hand out no nonce keep the counter's promise. *)
LEMMA CounterFrame ==
  ASSUME CounterInv, UNCHANGED <<nonce, born>>,
         \/ epoch' = epoch /\ cache' \in {cache, NoNonce}
         \/ epoch' = epoch /\ cache # NoNonce /\ cache' = cache + 1
         \/ epoch' = epoch + 1
  PROVE  CounterAhead' /\ UniqueWithinEpoch'
<1>1. \A c \in Caller : nonce[c] \in Nat \cup {NoNonce} /\ born[c] \in Nat
  BY DEF CounterInv, TypeOK
<1>2. epoch \in Nat /\ cache \in Nat \cup {NoNonce}
  BY DEF CounterInv, TypeOK
<1>3. CounterAhead'
  BY <1>1, <1>2 DEF CounterInv, CounterAhead, NoNonce
<1>4. UniqueWithinEpoch'
  BY DEF CounterInv, UniqueWithinEpoch
<1>. QED BY <1>3, <1>4

(* Concurrent calls served by the same cached value get different nonces,  *)
(* whatever syncs, expiries, evictions and crashes come in between.        *)
THEOREM NoncesUnique == NonceSpec => []UniqueWithinEpoch
<1>1. InitNonce => CounterInv
  BY NonceTypeInit DEF InitNonce, CounterInv, CounterAhead, UniqueWithinEpoch
<1>2. CounterInv /\ [NonceNext]_nonceVars => CounterInv'
  <2> SUFFICES ASSUME CounterInv, [NonceNext]_nonceVars
               PROVE  CounterAhead' /\ UniqueWithinEpoch'
    BY NonceTypeNext DEF CounterInv
  <2> USE DEF memVars, syncVars, chainVars
  <2>1. ASSUME NEW c \in Caller, Increment(c)
        PROVE  CounterAhead' /\ UniqueWithinEpoch'
    <3>1. /\ cache \in Nat /\ cache' = cache + 1 /\ epoch' = epoch
          /\ nonce' = [nonce EXCEPT ![c] = cache + 1]
          /\ born' = [born EXCEPT ![c] = epoch]
      BY <2>1 DEF Increment, CounterInv, TypeOK
    <3>2. \A d \in Caller : nonce[d] \in Nat \cup {NoNonce} /\ born[d] \in Nat
      BY DEF CounterInv, TypeOK
    <3>3. nonce'[c] = cache + 1 /\ born'[c] = epoch
      BY <3>1 DEF CounterInv, TypeOK
    <3>4. \A d \in Caller \ {c} : nonce'[d] = nonce[d] /\ born'[d] = born[d]
      BY <3>1 DEF CounterInv, TypeOK
    <3>5. epoch \in Nat
      BY DEF CounterInv, TypeOK
    <3>6. CounterAhead'
      BY <3>1, <3>2, <3>3, <3>4, <3>5 DEF CounterInv, CounterAhead, NoNonce
    <3>7. UniqueWithinEpoch'
      BY <3>1, <3>2, <3>3, <3>4, <3>5
      DEF CounterInv, CounterAhead, UniqueWithinEpoch, NoNonce
    <3>. QED BY <3>6, <3>7
  <2>2. ASSUME NEW c \in Caller, SetCache(c)
        PROVE  CounterAhead' /\ UniqueWithinEpoch'
    <3>1. /\ acc[c] \in Nat /\ cache' = acc[c] /\ epoch' = epoch + 1
          /\ nonce' = [nonce EXCEPT ![c] = acc[c]]
          /\ born' = [born EXCEPT ![c] = epoch + 1]
      BY <2>2 DEF SetCache, CounterInv, TypeOK
    <3>2. \A d \in Caller : nonce[d] \in Nat \cup {NoNonce} /\ born[d] \in Nat
      BY DEF CounterInv, TypeOK
    <3>3. nonce'[c] = acc[c] /\ born'[c] = epoch + 1
      BY <3>1 DEF CounterInv, TypeOK
    <3>4. \A d \in Caller \ {c} : nonce'[d] = nonce[d] /\ born'[d] = born[d]
      BY <3>1 DEF CounterInv, TypeOK
    <3>5. epoch \in Nat
      BY DEF CounterInv, TypeOK
    <3>6. CounterAhead'
      BY <3>1, <3>2, <3>3, <3>4, <3>5 DEF CounterInv, CounterAhead, NoNonce
    <3>7. UniqueWithinEpoch'
      BY <3>1, <3>2, <3>3, <3>4, <3>5
      DEF CounterInv, CounterAhead, UniqueWithinEpoch, NoNonce
    <3>. QED BY <3>6, <3>7
  <2>3. CASE EvictCache
    BY <2>3, CounterFrame DEF EvictCache
  <2>4. CASE UNCHANGED nonceVars
    BY <2>4, CounterFrame DEF nonceVars
  <2>5. CASE Environment
    BY <2>3, <2>5, CounterFrame
    DEF Environment, ExpireLock, ImportBlock, Gossip
  <2>6. ASSUME NEW c \in Caller, GetNonceStep(c)
        PROVE  CounterAhead' /\ UniqueWithinEpoch'
    BY <2>1, <2>2, <2>6, CounterFrame
    DEF GetNonceStep, SyncStep, IncrementFails, TimedOut, AcquireLock,
        LockFails, ReadMined, ReadPool, Answer, ReadHangs, ReadFails,
        SyncFails, ReleaseLock, WaitElapses
  <2>7. ASSUME NEW c \in Caller, SendStep(c) \/ CallerDies(c)
        PROVE  CounterAhead' /\ UniqueWithinEpoch'
    BY <2>7, CounterFrame
    DEF SendStep, SubmitAccepted, SubmitNodeDown, SubmitRejected, CallerDies
  <2>. QED BY <2>4, <2>5, <2>6, <2>7 DEF NonceNext
<1>3. CounterInv => UniqueWithinEpoch
  BY DEF CounterInv
<1>. QED BY <1>1, <1>2, <1>3, PTL DEF NonceSpec
-----------------------------------------------------------------------------
(* A stable nonce is known to its node, in the pool or as mined, and the   *)
(* answer to the request that shows it has been counted.                   *)
StableCounted(c) ==
  \A n \in Node, k \in Nat : <<n, k>> \in stable[c] =>
    /\ k \in pool[n] \/ k < head[n]
    /\ k \in pool[n] /\ <<n, "pool">> \notin reads[c] => k < acc[c]
    /\ k < head[n] /\ <<n, "mined">> \notin reads[c] => k < acc[c]

SyncInv ==
  TypeOK /\ \A c \in Caller : pc[c] = "sync" => StableCounted(c)

(* A step that leaves the syncs and the chain alone, and starts none.      *)
LEMMA SyncFrame ==
  ASSUME SyncInv, UNCHANGED <<acc, reads, stable, head, pool>>,
         \A c \in Caller : pc'[c] = "sync" => pc[c] = "sync"
  PROVE  \A c \in Caller : pc'[c] = "sync" => StableCounted(c)'
  BY DEF SyncInv, StableCounted

(* A step of the chain that only adds unknown nonces to pools. *)
LEMMA PoolFrame ==
  ASSUME SyncInv, UNCHANGED <<acc, reads, stable, head>>,
         \A c \in Caller : pc'[c] = "sync" => pc[c] = "sync",
         \A n \in Node : /\ pool[n] \subseteq pool'[n]
                         /\ \A k \in pool'[n] \ pool[n] : ~ (k < head[n])
  PROVE  \A c \in Caller : pc'[c] = "sync" => StableCounted(c)'
  BY DEF SyncInv, StableCounted

(* An answered request: the count is at least what it shows. *)
LEMMA AnswerCounts ==
  ASSUME SyncInv, NEW c \in Caller, pc[c] = "sync",
         NEW n \in Node, NEW kind \in {"mined", "pool"},
         NEW count \in Nat \cup {NoNonce}, Answer(c, n, kind, count),
         kind = "mined" => \A k \in Nat : k < head[n] => k < count,
         kind = "pool" => \A k \in pool[n] : k < count
  PROVE  \A d \in Caller : pc'[d] = "sync" => StableCounted(d)'
<1>1. UNCHANGED <<pc, stable, head, pool>>
  BY DEF Answer, chainVars
<1>2. ASSUME NEW d \in Caller, d # c, pc'[d] = "sync"
      PROVE  StableCounted(d)'
  <2>1. acc'[d] = acc[d] /\ reads'[d] = reads[d]
    BY <1>2 DEF Answer, SyncInv, TypeOK
  <2>. QED BY <1>1, <1>2, <2>1 DEF SyncInv, StableCounted
<1>3. StableCounted(c)'
  <2>1. /\ acc'[c] = Max2(acc[c], count)
        /\ reads'[c] = reads[c] \ {<<n, kind>>}
        /\ acc[c] \in Nat \cup {NoNonce}
    BY DEF Answer, SyncInv, TypeOK
  <2>2. acc'[c] >= acc[c] /\ acc'[c] >= count /\ acc'[c] \in Nat \cup {NoNonce}
    BY <2>1 DEF Max2, NoNonce
  <2>3. SUFFICES ASSUME NEW m \in Node, NEW k \in Nat, <<m, k>> \in stable[c]
                 PROVE  /\ k \in pool[m] \/ k < head[m]
                        /\ k \in pool[m] /\ <<m, "pool">> \notin reads'[c]
                             => k < acc'[c]
                        /\ k < head[m] /\ <<m, "mined">> \notin reads'[c]
                             => k < acc'[c]
    BY <1>1 DEF StableCounted
  <2>4. /\ k \in pool[m] \/ k < head[m]
        /\ k \in pool[m] /\ <<m, "pool">> \notin reads[c] => k < acc[c]
        /\ k < head[m] /\ <<m, "mined">> \notin reads[c] => k < acc[c]
    BY <2>3 DEF SyncInv, StableCounted
  <2>5. k < acc[c] => k < acc'[c]
    BY <2>1, <2>2 DEF NoNonce
  <2>6. k < count => k < acc'[c]
    BY <2>2 DEF NoNonce
  <2>7. ASSUME k \in pool[m], <<m, "pool">> \notin reads'[c]
        PROVE  k < acc'[c]
    <3>1. <<m, "pool">> \notin reads[c] \/ (m = n /\ kind = "pool")
      BY <2>1, <2>7
    <3>. QED BY <2>4, <2>5, <2>6, <2>7, <3>1
  <2>8. ASSUME k < head[m], <<m, "mined">> \notin reads'[c]
        PROVE  k < acc'[c]
    <3>1. <<m, "mined">> \notin reads[c] \/ (m = n /\ kind = "mined")
      BY <2>1, <2>8
    <3>. QED BY <2>4, <2>5, <2>6, <2>8, <3>1
  <2>. QED BY <2>4, <2>7, <2>8
<1>. QED BY <1>1, <1>2, <1>3

(* A sync never hands out a nonce that a node it heard from held all the   *)
(* while.                                                                  *)
THEOREM SyncSound == NonceSpec => []SyncSeesStable
<1>1. InitNonce => SyncInv
  BY NonceTypeInit DEF InitNonce, SyncInv
<1>2. SyncInv /\ [NonceNext]_nonceVars => SyncInv'
  <2> SUFFICES ASSUME SyncInv, [NonceNext]_nonceVars
               PROVE  \A c \in Caller : pc'[c] = "sync" => StableCounted(c)'
    BY NonceTypeNext DEF SyncInv
  <2> USE DEF memVars, syncVars, chainVars
  <2>1. ASSUME NEW c \in Caller, AcquireLock(c)
        PROVE  \A d \in Caller : pc'[d] = "sync" => StableCounted(d)'
    <3>1. UNCHANGED chainVars
      BY <2>1 DEF AcquireLock
    <3>2. /\ reads'[c] = Requests
          /\ stable'[c] = UNION {{n} \X Known(n) : n \in Node}
      BY <2>1 DEF AcquireLock, SyncInv, TypeOK
    <3>3. \A n \in Node, k \in Nat : <<n, k>> \in stable'[c] =>
             k \in pool[n] \/ k < head[n]
      BY <3>2 DEF Known
    <3>4. \A n \in Node : <<n, "pool">> \in reads'[c]
                          /\ <<n, "mined">> \in reads'[c]
      BY <3>2 DEF Requests
    <3>5. StableCounted(c)'
      BY <3>1, <3>3, <3>4 DEF StableCounted
    <3>6. ASSUME NEW d \in Caller, d # c, pc'[d] = "sync"
          PROVE  StableCounted(d)'
      <4>1. /\ pc[d] = "sync" /\ reads'[d] = reads[d]
            /\ stable'[d] = stable[d] /\ acc'[d] = acc[d]
        BY <2>1, <3>6 DEF AcquireLock, Goto, SyncInv, TypeOK
      <4>. QED BY <3>1, <4>1 DEF SyncInv, StableCounted
    <3>. QED BY <3>5, <3>6
  <2>2. ASSUME NEW c \in Caller, NEW n \in Node, ReadMined(c, n)
        PROVE  \A d \in Caller : pc'[d] = "sync" => StableCounted(d)'
    <3>1. head[n] \in Nat
      BY DEF SyncInv, TypeOK
    <3>. QED BY <2>2, <3>1, AnswerCounts DEF ReadMined, Awaits
  <2>3. ASSUME NEW c \in Caller, NEW n \in Node, ReadPool(c, n)
        PROVE  \A d \in Caller : pc'[d] = "sync" => StableCounted(d)'
    <3>1. CASE pool[n] = {} /\ Answer(c, n, "pool", NoNonce)
      BY <2>3, <3>1, AnswerCounts DEF ReadPool, Awaits
    <3>2. ASSUME NEW top \in pool[n], \A k \in pool[n] : k <= top,
                 Answer(c, n, "pool", top + 1)
          PROVE  \A d \in Caller : pc'[d] = "sync" => StableCounted(d)'
      <4>1. top + 1 \in Nat /\ \A k \in pool[n] : k < top + 1
        BY <3>2 DEF SyncInv, TypeOK
      <4>. QED BY <2>3, <3>2, <4>1, AnswerCounts DEF ReadPool, Awaits
    <3>. QED BY <2>3, <3>1, <3>2 DEF ReadPool
  <2>4. ASSUME NEW c \in Caller, NEW n \in Node,
               NEW kind \in {"mined", "pool"}, ReadFails(c, n, kind)
        PROVE  \A d \in Caller : pc'[d] = "sync" => StableCounted(d)'
    <3>1. UNCHANGED <<pc, acc, head, pool>>
      BY <2>4 DEF ReadFails
    <3>2. /\ reads'[c] = reads[c] \ {<<n, kind>>}
          /\ stable'[c] = {s \in stable[c] : s[1] # n}
      BY <2>4 DEF ReadFails, SyncInv, TypeOK
    <3>3. \A d \in Caller : d # c => reads'[d] = reads[d]
                                     /\ stable'[d] = stable[d]
      BY <2>4 DEF ReadFails, SyncInv, TypeOK
    <3>4. pc[c] = "sync"
      BY <2>4 DEF ReadFails, Awaits
    <3>5. \A m \in Node, k \in Nat : <<m, k>> \in stable'[c] =>
             m # n /\ <<m, k>> \in stable[c]
      BY <3>2
    <3>6. \A m \in Node, x \in {"mined", "pool"} :
             m # n /\ <<m, x>> \notin reads'[c] => <<m, x>> \notin reads[c]
      BY <3>2
    <3>7. StableCounted(c)'
      BY <3>1, <3>4, <3>5, <3>6 DEF SyncInv, StableCounted
    <3>. QED BY <3>1, <3>3, <3>7 DEF SyncInv, StableCounted
  <2>5. ASSUME NEW n \in Node, ImportBlock(n)
        PROVE  \A d \in Caller : pc'[d] = "sync" => StableCounted(d)'
    <3> SUFFICES ASSUME NEW d \in Caller, pc[d] = "sync"
                 PROVE  StableCounted(d)'
      BY <2>5 DEF ImportBlock
    <3>1. UNCHANGED <<acc, reads>>
      BY <2>5 DEF ImportBlock
    <3>2. /\ head'[n] = head[n] + 1 /\ head[n] \in Nat
          /\ pool'[n] = pool[n] \ {head[n]}
          /\ \A m \in Node \ {n} : head'[m] = head[m] /\ pool'[m] = pool[m]
      BY <2>5 DEF ImportBlock, SyncInv, TypeOK
    <3>3. stable'[d] = IF head[n] \in pool[n]
                       THEN stable[d] \ {<<n, head[n]>>} ELSE stable[d]
      BY <2>5 DEF ImportBlock
    <3>4. StableCounted(d)
      BY DEF SyncInv
    <3>5. <<n, head[n]>> \notin stable'[d]
      <4>1. CASE head[n] \in pool[n]
        BY <3>3, <4>1
      <4>2. CASE head[n] \notin pool[n]
        <5>1. ~ (head[n] < head[n])
          BY <3>2
        <5>. QED BY <3>2, <3>3, <3>4, <4>2, <5>1 DEF StableCounted
      <4>. QED BY <4>1, <4>2
    <3>6. \A m \in Node, k \in Nat : <<m, k>> \in stable'[d] =>
             <<m, k>> \in stable[d] /\ <<m, k>> # <<n, head[n]>>
      BY <3>3, <3>5
    <3>7. \A m \in Node, k \in Nat : <<m, k>> # <<n, head[n]>> =>
             (k \in pool'[m] <=> k \in pool[m]) /\ (k < head'[m] <=> k < head[m])
      BY <3>2 DEF SyncInv, TypeOK
    <3>. QED BY <3>1, <3>4, <3>6, <3>7 DEF StableCounted
  <2>6. ASSUME NEW n \in Node, NEW m \in Node, Gossip(n, m)
        PROVE  \A d \in Caller : pc'[d] = "sync" => StableCounted(d)'
    BY <2>6, PoolFrame DEF Gossip, Accepts, SyncInv, TypeOK
  <2>7. ASSUME NEW c \in Caller, SendStep(c)
        PROVE  \A d \in Caller : pc'[d] = "sync" => StableCounted(d)'
    <3>1. ASSUME NEW n \in Node, SubmitAccepted(c, n)
          PROVE  \A d \in Caller : pc'[d] = "sync" => StableCounted(d)'
      <4>1. \A d \in Caller : pc'[d] = "sync" => pc[d] = "sync"
        BY <3>1 DEF SubmitAccepted, Goto, SyncInv, TypeOK
      <4>2. \A i \in Node : /\ pool[i] \subseteq pool'[i]
                            /\ \A k \in pool'[i] \ pool[i] : ~ (k < head[i])
        BY <3>1 DEF SubmitAccepted, Accepts, SyncInv, TypeOK
      <4>3. UNCHANGED <<acc, reads, stable, head>>
        BY <3>1 DEF SubmitAccepted
      <4>. QED BY <4>1, <4>2, <4>3, PoolFrame
    <3>2. ASSUME NEW n \in Node, SubmitNodeDown(c, n)
          PROVE  \A d \in Caller : pc'[d] = "sync" => StableCounted(d)'
      <4>1. \A d \in Caller : pc'[d] = "sync" => pc[d] = "sync"
        BY <3>2 DEF SubmitNodeDown, Goto, SyncInv, TypeOK
      <4>2. \A i \in Node : /\ pool[i] \subseteq pool'[i]
                            /\ \A k \in pool'[i] \ pool[i] : ~ (k < head[i])
        <5>1. CASE pool' = pool
          BY <5>1
        <5>2. CASE /\ Accepts(n, nonce[c])
                   /\ pool' = [pool EXCEPT ![n] = @ \cup {nonce[c]}]
          <6>1. ~ (nonce[c] < head[n])
            BY <5>2 DEF Accepts, SyncInv, TypeOK, NoNonce
          <6>. QED BY <5>2, <6>1 DEF SyncInv, TypeOK
        <5>. QED BY <3>2, <5>1, <5>2 DEF SubmitNodeDown
      <4>3. UNCHANGED <<acc, reads, stable, head>>
        BY <3>2 DEF SubmitNodeDown
      <4>. QED BY <4>1, <4>2, <4>3, PoolFrame
    <3>3. CASE SubmitRejected(c)
      BY <3>3, SyncFrame DEF SubmitRejected, Goto, SyncInv, TypeOK
    <3>. QED BY <2>7, <3>1, <3>2, <3>3 DEF SendStep
  <2>8. ASSUME NEW c \in Caller, CallerDies(c)
        PROVE  \A d \in Caller : pc'[d] = "sync" => StableCounted(d)'
    BY <2>8, SyncFrame DEF CallerDies, Goto, SyncInv, TypeOK
  <2>9. ASSUME NEW c \in Caller, GetNonceStep(c)
        PROVE  \A d \in Caller : pc'[d] = "sync" => StableCounted(d)'
    <3>1. CASE AcquireLock(c)
      BY <3>1, <2>1
    <3>2. CASE SyncStep(c)
      <4>1. ASSUME NEW n \in Node, ReadHangs(c, n)
            PROVE  \A d \in Caller : pc'[d] = "sync" => StableCounted(d)'
        BY <4>1, SyncFrame DEF ReadHangs, Goto, SyncInv, TypeOK
      <4>2. CASE SetCache(c) \/ SyncFails(c)
        BY <4>2, SyncFrame DEF SetCache, SyncFails, Goto, SyncInv, TypeOK
      <4>. QED BY <3>2, <2>2, <2>3, <2>4, <4>1, <4>2 DEF SyncStep
    <3>3. CASE Increment(c) \/ IncrementFails(c) \/ TimedOut(c)
               \/ LockFails(c) \/ ReleaseLock(c) \/ WaitElapses(c)
      <4>1. UNCHANGED <<acc, reads, stable, head, pool>>
        BY <3>3 DEF Increment, IncrementFails, TimedOut, LockFails,
                    ReleaseLock, WaitElapses
      <4>2. \A d \in Caller : pc'[d] = "sync" => pc[d] = "sync"
        BY <3>3 DEF Increment, IncrementFails, TimedOut, LockFails,
                    ReleaseLock, WaitElapses, Goto, SyncInv, TypeOK
      <4>. QED BY <4>1, <4>2, SyncFrame
    <3>. QED BY <2>9, <3>1, <3>2, <3>3 DEF GetNonceStep
  <2>10. CASE ExpireLock \/ EvictCache \/ UNCHANGED nonceVars
    BY <2>10, SyncFrame DEF ExpireLock, EvictCache, nonceVars
  <2>. QED BY <2>5, <2>6, <2>7, <2>8, <2>9, <2>10 DEF NonceNext, Environment
<1>3. SyncInv => SyncSeesStable
  <2> SUFFICES ASSUME SyncInv, NEW c \in Caller, pc[c] = "sync",
                      reads[c] = {}, NEW s \in stable[c]
               PROVE  s[2] < acc[c]
    BY DEF SyncSeesStable
  <2>1. s[1] \in Node /\ s[2] \in Nat /\ <<s[1], s[2]>> \in stable[c]
    BY DEF SyncInv, TypeOK
  <2>. QED BY <2>1 DEF SyncInv, StableCounted
<1>. QED BY <1>1, <1>2, <1>3, PTL DEF NonceSpec
=============================================================================
