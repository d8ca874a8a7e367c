----------------------- MODULE TransferRequests_proofs -----------------------
(* Prices, transfers, reserves and lists of an economy, however its        *)
(* requests run side by side and whatever copies the cache has: proofs for *)
(* any case.                                                               *)
EXTENDS TransferRequests, FiniteSetTheorems, FunctionTheorems, TLAPS

(* Rows and what the cache has of them.                                    *)
GoodKind(k) ==
  /\ DOMAIN k = {"id", "name", "kind", "cur", "usd", "bt", "com"}
  /\ k.usd # Null => k.cur = USD
  /\ k.bt # Null => k.cur = BT
  /\ ~BetweenUsers(k) => k.com = Null
GoodToken(t) == DOMAIN t = {"id", "symbol", "factor", "reserve", "holder"}
OneKind(v) == \E k \in v : v = {k} /\ GoodKind(k)
OneToken(v) == \E t \in v : v = {t}
GoodEntry(key, v) ==
  /\ key.by \in {"name", "kind"} => OneKind(v)
  /\ key.by = "symbol" => OneToken(v)

KindsInv == Numbered(kinds) /\ \A k \in kinds : GoodKind(k)
TokensInv == Numbered(tokens) /\ \A t \in tokens : GoodToken(t)
CacheInv ==
  /\ DOMAIN cache = Keys
  /\ \A key \in Keys : \A v \in cache[key] : GoodEntry(key, v)

(* What a request knows by where it is: one that adds or edits a kind,     *)
Adding(q) == R(q).op = "add_kind" /\ pc[q] = "insert" => ValidKind(R(q))
Editing(q) ==
  R(q).op = "edit_kind" /\ pc[q] \in {"validate", "write"} =>
    \E k \in read[q] :
      /\ read[q] = {k} /\ GoodKind(k)
      /\ \E n \in kinds : n.id = k.id
      /\ pc[q] = "write" => ValidCommission(k, R(q))

(* one that edits or sets up a token,                                      *)
EditingToken(q) ==
  R(q).op = "edit_token" /\ pc[q] = "write" =>
    \A t \in read[q] : GoodToken(t) /\
      \E u \in tokens : u.id = t.id /\ u.reserve = t.reserve
ReservesOf(s) == {t.reserve : t \in s}
SettingUp(q) ==
  case.sequential /\ R(q).op = "setup" =>
    /\ pc[q] = "addresses" => ReservesOf(read[q]) = ReservesOf(OldestToken)
    /\ pc[q] = "token" =>
         \A t \in OldestToken : t.reserve # Null => mine[q].reserve = t.reserve

(* and one that transfers.                                                 *)
GoodAsk(a) == DOMAIN a = {"by", "of", "from", "to", "queued", "amount", "com"}
Checked(q) ==
  /\ OneKind(got[q].kind)
  /\ \A k \in got[q].kind : \A a \in ask[q] : a.queued => GivesWhatIsOpen(k, a)
Agreed(q) ==
  \A k \in got[q].kind : \A a \in ask[q] : \A t \in got[q].token :
    RightParties(k, a, t.reserve)
Transferring(q) ==
  ask[q] # {} =>
    /\ R(q).op \in {"execute", "stp_transfer", "simulate"}
    /\ \E a \in ask[q] : ask[q] = {a} /\ GoodAsk(a)
    /\ R(q).op # "stp_transfer" => \A a \in ask[q] : a.by \in {"name", "kind"}
    /\ pc[q] = "secured" => OneToken(read[q])
    /\ pc[q] \in {"kind_source", "kind", "users", "agreed"} =>
         OneToken(got[q].token)
    /\ pc[q] = "kind" => OneKind(read[q])
    /\ pc[q] \in {"users", "agreed"} => Checked(q)
    /\ pc[q] = "agreed" => Agreed(q)

(* Entries it has still to set.                                            *)
Waiting(q) == \A e \in pending[q] : e.do = "set" => GoodEntry(e.key, e.value)

Local(q) ==
  /\ Adding(q) /\ Editing(q) /\ EditingToken(q) /\ SettingUp(q)
  /\ Transferring(q) /\ Waiting(q)

(* Set-ups come one after another.                                         *)
UnderWay(q) == pc[q] # "start" /\ ~Over(q)
Sequential ==
  case.sequential =>
    \A q, r \in Requests :
      q < r /\ R(q).op = "setup" /\ R(r).op = "setup" /\ UnderWay(r) => Over(q)

Shape ==
  /\ case \in Cases
  /\ DOMAIN pc = Requests /\ DOMAIN read = Requests /\ DOMAIN mine = Requests
  /\ DOMAIN pending = Requests /\ DOMAIN ask = Requests
  /\ DOMAIN got = Requests
  /\ \A q \in Requests :
       /\ DOMAIN got[q] = {"token", "kind"}
       /\ DOMAIN mine[q] = {"reserve", "holder", "new", "salt"}

RequestsInv ==
  /\ Shape /\ KindsInv /\ TokensInv /\ CacheInv
  /\ OneReserve /\ Sequential /\ TransfersAreWhole
  /\ \A q \in Requests : Local(q)

-----------------------------------------------------------------------------
LEMMA RequestsInit == TransferInit => RequestsInv
<1> SUFFICES ASSUME TransferInit PROVE RequestsInv
  OBVIOUS
<1> USE DEF TransferInit, Init
<1>1. Shape
  BY DEF Shape, Nothing, NothingHeld
<1>2. KindsInv
  BY RecordsAssumption
  DEF KindsInv, GoodKind, BetweenUsers, USD, BT
<1>3. TokensInv
  BY RecordsAssumption DEF TokensInv, GoodToken
<1>4. CacheInv
  BY DEF CacheInv
<1>5. OneReserve
  BY RecordsAssumption DEF OneReserve, OldestToken
<1>6. \A q \in Requests : pc[q] = "start" \/ R(q).op = "generate"
  OBVIOUS
<1>7. Sequential
  BY <1>6 DEF Sequential, UnderWay
<1>8. TransfersAreWhole
  BY DEF TransfersAreWhole
<1>9. ASSUME NEW q \in Requests PROVE Local(q)
  <2>1. Adding(q) /\ Editing(q) /\ EditingToken(q) /\ SettingUp(q)
    BY <1>6 DEF Adding, Editing, EditingToken, SettingUp
  <2>2. Waiting(q)
    BY DEF Waiting
  <2>3. Transferring(q)
    <3>1. CASE R(q).op \in {"execute", "stp_transfer"}
      <4>1. /\ \E a \in ask[q] : ask[q] = {a} /\ GoodAsk(a)
            /\ R(q).op = "execute" => \A a \in ask[q] : a.by \in {"name", "kind"}
        BY <1>9, <3>1, AsksAssumption DEF GoodAsk, R
      <4> QED
        BY <1>6, <3>1, <4>1 DEF Transferring
    <3>2. CASE R(q).op \notin {"execute", "stp_transfer"}
      BY <3>2 DEF Transferring
    <3> QED
      BY <3>1, <3>2
  <2> QED
    BY <2>1, <2>2, <2>3 DEF Local
<1> QED
  BY <1>1, <1>2, <1>3, <1>4, <1>5, <1>7, <1>8, <1>9 DEF RequestsInv

-----------------------------------------------------------------------------
(* Numbered rows, one added and one replaced.                              *)
LEMMA NumberedIds ==
  ASSUME NEW s, Numbered(s)
  PROVE  /\ IsFiniteSet({x.id : x \in s})
         /\ NextId(s) \in Nat \ {0}
         /\ {x.id : x \in s} = 1 .. NextId(s) - 1
         /\ \A y \in s : y.id \in Nat
<1> DEFINE ids == {x.id : x \in s}
           f == [x \in s |-> x.id]
<1>1. IsFiniteSet(s) /\ ids = 1 .. NextId(s) - 1
  BY DEF Numbered
<1>2. f \in Surjection(s, ids)
  <2>1. f \in [s -> ids] /\ \A i \in ids : \E x \in s : f[x] = i
    OBVIOUS
  <2> QED
    BY <2>1, Fun_IsSurj
<1>3. IsFiniteSet(ids)
  BY <1>1, <1>2, FS_Surjection
<1>4. Cardinality(ids) \in Nat
  BY <1>3, FS_CardinalityType
<1>5. NextId(s) \in Nat \ {0}
  BY <1>4 DEF NextId
<1> QED
  BY <1>1, <1>3, <1>5

LEMMA NumberedAdd ==
  ASSUME NEW s, Numbered(s), NEW x, x.id = NextId(s)
  PROVE  Numbered(s \cup {x})
<1> DEFINE n == NextId(s)
           t == s \cup {x}
<1>1. n \in Nat \ {0} /\ {y.id : y \in s} = 1 .. n - 1
  BY NumberedIds
<1>2. {y.id : y \in t} = {y.id : y \in s} \cup {n}
  OBVIOUS
<1>3. {y.id : y \in t} = 1 .. n
  <2> HIDE DEF n
  <2> QED
    BY <1>1, <1>2
<1>4. Cardinality({y.id : y \in t}) = n
  <2> HIDE DEF n, t
  <2>1. n \in Int /\ 1 \in Int /\ ~(1 > n) /\ n - 1 + 1 = n
    BY <1>1
  <2> QED
    BY <1>3, <2>1, FS_Interval
<1>5. NextId(t) = n + 1
  BY <1>4 DEF NextId
<1>6. {y.id : y \in t} = 1 .. NextId(t) - 1
  <2> HIDE DEF n, t
  <2> QED
    BY <1>1, <1>3, <1>5
<1>7. IsFiniteSet(t)
  BY FS_AddElement DEF Numbered
<1>8. \A y, z \in t : y.id = z.id => y = z
  <2>1. \A y \in s : y.id # n
    <3> HIDE DEF n
    <3> QED
      BY <1>1
  <2> QED
    BY <2>1 DEF Numbered
<1> QED
  BY <1>6, <1>7, <1>8 DEF Numbered

LEMMA NumberedReplace ==
  ASSUME NEW s, Numbered(s), NEW y \in s, NEW e, e.id = y.id
  PROVE  Numbered({z \in s : z.id # y.id} \cup {e})
<1> DEFINE t == {z \in s : z.id # y.id} \cup {e}
<1>1. {z.id : z \in t} = {z.id : z \in s}
  <2>1. {z.id : z \in t} \subseteq {z.id : z \in s}
    OBVIOUS
  <2>2. ASSUME NEW z \in s PROVE z.id \in {x.id : x \in t}
    <3>1. CASE z.id = y.id
      BY <3>1
    <3>2. CASE z.id # y.id
      BY <3>2
    <3> QED
      BY <3>1, <3>2
  <2> QED
    BY <2>1, <2>2
<1>2. NextId(t) = NextId(s)
  BY <1>1 DEF NextId
<1>3. IsFiniteSet(t)
  <2>1. IsFiniteSet({z \in s : z.id # y.id})
    BY FS_Subset DEF Numbered
  <2> QED
    BY <2>1, FS_AddElement
<1>4. \A v, z \in t : v.id = z.id => v = z
  BY DEF Numbered
<1> HIDE DEF t
<1>5. Numbered(t)
  BY <1>1, <1>2, <1>3, <1>4 DEF Numbered
<1> QED
  BY <1>5 DEF t

(* A row that is the first is the only one that is.                        *)
LEMMA FirstIsOne ==
  ASSUME NEW s, Numbered(s), NEW p, p \subseteq s, First(p) # {}
  PROVE  \E x \in p : First(p) = {x}
<1>1. PICK x \in First(p) : TRUE
  OBVIOUS
<1>2. \A y \in s : y.id \in Nat
  BY NumberedIds
<1>3. ASSUME NEW y \in First(p) PROVE y = x
  <2>1. x.id <= y.id /\ y.id <= x.id /\ x.id \in Nat /\ y.id \in Nat
    BY <1>1, <1>2, <1>3 DEF First
  <2> QED
    BY <1>1, <1>3, <2>1 DEF First, Numbered
<1> QED
  BY <1>1, <1>3 DEF First
(* What a query finds is fit for its entry.                                *)
LEMMA SourceFits ==
  ASSUME KindsInv, TokensInv, NEW key, Source(key) # {}
  PROVE  GoodEntry(key, Source(key))
<1>1. CASE key.by = "name"
  <2> DEFINE p == KindByName(key.of)
  <2>1. p \subseteq kinds /\ First(p) = Source(key)
    BY <1>1 DEF KindByName, Source
  <2>2. PICK k \in p : First(p) = {k}
    BY <2>1, FirstIsOne DEF KindsInv
  <2> QED
    BY <1>1, <2>1, <2>2 DEF GoodEntry, OneKind, KindsInv
<1>2. CASE key.by = "kind"
  <2>1. Source(key) = KindById(key.of)
    BY <1>2 DEF Source
  <2>2. PICK k \in kinds : Source(key) = {k}
    BY <2>1 DEF KindsInv, Numbered, KindById
  <2> QED
    BY <1>2, <2>2 DEF GoodEntry, OneKind, KindsInv
<1>3. CASE key.by = "symbol"
  <2> DEFINE p == TokenBySymbol(key.of)
  <2>1. p \subseteq tokens /\ First(p) = Source(key)
    BY <1>3 DEF TokenBySymbol, Source
  <2>2. PICK t \in p : First(p) = {t}
    BY <2>1, FirstIsOne DEF TokensInv
  <2> QED
    BY <1>3, <2>1, <2>2 DEF GoodEntry, OneToken
<1> QED
  BY <1>1, <1>2, <1>3 DEF GoodEntry

-----------------------------------------------------------------------------
(* What a step leaves of another request, and what of the rows it has to   *)
(* keep for it.                                                            *)
Same(q) ==
  /\ pc'[q] = pc[q] /\ read'[q] = read[q] /\ mine'[q] = mine[q]
  /\ ask'[q] = ask[q] /\ got'[q] = got[q] /\ pending'[q] \subseteq pending[q]
RowsStay ==
  /\ \A k \in kinds : \E n \in kinds' : n.id = k.id
  /\ \A t \in tokens : \E u \in tokens' : u.id = t.id /\ u.reserve = t.reserve
OldestStays == ReservesOf(OldestToken)' = ReservesOf(OldestToken)
Unmoved(q) ==
  OldestStays \/ ~(case.sequential /\ R(q).op = "setup" /\ UnderWay(q))

LEMMA OldestReserve ==
  ASSUME OldestStays, NEW x,
         \A t \in OldestToken : t.reserve # Null => x = t.reserve
  PROVE  \A t \in OldestToken' : t.reserve # Null => x = t.reserve
BY DEF OldestStays, ReservesOf

LEMMA LocalSame ==
  ASSUME case' = case, NEW q \in Requests, Same(q), RowsStay, Unmoved(q),
         Local(q)
  PROVE  Local(q)'
<1>1. R(q)' = R(q)
  BY DEF R
<1> USE DEF Local, Same
<1>2. Adding(q)'
  BY <1>1 DEF Adding
<1>3. Editing(q)'
  <2> SUFFICES ASSUME R(q).op = "edit_kind", pc[q] \in {"validate", "write"}
               PROVE  Editing(q)'
    BY <1>1 DEF Editing
  <2>1. PICK k \in read[q] :
          /\ read[q] = {k} /\ GoodKind(k)
          /\ \E n \in kinds : n.id = k.id
          /\ pc[q] = "write" => ValidCommission(k, R(q))
    BY DEF Editing
  <2>2. \E n \in kinds' : n.id = k.id
    BY <2>1 DEF RowsStay
  <2> QED
    BY <1>1, <2>1, <2>2 DEF Editing
<1>4. EditingToken(q)'
  <2> SUFFICES ASSUME R(q).op = "edit_token", pc[q] = "write",
                      NEW t \in read[q]
               PROVE  GoodToken(t) /\
                        \E u \in tokens' : u.id = t.id /\ u.reserve = t.reserve
    BY <1>1 DEF EditingToken
  <2>1. PICK u \in tokens : u.id = t.id /\ u.reserve = t.reserve
    BY DEF EditingToken
  <2> QED
    BY <2>1 DEF EditingToken, RowsStay
<1>5. SettingUp(q)'
  <2> SUFFICES ASSUME case.sequential, R(q).op = "setup",
                      pc[q] \in {"addresses", "token"}
               PROVE  SettingUp(q)'
    BY <1>1 DEF SettingUp
  <2> OldestStays
    BY DEF Unmoved, UnderWay, Over
  <2>1. pc[q] = "addresses" =>
          ReservesOf(read[q]) = ReservesOf(OldestToken)
    BY DEF SettingUp
  <2>2. pc[q] = "token" => \A t \in OldestToken' :
          t.reserve # Null => mine[q].reserve = t.reserve
    BY OldestReserve DEF SettingUp
  <2>3. ReservesOf(read[q])' = ReservesOf(read[q])
    BY DEF ReservesOf
  <2> QED
    BY <2>1, <2>2, <2>3 DEF SettingUp, OldestStays
<1>6. Transferring(q)'
  BY <1>1 DEF Transferring, Checked, Agreed
<1>7. Waiting(q)'
  BY DEF Waiting
<1> QED
  BY <1>2, <1>3, <1>4, <1>5, <1>6, <1>7
(* A set-up begins in its turn, and one that is over stays so.             *)
Turned(r) ==
  R(r).op = "setup" =>
    /\ Over(r) => Over(r)'
    /\ UnderWay(r)' => UnderWay(r) \/ Turn(r)

LEMMA SequentialStays ==
  ASSUME Shape, Sequential, case' = case, NEW r \in Requests, Turned(r),
         \A q \in Requests \ {r} : pc'[q] = pc[q]
  PROVE  Sequential'
<1> SUFFICES ASSUME case.sequential, NEW q \in Requests, NEW s \in Requests,
                    q < s, R(q).op = "setup", R(s).op = "setup", UnderWay(s)'
             PROVE  Over(q)'
  BY DEF Sequential, R
<1>1. q # s
  BY RecordsAssumption
<1>2. CASE s = r
  <2>1. Over(q)
    <3>1. CASE UnderWay(r)
      BY <1>2, <3>1 DEF Sequential
    <3>2. CASE Turn(r)
      BY <1>2, <3>2 DEF Turn
    <3> QED
      BY <1>2, <3>1, <3>2 DEF Turned
  <2> QED
    BY <1>1, <1>2, <2>1 DEF Over
<1>3. CASE s # r
  <2>1. Over(q)
    BY <1>3 DEF Sequential, UnderWay, Over
  <2> QED
    BY <2>1 DEF Turned, Over
<1> QED
  BY <1>2, <1>3

LEMMA RowsSame ==
  ASSUME KindsInv, TokensInv, OneReserve, UNCHANGED <<case, kinds, tokens>>
  PROVE  RowsStay /\ OldestStays /\ KindsInv' /\ TokensInv' /\ OneReserve'
BY DEF RowsStay, OldestStays, KindsInv, TokensInv, OneReserve, OldestToken,
       ReservesOf, First

LEMMA WholeStays ==
  ASSUME TransfersAreWhole, paid' = paid PROVE TransfersAreWhole'
BY DEF TransfersAreWhole

(* A step of one request: the rows it changes, if any, stay as others need *)
(* them.                                                                   *)
LEMMA ChangeKeeps ==
  ASSUME RequestsInv, NEW r \in Requests, case' = case,
         Shape', \A q \in Requests \ {r} : Same(q), CacheInv', Local(r)',
         Turned(r), TransfersAreWhole',
         RowsStay, \A q \in Requests \ {r} : Unmoved(q),
         KindsInv', TokensInv', OneReserve'
  PROVE  RequestsInv'
<1>1. Sequential'
  BY SequentialStays DEF RequestsInv, Same
<1>2. \A q \in Requests : Local(q)'
  BY LocalSame DEF RequestsInv
<1> QED
  BY <1>1, <1>2 DEF RequestsInv

(* One that changes neither kinds nor tokens.                              *)
LEMMA StepKeeps ==
  ASSUME RequestsInv, NEW r \in Requests, UNCHANGED <<case, kinds, tokens>>,
         Shape', \A q \in Requests \ {r} : Same(q), CacheInv', Local(r)',
         Turned(r), TransfersAreWhole'
  PROVE  RequestsInv'
<1>1. RowsStay /\ OldestStays /\ KindsInv' /\ TokensInv' /\ OneReserve'
  BY RowsSame DEF RequestsInv
<1> QED
  BY <1>1, ChangeKeeps DEF Unmoved

(* One that neither adds, edits nor sets up, and has no transfer.          *)
Neutral(r) ==
  /\ R(r).op \notin {"add_kind", "edit_kind", "edit_token", "setup"}
  /\ ask[r] = {}

LEMMA NeutralKeeps ==
  ASSUME RequestsInv, NEW r \in Requests, Neutral(r),
         UNCHANGED <<case, kinds, tokens, cache, ask, paid>>,
         Shape', \A q \in Requests \ {r} : Same(q), Waiting(r)'
  PROVE  RequestsInv'
<1>1. R(r)' = R(r)
  BY DEF R
<1>2. Local(r)'
  BY <1>1
  DEF Neutral, Local, Adding, Editing, EditingToken, SettingUp, Transferring
<1>3. Turned(r)
  BY DEF Neutral, Turned
<1>4. CacheInv'
  BY DEF RequestsInv, CacheInv
<1>5. TransfersAreWhole'
  BY WholeStays DEF RequestsInv
<1> QED
  BY <1>2, <1>3, <1>4, <1>5, StepKeeps

LEMMA NeutralOps ==
  ASSUME RequestsInv, NEW r \in Requests,
         R(r).op \notin {"add_kind", "edit_kind", "edit_token", "setup",
                         "execute", "stp_transfer", "simulate"}
  PROVE  Neutral(r)
BY DEF RequestsInv, Local, Transferring, Neutral

-----------------------------------------------------------------------------
(* Reading through the cache.                                              *)
Looked(r) ==
  /\ UNCHANGED <<case, kinds, tokens, cache, mine>>
  /\ DOMAIN pc' = Requests /\ DOMAIN read' = Requests
  /\ DOMAIN pending' = Requests
  /\ \A q \in Requests \ {r} :
       pc'[q] = pc[q] /\ read'[q] = read[q] /\ pending'[q] = pending[q]
  /\ Waiting(r)'

LEMMA FromCacheLooks ==
  ASSUME RequestsInv, NEW r \in Requests, NEW l, NEW key, NEW found, NEW missed,
         FromCache(r, l, key, found, missed)
  PROVE  /\ Looked(r) /\ pc[r] = l
         /\ \/ pc'[r] = found /\ GoodEntry(key, read'[r])
            \/ pc'[r] = missed /\ read'[r] = read[r]
<1>1. /\ UNCHANGED <<case, kinds, tokens, cache, mine, pending>>
      /\ pc[r] = l /\ key \in Keys
      /\ \/ /\ cache[key] # {}
            /\ read' = [read EXCEPT ![r] = CHOOSE v \in cache[key] : TRUE]
            /\ pc' = [pc EXCEPT ![r] = found]
         \/ pc' = [pc EXCEPT ![r] = missed] /\ read' = read
  BY DEF FromCache, Goto, rows
<1>2. Shape /\ CacheInv /\ Waiting(r)
  BY DEF RequestsInv, Local
<1>3. Looked(r)
  BY <1>1, <1>2 DEF Looked, Shape, Waiting
<1>4. CASE /\ cache[key] # {}
           /\ read' = [read EXCEPT ![r] = CHOOSE v \in cache[key] : TRUE]
           /\ pc' = [pc EXCEPT ![r] = found]
  <2>1. PICK v \in cache[key] : read'[r] = v
    BY <1>2, <1>4 DEF Shape
  <2>2. GoodEntry(key, v)
    BY <1>1, <1>2, <2>1 DEF CacheInv
  <2>3. pc'[r] = found
    BY <1>2, <1>4 DEF Shape
  <2> QED
    BY <1>1, <1>3, <2>1, <2>2, <2>3
<1>5. CASE pc' = [pc EXCEPT ![r] = missed] /\ read' = read
  BY <1>1, <1>2, <1>3, <1>5 DEF Shape
<1> QED
  BY <1>1, <1>4, <1>5

LEMMA FromSourceLooks ==
  ASSUME RequestsInv, NEW r \in Requests, NEW l, NEW key, NEW found, NEW none,
         FromSource(r, l, key, found, none)
  PROVE  /\ Looked(r) /\ pc[r] = l
         /\ \/ pc'[r] = found /\ GoodEntry(key, read'[r])
            \/ pc'[r] = none /\ read'[r] = read[r]
<1>1. /\ UNCHANGED <<case, kinds, tokens, cache, mine>> /\ pc[r] = l
      /\ \/ /\ Source(key) # {}
            /\ read' = [read EXCEPT ![r] = Source(key)]
            /\ pending' = [pending EXCEPT ![r] =
                             @ \cup {Set(key, Source(key))}]
            /\ pc' = [pc EXCEPT ![r] = found]
         \/ pc' = [pc EXCEPT ![r] = none] /\ UNCHANGED <<read, pending>>
  BY DEF FromSource, Goto, Later, rows
<1>2. Shape /\ KindsInv /\ TokensInv /\ Waiting(r)
  BY DEF RequestsInv, Local
<1>3. CASE /\ Source(key) # {}
           /\ read' = [read EXCEPT ![r] = Source(key)]
           /\ pending' = [pending EXCEPT ![r] =
                            @ \cup {Set(key, Source(key))}]
           /\ pc' = [pc EXCEPT ![r] = found]
  <2>1. GoodEntry(key, Source(key))
    BY <1>2, <1>3, SourceFits
  <2>2. /\ read'[r] = Source(key) /\ pc'[r] = found
        /\ pending'[r] = pending[r] \cup {Set(key, Source(key))}
    BY <1>2, <1>3 DEF Shape
  <2>3. Waiting(r)'
    <3>1. ASSUME NEW e \in pending'[r], e.do = "set"
          PROVE  GoodEntry(e.key, e.value)
      <4>1. CASE e \in pending[r]
        BY <1>2, <3>1, <4>1 DEF Waiting
      <4>2. CASE e = Set(key, Source(key))
        BY <2>1, <4>2 DEF Set
      <4> QED
        BY <2>2, <3>1, <4>1, <4>2
    <3> QED
      BY <3>1 DEF Waiting, GoodEntry, OneKind, OneToken, GoodKind, BetweenUsers
  <2>4. Looked(r)
    BY <1>1, <1>2, <1>3, <2>3 DEF Looked, Shape
  <2> QED
    BY <1>1, <2>1, <2>2, <2>4
<1>4. CASE pc' = [pc EXCEPT ![r] = none] /\ UNCHANGED <<read, pending>>
  <2>1. Looked(r)
    BY <1>1, <1>2, <1>4 DEF Looked, Shape, Waiting
  <2> QED
    BY <1>1, <1>2, <1>4, <2>1 DEF Shape
<1> QED
  BY <1>1, <1>3, <1>4
-----------------------------------------------------------------------------
(* Requests that neither write kinds and tokens nor transfer.              *)
LEMMA NeutralLooks ==
  ASSUME RequestsInv, NEW r \in Requests, Neutral(r), Looked(r),
         DOMAIN got' = Requests, \A q \in Requests \ {r} : got'[q] = got[q],
         DOMAIN got'[r] = {"token", "kind"}, UNCHANGED <<ask, paid>>
  PROVE  RequestsInv'
<1>1. Shape'
  BY DEF RequestsInv, Shape, Looked
<1>2. \A q \in Requests \ {r} : Same(q)
  BY DEF Same, Looked
<1> QED
  BY <1>1, <1>2, NeutralKeeps DEF Looked

LEMMA CachedReads ==
  ASSUME RequestsInv, UNCHANGED transferVars, NEW r \in Requests,
         Fetch(r) \/ FetchMissing(r) \/ GetSecureToken(r)
  PROVE  RequestsInv'
<1>1. Neutral(r)
  BY NeutralOps
  DEF Fetch, FetchMissing, GetSecureToken, Cached, Readers
<1>2. Looked(r)
  BY FromCacheLooks, FromSourceLooks DEF Fetch, FetchMissing, GetSecureToken
<1>3. /\ DOMAIN got' = Requests /\ \A q \in Requests \ {r} : got'[q] = got[q]
      /\ DOMAIN got'[r] = {"token", "kind"} /\ UNCHANGED <<ask, paid>>
  BY DEF transferVars, RequestsInv, Shape
<1> QED
  BY <1>1, <1>2, <1>3, NeutralLooks

LEMMA SimulatedReads ==
  ASSUME RequestsInv, NEW r \in Requests, SimulateToken(r) \/ SimulateKinds(r)
  PROVE  RequestsInv'
<1>1. Neutral(r)
  BY DEF SimulateToken, SimulateKinds, Neutral
<1>2. Looked(r)
  BY FromCacheLooks, FromSourceLooks DEF SimulateToken, SimulateKinds
<1>3. /\ DOMAIN got' = Requests /\ \A q \in Requests \ {r} : got'[q] = got[q]
      /\ DOMAIN got'[r] = {"token", "kind"} /\ UNCHANGED <<ask, paid>>
  BY DEF SimulateToken, SimulateKinds, KeepToken, transferVars, RequestsInv,
         Shape
<1> QED
  BY <1>1, <1>2, <1>3, NeutralLooks

(* What of the other requests the remaining steps leave.                   *)
Touches(r) ==
  /\ UNCHANGED <<case, kinds, tokens, cache>>
  /\ DOMAIN pc' = Requests /\ DOMAIN read' = Requests
  /\ DOMAIN mine' = Requests /\ DOMAIN pending' = Requests
  /\ \A q \in Requests \ {r} :
       /\ pc'[q] = pc[q] /\ read'[q] = read[q]
       /\ mine'[q] = mine[q] /\ pending'[q] = pending[q]
  /\ DOMAIN mine'[r] = {"reserve", "holder", "new", "salt"}

LEMMA NeutralTouches ==
  ASSUME RequestsInv, NEW r \in Requests, Neutral(r), Touches(r),
         UNCHANGED transferVars, Waiting(r)'
  PROVE  RequestsInv'
<1>1. Shape'
  BY DEF RequestsInv, Shape, Touches, transferVars
<1>2. \A q \in Requests \ {r} : Same(q)
  BY DEF Same, Touches, transferVars
<1> QED
  BY <1>1, <1>2, NeutralKeeps DEF Touches, transferVars

LEMMA AddressSteps ==
  ASSUME RequestsInv, UNCHANGED transferVars, NEW r \in Requests,
         \/ Served(r) \/ EditUser(r) \/ InsertAddress(r) \/ FetchSalt(r)
         \/ InsertSalt(r) \/ SaveKey(r) \/ GenerateFails(r)
         \/ ListKinds(r) \/ ListUsers(r)
  PROVE  RequestsInv'
<1>0. Shape /\ Waiting(r)
  BY DEF RequestsInv, Local
<1> USE DEF Generates, At, Goto, rows, Later
<1>1. Neutral(r)
  BY NeutralOps
  DEF Served, EditUser, InsertAddress, FetchSalt, InsertSalt, SaveKey,
      GenerateFails, ListKinds, ListUsers, Readers
<1>2. CASE Served(r) \/ InsertAddress(r) \/ GenerateFails(r)
  <2>1. Touches(r)
    BY <1>0, <1>2
    DEF Served, InsertAddress, GenerateFails, Touches, Shape
  <2>2. Waiting(r)'
    BY <1>0, <1>2 DEF Served, InsertAddress, GenerateFails, Waiting
  <2> QED
    BY <1>1, <2>1, <2>2, NeutralTouches
<1>3. CASE ListKinds(r) \/ ListUsers(r)
  <2>1. \/ \E shown : FollowPage(r, shown)
        \/ /\ pc' = [pc EXCEPT ![r] = "done"]
           /\ UNCHANGED <<case, rows, cache, read, mine, walk, pending, faults>>
    BY <1>3 DEF ListKinds, ListUsers
  <2>2. /\ UNCHANGED <<case, kinds, tokens, cache, read, mine, pending>>
        /\ \E l : pc' = [pc EXCEPT ![r] = l]
    BY <2>1 DEF FollowPage
  <2>3. Touches(r) /\ Waiting(r)'
    BY <1>0, <2>2 DEF Touches, Shape, Waiting
  <2> QED
    BY <1>1, <2>3, NeutralTouches
<1>4. CASE EditUser(r)
  <2>1. Touches(r)
    BY <1>0, <1>4 DEF EditUser, Touches, Shape
  <2>2. Waiting(r)'
    BY <1>0, <1>4 DEF EditUser, Waiting, Shape, Del
  <2> QED
    BY <1>1, <2>1, <2>2, NeutralTouches
<1>5. CASE FetchSalt(r)
  <2>1. Touches(r)
    BY <1>0, <1>5 DEF FetchSalt, Touches, Shape
  <2>2. GoodEntry(SaltKey, LatestSalt)
    BY DEF GoodEntry, SaltKey, Key
  <2>3. pending'[r] \subseteq pending[r] \cup {Set(SaltKey, LatestSalt)}
    BY <1>0, <1>5 DEF FetchSalt, Shape
  <2>4. Waiting(r)'
    BY <1>0, <2>2, <2>3
    DEF Waiting, Set, GoodEntry, OneKind, OneToken, GoodKind, BetweenUsers
  <2> QED
    BY <1>1, <2>1, <2>4, NeutralTouches
<1>6. CASE InsertSalt(r)
  <2>1. /\ UNCHANGED <<case, kinds, tokens, cache, read>>
        /\ pc' = [pc EXCEPT ![r] = "key"]
        /\ mine' = [mine EXCEPT ![r].salt = salts + 1]
        /\ pending' = [pending EXCEPT ![r] = @ \cup {Del(SaltKey)}]
    BY <1>6 DEF InsertSalt
  <2>2. Touches(r) /\ Waiting(r)'
    BY <1>0, <2>1 DEF Touches, Shape, Waiting, Del
  <2> QED
    BY <1>1, <2>2, NeutralTouches
<1>7. CASE SaveKey(r)
  <2>1. /\ UNCHANGED <<case, kinds, tokens, cache, read, mine>>
        /\ pc' = [pc EXCEPT ![r] = "done"]
        /\ \E a \in read[r] : pending' =
             [pending EXCEPT ![r] = @ \cup {Del(Key("user", a.id))}]
    BY <1>7 DEF SaveKey
  <2>2. Touches(r) /\ Waiting(r)'
    BY <1>0, <2>1 DEF Touches, Shape, Waiting, Del
  <2> QED
    BY <1>1, <2>2, NeutralTouches
<1> QED
  BY <1>2, <1>3, <1>4, <1>5, <1>6, <1>7

(* A batch of dummy users starts.                                          *)
LEMMA BatchStarts ==
  ASSUME RequestsInv, UNCHANGED transferVars, NEW r \in Requests,
         CreateDummyUsers(r)
  PROVE  RequestsInv'
<1>1. /\ UNCHANGED <<case, kinds, tokens, cache, read, mine, pending>>
      /\ DOMAIN pc' = Requests
      /\ \A q \in Requests : pc'[q] # pc[q] =>
           R(q).op \in {"dummy_users", "generate"}
  BY DEF CreateDummyUsers, At, rows
<1>2. \A q \in Requests : R(q)' = R(q)
  BY <1>1 DEF R
<1>3. Shape' /\ CacheInv' /\ TransfersAreWhole'
  BY <1>1, WholeStays DEF RequestsInv, Shape, CacheInv, transferVars
<1>4. RowsStay /\ OldestStays /\ KindsInv' /\ TokensInv' /\ OneReserve'
  BY <1>1, RowsSame DEF RequestsInv
<1>5. ASSUME NEW q \in Requests PROVE Local(q)'
  <2>1. CASE pc'[q] = pc[q]
    BY <1>1, <1>4, <2>1, LocalSame
    DEF RequestsInv, Same, transferVars, Unmoved
  <2>2. CASE pc'[q] # pc[q]
    <3>1. R(q).op \in {"dummy_users", "generate"}
      BY <1>1, <2>2
    <3>2. Neutral(q)
      BY <3>1, NeutralOps
    <3>3. Waiting(q)'
      BY <1>1 DEF RequestsInv, Local, Waiting
    <3> QED
      BY <1>2, <3>1, <3>2, <3>3
      DEF Neutral, Local, Adding, Editing, EditingToken, SettingUp,
          Transferring, transferVars
  <2> QED
    BY <2>1, <2>2
<1>6. Sequential'
  BY <1>1, <1>2 DEF RequestsInv, Sequential, UnderWay, Over
<1> QED
  BY <1>3, <1>4, <1>5, <1>6 DEF RequestsInv
-----------------------------------------------------------------------------
(* Effects that land, entries that run out, processes that die.            *)
Landed(r) ==
  /\ UNCHANGED <<case, kinds, tokens, pc, read, mine>>
  /\ DOMAIN pending' = Requests
  /\ \A q \in Requests : pending'[q] \subseteq pending[q]

LEMMA LandedKeeps ==
  ASSUME RequestsInv, UNCHANGED transferVars, NEW r, Landed(r), CacheInv'
  PROVE  RequestsInv'
<1>1. Shape' /\ TransfersAreWhole'
  BY WholeStays DEF RequestsInv, Shape, Landed, transferVars
<1>2. RowsStay /\ OldestStays /\ KindsInv' /\ TokensInv' /\ OneReserve'
  BY RowsSame DEF RequestsInv, Landed
<1>3. \A q \in Requests : Local(q)'
  BY <1>2, LocalSame DEF RequestsInv, Same, Unmoved, Landed, transferVars
<1>4. Sequential'
  BY DEF RequestsInv, Landed, Sequential, UnderWay, Over, R
<1> QED
  BY <1>1, <1>2, <1>3, <1>4 DEF RequestsInv

LEMMA EffectsLand ==
  ASSUME RequestsInv, UNCHANGED transferVars, NEW r \in Requests,
         SetLands(r) \/ DelLands(r) \/ NameLands(r)
  PROVE  RequestsInv'
<1>0. Shape /\ CacheInv /\ Waiting(r)
  BY DEF RequestsInv, Local
<1>1. PICK e \in pending[r] :
        /\ UNCHANGED <<case, kinds, tokens, pc, read, mine>>
        /\ pending' = [pending EXCEPT ![r] = @ \ {e}]
        /\ \/ e.do = "set" /\ cache' = [cache EXCEPT ![e.key] = {e.value}]
           \/ cache' = [cache EXCEPT ![e.key] = {}]
           \/ cache' = cache
  BY DEF SetLands, DelLands, NameLands, rows
<1>2. Landed(r)
  BY <1>0, <1>1 DEF Landed, Shape
<1>3. DOMAIN cache' = Keys
  BY <1>0, <1>1 DEF CacheInv
<1>4. e.do = "set" => GoodEntry(e.key, e.value)
  BY <1>0 DEF Waiting
<1>5. ASSUME NEW key \in Keys, NEW v \in cache'[key] PROVE GoodEntry(key, v)
  <2>1. v \in cache[key] \/ (e.do = "set" /\ key = e.key /\ v = e.value)
    BY <1>0, <1>1, <1>5 DEF CacheInv
  <2> QED
    BY <1>0, <1>4, <2>1 DEF CacheInv
<1>6. CacheInv'
  BY <1>3, <1>5
  DEF CacheInv, GoodEntry, OneKind, OneToken, GoodKind, BetweenUsers
<1> QED
  BY <1>2, <1>6, LandedKeeps

LEMMA EntryRunsOut ==
  ASSUME RequestsInv, UNCHANGED transferVars, NEW by, NEW of, Expire(by, of)
  PROVE  RequestsInv'
<1>1. /\ UNCHANGED <<case, kinds, tokens, pc, read, mine, pending>>
      /\ cache' = [cache EXCEPT ![Key(by, of)] = {}]
  BY DEF Expire, rows
<1>2. Landed(by)
  BY <1>1 DEF Landed, RequestsInv, Shape
<1>3. CacheInv'
  BY <1>1
  DEF RequestsInv, CacheInv, GoodEntry, OneKind, OneToken, GoodKind,
      BetweenUsers
<1> QED
  BY <1>2, <1>3, LandedKeeps

(* A request that ends where it is.                                        *)
LEMMA Ended ==
  ASSUME case' = case, NEW r \in Requests, pc'[r] \in {"done", "dead"},
         ask'[r] = ask[r], Local(r), Waiting(r)'
  PROVE  Local(r)'
<1>1. R(r)' = R(r)
  BY DEF R
<1> QED
  BY <1>1
  DEF Local, Adding, Editing, EditingToken, SettingUp, Transferring

LEMMA Dies ==
  ASSUME RequestsInv, UNCHANGED transferVars, NEW r \in Requests, Crash(r)
  PROVE  RequestsInv'
<1>1. /\ UNCHANGED <<case, kinds, tokens, cache, read, mine>>
      /\ pc' = [pc EXCEPT ![r] = "dead"]
      /\ pending' = [pending EXCEPT ![r] = {}]
  BY DEF Crash, Goto, rows
<1>2. Shape' /\ \A q \in Requests \ {r} : Same(q)
  BY <1>1 DEF RequestsInv, Shape, Same, transferVars
<1>3. CacheInv' /\ TransfersAreWhole'
  BY <1>1, WholeStays DEF RequestsInv, CacheInv, transferVars
<1>4. pc'[r] = "dead" /\ pending'[r] = {}
  BY <1>1 DEF RequestsInv, Shape
<1>5. Local(r)'
  BY <1>1, <1>4, Ended DEF RequestsInv, Waiting, transferVars
<1>6. Turned(r)
  BY <1>4 DEF Turned, Over, UnderWay
<1> QED
  BY <1>1, <1>2, <1>3, <1>5, <1>6, StepKeeps

-----------------------------------------------------------------------------
(* Transaction kinds.                                                      *)
Kinds(r) == R(r).op \in {"add_kind", "edit_kind"}

LEMMA KindsKeep ==
  ASSUME RequestsInv, UNCHANGED transferVars, NEW r \in Requests, Kinds(r),
         UNCHANGED <<case, tokens, cache, mine>>,
         DOMAIN pc' = Requests, DOMAIN read' = Requests,
         DOMAIN pending' = Requests,
         \A q \in Requests \ {r} : pc'[q] = pc[q] /\ read'[q] = read[q]
                                     /\ pending'[q] = pending[q],
         Adding(r)', Editing(r)', Waiting(r)',
         KindsInv', \A k \in kinds : \E n \in kinds' : n.id = k.id
  PROVE  RequestsInv'
<1>1. Shape' /\ \A q \in Requests \ {r} : Same(q)
  BY DEF RequestsInv, Shape, Same, transferVars
<1>2. CacheInv' /\ TransfersAreWhole'
  BY WholeStays DEF RequestsInv, CacheInv, transferVars
<1>3. R(r)' = R(r)
  BY DEF R
<1>4. ask[r] = {}
  BY DEF RequestsInv, Local, Transferring, Kinds
<1>5. Local(r)'
  BY <1>3, <1>4
  DEF Local, Kinds, EditingToken, SettingUp, Transferring, transferVars
<1>6. Turned(r)
  BY DEF Turned, Kinds
<1>7. /\ RowsStay /\ \A q \in Requests \ {r} : Unmoved(q)
      /\ TokensInv' /\ OneReserve'
  BY DEF RowsStay, Unmoved, OldestStays, RequestsInv, TokensInv, OneReserve,
         OldestToken, ReservesOf, First
<1> QED
  BY <1>1, <1>2, <1>5, <1>6, <1>7, ChangeKeeps

LEMMA KindChecks ==
  ASSUME RequestsInv, UNCHANGED transferVars, NEW r \in Requests,
         AddKindChecks(r) \/ FetchKindRecord(r) \/ EditKindChecks(r)
  PROVE  RequestsInv'
<1>0. Shape /\ KindsInv /\ Editing(r) /\ Waiting(r)
  BY DEF RequestsInv, Local
<1>1. Kinds(r) /\ UNCHANGED <<case, kinds, tokens, cache, mine, pending>>
  BY DEF AddKindChecks, FetchKindRecord, EditKindChecks, At, Kinds, rows
<1>2. R(r)' = R(r)
  BY <1>1 DEF R
<1>3. KindsInv' /\ \A k \in kinds : \E n \in kinds' : n.id = k.id
  BY <1>0, <1>1 DEF KindsInv
<1>4. Waiting(r)' /\ DOMAIN pending' = Requests
  BY <1>0, <1>1 DEF Waiting, Shape
<1>5. CASE AddKindChecks(r)
  <2>1. /\ R(r).op = "add_kind" /\ read' = read
        /\ \E l \in {"insert", "done"} :
             pc' = [pc EXCEPT ![r] = l] /\ (l = "insert" => ValidKind(R(r)))
    BY <1>5 DEF AddKindChecks, At, Goto
  <2>2. Adding(r)' /\ Editing(r)'
    BY <1>0, <1>2, <2>1 DEF Adding, Editing, Shape
  <2> QED
    BY <1>0, <1>1, <1>3, <1>4, <2>1, <2>2, KindsKeep DEF Shape
<1>6. CASE FetchKindRecord(r)
  <2> DEFINE s == KindById(R(r).id)
  <2>1. /\ R(r).op = "edit_kind" /\ read' = [read EXCEPT ![r] = s]
        /\ \E l \in {"done", "validate"} :
             pc' = [pc EXCEPT ![r] = l] /\ (l = "validate" => s # {})
    BY <1>6 DEF FetchKindRecord, At, Goto
  <2>2. s # {} => \E k \in kinds : s = {k}
    BY <1>0 DEF KindById, KindsInv, Numbered
  <2>3. Adding(r)' /\ Editing(r)'
    <3> HIDE DEF s
    <3> QED
      BY <1>0, <1>1, <1>2, <2>1, <2>2 DEF Adding, Editing, Shape, KindsInv
  <2> QED
    BY <1>0, <1>1, <1>3, <1>4, <2>1, <2>3, KindsKeep DEF Shape
<1>7. CASE EditKindChecks(r)
  <2>1. PICK k \in read[r] : /\ read[r] = {k} /\ GoodKind(k)
                             /\ \E n \in kinds : n.id = k.id
    BY <1>0, <1>7 DEF EditKindChecks, At, Editing
  <2>2. /\ R(r).op = "edit_kind" /\ read' = read
        /\ \E l \in {"write", "done"} : pc' = [pc EXCEPT ![r] = l] /\
             (l = "write" => ValidCommission(k, R(r)))
    BY <1>7, <2>1 DEF EditKindChecks, At, Goto
  <2>3. Adding(r)' /\ Editing(r)'
    BY <1>0, <1>1, <1>2, <2>1, <2>2 DEF Adding, Editing, Shape
  <2> QED
    BY <1>0, <1>1, <1>3, <1>4, <2>2, <2>3, KindsKeep DEF Shape
<1> QED
  BY <1>5, <1>6, <1>7

LEMMA KindAdded ==
  ASSUME RequestsInv, UNCHANGED transferVars, NEW r \in Requests, CreateKind(r)
  PROVE  RequestsInv'
<1>0. Shape /\ KindsInv /\ Adding(r) /\ Waiting(r)
  BY DEF RequestsInv, Local
<1> DEFINE k == NewKind(R(r))
<1>1. /\ R(r).op = "add_kind" /\ UNCHANGED <<case, tokens, cache, mine, read>>
      /\ kinds' = kinds \cup {k} /\ pc' = [pc EXCEPT ![r] = "done"]
      /\ pending' = [pending EXCEPT ![r] = @ \cup {Del(Key("count", 1))}]
  BY DEF CreateKind, At, Goto, Later
<1>2. R(r)' = R(r)
  BY <1>1 DEF R
<1>3. ValidKind(R(r))
  BY <1>0 DEF CreateKind, At, Adding
<1>4. GoodKind(k) /\ k.id = NextId(kinds)
  BY <1>3 DEF ValidKind, NewKind, GoodKind, BetweenUsers, USD, BT, Null
<1>5. KindsInv'
  <2> HIDE DEF k
  <2>1. Numbered(kinds \cup {k})
    BY <1>0, <1>4, NumberedAdd DEF KindsInv
  <2>2. Numbered(kinds')
    BY <1>1, <2>1
  <2>3. \A n \in kinds' : GoodKind(n)
    BY <1>0, <1>1, <1>4 DEF KindsInv
  <2> QED
    BY <2>2, <2>3 DEF KindsInv, Numbered, NextId, GoodKind, BetweenUsers
<1>6. Adding(r)' /\ Editing(r)'
  BY <1>0, <1>1, <1>2 DEF Adding, Editing, Shape
<1>7. Waiting(r)'
  BY <1>0, <1>1 DEF Waiting, Shape, Del
<1> HIDE DEF k
<1> QED
  BY <1>0, <1>1, <1>5, <1>6, <1>7, KindsKeep DEF Shape, Kinds

LEMMA KindEdited ==
  ASSUME RequestsInv, UNCHANGED transferVars, NEW r \in Requests, EditKind(r)
  PROVE  RequestsInv'
<1>0. Shape /\ KindsInv /\ Editing(r) /\ Waiting(r)
  BY DEF RequestsInv, Local
<1>1. PICK k \in read[r] : /\ read[r] = {k} /\ GoodKind(k)
                           /\ \E n \in kinds : n.id = k.id
                           /\ ValidCommission(k, R(r))
  BY <1>0 DEF EditKind, At, Editing
<1>2. PICK n \in kinds : n.id = k.id
  BY <1>1
<1> DEFINE e == EditedKind(k, R(r))
<1>3. /\ R(r).op = "edit_kind" /\ UNCHANGED <<case, tokens, cache, mine, read>>
      /\ kinds' = (kinds \ KindById(k.id)) \cup {e}
      /\ pc' = [pc EXCEPT ![r] = "done"]
      /\ pending' = [pending EXCEPT ![r] =
           @ \cup {Del(Key("name", e.name)), Del(Key("kind", k.id))}]
  BY <1>1 DEF EditKind, At, Goto, Later
<1>4. R(r)' = R(r)
  BY <1>3 DEF R
<1>5. GoodKind(e) /\ e.id = n.id
  <2>1. DOMAIN e = DOMAIN k /\ e.id = k.id
    BY <1>1 DEF EditedKind, GoodKind
  <2>2. (e.usd # Null => e.cur = USD) /\ (e.bt # Null => e.cur = BT)
    BY <1>1 DEF EditedKind, GoodKind, USD, BT
  <2>3. e.kind = k.kind /\ e.com = EditedCommission(k, R(r))
    BY <1>1 DEF EditedKind, GoodKind
  <2>4. ~BetweenUsers(e) => e.com = Null
    BY <1>1, <2>3
    DEF BetweenUsers, EditedCommission, ValidCommission, GoodKind, True, Null
  <2> QED
    BY <1>1, <1>2, <2>1, <2>2, <2>4 DEF GoodKind
<1> HIDE DEF e
<1>6. kinds' = {z \in kinds : z.id # n.id} \cup {e}
  BY <1>2, <1>3 DEF KindById
<1>7. KindsInv'
  <2>1. Numbered({z \in kinds : z.id # n.id} \cup {e})
    BY <1>0, <1>5, NumberedReplace DEF KindsInv
  <2>2. Numbered(kinds')
    BY <1>6, <2>1
  <2>3. \A z \in kinds' : GoodKind(z)
    BY <1>0, <1>5, <1>6 DEF KindsInv
  <2> QED
    BY <2>2, <2>3 DEF KindsInv, Numbered, NextId, GoodKind, BetweenUsers
<1>8. \A x \in kinds : \E z \in kinds' : z.id = x.id
  BY <1>5, <1>6
<1>9. Adding(r)' /\ Editing(r)' /\ Waiting(r)'
  BY <1>0, <1>3, <1>4 DEF Adding, Editing, Shape, Waiting, Del
<1> QED
  BY <1>0, <1>3, <1>7, <1>8, <1>9, KindsKeep DEF Shape, Kinds
-----------------------------------------------------------------------------
(* The token and its set-up.                                               *)
SetsUp(r) == R(r).op \in {"setup", "edit_token"}

(* What each of its steps leaves alone, and the row it may change.         *)
TokenStep(r) ==
  /\ SetsUp(r) /\ UNCHANGED <<case, kinds, cache>>
  /\ DOMAIN pc' = Requests /\ DOMAIN read' = Requests
  /\ DOMAIN mine' = Requests /\ DOMAIN pending' = Requests
  /\ DOMAIN mine'[r] = {"reserve", "holder", "new", "salt"}
  /\ \A q \in Requests \ {r} :
       /\ pc'[q] = pc[q] /\ read'[q] = read[q]
       /\ mine'[q] = mine[q] /\ pending'[q] = pending[q]

LEMMA TokensKeep ==
  ASSUME RequestsInv, UNCHANGED transferVars, NEW r \in Requests,
         TokenStep(r), EditingToken(r)', SettingUp(r)', Waiting(r)', Turned(r),
         TokensInv', OneReserve', RowsStay,
         \A q \in Requests \ {r} : Unmoved(q)
  PROVE  RequestsInv'
<1> USE DEF TokenStep
<1>1. Shape' /\ \A q \in Requests \ {r} : Same(q)
  BY DEF RequestsInv, Shape, Same, transferVars
<1>2. CacheInv' /\ TransfersAreWhole' /\ KindsInv'
  BY WholeStays DEF RequestsInv, CacheInv, KindsInv, transferVars
<1>3. R(r)' = R(r)
  BY DEF R
<1>4. ask[r] = {}
  BY DEF RequestsInv, Local, Transferring, SetsUp
<1>5. Local(r)'
  BY <1>3, <1>4
  DEF Local, SetsUp, Adding, Editing, Transferring, transferVars
<1> QED
  BY <1>1, <1>2, <1>5, ChangeKeeps

(* A step that leaves the tokens too.                                      *)
LEMMA TokensLeft ==
  ASSUME RequestsInv, UNCHANGED transferVars, NEW r \in Requests,
         TokenStep(r), tokens' = tokens,
         EditingToken(r)', SettingUp(r)', Waiting(r)', Turned(r)
  PROVE  RequestsInv'
<1>1. RowsStay /\ OldestStays /\ TokensInv' /\ OneReserve'
  BY RowsSame DEF RequestsInv, TokenStep
<1> QED
  BY <1>1, TokensKeep DEF Unmoved

LEMMA SetupBegins ==
  ASSUME RequestsInv, UNCHANGED transferVars, NEW r \in Requests,
         SetupChecks(r) \/ SetupSalt(r) \/ GetExisting(r)
  PROVE  RequestsInv'
<1>0. Shape /\ Waiting(r)
  BY DEF RequestsInv, Local
<1> USE DEF At, Goto, rows, SetsUp
<1>1. CASE SetupChecks(r)
  <2>1. /\ R(r).op = "setup" /\ Turn(r) /\ pc[r] = "start"
        /\ UNCHANGED <<case, kinds, tokens, cache, read, mine, pending>>
        /\ \E l \in {"done", "salt"} : pc' = [pc EXCEPT ![r] = l]
    BY <1>1 DEF SetupChecks
  <2>2. TokenStep(r) /\ Waiting(r)' /\ Turned(r)
    BY <1>0, <2>1 DEF TokenStep, Shape, Waiting, Turned, Over
  <2>3. EditingToken(r)' /\ SettingUp(r)'
    BY <1>0, <2>1 DEF EditingToken, SettingUp, R, Shape
  <2> QED
    BY <2>1, <2>2, <2>3, TokensLeft
<1>2. CASE SetupSalt(r)
  <2>1. /\ R(r).op = "setup" /\ pc[r] = "salt"
        /\ UNCHANGED <<case, kinds, tokens, cache, read, mine, pending>>
        /\ pc' = [pc EXCEPT ![r] = "existing"]
    BY <1>2 DEF SetupSalt
  <2>2. TokenStep(r) /\ Waiting(r)' /\ Turned(r)
    BY <1>0, <2>1
    DEF TokenStep, Shape, Waiting, Turned, Over, UnderWay
  <2>3. EditingToken(r)' /\ SettingUp(r)'
    BY <1>0, <2>1 DEF EditingToken, SettingUp, R, Shape
  <2> QED
    BY <2>1, <2>2, <2>3, TokensLeft
<1>3. CASE GetExisting(r)
  <2>1. /\ R(r).op = "setup" /\ pc[r] = "existing"
        /\ UNCHANGED <<case, kinds, tokens, cache, pending>>
        /\ pc' = [pc EXCEPT ![r] = "addresses"]
        /\ read' = [read EXCEPT ![r] = OldestToken]
        /\ mine' = [mine EXCEPT ![r].new = workers]
    BY <1>3 DEF GetExisting
  <2>2. TokenStep(r) /\ Waiting(r)' /\ Turned(r)
    BY <1>0, <2>1
    DEF TokenStep, Shape, Waiting, Turned, Over, UnderWay
  <2>3. read'[r] = OldestToken /\ OldestToken' = OldestToken
    BY <1>0, <2>1 DEF Shape, OldestToken, First
  <2>4. EditingToken(r)' /\ SettingUp(r)'
    BY <1>0, <2>1, <2>3
    DEF EditingToken, SettingUp, R, Shape, ReservesOf
  <2> QED
    BY <2>1, <2>2, <2>4, TokensLeft
<1> QED
  BY <1>1, <1>2, <1>3

(* The reserve of the oldest token, when it has one, is taken again.       *)
LEMMA AddressesSet ==
  ASSUME RequestsInv, UNCHANGED transferVars, NEW r \in Requests,
         SetClientAddresses(r)
  PROVE  RequestsInv'
<1>0. Shape /\ TokensInv /\ SettingUp(r) /\ Waiting(r)
  BY DEF RequestsInv, Local
<1>1. /\ R(r).op = "setup" /\ pc[r] = "addresses"
      /\ UNCHANGED <<case, kinds, tokens, cache, read, pending>>
      /\ pc' = [pc EXCEPT ![r] = "token"]
  BY DEF SetClientAddresses, At, Goto
<1> DEFINE
  n == NextId(addresses)
  want == {f \in {"reserve", "holder"} : Reused(r, f) = {}} \cup
          (IF mine[r].new = {} THEN {"workers"} ELSE {})
  id == [reserve |-> n, holder |-> n + 1, workers |-> n + 2]
  held(failed, f) ==
    IF f \notin want THEN CHOOSE i \in Reused(r, f) : TRUE
    ELSE IF f \in failed THEN Null ELSE id[f]
  new(failed) ==
    IF "workers" \in want \ failed THEN {id["workers"]} ELSE {}
<1>2. PICK failed \in SUBSET {"reserve", "holder", "workers"} :
        mine' = [mine EXCEPT
          ![r].reserve = held(failed, "reserve"),
          ![r].holder = held(failed, "holder"), ![r].new = new(failed)]
  BY Zenon DEF SetClientAddresses
<1>3. Reused(r, "reserve") # {} =>
        held(failed, "reserve") = CHOOSE i \in Reused(r, "reserve") : TRUE
  OBVIOUS
<1> HIDE DEF held, new
<1>4. /\ DOMAIN mine' = Requests
      /\ \A q \in Requests \ {r} : mine'[q] = mine[q]
      /\ DOMAIN mine'[r] = {"reserve", "holder", "new", "salt"}
      /\ mine'[r].reserve = held(failed, "reserve")
  BY <1>0, <1>2 DEF Shape
<1>5. TokenStep(r) /\ Waiting(r)' /\ Turned(r)
  BY <1>0, <1>1, <1>4
  DEF TokenStep, SetsUp, Shape, Waiting, Turned, Over, UnderWay
<1>6. Reused(r, "reserve") = ReservesOf(read[r]) \ {Null}
  BY DEF Reused, ReservesOf
<1>7. ASSUME case.sequential, NEW t \in OldestToken, t.reserve # Null
      PROVE  mine'[r].reserve = t.reserve
  <2>1. ReservesOf(read[r]) = ReservesOf(OldestToken)
    BY <1>0, <1>1, <1>7 DEF SettingUp
  <2>2. OldestToken = {t}
    BY <1>0, <1>7, FirstIsOne DEF TokensInv, OldestToken
  <2>3. Reused(r, "reserve") = {t.reserve}
    BY <1>6, <1>7, <2>1, <2>2 DEF ReservesOf
  <2> QED
    BY <1>3, <1>4, <2>3
<1>8. OldestToken' = OldestToken /\ R(r)' = R(r) /\ pc'[r] = "token"
  BY <1>0, <1>1 DEF OldestToken, First, R, Shape
<1>9. EditingToken(r)' /\ SettingUp(r)'
  BY <1>1, <1>7, <1>8 DEF EditingToken, SettingUp
<1> QED
  BY <1>1, <1>5, <1>9, TokensLeft

LEMMA TokenCreated ==
  ASSUME RequestsInv, UNCHANGED transferVars, NEW r \in Requests, CreateToken(r)
  PROVE  RequestsInv'
<1>0. /\ Shape /\ TokensInv /\ OneReserve /\ Sequential
      /\ SettingUp(r) /\ Waiting(r)
  BY DEF RequestsInv, Local
<1> DEFINE new == [id |-> NextId(tokens), symbol |-> R(r).symbol, factor |-> 1,
                   reserve |-> mine[r].reserve, holder |-> mine[r].holder]
<1>1. /\ R(r).op = "setup" /\ pc[r] = "token"
      /\ UNCHANGED <<case, kinds, cache, read, mine, pending>>
      /\ tokens' = tokens \cup {new} /\ pc' = [pc EXCEPT ![r] = "workers"]
  BY DEF CreateToken, At, Goto
<1>2. TokenStep(r) /\ Waiting(r)' /\ Turned(r)
  BY <1>0, <1>1
  DEF TokenStep, SetsUp, Shape, Waiting, Turned, Over, UnderWay
<1>3. EditingToken(r)' /\ SettingUp(r)'
  BY <1>0, <1>1 DEF EditingToken, SettingUp, R, Shape
<1>4. GoodToken(new) /\ new.id = NextId(tokens)
      /\ new.reserve = mine[r].reserve
  BY DEF GoodToken
<1> HIDE DEF new
<1>5. TokensInv'
  <2>1. Numbered(tokens \cup {new})
    BY <1>0, <1>4, NumberedAdd DEF TokensInv
  <2>2. Numbered(tokens')
    BY <1>1, <2>1
  <2> QED
    BY <1>0, <1>1, <1>4, <2>2 DEF TokensInv, Numbered, NextId, GoodToken
<1>6. RowsStay
  BY <1>1 DEF RowsStay
<1>7. ASSUME NEW q \in Requests \ {r} PROVE Unmoved(q)
  <2>1. SUFFICES ASSUME case.sequential, R(q).op = "setup", UnderWay(q)
                 PROVE  FALSE
    BY DEF Unmoved
  <2>2. ~Over(q) /\ UnderWay(r) /\ ~Over(r)
    BY <1>1, <2>1 DEF UnderWay, Over
  <2>3. q < r \/ r < q
    BY RecordsAssumption
  <2> QED
    BY <1>0, <1>1, <2>1, <2>2, <2>3 DEF Sequential
<1>8. ASSUME case.sequential, NEW t \in OldestToken', t.reserve # Null,
             NEW u \in tokens'
      PROVE  u.reserve = t.reserve
  <2>1. t \in tokens' /\ \A y \in tokens' : t.id <= y.id
    BY <1>8 DEF OldestToken, First
  <2>2. CASE t \in tokens
    <3>1. t \in OldestToken
      BY <1>1, <2>1, <2>2 DEF OldestToken, First
    <3>2. CASE u \in tokens
      BY <1>0, <1>8, <3>1, <3>2 DEF OneReserve
    <3>3. CASE u = new
      BY <1>0, <1>1, <1>4, <1>8, <3>1, <3>3 DEF SettingUp
    <3> QED
      BY <1>1, <3>2, <3>3
  <2>3. CASE t = new
    <3>1. \A y \in tokens : y.id < NextId(tokens)
      <4> DEFINE n == NextId(tokens)
      <4>1. n \in Nat \ {0} /\ {y.id : y \in tokens} = 1 .. n - 1
        BY <1>0, NumberedIds DEF TokensInv
      <4> HIDE DEF n
      <4>2. \A y \in tokens : y.id \in 1 .. n - 1
        BY <4>1
      <4>3. \A y \in tokens : y.id < n
        BY <4>1, <4>2
      <4> QED
        BY <4>3 DEF n
    <3>2. ASSUME NEW y \in tokens PROVE FALSE
      <4>1. y.id \in Nat /\ NextId(tokens) \in Nat
        BY <1>0, NumberedIds DEF TokensInv
      <4>2. NextId(tokens) <= y.id /\ y.id < NextId(tokens)
        BY <1>1, <1>4, <2>1, <2>3, <3>1
      <4> QED
        BY <4>1, <4>2
    <3> QED
      BY <1>1, <2>3, <3>2
  <2> QED
    BY <1>1, <2>1, <2>2, <2>3
<1>9. OneReserve'
  BY <1>1, <1>8 DEF OneReserve
<1> QED
  BY <1>2, <1>3, <1>5, <1>6, <1>7, <1>9, TokensKeep

LEMMA WorkersCreated ==
  ASSUME RequestsInv, UNCHANGED transferVars, NEW r \in Requests,
         CreateWorkers(r)
  PROVE  RequestsInv'
<1>0. Shape /\ Waiting(r)
  BY DEF RequestsInv, Local
<1>1. /\ R(r).op = "setup" /\ pc[r] = "workers"
      /\ UNCHANGED <<case, kinds, tokens, cache, read, mine>>
      /\ pc' = [pc EXCEPT ![r] = "done"]
      /\ pending' = [pending EXCEPT ![r] = @ \cup TokenDels(R(r).symbol)]
  BY DEF CreateWorkers, At, Goto, Later
<1>2. TokenStep(r) /\ Turned(r)
  BY <1>0, <1>1 DEF TokenStep, SetsUp, Shape, Turned, Over, UnderWay
<1>3. Waiting(r)' /\ EditingToken(r)' /\ SettingUp(r)'
  BY <1>0, <1>1
  DEF Waiting, TokenDels, Del, EditingToken, SettingUp, R, Shape
<1> QED
  BY <1>1, <1>2, <1>3, TokensLeft

LEMMA TokenValidated ==
  ASSUME RequestsInv, UNCHANGED transferVars, NEW r \in Requests,
         ValidateToken(r)
  PROVE  RequestsInv'
<1>0. Shape /\ TokensInv /\ Waiting(r)
  BY DEF RequestsInv, Local
<1> DEFINE s == First(TokenBySymbol(R(r).symbol))
<1>1. /\ R(r).op = "edit_token"
      /\ UNCHANGED <<case, kinds, tokens, cache, mine, pending>>
      /\ read' = [read EXCEPT ![r] = s]
      /\ \E l \in {"done", "write"} : pc' = [pc EXCEPT ![r] = l]
  BY DEF ValidateToken, At, Goto, rows
<1>2. s \subseteq tokens
  BY DEF First, TokenBySymbol
<1> HIDE DEF s
<1>3. TokenStep(r) /\ Turned(r) /\ Waiting(r)'
  BY <1>0, <1>1 DEF TokenStep, SetsUp, Shape, Turned, Waiting
<1>4. EditingToken(r)' /\ SettingUp(r)'
  BY <1>0, <1>1, <1>2 DEF EditingToken, SettingUp, R, Shape, TokensInv
<1> QED
  BY <1>1, <1>3, <1>4, TokensLeft
LEMMA TokenEdited ==
  ASSUME RequestsInv, UNCHANGED transferVars, NEW r \in Requests, EditToken(r)
  PROVE  RequestsInv'
<1>0. Shape /\ TokensInv /\ OneReserve /\ EditingToken(r) /\ Waiting(r)
  BY DEF RequestsInv, Local
<1>1. PICK t \in read[r] :
        tokens' = {u \in tokens : u.id # t.id} \cup
                    {[t EXCEPT !.factor = R(r).factor]}
  BY DEF EditToken
<1>2. /\ R(r).op = "edit_token" /\ pc[r] = "write"
      /\ UNCHANGED <<case, kinds, cache, read, mine>>
      /\ pc' = [pc EXCEPT ![r] = "done"]
      /\ pending' = [pending EXCEPT ![r] = @ \cup TokenDels(R(r).symbol)]
  BY DEF EditToken, At, Goto, Later
<1>3. PICK w \in tokens : GoodToken(t) /\ w.id = t.id /\ w.reserve = t.reserve
  BY <1>0, <1>2 DEF EditingToken
<1> DEFINE e == [t EXCEPT !.factor = R(r).factor]
<1>4. GoodToken(e) /\ e.id = w.id /\ e.reserve = w.reserve
  BY <1>3 DEF GoodToken
<1>5. tokens' = {u \in tokens : u.id # w.id} \cup {e}
  BY <1>1, <1>3
<1> HIDE DEF e
<1>6. TokenStep(r) /\ Turned(r)
  BY <1>0, <1>2 DEF TokenStep, SetsUp, Shape, Turned
<1>7. Waiting(r)' /\ EditingToken(r)' /\ SettingUp(r)'
  BY <1>0, <1>2
  DEF Waiting, TokenDels, Del, EditingToken, SettingUp, R, Shape
<1>8. TokensInv'
  <2>1. Numbered({u \in tokens : u.id # w.id} \cup {e})
    BY <1>0, <1>4, NumberedReplace DEF TokensInv
  <2>2. Numbered(tokens')
    BY <1>5, <2>1
  <2> QED
    BY <1>0, <1>4, <1>5, <2>2 DEF TokensInv, Numbered, NextId, GoodToken
<1>9. \A u \in tokens : \E v \in tokens' : v.id = u.id /\ v.reserve = u.reserve
  <2>1. \A u \in tokens : u.id = w.id => u = w
    BY <1>0 DEF TokensInv, Numbered
  <2> QED
    BY <1>4, <1>5, <2>1
<1>10. \A v \in tokens' : \E u \in tokens : v.id = u.id /\ v.reserve = u.reserve
  BY <1>4, <1>5
<1>11. RowsStay
  BY <1>2, <1>9 DEF RowsStay
<1>12. \A u \in OldestToken : \E v \in OldestToken' : v.reserve = u.reserve
  BY <1>9, <1>10 DEF OldestToken, First
<1>13. \A v \in OldestToken' : \E u \in OldestToken : v.reserve = u.reserve
  BY <1>9, <1>10 DEF OldestToken, First
<1>14. OldestStays
  BY <1>12, <1>13 DEF OldestStays, ReservesOf
<1>15. OneReserve'
  <2> SUFFICES ASSUME case.sequential, NEW v \in OldestToken', v.reserve # Null,
                      NEW u \in tokens'
               PROVE  u.reserve = v.reserve
    BY <1>2 DEF OneReserve
  <2>1. PICK x \in OldestToken : v.reserve = x.reserve
    BY <1>13
  <2>2. PICK y \in tokens : u.reserve = y.reserve
    BY <1>10
  <2> QED
    BY <1>0, <2>1, <2>2 DEF OneReserve
<1> QED
  BY <1>6, <1>7, <1>8, <1>11, <1>14, <1>15, TokensKeep DEF Unmoved

-----------------------------------------------------------------------------
(* Transfers.                                                              *)
TransferShape(r) ==
  /\ UNCHANGED <<case, kinds, tokens, cache, mine>>
  /\ DOMAIN pc' = Requests /\ DOMAIN read' = Requests
  /\ DOMAIN pending' = Requests /\ DOMAIN ask' = Requests
  /\ DOMAIN got' = Requests /\ DOMAIN got'[r] = {"token", "kind"}
  /\ \A q \in Requests \ {r} :
       /\ pc'[q] = pc[q] /\ read'[q] = read[q] /\ pending'[q] = pending[q]
       /\ ask'[q] = ask[q] /\ got'[q] = got[q]

LEMMA TransferKeeps ==
  ASSUME RequestsInv, NEW r \in Requests,
         R(r).op \in {"execute", "stp_transfer", "simulate"},
         TransferShape(r), Waiting(r)', Transferring(r)', TransfersAreWhole'
  PROVE  RequestsInv'
<1>1. Shape' /\ \A q \in Requests \ {r} : Same(q)
  BY DEF RequestsInv, Shape, Same, TransferShape
<1>2. CacheInv'
  BY DEF RequestsInv, CacheInv, TransferShape
<1>3. R(r)' = R(r)
  BY DEF R, TransferShape
<1>4. Local(r)'
  BY <1>3 DEF Local, Adding, Editing, EditingToken, SettingUp
<1>5. Turned(r)
  BY DEF Turned
<1> QED
  BY <1>1, <1>2, <1>4, <1>5, StepKeeps DEF TransferShape

LEMMA Asked ==
  ASSUME RequestsInv, NEW r \in Requests, ask[r] # {}
  PROVE  /\ R(r).op \in {"execute", "stp_transfer", "simulate"}
         /\ \E a \in ask[r] : ask[r] = {a} /\ GoodAsk(a)
         /\ R(r).op # "stp_transfer" =>
              \A a \in ask[r] : a.by \in {"name", "kind"}
BY DEF RequestsInv, Local, Transferring

LEMMA TokenLooked ==
  ASSUME RequestsInv, NEW r \in Requests, FetchToken(r) \/ FetchSecureToken(r)
  PROVE  RequestsInv'
<1>0. Shape /\ Transferring(r)
  BY DEF RequestsInv, Local
<1>1. ask[r] # {} /\ UNCHANGED transferVars
  BY DEF FetchToken, FetchSecureToken
<1>2. /\ Looked(r)
      /\ \/ pc'[r] \in {"symbol", "token_source", "symbol_source", "done"}
         \/ pc'[r] = "secured" /\ OneToken(read'[r])
  <2>1. CASE FetchToken(r)
    BY <2>1, FromCacheLooks, FromSourceLooks DEF FetchToken
  <2>2. CASE FetchSecureToken(r)
    <3>1. PICK t \in read[r] :
            LET key == Key("symbol", t.symbol) IN
            \/ FromCache(r, "symbol", key, "secured", "symbol_source")
            \/ FromSource(r, "symbol_source", key, "secured", "done")
      BY <2>2 DEF FetchSecureToken
    <3> DEFINE key == Key("symbol", t.symbol)
    <3>2. \/ FromCache(r, "symbol", key, "secured", "symbol_source")
          \/ FromSource(r, "symbol_source", key, "secured", "done")
      BY <3>1
    <3>3. key.by = "symbol"
      BY DEF Key
    <3> HIDE DEF key
    <3> QED
      BY <3>2, <3>3, FromCacheLooks, FromSourceLooks DEF GoodEntry
  <2> QED
    BY <2>1, <2>2
<1>3. TransferShape(r) /\ Waiting(r)' /\ TransfersAreWhole'
  BY <1>0, <1>1, <1>2, WholeStays
  DEF TransferShape, Looked, transferVars, Shape, RequestsInv
<1>4. R(r)' = R(r)
  BY <1>2 DEF R, Looked
<1>5. Transferring(r)'
  BY <1>0, <1>1, <1>2, <1>4 DEF Transferring, transferVars, OneToken
<1> QED
  BY <1>1, <1>3, <1>5, Asked, TransferKeeps

LEMMA KindLooked ==
  ASSUME RequestsInv, NEW r \in Requests, FetchKind(r) \/ ValidateAction(r)
  PROVE  RequestsInv'
<1>0. Shape /\ Transferring(r)
  BY DEF RequestsInv, Local
<1>1. PICK key : ReadKind(r, key) /\ key.by \in {"name", "kind"}
  <2>1. CASE FetchKind(r)
    <3>1. PICK a \in ask[r] : ReadKind(r, Key(a.by, a.of))
      BY <2>1 DEF FetchKind
    <3>2. a.by \in {"name", "kind"}
      BY <2>1, <3>1, Asked DEF FetchKind
    <3> QED
      BY <3>1, <3>2 DEF Key
  <2>2. CASE ValidateAction(r)
    BY <2>2 DEF ValidateAction, Key
  <2> QED
    BY <2>1, <2>2
<1>2. ask[r] # {} /\ UNCHANGED <<ask, paid>>
  BY DEF FetchKind, ValidateAction
<1>3. /\ Looked(r)
      /\ \/ pc'[r] = "kind" /\ OneKind(read'[r])
         \/ pc'[r] = "kind_source" \/ pc'[r] = "done"
      /\ \/ pc[r] = "secured" /\ KeepToken(r)
         \/ pc[r] = "kind_source" /\ UNCHANGED got
  <2>1. CASE FromCache(r, "secured", key, "kind", "kind_source") /\ KeepToken(r)
    BY <1>1, <2>1, FromCacheLooks DEF GoodEntry
  <2>2. CASE FromSource(r, "kind_source", key, "kind", "done") /\ UNCHANGED got
    BY <1>1, <2>2, FromSourceLooks DEF GoodEntry
  <2> QED
    BY <1>1, <2>1, <2>2 DEF ReadKind
<1>4. /\ DOMAIN got' = Requests /\ DOMAIN got'[r] = {"token", "kind"}
      /\ \A q \in Requests \ {r} : got'[q] = got[q]
      /\ OneToken(got'[r].token)
  <2>1. CASE pc[r] = "secured" /\ KeepToken(r)
    <3>1. got' = [got EXCEPT ![r].token = read[r]] /\ OneToken(read[r])
      BY <1>0, <1>2, <2>1 DEF KeepToken, Transferring
    <3>2. got'[r].token = read[r]
      BY <1>0, <3>1 DEF Shape
    <3> QED
      BY <1>0, <3>1, <3>2 DEF Shape
  <2>2. CASE pc[r] = "kind_source" /\ UNCHANGED got
    BY <1>0, <1>2, <2>2 DEF Shape, Transferring
  <2> QED
    BY <1>3, <2>1, <2>2
<1>5. TransferShape(r) /\ Waiting(r)' /\ TransfersAreWhole'
  BY <1>0, <1>2, <1>3, <1>4, WholeStays
  DEF TransferShape, Looked, Shape, RequestsInv
<1>6. R(r)' = R(r)
  BY <1>3 DEF R, Looked
<1>7. Transferring(r)'
  BY <1>0, <1>2, <1>3, <1>4, <1>6
  DEF Transferring, OneToken, OneKind, GoodKind, BetweenUsers
<1> QED
  BY <1>2, <1>5, <1>7, Asked, TransferKeeps
(* A step that only moves a transfer on: what it has asked or was checked  *)
(* by may change, the rows and the entries do not.                         *)
MovesOn(r) ==
  /\ UNCHANGED <<case, kinds, tokens, cache, mine, pending>>
  /\ DOMAIN pc' = Requests /\ \A q \in Requests \ {r} : pc'[q] = pc[q]

LEMMA MovesOnKeeps ==
  ASSUME RequestsInv, NEW r \in Requests, MovesOn(r),
         R(r).op \in {"execute", "stp_transfer", "simulate"}, read' = read,
         DOMAIN ask' = Requests, \A q \in Requests \ {r} : ask'[q] = ask[q],
         DOMAIN got' = Requests, \A q \in Requests \ {r} : got'[q] = got[q],
         DOMAIN got'[r] = {"token", "kind"},
         Transferring(r)', TransfersAreWhole'
  PROVE  RequestsInv'
<1>1. TransferShape(r) /\ Waiting(r)'
  BY DEF MovesOn, TransferShape, RequestsInv, Shape, Local, Waiting
<1> QED
  BY <1>1, TransferKeeps

LEMMA SimulateKeeps ==
  ASSUME RequestsInv, NEW r \in Requests, Simulate(r)
  PROVE  RequestsInv'
<1>0. Shape
  BY DEF RequestsInv
<1>1. /\ R(r).op = "simulate" /\ ask[r] = {}
      /\ UNCHANGED <<case, kinds, tokens, cache, read, mine, pending, got, paid>>
  BY DEF Simulate, At, rows
<1>2. \/ pc' = [pc EXCEPT ![r] = "done"] /\ ask' = ask
      \/ /\ pc' = [pc EXCEPT ![r] = "start"]
         /\ \E k, u, v, reserve, enough, tried :
              ask' = [ask EXCEPT ![r] =
                        {SimulatedAsk(k, u, v, reserve, enough, tried)}]
  BY DEF Simulate, Refuse, Goto
<1>3. R(r)' = R(r)
  BY <1>1 DEF R
<1>4. Transferring(r)'
  <2>1. CASE pc' = [pc EXCEPT ![r] = "done"] /\ ask' = ask
    BY <1>1, <2>1 DEF Transferring
  <2>2. CASE /\ pc' = [pc EXCEPT ![r] = "start"]
             /\ \E k, u, v, reserve, enough, tried :
                  ask' = [ask EXCEPT ![r] =
                            {SimulatedAsk(k, u, v, reserve, enough, tried)}]
    <3>1. PICK k, u, v, reserve, enough, tried :
            ask' = [ask EXCEPT ![r] =
                      {SimulatedAsk(k, u, v, reserve, enough, tried)}]
      BY <2>2
    <3> DEFINE a == SimulatedAsk(k, u, v, reserve, enough, tried)
    <3>2. GoodAsk(a) /\ a.by = "name"
      BY DEF GoodAsk, SimulatedAsk
    <3> HIDE DEF a
    <3>3. ask'[r] = {a} /\ pc'[r] = "start"
      BY <1>0, <2>2, <3>1 DEF Shape, a
    <3> QED
      BY <1>1, <1>3, <3>2, <3>3 DEF Transferring, GoodAsk
  <2> QED
    BY <1>2, <2>1, <2>2
<1>5. MovesOn(r) /\ DOMAIN ask' = Requests
      /\ \A q \in Requests \ {r} : ask'[q] = ask[q]
  BY <1>0, <1>1, <1>2 DEF MovesOn, Shape
<1> QED
  BY <1>0, <1>1, <1>4, <1>5, MovesOnKeeps, WholeStays DEF RequestsInv, Shape

LEMMA StpAdmitted ==
  ASSUME RequestsInv, NEW r \in Requests, AdmitStp(r)
  PROVE  RequestsInv'
<1>0. Shape /\ Transferring(r)
  BY DEF RequestsInv, Local
<1> DEFINE s == {[a EXCEPT !.queued = ValidStp(a)] :
                   a \in {FromReserve(a, t) : a \in ask[r], t \in read[r]}}
<1>1. /\ R(r).op = "stp_transfer" /\ pc[r] = "secured"
      /\ UNCHANGED <<case, kinds, tokens, cache, read, mine, pending, got, paid>>
      /\ ask' = [ask EXCEPT ![r] = s] /\ pc' = [pc EXCEPT ![r] = "done"]
  BY DEF AdmitStp, At, Goto, rows
<1>2. ask[r] # {} => \E a \in s : s = {a} /\ GoodAsk(a)
  <2> SUFFICES ASSUME ask[r] # {} PROVE \E a \in s : s = {a} /\ GoodAsk(a)
    OBVIOUS
  <2>1. PICK a \in ask[r] : ask[r] = {a} /\ GoodAsk(a)
    BY <1>0 DEF Transferring
  <2>2. PICK t \in read[r] : read[r] = {t}
    BY <1>0, <1>1 DEF Transferring, OneToken
  <2> DEFINE b == FromReserve(a, t)
             c == [b EXCEPT !.queued = ValidStp(b)]
  <2>3. GoodAsk(b)
    BY <2>1 DEF GoodAsk, FromReserve
  <2> HIDE DEF b
  <2>4. GoodAsk(c)
    BY <2>3 DEF GoodAsk
  <2>5. {FromReserve(d, u) : d \in ask[r], u \in read[r]} = {b}
    BY <2>1, <2>2 DEF b
  <2>6. s = {c}
    BY <2>5
  <2> QED
    BY <2>4, <2>6
<1>3. ask[r] = {} => s = {}
  OBVIOUS
<1> HIDE DEF s
<1>4. R(r)' = R(r)
  BY <1>1 DEF R
<1>5. Transferring(r)'
  BY <1>0, <1>1, <1>2, <1>3, <1>4 DEF Transferring, Shape, GoodAsk
<1>6. MovesOn(r) /\ DOMAIN ask' = Requests
      /\ \A q \in Requests \ {r} : ask'[q] = ask[q]
  BY <1>0, <1>1 DEF MovesOn, Shape
<1> QED
  BY <1>0, <1>1, <1>5, <1>6, MovesOnKeeps, WholeStays DEF RequestsInv, Shape

LEMMA ParamsChecked ==
  ASSUME RequestsInv, NEW r \in Requests, CheckParams(r)
  PROVE  RequestsInv'
<1>0. Shape /\ Transferring(r)
  BY DEF RequestsInv, Local
<1>1. /\ pc[r] = "kind" /\ ask[r] # {}
      /\ UNCHANGED <<case, kinds, tokens, cache, read, mine, pending, ask, paid>>
      /\ got' = [got EXCEPT ![r].kind = read[r]]
      /\ \E k \in read[r], a \in ask[r], l \in {"users", "done"} :
           /\ pc' = [pc EXCEPT ![r] = l]
           /\ l = "users" /\ a.queued => GivesWhatIsOpen(k, a)
  BY DEF CheckParams, Goto, rows
<1>2. PICK k \in read[r] : read[r] = {k} /\ GoodKind(k)
  BY <1>0, <1>1 DEF Transferring, OneKind
<1>3. PICK a \in ask[r] : ask[r] = {a} /\ GoodAsk(a)
  BY <1>0, <1>1 DEF Transferring
<1>4. got'[r].kind = {k} /\ got'[r].token = got[r].token
  BY <1>0, <1>1, <1>2 DEF Shape
<1>5. \/ pc'[r] = "done"
      \/ pc'[r] = "users" /\ (a.queued => GivesWhatIsOpen(k, a))
  BY <1>0, <1>1, <1>2, <1>3 DEF Shape
<1>6. Checked(r)' \/ pc'[r] = "done"
  <2>1. CASE pc'[r] = "users" /\ (a.queued => GivesWhatIsOpen(k, a))
    <3>1. \A m \in got'[r].kind : \A b \in ask'[r] :
            b.queued => GivesWhatIsOpen(m, b)
      BY <1>1, <1>3, <1>4, <2>1
    <3>2. OneKind(got'[r].kind)
      BY <1>2, <1>4 DEF OneKind
    <3> QED
      BY <3>1, <3>2
      DEF Checked, OneKind, GoodKind, BetweenUsers, GivesWhatIsOpen,
          ArbitraryAmount
  <2> QED
    BY <1>5, <2>1
<1>7. OneToken(got'[r].token) /\ R(r)' = R(r)
  BY <1>0, <1>1, <1>4 DEF Transferring, R
<1>8. Transferring(r)'
  BY <1>0, <1>1, <1>5, <1>6, <1>7 DEF Transferring, OneToken
<1>9. MovesOn(r) /\ DOMAIN got' = Requests
      /\ (\A q \in Requests \ {r} : got'[q] = got[q])
      /\ DOMAIN got'[r] = {"token", "kind"}
  BY <1>0, <1>1 DEF MovesOn, Shape
<1> QED
  BY <1>0, <1>1, <1>8, <1>9, Asked, MovesOnKeeps, WholeStays
  DEF RequestsInv, Shape
(* The one transfer, its kind and the token it was checked by.             *)
LEMMA OneOfEach ==
  ASSUME RequestsInv, NEW r \in Requests, ask[r] # {},
         pc[r] \in {"users", "agreed"}
  PROVE  \E a \in ask[r], k \in got[r].kind, t \in got[r].token :
           /\ ask[r] = {a} /\ got[r].kind = {k} /\ got[r].token = {t}
           /\ GoodAsk(a) /\ GoodKind(k)
           /\ a.queued => GivesWhatIsOpen(k, a)
           /\ pc[r] = "agreed" => RightParties(k, a, t.reserve)
<1>1. Transferring(r)
  BY DEF RequestsInv, Local
<1>2. PICK a \in ask[r] : ask[r] = {a} /\ GoodAsk(a)
  BY <1>1 DEF Transferring
<1>3. Checked(r) /\ OneToken(got[r].token) /\ (pc[r] = "agreed" => Agreed(r))
  BY <1>1 DEF Transferring
<1>4. PICK k \in got[r].kind : got[r].kind = {k} /\ GoodKind(k)
  BY <1>3 DEF Checked, OneKind
<1>5. PICK t \in got[r].token : got[r].token = {t}
  BY <1>3 DEF OneToken
<1> QED
  BY <1>2, <1>3, <1>4, <1>5 DEF Checked, Agreed

LEMMA UsersChecked ==
  ASSUME RequestsInv, NEW r \in Requests, CheckUsers(r)
  PROVE  RequestsInv'
<1>0. Shape /\ Waiting(r) /\ Transferring(r)
  BY DEF RequestsInv, Local
<1>1. pc[r] = "users" /\ ask[r] # {} /\ pending[r] = {}
  BY DEF CheckUsers
<1>2. PICK a \in ask[r], k \in got[r].kind, t \in got[r].token :
        /\ ask[r] = {a} /\ got[r].kind = {k} /\ got[r].token = {t}
        /\ GoodAsk(a) /\ GoodKind(k) /\ (a.queued => GivesWhatIsOpen(k, a))
  BY <1>1, OneOfEach
<1> DEFINE p == Parties(k, a, t.reserve)
           b == Completed(a, p)
           users == UserRecords(Known(p, t.reserve))
<1>3. UNCHANGED <<case, kinds, tokens, cache, mine, got, paid>>
  BY DEF CheckUsers, rows
<1>4. /\ pc' = [pc EXCEPT ![r] =
                  IF Admits(k, p, t.reserve, users) THEN "agreed" ELSE "done"]
      /\ ask' = [ask EXCEPT ![r] = {b}]
  BY <1>2 DEF CheckUsers, Goto
<1>5. \/ pc' = [pc EXCEPT ![r] = "done"]
      \/ pc' = [pc EXCEPT ![r] = "agreed"] /\ RightParties(k, p, t.reserve)
  <2>1. Admits(k, p, t.reserve, users) => RightParties(k, p, t.reserve)
    BY DEF Admits
  <2> HIDE DEF p, users
  <2> QED
    BY <1>4, <2>1
<1>6. \E s : read' = [read EXCEPT ![r] = s]
  BY DEF CheckUsers
<1>7. \/ pending' = pending
      \/ \E ids : pending' = [pending EXCEPT ![r] =
           @ \cup SetMissing(ids)]
  BY DEF CheckUsers, Later
<1>8. GoodAsk(b) /\ b.from = p.from /\ b.to = p.to /\ b.by = a.by
      /\ b.queued = a.queued /\ b.amount = a.amount /\ b.com = a.com
  BY <1>2 DEF GoodAsk, Completed
<1> HIDE DEF b, p, users
<1>9. Waiting(r)'
  <2>1. ASSUME NEW ids, pending' = [pending EXCEPT ![r] =
          @ \cup SetMissing(ids)]
        PROVE  \A e \in pending'[r] : e.key.by = "user"
    BY <1>0, <1>1, <2>1 DEF Shape, SetMissing, Set, Key
  <2>2. \A e \in pending'[r] : e.key.by = "user"
    BY <1>1, <1>7, <2>1
  <2> QED
    BY <2>2 DEF Waiting, GoodEntry
<1>10. TransferShape(r)
  BY <1>0, <1>3, <1>4, <1>6, <1>7 DEF TransferShape, Shape
<1>11. ask'[r] = {b} /\ R(r)' = R(r)
  BY <1>0, <1>3, <1>4 DEF Shape, R
<1>12. Transferring(r)'
  <2>1. \/ pc'[r] = "done"
        \/ pc'[r] = "agreed" /\ RightParties(k, p, t.reserve)
    BY <1>0, <1>5 DEF Shape
  <2>2. OneToken(got'[r].token)
    BY <1>2, <1>3 DEF OneToken
  <2>3. Checked(r)'
    <3>1. OneKind(got'[r].kind)
      BY <1>2, <1>3 DEF OneKind
    <3>2. b.queued => GivesWhatIsOpen(k, b)
      BY <1>2, <1>8 DEF GivesWhatIsOpen
    <3>3. \A m \in got'[r].kind : \A c \in ask'[r] :
            c.queued => GivesWhatIsOpen(m, c)
      BY <1>2, <1>3, <1>11, <3>2
    <3> QED
      BY <3>1, <3>3
      DEF Checked, OneKind, GoodKind, BetweenUsers, GivesWhatIsOpen,
          ArbitraryAmount
  <2>4. pc'[r] = "agreed" => Agreed(r)'
    <3> SUFFICES ASSUME RightParties(k, p, t.reserve) PROVE Agreed(r)'
      BY <2>1
    <3>1. RightParties(k, b, t.reserve)
      BY <1>8 DEF RightParties
    <3>2. \A m \in got'[r].kind : \A c \in ask'[r] : \A u \in got'[r].token :
            RightParties(m, c, u.reserve)
      BY <1>2, <1>3, <1>11, <3>1
    <3> QED
      BY <3>2 DEF Agreed, RightParties
  <2>5. R(r)'.op \in {"execute", "stp_transfer", "simulate"}
        /\ (R(r)'.op # "stp_transfer" => \A c \in ask'[r] :
              c.by \in {"name", "kind"})
    BY <1>1, <1>8, <1>11, Asked
  <2> QED
    BY <1>8, <1>11, <2>1, <2>2, <2>3, <2>4, <2>5
    DEF Transferring, OneToken, GoodAsk
<1> QED
  BY <1>0, <1>1, <1>3, <1>9, <1>10, <1>12, Asked, TransferKeeps, WholeStays
  DEF RequestsInv

LEMMA TransferAccepted ==
  ASSUME RequestsInv, NEW r \in Requests, Accept(r)
  PROVE  RequestsInv'
<1>0. Shape /\ Transferring(r)
  BY DEF RequestsInv, Local
<1>1. /\ pc[r] = "agreed" /\ ask[r] # {}
      /\ UNCHANGED <<case, kinds, tokens, cache, read, mine, pending, got, paid>>
      /\ \/ pc' = [pc EXCEPT ![r] = "done"] /\ ask' = ask
         \/ /\ pc' = [pc EXCEPT ![r] = "start"]
            /\ \E a \in ask[r] : \E i : ask' =
                 [ask EXCEPT ![r] = {[a EXCEPT !.queued = TRUE, !.of = i]}]
  BY DEF Accept, Refuse, Goto, rows
<1>2. R(r)' = R(r)
  BY <1>1 DEF R
<1>3. Transferring(r)'
  <2>1. CASE pc' = [pc EXCEPT ![r] = "done"] /\ ask' = ask
    BY <1>0, <1>2, <2>1 DEF Transferring, Shape
  <2>2. CASE /\ pc' = [pc EXCEPT ![r] = "start"]
             /\ \E a \in ask[r] : \E i : ask' =
                  [ask EXCEPT ![r] = {[a EXCEPT !.queued = TRUE, !.of = i]}]
    <3>0. PICK a \in ask[r] : \E i : ask' =
            [ask EXCEPT ![r] = {[a EXCEPT !.queued = TRUE, !.of = i]}]
      BY <2>2
    <3>1. PICK i : ask' =
            [ask EXCEPT ![r] = {[a EXCEPT !.queued = TRUE, !.of = i]}]
      BY <3>0
    <3> DEFINE b == [a EXCEPT !.queued = TRUE, !.of = i]
    <3>2. GoodAsk(b) /\ b.by = a.by
      <4>1. GoodAsk(a)
        BY <1>1, Asked
      <4> QED
        BY <4>1 DEF GoodAsk
    <3> HIDE DEF b
    <3>3. ask'[r] = {b} /\ pc'[r] = "start"
      BY <1>0, <2>2, <3>1 DEF Shape, b
    <3> QED
      BY <1>1, <1>2, <3>2, <3>3, Asked DEF Transferring, GoodAsk
  <2> QED
    BY <1>1, <2>1, <2>2
<1>4. MovesOn(r) /\ DOMAIN ask' = Requests
      /\ \A q \in Requests \ {r} : ask'[q] = ask[q]
  BY <1>0, <1>1 DEF MovesOn, Shape
<1> QED
  BY <1>0, <1>1, <1>3, <1>4, Asked, MovesOnKeeps, WholeStays
  DEF RequestsInv, Shape

(* What is paid is whole: the amount and the commission the consumer found *)
(* open are given, and the others are in the column of the kind's currency.*)
LEMMA TransferPaid ==
  ASSUME RequestsInv, NEW r \in Requests, Pay(r)
  PROVE  RequestsInv'
<1>0. Shape /\ Transferring(r)
  BY DEF RequestsInv, Local
<1>1. /\ pc[r] = "agreed" /\ ask[r] # {}
      /\ UNCHANGED <<case, kinds, tokens, cache, read, mine, pending, ask, got>>
      /\ pc' = [pc EXCEPT ![r] = "done"]
  BY DEF Pay, Goto, rows
<1>2. PICK a \in ask[r], k \in got[r].kind, t \in got[r].token :
        /\ ask[r] = {a} /\ got[r].kind = {k} /\ got[r].token = {t}
        /\ GoodAsk(a) /\ GoodKind(k)
        /\ a.queued => GivesWhatIsOpen(k, a)
        /\ RightParties(k, a, t.reserve)
  BY <1>1, OneOfEach
<1> DEFINE amount == IF ArbitraryAmount(k) THEN a.amount ELSE Price(k)
           com == IF k.com = Null THEN a.com ELSE k.com
           p == [kind |-> k, from |-> a.from, to |-> a.to,
                 reserve |-> ReserveOf(r), amount |-> amount,
                 com |-> IF BetweenUsers(k) THEN com ELSE Null]
<1>3. paid' = paid \cup {p} /\ a.queued
  BY <1>2 DEF Pay
<1>4. GivesWhatIsOpen(k, a)
  BY <1>2, <1>3
<1>5. ReserveOf(r) = t.reserve
  <2>1. {u.reserve : u \in got[r].token} = {t.reserve}
    BY <1>2
  <2> QED
    BY <2>1 DEF ReserveOf
<1>6. amount # Null
  BY <1>2, <1>4
  DEF GivesWhatIsOpen, ArbitraryAmount, Price, ValueOf, GoodKind, USD, BT
<1>7. (IF BetweenUsers(k) THEN com ELSE Null) # Null <=> BetweenUsers(k)
  BY <1>2, <1>4 DEF GivesWhatIsOpen
<1> HIDE DEF amount, com
<1>8. /\ p.amount # Null /\ ((p.com # Null) <=> BetweenUsers(p.kind))
      /\ RightParties(p.kind, p, p.reserve)
  BY <1>2, <1>5, <1>6, <1>7 DEF RightParties
<1> HIDE DEF p
<1>9. \A x \in paid' :
        /\ x.amount # Null /\ ((x.com # Null) <=> BetweenUsers(x.kind))
        /\ RightParties(x.kind, x, x.reserve)
  BY <1>3, <1>8 DEF RequestsInv, TransfersAreWhole
<1>10. TransfersAreWhole'
  BY <1>9 DEF TransfersAreWhole, BetweenUsers, RightParties
<1>11. R(r)' = R(r)
  BY <1>1 DEF R
<1>12. Transferring(r)'
  BY <1>0, <1>1, <1>11 DEF Transferring, Shape
<1>13. MovesOn(r)
  BY <1>0, <1>1 DEF MovesOn, Shape
<1> QED
  BY <1>0, <1>1, <1>10, <1>12, <1>13, Asked, MovesOnKeeps DEF Shape

-----------------------------------------------------------------------------
LEMMA RequestsStep == RequestsInv /\ [TransferNext]_allVars => RequestsInv'
<1> SUFFICES ASSUME RequestsInv, [TransferNext]_allVars PROVE RequestsInv'
  OBVIOUS
<1>1. ASSUME NEW r \in Requests, Step(r), UNCHANGED transferVars
      PROVE  RequestsInv'
  BY <1>1, CachedReads, AddressSteps, BatchStarts, KindChecks, KindAdded,
     KindEdited, SetupBegins, AddressesSet, TokenCreated, WorkersCreated,
     TokenValidated, TokenEdited
  DEF Step
<1>2. ASSUME NEW r \in Requests, GenerateFails(r), UNCHANGED transferVars
      PROVE  RequestsInv'
  BY <1>2, AddressSteps
<1>3. ASSUME Next, UNCHANGED transferVars PROVE RequestsInv'
  BY <1>1, <1>2, <1>3, Dies, EffectsLand, EntryRunsOut DEF Next
<1>4. ASSUME NEW r \in Requests, TransferStep(r) PROVE RequestsInv'
  BY <1>4, SimulatedReads, SimulateKeeps, TokenLooked, KindLooked,
     StpAdmitted, ParamsChecked, UsersChecked, TransferAccepted, TransferPaid
  DEF TransferStep
<1>5. ASSUME UNCHANGED allVars PROVE RequestsInv'
  <2>1. UNCHANGED <<case, kinds, tokens, cache, pc, read, mine, pending>>
        /\ UNCHANGED transferVars
    BY <1>5 DEF allVars, vars, rows
  <2>2. Landed(0) /\ CacheInv'
    BY <2>1 DEF Landed, RequestsInv, Shape, CacheInv
  <2> QED
    BY <2>1, <2>2, LandedKeeps
<1> QED
  BY <1>3, <1>4, <1>5 DEF TransferNext

LEMMA RequestsInvariant == RequestsSpec => []RequestsInv
BY RequestsInit, RequestsStep, PTL DEF RequestsSpec

(* Whatever edits of a kind come between the reading and the writing of    *)
(* another, every kind has the price its currency says and no commission   *)
(* that is not between users (add_new.js and edit.js).                     *)
THEOREM KindsArePriced == RequestsSpec => []PricedInItsCurrency
<1>1. RequestsInv => PricedInItsCurrency
  BY DEF RequestsInv, KindsInv, GoodKind, PricedInItsCurrency,
         ArbitraryAmount, Price, ValueOf, USD, BT
<1> QED
  BY <1>1, RequestsInvariant, PTL

(* A transfer that is paid has its amount, its commission and its parties, *)
(* however stale the copies the API and the consumer checked it by.        *)
THEOREM TransfersStayWhole == RequestsSpec => []TransfersAreWhole
<1>1. RequestsInv => TransfersAreWhole
  BY DEF RequestsInv
<1> QED
  BY <1>1, RequestsInvariant, PTL

(* Set-ups one after another, each of which may fail or die, share the     *)
(* reserve of the oldest token.                                            *)
THEOREM ReserveIsShared == RequestsSpec => []OneReserve
<1>1. RequestsInv => OneReserve
  BY DEF RequestsInv
<1> QED
  BY <1>1, RequestsInvariant, PTL
-----------------------------------------------------------------------------
(* Lists.  Rows can be sorted: ids and names are numbers, also a name that *)
(* an edit has read and will write again; only users are renamed.          *)
IsAddress(a) ==
  DOMAIN a = {"id", "type", "name", "salt"} /\ a.id \in Nat /\ a.name \in Nat
Sortable ==
  /\ IsFiniteSet(addresses)
  /\ \A a \in addresses : IsAddress(a)
  /\ \A k \in kinds : k.name \in Nat
NamesRead(q) ==
  R(q).op = "edit_kind" /\ pc[q] \in {"validate", "write"} =>
    \A k \in read[q] : k.name \in Nat
Renames(q) == \A e \in pending[q] : e.do = "name" => R(q).op = "edit_user"

(* A row that a walk has yet to show, and that is not tied with another,   *)
(* has at least as many rows ahead of it as the pages so far have had.     *)
Ahead(q, p, S) == {o \in S : Before(q, o, p)}
Walked(q) ==
  /\ DOMAIN walk[q] = {"start", "seen", "places", "moved", "page"}
  /\ walk[q].page \in Nat \ {0}
  /\ walk[q].page = 1 => walk[q].start = {}
  /\ ~walk[q].moved => \A p \in walk[q].start :
       /\ p \in walk[q].places
       /\ \/ p.id \in walk[q].seen \/ Tied(p, walk[q].places)
          \/ /\ pc[q] # "listed"
             /\ Cardinality(Ahead(q, p, walk[q].places))
                  >= Offset(walk[q].page, R(q).limit)

ListsInv ==
  /\ RequestsInv /\ Sortable /\ DOMAIN walk = Requests
  /\ \A q \in Requests : NamesRead(q) /\ Renames(q) /\ Walked(q)

LEMMA ListsInit == TransferInit => ListsInv
<1> SUFFICES ASSUME TransferInit PROVE ListsInv
  OBVIOUS
<1>1. RequestsInv
  BY RequestsInit
<1>2. /\ case \in Cases /\ kinds = case.kinds /\ addresses = case.addresses
      /\ DOMAIN walk = Requests
      /\ \A q \in Requests :
           /\ walk[q] = NotWalked /\ pending[q] = {}
           /\ R(q).op = "edit_kind" => pc[q] = "start"
  BY DEF TransferInit, Init
<1>3. Sortable
  BY <1>2, RecordsAssumption DEF Sortable, IsAddress
<1>4. ASSUME NEW q \in Requests PROVE NamesRead(q) /\ Renames(q) /\ Walked(q)
  BY <1>2 DEF NamesRead, Renames, Walked, NotWalked
<1> QED
  BY <1>1, <1>2, <1>3, <1>4 DEF ListsInv

(* What a step that reads no page does to a request.                       *)
Ordinary(q) ==
  /\ pc'[q] = "listed" => pc[q] = "listed"
  /\ R(q).op = "edit_kind" /\ pc'[q] \in {"validate", "write"} =>
       pc[q] \in {"validate", "write"} /\ read'[q] = read[q]
  /\ \A e \in pending'[q] :
       e.do = "name" => e \in pending[q] \/ R(q).op = "edit_user"

LEMMA OrdinaryKeeps ==
  ASSUME ListsInv, RequestsInv', UNCHANGED <<case, walk>>, Sortable',
         \A q \in Requests : Ordinary(q)
  PROVE  ListsInv'
<1>1. ASSUME NEW q \in Requests
      PROVE  NamesRead(q)' /\ Renames(q)' /\ Walked(q)'
  <2>1. R(q)' = R(q) /\ Ordinary(q) /\ NamesRead(q) /\ Renames(q) /\ Walked(q)
    BY DEF R, ListsInv
  <2>2. NamesRead(q)' /\ Renames(q)'
    BY <2>1 DEF Ordinary, NamesRead, Renames
  <2>3. Walked(q)'
    <3>1. /\ walk' = walk /\ (pc'[q] = "listed" => pc[q] = "listed")
          /\ \A p, S : Ahead(q, p, S)' = Ahead(q, p, S)
      BY <2>1 DEF Ordinary, Ahead, Before
    <3> QED
      BY <2>1, <3>1 DEF Walked, Tied
  <2> QED
    BY <2>2, <2>3
<1> QED
  BY <1>1 DEF ListsInv

LEMMA SortableSame ==
  ASSUME Sortable, UNCHANGED <<kinds, addresses>> PROVE Sortable'
BY DEF Sortable, IsAddress

(* A step of one request that lists nothing.                               *)
Moves(r) ==
  /\ UNCHANGED <<case, walk>>
  /\ \A q \in Requests \ {r} :
       pc'[q] = pc[q] /\ read'[q] = read[q] /\ pending'[q] = pending[q]
  /\ pc'[r] \notin {"validate", "listed"}
  /\ pc'[r] = "write" => R(r).op # "edit_kind"
  /\ \A e \in pending'[r] :
       e.do = "name" => e \in pending[r] \/ R(r).op = "edit_user"

LEMMA MovesKeep ==
  ASSUME ListsInv, RequestsInv', NEW r \in Requests, Moves(r), Sortable'
  PROVE  ListsInv'
<1>1. \A q \in Requests : Ordinary(q)
  BY DEF Moves, Ordinary
<1> QED
  BY <1>1, OrdinaryKeeps DEF Moves

(* Requests that write no row of a list.                                   *)
LEMMA LooksMove ==
  ASSUME Shape, NEW r \in Requests, NEW l, NEW key, NEW found, NEW none,
         found \notin {"validate", "write", "listed"},
         none \notin {"validate", "write", "listed"},
         FromCache(r, l, key, found, none) \/ FromSource(r, l, key, found, none)
  PROVE  Moves(r) /\ UNCHANGED <<kinds, addresses>>
<1>1. /\ UNCHANGED <<case, kinds, addresses, walk>>
      /\ \/ pc' = [pc EXCEPT ![r] = found]
         \/ pc' = [pc EXCEPT ![r] = none]
      /\ read' = read \/ \E v : read' = [read EXCEPT ![r] = v]
      /\ \/ pending' = pending
         \/ \E v : pending' = [pending EXCEPT ![r] = @ \cup {Set(key, v)}]
  BY DEF FromCache, FromSource, Goto, Later, rows
<1>2. /\ pc'[r] \in {found, none}
      /\ \A q \in Requests \ {r} : pc'[q] = pc[q] /\ read'[q] = read[q]
  BY <1>1 DEF Shape
<1>3. /\ \A q \in Requests \ {r} : pending'[q] = pending[q]
      /\ \A e \in pending'[r] : e.do = "name" => e \in pending[r]
  BY <1>1 DEF Shape, Set
<1> QED
  BY <1>1, <1>2, <1>3 DEF Moves

LEMMA OffsetSteps ==
  ASSUME NEW page \in Nat \ {0}, NEW limit \in Nat \ {0}
  PROVE  /\ Offset(page, limit) \in Nat /\ Offset(1, limit) = 0
         /\ Offset(page + 1, limit) = Offset(page, limit) + limit
BY SMT DEF Offset

(* The rows that come first are n at most, and have with a row all that is *)
(* before it.                                                              *)
LEMMA PagePasses ==
  ASSUME NEW r, NEW S, IsFiniteSet(S), \A o \in S : o.key \in Nat,
         NEW first \in Nat, NEW limit \in Nat,
         NEW skipped \in FirstOf(r, S, first),
         NEW shown \in FirstOf(r, S \ skipped, limit),
         NEW p \in S, p \notin shown, ~Tied(p, S),
         Cardinality(Ahead(r, p, S)) >= first
  PROVE  /\ Cardinality(Ahead(r, p, S)) >= first + limit
         /\ Cardinality(S) > first + limit
<1> DEFINE A == Ahead(r, p, S)
<1>1. A \subseteq S /\ p \notin A /\ skipped \subseteq S
      /\ shown \subseteq S \ skipped
  BY DEF Ahead, Before, FirstOf
<1>2. IsFiniteSet(A) /\ IsFiniteSet(skipped) /\ IsFiniteSet(shown)
  BY <1>1, FS_Subset
<1>3. Cardinality(A) \in Nat /\ Cardinality(S) \in Nat
      /\ Cardinality(skipped) \in Nat /\ Cardinality(shown) \in Nat
  BY <1>2, FS_CardinalityType
<1>4. \A o \in S \ {p} : Before(r, o, p) \/ Before(r, p, o)
  BY DEF Tied, Before
<1>0. /\ Cardinality(skipped) = first \/ Cardinality(skipped) < first
      /\ \A o \in skipped, q \in S : q \notin skipped => ~Before(r, q, o)
      /\ \A o \in shown, q \in S :
           q \notin skipped /\ q \notin shown => ~Before(r, q, o)
  BY DEF FirstOf
<1>5. p \notin skipped
  <2> SUFFICES ASSUME p \in skipped PROVE FALSE
    OBVIOUS
  <2>1. \A o \in A : o \in skipped
    BY DEF FirstOf, Ahead
  <2>2. A \cup {p} \subseteq skipped
    BY <2>1
  <2>3. Cardinality(A \cup {p}) = Cardinality(A) + 1
    BY <1>1, <1>2, FS_AddElement
  <2>4. Cardinality(A \cup {p}) <= Cardinality(skipped)
    BY <1>2, <2>2, FS_Subset
  <2>5. Cardinality(skipped) <= first
    BY <1>0, <1>3
  <2>6. Cardinality(A) >= first
    OBVIOUS
  <2> HIDE DEF A
  <2> QED
    BY <1>3, <2>3, <2>4, <2>5, <2>6
<1>6. Cardinality(skipped) = first /\ Cardinality(shown) = limit
  BY <1>5 DEF FirstOf
<1>7. skipped \cup shown \subseteq A
  <2>1. \A o \in skipped \cup shown : o \in S \ {p} /\ ~Before(r, p, o)
    BY <1>0, <1>1, <1>5
  <2> QED
    BY <1>4, <2>1 DEF Ahead
<1>8. Cardinality(skipped \cup shown) = first + limit
  <2>1. skipped \cap shown = {}
    BY <1>1
  <2>2. Cardinality(skipped \cup shown) =
          Cardinality(skipped) + Cardinality(shown) - Cardinality({})
    BY <1>2, <2>1, FS_Union
  <2> HIDE DEF A
  <2> QED
    BY <1>6, <2>2, FS_EmptySet
<1>9. Cardinality(skipped \cup shown) <= Cardinality(A)
  BY <1>2, <1>7, FS_Subset
<1>10. Cardinality(A \cup {p}) = Cardinality(A) + 1
       /\ Cardinality(A \cup {p}) <= Cardinality(S)
  BY <1>1, <1>2, FS_AddElement, FS_Subset
<1> HIDE DEF A
<1>11. Cardinality(A) >= first + limit /\ Cardinality(S) > first + limit
  BY <1>3, <1>8, <1>9, <1>10
<1> QED
  BY <1>11 DEF A

LEMMA ReadsKeepLists ==
  ASSUME ListsInv, RequestsInv', NEW r \in Requests,
         \/ Fetch(r) \/ FetchMissing(r) \/ GetSecureToken(r)
         \/ SimulateToken(r) \/ SimulateKinds(r) \/ FetchToken(r)
         \/ FetchSecureToken(r) \/ FetchKind(r) \/ ValidateAction(r)
  PROVE  ListsInv'
<1>0. Shape
  BY DEF ListsInv, RequestsInv
<1>1. Moves(r) /\ UNCHANGED <<kinds, addresses>>
  BY <1>0, LooksMove
  DEF Fetch, FetchMissing, GetSecureToken, SimulateToken, SimulateKinds,
      FetchToken, FetchSecureToken, FetchKind, ValidateAction, ReadKind
<1> QED
  BY <1>1, MovesKeep, SortableSame DEF ListsInv

LEMMA OthersKeepLists ==
  ASSUME ListsInv, RequestsInv', NEW r \in Requests,
         \/ Served(r) \/ AddKindChecks(r) \/ EditUser(r) \/ FetchSalt(r)
         \/ InsertSalt(r) \/ GenerateFails(r) \/ Crash(r)
         \/ SetupChecks(r) \/ SetupSalt(r) \/ GetExisting(r)
         \/ CreateToken(r) \/ CreateWorkers(r)
         \/ ValidateToken(r) \/ EditToken(r)
  PROVE  ListsInv'
<1>0. Shape
  BY DEF ListsInv, RequestsInv
<1> USE DEF At, Generates, Goto, rows, Later
<1>1. UNCHANGED <<case, walk, kinds, addresses>>
  BY DEF Served, AddKindChecks, EditUser, FetchSalt, InsertSalt,
         GenerateFails, Crash, SetupChecks, SetupSalt, GetExisting,
         CreateToken, CreateWorkers, ValidateToken, EditToken
<1>2. CASE \/ Served(r) \/ AddKindChecks(r) \/ GenerateFails(r) \/ Crash(r)
           \/ SetupChecks(r) \/ SetupSalt(r) \/ GetExisting(r)
           \/ CreateToken(r) \/ ValidateToken(r)
  <2>1. /\ read' = read \/ \E v : read' = [read EXCEPT ![r] = v]
        /\ pending' = pending \/ pending' = [pending EXCEPT ![r] = {}]
        /\ \E l : /\ pc' = [pc EXCEPT ![r] = l]
                  /\ l \notin {"validate", "listed"}
                  /\ l = "write" => R(r).op # "edit_kind"
    BY <1>2
    DEF Served, AddKindChecks, GenerateFails, Crash, SetupChecks, SetupSalt,
        GetExisting, CreateToken, ValidateToken
  <2>2. Moves(r)
    BY <1>0, <1>1, <2>1 DEF Moves, Shape
  <2> QED
    BY <1>1, <2>2, MovesKeep, SortableSame DEF ListsInv
<1>3. CASE \/ EditUser(r) \/ FetchSalt(r) \/ InsertSalt(r)
           \/ CreateWorkers(r) \/ EditToken(r)
  <2>1. read' = read
        /\ \E l \in {"done", "key", "new_salt"} : pc' = [pc EXCEPT ![r] = l]
    BY <1>3 DEF EditUser, FetchSalt, InsertSalt, CreateWorkers, EditToken
  <2>2. /\ \A q \in Requests \ {r} : pending'[q] = pending[q]
        /\ \A e \in pending'[r] :
             e.do = "name" => e \in pending[r] \/ R(r).op = "edit_user"
    <3>1. CASE EditUser(r)
      BY <1>0, <3>1 DEF EditUser, Shape
    <3>2. CASE FetchSalt(r)
      BY <1>0, <3>2 DEF FetchSalt, Set, Shape
    <3>3. CASE InsertSalt(r)
      BY <1>0, <3>3 DEF InsertSalt, Del, Shape
    <3>4. CASE CreateWorkers(r) \/ EditToken(r)
      BY <1>0, <3>4 DEF CreateWorkers, EditToken, TokenDels, Del, Shape
    <3> QED
      BY <1>3, <3>1, <3>2, <3>3, <3>4
  <2>3. Moves(r)
    BY <1>0, <1>1, <2>1, <2>2 DEF Moves, Shape
  <2> QED
    BY <1>1, <2>3, MovesKeep, SortableSame DEF ListsInv
<1> QED
  BY <1>2, <1>3

LEMMA TransfersKeepLists ==
  ASSUME ListsInv, RequestsInv', NEW r \in Requests,
         \/ Simulate(r) \/ AdmitStp(r) \/ CheckParams(r) \/ CheckUsers(r)
         \/ Accept(r) \/ Pay(r)
  PROVE  ListsInv'
<1>0. Shape
  BY DEF ListsInv, RequestsInv
<1> USE DEF At, Goto, rows, Refuse
<1>1. /\ UNCHANGED <<case, walk, kinds, addresses>>
      /\ pc'[r] \notin {"validate", "write", "listed"}
      /\ \A q \in Requests \ {r} : pc'[q] = pc[q]
  <2>1. CASE Simulate(r)
    BY <1>0, <2>1 DEF Simulate, Shape
  <2>2. CASE AdmitStp(r)
    BY <1>0, <2>2 DEF AdmitStp, Shape
  <2>3. CASE CheckParams(r)
    BY <1>0, <2>3 DEF CheckParams, Shape
  <2>4. CASE CheckUsers(r)
    BY <1>0, <2>4 DEF CheckUsers, Shape
  <2>5. CASE Accept(r)
    BY <1>0, <2>5 DEF Accept, Shape
  <2>6. CASE Pay(r)
    BY <1>0, <2>6 DEF Pay, Shape
  <2> QED
    BY <2>1, <2>2, <2>3, <2>4, <2>5, <2>6
<1>2. CASE CheckUsers(r)
  <2>1. /\ \E v : read' = [read EXCEPT ![r] = v]
        /\ \/ pending' = pending
           \/ \E ids : pending' = [pending EXCEPT ![r] = @ \cup SetMissing(ids)]
    BY <1>2 DEF CheckUsers, Later
  <2>2. /\ \A q \in Requests \ {r} : pending'[q] = pending[q]
        /\ \A e \in pending'[r] : e.do = "name" => e \in pending[r]
    BY <1>0, <2>1 DEF SetMissing, Set, Shape
  <2>3. Moves(r)
    BY <1>0, <1>1, <2>1, <2>2 DEF Moves, Shape
  <2> QED
    BY <1>1, <2>3, MovesKeep, SortableSame DEF ListsInv
<1>3. CASE ~CheckUsers(r)
  <2>1. UNCHANGED <<read, pending>>
    <3>1. CASE Simulate(r)
      BY <3>1 DEF Simulate
    <3>2. CASE AdmitStp(r)
      BY <3>2 DEF AdmitStp
    <3>3. CASE CheckParams(r)
      BY <3>3 DEF CheckParams
    <3>4. CASE Accept(r)
      BY <3>4 DEF Accept
    <3>5. CASE Pay(r)
      BY <3>5 DEF Pay
    <3> QED
      BY <1>3, <3>1, <3>2, <3>3, <3>4, <3>5
  <2>2. Moves(r)
    BY <1>1, <2>1 DEF Moves
  <2> QED
    BY <1>1, <2>2, MovesKeep, SortableSame DEF ListsInv
<1> QED
  BY <1>2, <1>3

(* Rows that are added and changed can still be sorted.                    *)
LEMMA ImageIsFinite ==
  ASSUME NEW s, IsFiniteSet(s), NEW v, NEW f \in [s -> v],
         NEW t, \A y \in t : \E x \in s : y = f[x]
  PROVE  IsFiniteSet(t)
<1> DEFINE u == {f[x] : x \in s}
<1>1. f \in Surjection(s, u)
  <2>1. f \in [s -> u] /\ \A i \in u : \E x \in s : f[x] = i
    OBVIOUS
  <2> QED
    BY <2>1, Fun_IsSurj
<1>2. IsFiniteSet(u)
  BY <1>1, FS_Surjection
<1>3. t \subseteq u
  OBVIOUS
<1> QED
  BY <1>2, <1>3, FS_Subset

LEMMA AddressIds ==
  ASSUME IsFiniteSet(addresses)
  PROVE  NextId(addresses) \in Nat
<1> DEFINE f == [x \in addresses |-> x.id]
           ids == {x.id : x \in addresses}
<1>1. f \in [addresses -> ids] /\ \A i \in ids : \E x \in addresses : i = f[x]
  OBVIOUS
<1>2. IsFiniteSet(ids)
  <2> HIDE DEF f, ids
  <2> QED
    BY <1>1, ImageIsFinite
<1>3. Cardinality(ids) \in Nat
  BY <1>2, FS_CardinalityType
<1> QED
  BY <1>3 DEF NextId

LEMMA KindsKeepLists ==
  ASSUME ListsInv, RequestsInv', NEW r \in Requests,
         CreateKind(r) \/ EditKind(r)
  PROVE  ListsInv'
<1>0. Shape /\ Sortable /\ NamesRead(r) /\ Editing(r)
  BY DEF ListsInv, RequestsInv, Local
<1> USE DEF At, Goto, Later
<1>1. /\ UNCHANGED <<case, addresses, walk, read>>
      /\ pc' = [pc EXCEPT ![r] = "done"]
      /\ R(r).op \in {"add_kind", "edit_kind"} /\ pc[r] \in {"insert", "write"}
      /\ \A q \in Requests \ {r} : pending'[q] = pending[q]
      /\ \A e \in pending'[r] : e.do = "name" => e \in pending[r]
  <2>1. CASE CreateKind(r)
    BY <1>0, <2>1 DEF CreateKind, Del, Shape
  <2>2. CASE EditKind(r)
    <3>1. \E i, n : pending' =
            [pending EXCEPT ![r] = @ \cup {Del(Key("name", n)), Del(Key("kind", i))}]
      BY <2>2 DEF EditKind
    <3>2. /\ \A q \in Requests \ {r} : pending'[q] = pending[q]
          /\ \A e \in pending'[r] : e.do = "name" => e \in pending[r]
      BY <1>0, <3>1 DEF Del, Shape
    <3> QED
      BY <2>2, <3>2 DEF EditKind
  <2> QED
    BY <2>1, <2>2
<1>2. Moves(r)
  BY <1>0, <1>1 DEF Moves, Shape
<1>3. R(r).name \in Nat
  BY <1>0, <1>1, RecordsAssumption DEF R, Shape
<1>4. ASSUME NEW e, e.name \in Nat, kinds' \subseteq kinds \cup {e}
      PROVE  Sortable'
  BY <1>0, <1>1, <1>4 DEF Sortable, IsAddress
<1>5. CASE CreateKind(r)
  <2>1. NewKind(R(r)).name \in Nat
    BY <1>3 DEF NewKind
  <2>2. kinds' \subseteq kinds \cup {NewKind(R(r))}
    BY <1>5 DEF CreateKind
  <2>3. Sortable'
    BY <1>4, <2>1, <2>2
  <2> QED
    BY <1>2, <2>3, MovesKeep
<1>6. CASE EditKind(r)
  <2>0. At(r, "edit_kind", "write")
    BY <1>6 DEF EditKind
  <2>1. PICK k \in read[r] : read[r] = {k} /\ GoodKind(k) /\ k.name \in Nat
    BY <1>0, <2>0 DEF Editing, NamesRead
  <2>2. (CHOOSE x \in read[r] : TRUE) = k
    BY <2>1
  <2>3. EditedKind(k, R(r)).name \in Nat
    BY <1>3, <2>1 DEF EditedKind, GoodKind
  <2>4. kinds' \subseteq kinds \cup {EditedKind(k, R(r))}
    BY <1>6, <2>2 DEF EditKind
  <2>5. Sortable'
    BY <1>4, <2>3, <2>4
  <2> QED
    BY <1>2, <2>5, MovesKeep
<1> QED
  BY <1>5, <1>6

LEMMA KindReadsKeepLists ==
  ASSUME ListsInv, RequestsInv', NEW r \in Requests,
         FetchKindRecord(r) \/ EditKindChecks(r)
  PROVE  ListsInv'
<1>0. Shape /\ Sortable
  BY DEF ListsInv, RequestsInv
<1> USE DEF At, Goto
<1>1. /\ UNCHANGED <<case, walk, kinds, addresses, pending>>
      /\ \E l \in {"validate", "write", "done"} : pc' = [pc EXCEPT ![r] = l]
      /\ read' = read \/ \E v : read' = [read EXCEPT ![r] = v]
  <2>1. CASE FetchKindRecord(r)
    BY <2>1 DEF FetchKindRecord, rows
  <2>2. CASE EditKindChecks(r)
    BY <2>2 DEF EditKindChecks, rows
  <2> QED
    BY <2>1, <2>2
<1>2. Sortable'
  BY <1>0, <1>1, SortableSame
<1>3. /\ pc'[r] # "listed"
      /\ \A q \in Requests \ {r} : pc'[q] = pc[q] /\ read'[q] = read[q]
  BY <1>0, <1>1 DEF Shape
<1>4. ASSUME NEW q \in Requests PROVE NamesRead(q)' /\ Renames(q)' /\ Walked(q)'
  <2>1. R(q)' = R(q) /\ NamesRead(q) /\ Renames(q) /\ Walked(q)
    BY <1>1 DEF R, ListsInv
  <2>2. Renames(q)'
    BY <1>1, <2>1 DEF Renames
  <2>3. Walked(q)'
    <3>1. /\ walk' = walk /\ (pc'[q] = "listed" => pc[q] = "listed")
          /\ \A p, S : Ahead(q, p, S)' = Ahead(q, p, S)
      BY <1>1, <1>3, <2>1 DEF Ahead, Before
    <3> QED
      BY <2>1, <3>1 DEF Walked, Tied
  <2>4. NamesRead(q)'
    <3>1. CASE q # r
      BY <1>3, <2>1, <3>1 DEF NamesRead
    <3>2. CASE q = r /\ FetchKindRecord(r)
      <4>1. read'[r] \subseteq kinds
        BY <1>0, <3>2 DEF FetchKindRecord, KindById, Shape
      <4> QED
        BY <1>0, <3>2, <4>1 DEF NamesRead, Sortable
    <3>3. CASE q = r /\ EditKindChecks(r)
      BY <2>1, <3>3 DEF EditKindChecks, NamesRead
    <3> QED
      BY <3>1, <3>2, <3>3
  <2> QED
    BY <2>2, <2>3, <2>4
<1> QED
  BY <1>1, <1>2, <1>4 DEF ListsInv

LEMMA AddressesKeepLists ==
  ASSUME ListsInv, RequestsInv', NEW r \in Requests,
         InsertAddress(r) \/ SaveKey(r) \/ SetClientAddresses(r)
  PROVE  ListsInv'
<1>0. Shape /\ Sortable
  BY DEF ListsInv, RequestsInv
<1> USE DEF Generates, At, Goto, Later, rows
<1>1. ASSUME IsFiniteSet(addresses'), \A a \in addresses' : IsAddress(a),
             kinds' = kinds
      PROVE  Sortable'
  BY <1>0, <1>1 DEF Sortable, IsAddress
<1>2. CASE InsertAddress(r)
  <2>1. Moves(r)
    BY <1>0, <1>2 DEF InsertAddress, Moves, Shape
  <2> DEFINE n == NextId(addresses)
             a == NewAddress(n, "user", R(r).name, Null)
  <2>2. R(r).name \in Nat
    BY <1>0, <1>2, RecordsAssumption DEF InsertAddress, R, Shape
  <2>3. n \in Nat
    BY <1>0, AddressIds DEF Sortable
  <2>4. IsAddress(a)
    <3> HIDE DEF n
    <3> QED
      BY <2>2, <2>3 DEF NewAddress, IsAddress
  <2>5. addresses' = addresses \/ addresses' = addresses \cup {a}
    BY <1>2 DEF InsertAddress
  <2> HIDE DEF a
  <2>6. IsFiniteSet(addresses') /\ \A b \in addresses' : IsAddress(b)
    BY <1>0, <2>4, <2>5, FS_AddElement DEF Sortable
  <2>7. Sortable'
    BY <1>1, <1>2, <2>6 DEF InsertAddress
  <2> QED
    BY <2>1, <2>7, MovesKeep
<1>3. CASE SaveKey(r)
  <2>1. PICK a \in read[r] :
          /\ \/ addresses' = {IF b.id = a.id THEN [b EXCEPT !.salt = mine[r].salt]
                             ELSE b : b \in addresses}
             \/ addresses' = addresses
          /\ pending' = [pending EXCEPT ![r] = @ \cup {Del(Key("user", a.id))}]
    BY <1>3 DEF SaveKey
  <2>2. UNCHANGED <<case, walk, kinds, read>> /\ pc' = [pc EXCEPT ![r] = "done"]
    BY <1>3 DEF SaveKey
  <2>3. Moves(r)
    BY <1>0, <2>1, <2>2 DEF Moves, Shape, Del
  <2>4. IsFiniteSet(addresses')
    <3> DEFINE f == [b \in addresses |->
                       IF b.id = a.id THEN [b EXCEPT !.salt = mine[r].salt] ELSE b]
               s == {f[b] : b \in addresses}
    <3>1. /\ f \in [addresses -> s] /\ \A c \in s : \E b \in addresses : c = f[b]
          /\ addresses' = s \/ addresses' = addresses
      BY <2>1
    <3> HIDE DEF f, s
    <3> QED
      BY <1>0, <3>1, ImageIsFinite DEF Sortable
  <2>5. \A b \in addresses' : IsAddress(b)
    BY <1>0, <2>1 DEF Sortable, IsAddress
  <2> QED
    BY <1>1, <2>2, <2>3, <2>4, <2>5, MovesKeep
<1>4. CASE SetClientAddresses(r)
  <2>1. UNCHANGED <<case, walk, kinds, read, pending>>
        /\ pc' = [pc EXCEPT ![r] = "token"]
    BY <1>4 DEF SetClientAddresses
  <2>2. Moves(r)
    BY <1>0, <2>1 DEF Moves, Shape
  <2> DEFINE n == NextId(addresses)
             want == {f \in {"reserve", "holder"} : Reused(r, f) = {}} \cup
                     (IF mine[r].new = {} THEN {"workers"} ELSE {})
             id == [reserve |-> n, holder |-> n + 1, workers |-> n + 2]
             row(f, failed) ==
               NewAddress(id[f], f, Null, IF f \in failed THEN Null ELSE salts)
             made(failed) == {row(f, failed) : f \in want}
  <2>3. PICK failed \in SUBSET {"reserve", "holder", "workers"} :
          addresses' = addresses \cup made(failed)
    BY <1>4, Zenon DEF SetClientAddresses
  <2>4. want \subseteq {"reserve", "holder", "workers"}
    OBVIOUS
  <2> HIDE DEF want
  <2>5. n \in Nat
    BY <1>0, AddressIds DEF Sortable
  <2>6. ASSUME NEW f \in want PROVE IsAddress(row(f, failed))
    <3> HIDE DEF n
    <3>1. id[f] \in Nat
      BY <2>4, <2>5
    <3> HIDE DEF id
    <3> QED
      BY <3>1 DEF NewAddress, IsAddress, Null
  <2>7. IsFiniteSet(want)
    <3>1. IsFiniteSet((({} \cup {"reserve"}) \cup {"holder"}) \cup {"workers"})
      <4>1. IsFiniteSet({} \cup {"reserve"})
        BY FS_EmptySet, FS_AddElement
      <4>2. IsFiniteSet(({} \cup {"reserve"}) \cup {"holder"})
        BY <4>1, FS_AddElement
      <4> QED
        BY <4>2, FS_AddElement
    <3>2. want \subseteq (({} \cup {"reserve"}) \cup {"holder"}) \cup {"workers"}
      BY <2>4
    <3> QED
      BY <3>1, <3>2, FS_Subset
  <2> HIDE DEF row
  <2>8. IsFiniteSet(made(failed))
    <3> DEFINE g == [f \in want |-> row(f, failed)]
               s == made(failed)
    <3>1. g \in [want -> s] /\ \A a \in s : \E f \in want : a = g[f]
      OBVIOUS
    <3> HIDE DEF g, s, made
    <3>2. IsFiniteSet(s)
      BY <2>7, <3>1, ImageIsFinite
    <3> QED
      BY <3>2 DEF s
  <2>10. \A a \in made(failed) : IsAddress(a)
    BY <2>6
  <2> HIDE DEF made
  <2>9. IsFiniteSet(addresses') /\ \A b \in addresses' : IsAddress(b)
    BY <1>0, <2>3, <2>8, <2>10, FS_Union DEF Sortable
  <2> QED
    BY <1>1, <2>1, <2>2, <2>9, MovesKeep
<1> QED
  BY <1>2, <1>3, <1>4

(* Effects that land, batches that start, and all else.                    *)
LEMMA LandingKeepsLists ==
  ASSUME ListsInv, RequestsInv', NEW r \in Requests,
         SetLands(r) \/ DelLands(r) \/ NameLands(r)
  PROVE  ListsInv'
<1>0. Shape /\ Sortable /\ Renames(r)
  BY DEF ListsInv, RequestsInv
<1>1. PICK e \in pending[r] :
        /\ UNCHANGED <<case, walk, kinds, pc, read>>
        /\ pending' = [pending EXCEPT ![r] = @ \ {e}]
        /\ \/ addresses' = addresses
           \/ /\ e.do = "name"
              /\ addresses' = {IF a.id = e.key.of THEN [a EXCEPT !.name = R(r).name]
                              ELSE a : a \in addresses}
  BY DEF SetLands, DelLands, NameLands, rows
<1>2. \A q \in Requests : Ordinary(q)
  BY <1>0, <1>1 DEF Ordinary, Shape
<1>3. CASE addresses' = addresses
  BY <1>0, <1>1, <1>2, <1>3, OrdinaryKeeps, SortableSame
<1>4. CASE /\ e.do = "name"
           /\ addresses' = {IF a.id = e.key.of THEN [a EXCEPT !.name = R(r).name]
                           ELSE a : a \in addresses}
  <2>1. R(r).name \in Nat
    BY <1>0, <1>1, <1>4, RecordsAssumption DEF Renames, R, Shape
  <2>2. \A a \in addresses' : IsAddress(a)
    BY <1>0, <1>4, <2>1 DEF Sortable, IsAddress
  <2>3. IsFiniteSet(addresses')
    <3> DEFINE f == [a \in addresses |->
                       IF a.id = e.key.of THEN [a EXCEPT !.name = R(r).name] ELSE a]
               s == {f[a] : a \in addresses}
    <3>1. /\ f \in [addresses -> s] /\ \A b \in s : \E a \in addresses : b = f[a]
          /\ addresses' = s
      BY <1>4
    <3> HIDE DEF f, s
    <3> QED
      BY <1>0, <3>1, ImageIsFinite DEF Sortable
  <2>4. Sortable'
    BY <1>0, <1>1, <2>2, <2>3 DEF Sortable, IsAddress
  <2> QED
    BY <1>1, <1>2, <2>4, OrdinaryKeeps
<1> QED
  BY <1>1, <1>3, <1>4

LEMMA BatchKeepsLists ==
  ASSUME ListsInv, RequestsInv', NEW r \in Requests, CreateDummyUsers(r)
  PROVE  ListsInv'
<1>1. /\ UNCHANGED <<case, walk, kinds, addresses, read, pending>>
      /\ \A q \in Requests : pc'[q] = pc[q] \/ pc'[q] \in {"done", "start"}
  BY DEF CreateDummyUsers, rows
<1>2. \A q \in Requests : Ordinary(q)
  BY <1>1 DEF Ordinary
<1> QED
  BY <1>1, <1>2, OrdinaryKeeps, SortableSame DEF ListsInv

LEMMA StillKeepsLists ==
  ASSUME ListsInv, RequestsInv',
         UNCHANGED <<case, walk, kinds, addresses, pc, read, pending>>
  PROVE  ListsInv'
<1>1. \A q \in Requests : Ordinary(q)
  BY DEF Ordinary
<1> QED
  BY <1>1, OrdinaryKeeps, SortableSame DEF ListsInv

(* A page shows every row it passes.                                       *)
LEMMA PageKeepsLists ==
  ASSUME ListsInv, RequestsInv', NEW r \in Requests,
         R(r).op \in {"list_kinds", "list_users"}, pc[r] = "start",
         NEW shown \in Pages(r), FollowPage(r, shown)
  PROVE  ListsInv'
<1>0. Shape /\ Sortable /\ Walked(r) /\ DOMAIN walk = Requests
  BY DEF ListsInv, RequestsInv
<1> DEFINE S == Places(r)
           w == walk[r]
           v == walk'[r]
           limit == R(r).limit
           first == Offset(w.page, limit)
<1>1. /\ UNCHANGED <<case, kinds, addresses, read, pending>>
      /\ \A q \in Requests \ {r} : pc'[q] = pc[q] /\ walk'[q] = walk[q]
      /\ DOMAIN walk' = Requests
      /\ pc'[r] = IF IsLast(r) THEN "listed" ELSE "start"
      /\ v = [start |-> IF w.page = 1 THEN S ELSE w.start,
              seen |-> w.seen \cup {p.id : p \in shown},
              places |-> S, moved |-> w.moved \/ ~(w.places \subseteq S),
              page |-> w.page + 1]
  BY <1>0 DEF FollowPage, Goto, rows, Shape
<1>2. limit \in Nat \ {0} /\ w.page \in Nat \ {0}
  BY <1>0, RecordsAssumption DEF R, Shape, Walked
<1>3. /\ first \in Nat /\ (w.page = 1 => first = 0)
      /\ Offset(v.page, limit) = first + limit
  <2>1. /\ first \in Nat /\ Offset(1, limit) = 0
        /\ Offset(w.page + 1, limit) = first + limit
    BY <1>2, OffsetSteps
  <2>2. v.page = w.page + 1
    BY <1>1
  <2> QED
    BY <2>1, <2>2
<1>4. IsFiniteSet(S) /\ \A p \in S : p.key \in Nat
  <2>1. IsFiniteSet(Listed(r)) /\ \A x \in Listed(r) : SortKey(r, x) \in Nat
    <3>1. CASE R(r).op = "list_kinds"
      <4>1. IsFiniteSet(kinds) /\ \A k \in kinds : k.id \in Nat /\ k.name \in Nat
        BY <1>0, NumberedIds DEF Sortable, ListsInv, RequestsInv, KindsInv, Numbered
      <4> QED
        BY <3>1, <4>1 DEF Listed, SortKey
    <3>2. CASE R(r).op # "list_kinds"
      <4>1. IsFiniteSet({a \in addresses : a.type = "user"})
        BY <1>0, FS_Subset DEF Sortable
      <4> QED
        BY <1>0, <3>2, <4>1 DEF Listed, SortKey, Sortable, IsAddress
    <3> QED
      BY <3>1, <3>2
  <2> DEFINE L == Listed(r)
             f == [x \in L |-> [id |-> x.id, key |-> SortKey(r, x)]]
  <2>2. f \in [L -> S] /\ \A p \in S : \E x \in L : p = f[x]
    BY DEF Places
  <2>3. IsFiniteSet(S)
    <3> HIDE DEF f, S, L
    <3>1. IsFiniteSet(L)
      BY <2>1 DEF L
    <3> QED
      BY <2>2, <3>1, ImageIsFinite
  <2>4. \A p \in S : p.key \in Nat
    BY <2>1 DEF Places
  <2> QED
    BY <2>3, <2>4
<1> DEFINE A(p) == Cardinality(Ahead(r, p, S))
<1>5. IsLast(r) <=> Cardinality(S) <= first + limit
  BY DEF IsLast
<1>6. PICK skipped \in FirstOf(r, S, first) :
        shown \in FirstOf(r, S \ skipped, limit)
  BY DEF Pages
<1>7. ASSUME NEW p \in S, A(p) >= first
      PROVE  \/ p.id \in v.seen \/ Tied(p, S)
             \/ ~IsLast(r) /\ A(p) >= first + limit
  <2> SUFFICES ASSUME p \notin shown, ~Tied(p, S)
               PROVE  ~IsLast(r) /\ A(p) >= first + limit
    BY <1>1
  <2> HIDE DEF S, limit, first
  <2>1. A(p) >= first + limit /\ Cardinality(S) > first + limit
    BY <1>2, <1>3, <1>4, <1>6, <1>7, PagePasses
  <2>2. Cardinality(S) \in Nat
    BY <1>4, FS_CardinalityType
  <2> QED
    BY <1>2, <1>3, <1>5, <2>1, <2>2
<1>8. ASSUME ~v.moved, NEW p \in v.start
      PROVE  p \in S /\ (p.id \in v.seen \/ Tied(p, S) \/ A(p) >= first)
  <2>1. ASSUME NEW q, NEW T \in SUBSET S
        PROVE  /\ Cardinality(Ahead(r, q, T)) \in Nat
               /\ Cardinality(Ahead(r, q, T)) <= A(q)
    <3>1. /\ Ahead(r, q, T) \subseteq Ahead(r, q, S)
          /\ Ahead(r, q, S) \subseteq S
      BY DEF Ahead
    <3>2. IsFiniteSet(Ahead(r, q, S)) /\ IsFiniteSet(Ahead(r, q, T))
      BY <1>4, <3>1, FS_Subset
    <3> QED
      BY <3>1, <3>2, FS_Subset, FS_CardinalityType
  <2>2. CASE w.page = 1
    <3>1. p \in S
      BY <1>1, <1>8, <2>2
    <3>2. A(p) \in Nat
      BY <2>1
    <3> HIDE DEF S, first
    <3> QED
      BY <1>3, <2>2, <3>1, <3>2
  <2>3. CASE w.page # 1
    <3>1. ~w.moved /\ w.places \subseteq S /\ p \in w.start /\ w.seen \subseteq v.seen
      <4> DEFINE ids == {x.id : x \in shown}
                 moved == w.moved \/ ~(w.places \subseteq S)
      <4>1. v.start = w.start /\ v.seen = w.seen \cup ids /\ v.moved = moved
        <5>1. v = [start |-> IF w.page = 1 THEN S ELSE w.start,
                   seen |-> w.seen \cup ids, places |-> S, moved |-> moved,
                   page |-> w.page + 1]
          BY <1>1
        <5> HIDE DEF S, w, v, ids, moved
        <5> QED
          BY <2>3, <5>1
      <4>2. ~moved => ~w.moved /\ w.places \subseteq S
        OBVIOUS
      <4> HIDE DEF S, w, v, ids, moved
      <4> QED
        BY <1>8, <4>1, <4>2
    <3>2. /\ p \in w.places
          /\ \/ p.id \in w.seen \/ Tied(p, w.places)
             \/ Cardinality(Ahead(r, p, w.places)) >= first
      BY <1>0, <3>1 DEF Walked
    <3>3. Tied(p, w.places) => Tied(p, S)
      BY <3>1 DEF Tied
    <3>4. /\ Cardinality(Ahead(r, p, w.places)) \in Nat
          /\ Cardinality(Ahead(r, p, w.places)) <= A(p)
      BY <2>1, <3>1
    <3>5. A(p) \in Nat
      BY <2>1
    <3> HIDE DEF S, first
    <3> QED
      BY <1>3, <3>1, <3>2, <3>3, <3>4, <3>5
  <2> QED
    BY <2>2, <2>3
<1>9. \A q \in Requests : \A p, T : Ahead(q, p, T)' = Ahead(q, p, T)
  BY <1>1 DEF Ahead, Before, R
<1>10. Walked(r)'
  <2>1. /\ DOMAIN v = {"start", "seen", "places", "moved", "page"}
        /\ v.page \in Nat \ {0, 1} /\ v.places = S
    BY <1>1, <1>2
  <2>2. ASSUME ~v.moved, NEW p \in v.start
        PROVE  /\ p \in v.places
               /\ \/ p.id \in v.seen \/ Tied(p, v.places)
                  \/ /\ pc'[r] # "listed"
                     /\ Cardinality(Ahead(r, p, v.places)) >= Offset(v.page, limit)
    <3>1. p \in S /\ (p.id \in v.seen \/ Tied(p, S) \/ A(p) >= first)
      BY <1>8, <2>2
    <3>2. \/ p.id \in v.seen \/ Tied(p, S)
          \/ ~IsLast(r) /\ A(p) >= first + limit
      BY <1>7, <3>1
    <3> QED
      BY <1>1, <1>3, <2>1, <3>1, <3>2
  <2>3. limit' = limit
    BY <1>1 DEF R
  <2> HIDE DEF S, first, limit
  <2>4. \A x : Offset(x, R(r).limit)' = Offset(x, R(r).limit)
    BY <2>3 DEF Offset, limit
  <2> QED
    BY <1>9, <2>1, <2>2, <2>3, <2>4 DEF Walked, Tied, limit
<1>11. ASSUME NEW q \in Requests \ {r} PROVE Walked(q)'
  <2>1. Walked(q) /\ pc'[q] = pc[q] /\ walk'[q] = walk[q] /\ R(q)' = R(q)
    BY <1>1 DEF ListsInv, R
  <2> QED
    BY <1>9, <2>1 DEF Walked, Tied
<1>12. ASSUME NEW q \in Requests PROVE NamesRead(q)' /\ Renames(q)'
  <2>1. NamesRead(q) /\ Renames(q) /\ R(q)' = R(q)
    BY <1>1 DEF ListsInv, R
  <2> QED
    BY <1>1, <2>1 DEF NamesRead, Renames
<1>13. Sortable'
  BY <1>0, <1>1, SortableSame
<1> QED
  BY <1>1, <1>10, <1>11, <1>12, <1>13 DEF ListsInv

LEMMA ListingKeepsLists ==
  ASSUME ListsInv, RequestsInv', NEW r \in Requests,
         ListKinds(r) \/ ListUsers(r)
  PROVE  ListsInv'
<1>1. R(r).op \in {"list_kinds", "list_users"} /\ pc[r] = "start"
  BY DEF ListKinds, ListUsers, At
<1>2. \/ \E shown \in Pages(r) : FollowPage(r, shown)
      \/ /\ pc' = [pc EXCEPT ![r] = "done"]
         /\ UNCHANGED <<case, kinds, addresses, read, walk, pending>>
  BY DEF ListKinds, ListUsers, Goto, rows
<1>3. CASE /\ pc' = [pc EXCEPT ![r] = "done"]
           /\ UNCHANGED <<case, kinds, addresses, read, walk, pending>>
  <2>1. Moves(r)
    BY <1>3 DEF Moves, ListsInv, RequestsInv, Shape
  <2> QED
    BY <1>3, <2>1, MovesKeep, SortableSame DEF ListsInv
<1> QED
  BY <1>1, <1>2, <1>3, PageKeepsLists

LEMMA ListsStep == ListsInv /\ [TransferNext]_allVars => ListsInv'
<1> SUFFICES ASSUME ListsInv, [TransferNext]_allVars PROVE ListsInv'
  OBVIOUS
<1>0. RequestsInv'
  BY RequestsStep DEF ListsInv
<1>1. ASSUME NEW r \in Requests, Step(r) PROVE ListsInv'
  BY <1>0, <1>1, ReadsKeepLists, OthersKeepLists, KindsKeepLists,
     KindReadsKeepLists, AddressesKeepLists, BatchKeepsLists,
     ListingKeepsLists
  DEF Step
<1>2. ASSUME NEW r \in Requests, GenerateFails(r) \/ Crash(r) PROVE ListsInv'
  BY <1>0, <1>2, OthersKeepLists
<1>3. ASSUME NEW by, NEW of, Expire(by, of) PROVE ListsInv'
  BY <1>0, <1>3, StillKeepsLists DEF Expire, rows
<1>4. ASSUME Next PROVE ListsInv'
  BY <1>0, <1>1, <1>2, <1>3, <1>4, LandingKeepsLists DEF Next
<1>5. ASSUME NEW r \in Requests, TransferStep(r) PROVE ListsInv'
  BY <1>0, <1>5, ReadsKeepLists, TransfersKeepLists DEF TransferStep
<1>6. ASSUME UNCHANGED allVars PROVE ListsInv'
  BY <1>0, <1>6, StillKeepsLists DEF allVars, vars, rows
<1> QED
  BY <1>4, <1>5, <1>6 DEF TransferNext

LEMMA ListsInvariant == RequestsSpec => []ListsInv
BY ListsInit, ListsStep, PTL DEF RequestsSpec

(* A list that is followed to its end shows every row it began with, but   *)
(* for rows of one name and when a row it had read has changed its place   *)
(* (list.js of transaction types and of users: limit, offset and order).   *)
THEOREM WalksMissNothing == RequestsSpec => []WalkMissesNothing
<1>1. ListsInv => WalkMissesNothing
  BY DEF ListsInv, Walked, WalkMissesNothing
<1> QED
  BY <1>1, ListsInvariant, PTL
==============================================================================
