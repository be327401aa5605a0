----------------------- MODULE TransactionSyncProofs -----------------------
(* Theorems about TransactionSync for any transactions, any number of      *)
(* overlapping handlers, any chain height and any number of faults.        *)
EXTENDS TransactionSync, TLAPS

\* A transaction has an outcome exactly when it is in a block of the chain.
ChainInv ==
  \A x \in Txs : /\ block[x] <= height
                 /\ receipt[x] = "none" <=> block[x] = 0

\* A final status is the outcome on the chain.
RecordInv == \A k \in Keys : db[k] \in Final => db[k] = receipt[k[1]]

\* Only the pending handler works on a transaction that is not mined.
Mined(i) == i[1] # "pending" => receipt[i[2]] \in Final

TodoInv == \A w \in Agents : \A i \in todo[w] : Mined(i)

\* A record that was found is still there when it is written, and if it was
\* final it is the same.
GoodCur(c) ==
  LET k == KeyOf(c.item[1], c.item[2])
  IN  /\ Mined(c.item)
      /\ c.seen # "absent" => db[k] # "absent"
      /\ c.seen \in Final => db[k] = c.seen

CurInv == \A w \in Agents : cur[w] # None => GoodCur(cur[w])

\* The inductive invariant behind ImplementsLog.
LogInv == TypeOK /\ ChainInv /\ RecordInv /\ TodoInv /\ CurInv

-----------------------------------------------------------------------------
(* What a step does to the records and to the workers                      *)

Looked == [item : Items, seen : Statuses]

\* Work is handed to an idle worker: a subscription, an event or a block.
Gives(w, items) ==
  /\ items \subseteq Items
  /\ \A i \in items : Mined(i)
  /\ todo' = [todo EXCEPT ![w] = items]
  /\ UNCHANGED <<db, chain, cur>>

\* Workers drop work: a skipped item, an exception, a fault.
Drops ==
  /\ todo' \in [Agents -> SUBSET Items]
  /\ cur' \in [Agents -> Looked \cup {None}]
  /\ \A w \in Agents : todo'[w] \subseteq todo[w] /\ cur'[w] \in {None, cur[w]}
  /\ UNCHANGED <<db, chain>>

\* A record is written, over what was seen of it or where there was none.
Stores(w) ==
  /\ cur[w] # None
  /\ Status(w) # "absent"
  /\ cur[w].seen = "absent" => db[Key(w)] = "absent"
  /\ db' = [db EXCEPT ![Key(w)] = Status(w)]
  /\ cur' = [cur EXCEPT ![w] = None]
  /\ UNCHANGED <<chain, todo>>

LEMMA StepKinds ==
  ASSUME TypeOK, [Next]_vars
  PROVE  \/ \E X \in SUBSET Txs : \E good \in SUBSET X : Mine(X, good)
         \/ \E w \in Agents : \E items : Gives(w, items)
         \/ \E w \in Agents, item \in Items : LookUp(w, item)
         \/ \E w \in Agents : Stores(w)
         \/ Drops
<1> USE DEF TypeOK, Looked
<1>1. ASSUME NEW w \in Agents, NEW items \in SUBSET Items, Start(w, items),
             \A i \in items : Mined(i)
      PROVE  Gives(w, items)
  BY <1>1 DEF Start, Gives
<1>2. ASSUME NEW w \in Workers, Notify(w)
      PROVE  \E v \in Agents : \E items : Gives(v, items)
  <2>0. w \in Agents
    BY DEF Agents
  <2>1. ASSUME NEW x \in Txs, ProcessPendingTransaction(w, x)
        PROVE  Gives(w, {<<"pending", x>>})
    BY <1>1, <2>0, <2>1 DEF ProcessPendingTransaction, Items, Paths, Mined
  <2>2. ASSUME NEW b \in 1..height, ProcessNewBlockHeaders(w, b)
        PROVE  Gives(w, {"call"} \X InBlock(b))
    BY <1>1, <2>0, <2>2 DEF ProcessNewBlockHeaders, Items, Paths, Mined, InBlock
  <2>3. ASSUME NEW x \in Txs, ProcessTokenTransfer(w, x)
        PROVE  Gives(w, {<<"transfer", x>>})
    BY <1>1, <2>0, <2>3 DEF ProcessTokenTransfer, Items, Paths, Mined, Transfers, Final
  <2>4. ASSUME NEW x \in Txs, ProcessReferralTransfer(w, x)
        PROVE  Gives(w, {<<"referral", x>>})
    BY <1>1, <2>0, <2>4 DEF ProcessReferralTransfer, Items, Paths, Mined, Referrals, Final
  <2>5. QED
    BY <1>2, <2>0, <2>1, <2>2, <2>3, <2>4 DEF Notify
<1>3. ASSUME NEW w \in Agents, Abort(w), UNCHANGED <<db, chain>>
      PROVE  Drops
  BY <1>3 DEF Abort, Drops
<1>4. ASSUME NEW w \in Agents, Work(w)
      PROVE  \/ \E v \in Agents, item \in Items : LookUp(v, item)
             \/ \E v \in Agents : Stores(v)
             \/ Drops
  <2>1. ASSUME NEW item \in Items, Undecodable(w, item)
        PROVE  Drops
    BY <1>3, <2>1 DEF Undecodable
  <2>2. CASE Skip(w)
    BY <2>2 DEF Skip, Finish, Drops
  <2>3. CASE Insert(w) \/ Update(w)
    BY <2>3 DEF Insert, Update, Finish, Stores
  <2>4. CASE Duplicate(w)
    BY <1>3, <2>4 DEF Duplicate
  <2>5. QED
    BY <1>4, <2>1, <2>2, <2>3, <2>4 DEF Work
<1>5. ASSUME RunJob
      PROVE  \/ \E v \in Agents : \E items : Gives(v, items)
             \/ Drops
  <2>0. Cron \in Agents
    BY DEF Agents
  <2>1. ASSUME StartJob
        PROVE  Gives(Cron, {"transfer"} \X Transfers)
    BY <2>1 DEF StartJob, Phase, Gives, Items, Paths, Mined, Transfers, Final
  <2>2. ASSUME ReadReferrals
        PROVE  Gives(Cron, {"referral"} \X Referrals)
    BY <2>2 DEF ReadReferrals, Phase, Gives, Items, Paths, Mined, Referrals, Final
  <2>3. ASSUME ReadBlock
        PROVE  Gives(Cron, {"call"} \X InBlock(next))
    BY <2>3 DEF ReadBlock, Phase, Gives, Items, Paths, Mined, InBlock
  <2>4. CASE ReadCheckpoint \/ NoSuchBlock \/ SaveCheckpoint
    BY <2>4 DEF ReadCheckpoint, NoSuchBlock, SaveCheckpoint, Drops
  <2>5. QED
    BY <1>5, <2>0, <2>1, <2>2, <2>3, <2>4 DEF RunJob
<1>6. ASSUME NEW W, Fault(W)
      PROVE  Drops
  BY <1>6 DEF Fault, Drops
<1>7. CASE UNCHANGED vars
  BY <1>7 DEF vars, Drops, chain
<1>8. QED
  BY <1>2, <1>4, <1>5, <1>6, <1>7 DEF Next

-----------------------------------------------------------------------------
(* What a handler writes                                                   *)

\* Nothing, pending for a record that was not there, or the outcome on the
\* chain for one that had none.
LEMMA WritesWhat ==
  ASSUME NEW i \in Items, NEW s \in Statuses,
         Writes(i[1], i[2], s) # "absent"
  PROVE  \/ /\ i[1] = "pending" /\ s = "absent"
            /\ Writes(i[1], i[2], s) = "pending"
         \/ /\ i[1] # "pending" /\ s \in {"absent", "pending"}
            /\ Writes(i[1], i[2], s) = receipt[i[2]]
<1>1. i[1] \in Paths
  BY DEF Items
<1>2. CASE i[1] = "pending"
  BY <1>2 DEF Writes, PendingWrites
<1>3. CASE i[1] = "call"
  BY <1>3 DEF Writes, CallWrites, Statuses, Final
<1>4. CASE i[1] = "transfer"
  BY <1>4 DEF Writes, TransferWrites, Statuses, Final
<1>5. CASE i[1] = "referral"
  BY <1>5 DEF Writes, ReferralWrites, Statuses, Final
<1>6. QED
  BY <1>1, <1>2, <1>3, <1>4, <1>5 DEF Paths

LEMMA KeyOfItem ==
  ASSUME NEW i \in Items
  PROVE  /\ KeyOf(i[1], i[2]) \in Keys
         /\ KeyOf(i[1], i[2])[1] = i[2]
         /\ i[2] \in Txs
BY DEF Items, KeyOf, TransferKey, Keys

\* A write announces a record that was absent or settles one that is not final
\* otherwise, with the outcome on the chain.
LEMMA StoreMoves ==
  ASSUME LogInv, NEW w \in Agents, Stores(w)
  PROVE  /\ Key(w) \in Keys
         /\ Status(w) \in Statuses \ {"absent"}
         /\ Status(w) \in Final => Status(w) = receipt[Key(w)[1]]
         /\ \/ db[Key(w)] = "absent" /\ Status(w) = "pending"
            \/ db[Key(w)] \notin Final /\ Status(w) \in Final
            \/ db[Key(w)] = Status(w)
<1> DEFINE i == cur[w].item
           s == cur[w].seen
           k == KeyOf(i[1], i[2])
<1>1. i \in Items /\ s \in Statuses /\ GoodCur(cur[w])
  BY DEF LogInv, TypeOK, CurInv, Stores
<1>2. k \in Keys /\ k[1] = i[2] /\ k = Key(w) /\ i[2] \in Txs
  BY <1>1, KeyOfItem DEF Key
<1>3. db[k] \in Statuses /\ receipt[i[2]] \in {"none"} \cup Final
  BY <1>2 DEF LogInv, TypeOK
<1>4. db[k] \in Final => db[k] = receipt[i[2]]
  BY <1>2 DEF LogInv, RecordInv
<1>5. Writes(i[1], i[2], s) = Status(w) /\ Status(w) # "absent"
  BY DEF Status, Stores
<1>6. CASE i[1] = "pending" /\ s = "absent" /\ Status(w) = "pending"
  BY <1>2, <1>6 DEF Stores, Final, Statuses
<1>7. CASE i[1] # "pending" /\ Status(w) = receipt[i[2]]
  <2>1. receipt[i[2]] \in Final
    BY <1>1, <1>7 DEF GoodCur, Mined
  <2>2. QED
    BY <1>2, <1>3, <1>4, <1>7, <2>1 DEF Final, Statuses
<1>8. QED
  BY <1>1, <1>5, <1>6, <1>7, WritesWhat

-----------------------------------------------------------------------------
(* The invariant behind ImplementsLog                                      *)

\* Every step keeps the types.
LEMMA NextKeepsType ==
  ASSUME LogInv, [Next]_vars
  PROVE  TypeOK'
<1> USE SyncConstants DEF TypeOK, LogInv
<1>1. /\ phase' \in {"idle", "transfers", "referrals", "blocks"}
      /\ next' \in Int
      /\ target' \in Nat
      /\ lastChecked' \in Nat \cup {None}
      /\ faults' \in Nat
  <2>1. ASSUME NEW X, NEW good, Mine(X, good)
        PROVE  <1>1
    BY <2>1 DEF Mine, job
  <2>2. ASSUME NEW w \in Workers, Notify(w)
        PROVE  <1>1
    BY <2>2 DEF Notify, ProcessPendingTransaction, ProcessNewBlockHeaders, ProcessTokenTransfer,
                ProcessReferralTransfer, Start, job
  <2>3. ASSUME NEW w \in Agents, Work(w)
        PROVE  <1>1
    BY <2>3 DEF Work, LookUp, Undecodable, Skip, Insert, Duplicate, Update, Abort, Finish, job
  <2>4. CASE RunJob
    BY <2>4 DEF RunJob, StartJob, ReadReferrals, ReadCheckpoint, ReadBlock, NoSuchBlock,
                SaveCheckpoint, Phase
  <2>5. ASSUME NEW W, Fault(W)
        PROVE  <1>1
    BY <2>5 DEF Fault
  <2>6. CASE UNCHANGED vars
    BY <2>6 DEF vars
  <2>7. QED
    BY <2>1, <2>2, <2>3, <2>4, <2>5, <2>6 DEF Next
<1>2. /\ db' \in [Keys -> Statuses]
      /\ receipt' \in [Txs -> {"none"} \cup Final]
      /\ block' \in [Txs -> Nat]
      /\ height' \in Nat
      /\ todo' \in [Agents -> SUBSET Items]
      /\ cur' \in [Agents -> Looked \cup {None}]
  <2>1. ASSUME NEW X \in SUBSET Txs, NEW good \in SUBSET X, Mine(X, good)
        PROVE  <1>2
    BY <2>1 DEF Mine, Final, Looked
  <2>2. ASSUME NEW w \in Agents, NEW items, Gives(w, items)
        PROVE  <1>2
    BY <2>2 DEF Gives, chain, Looked
  <2>3. ASSUME NEW w \in Agents, NEW item \in Items, LookUp(w, item)
        PROVE  <1>2
    <3>1. [item |-> item, seen |-> db[KeyOf(item[1], item[2])]] \in Looked
      BY KeyOfItem DEF Looked
    <3>2. QED
      BY <2>3, <3>1 DEF LookUp, chain, Looked
  <2>4. ASSUME NEW w \in Agents, Stores(w)
        PROVE  <1>2
    BY <2>4, StoreMoves DEF Stores, chain, Looked
  <2>5. CASE Drops
    BY <2>5 DEF Drops, chain
  <2>6. QED
    BY <2>1, <2>2, <2>3, <2>4, <2>5, StepKinds
<1>3. QED
  BY <1>1, <1>2 DEF Looked

\* The outcome of a mined transaction does not change.
LEMMA ChainGrows ==
  ASSUME LogInv, [Next]_vars
  PROVE  /\ ChainInv'
         /\ \A x \in Txs : receipt[x] # "none" =>
              receipt'[x] = receipt[x] /\ block'[x] = block[x]
         /\ height <= height'
<1> USE DEF LogInv, TypeOK
<1>1. ASSUME NEW X \in SUBSET Txs, NEW good \in SUBSET X, Mine(X, good)
      PROVE  /\ ChainInv'
             /\ \A x \in Txs : receipt[x] # "none" =>
                  receipt'[x] = receipt[x] /\ block'[x] = block[x]
             /\ height <= height'
  BY <1>1 DEF Mine, ChainInv, Final
<1>2. CASE UNCHANGED chain
  BY <1>2 DEF chain, ChainInv
<1>3. QED
  BY <1>1, <1>2, StepKinds DEF Gives, LookUp, Stores, Drops

\* A record only moves forward, and a final one does not move.
LEMMA RecordsGrow ==
  ASSUME LogInv, [Next]_vars, NEW k \in Keys
  PROVE  /\ db[k] # "absent" => db'[k] # "absent"
         /\ db[k] \in Final => db'[k] = db[k]
<1> USE DEF LogInv, TypeOK
<1>1. ASSUME NEW w \in Agents, Stores(w)
      PROVE  /\ db[k] # "absent" => db'[k] # "absent"
             /\ db[k] \in Final => db'[k] = db[k]
  <2>1. db' = [db EXCEPT ![Key(w)] = Status(w)]
    BY <1>1 DEF Stores
  <2>2. QED
    BY <1>1, <2>1, StoreMoves DEF Final
<1>2. CASE db' = db
  BY <1>2
<1>3. QED
  BY <1>1, <1>2, StepKinds DEF Mine, Gives, LookUp, Drops

LEMMA NextKeepsLogInv ==
  ASSUME LogInv, [Next]_vars
  PROVE  LogInv'
<1>1. TypeOK' /\ ChainInv'
  BY NextKeepsType, ChainGrows
<1>2. ASSUME NEW i \in Items, Mined(i)
      PROVE  Mined(i)'
  BY <1>2, ChainGrows DEF Mined, Items, Final, LogInv
<1>3. RecordInv'
  <2>1. ASSUME NEW k \in Keys, db'[k] \in Final
        PROVE  db'[k] = receipt'[k[1]]
    <3>1. k[1] \in Txs
      BY DEF Keys
    <3>2. CASE db[k] \in Final
      BY <3>1, <3>2, RecordsGrow, ChainGrows DEF LogInv, RecordInv, Final
    <3>3. CASE db[k] \notin Final
      <4>1. PICK w \in Agents : Stores(w)
        BY <2>1, <3>3, StepKinds DEF Mine, Gives, LookUp, Drops, LogInv
      <4>2. k = Key(w) /\ db'[k] = Status(w)
        BY <2>1, <3>3, <4>1, StoreMoves DEF Stores, LogInv, TypeOK
      <4>3. db'[k] = receipt[k[1]]
        BY <2>1, <4>1, <4>2, StoreMoves
      <4>4. QED
        BY <4>1, <4>3 DEF Stores, chain
    <3>4. QED
      BY <3>2, <3>3
  <2>2. QED
    BY <2>1 DEF RecordInv
<1>4. TodoInv'
  <2>1. ASSUME NEW w \in Agents, NEW i \in todo'[w]
        PROVE  Mined(i)'
    <3>1. i \in Items
      BY <1>1 DEF TypeOK
    <3>2. CASE i \in todo[w]
      BY <1>2, <3>1, <3>2 DEF LogInv, TodoInv
    <3>3. CASE i \notin todo[w]
      <4>1. PICK v \in Agents : \E items : Gives(v, items)
        BY <3>3, StepKinds DEF Mine, LookUp, Stores, Drops, LogInv, TypeOK
      <4>2. PICK items : Gives(v, items)
        BY <4>1
      <4>3. Mined(i)
        BY <3>3, <4>2 DEF Gives, LogInv, TypeOK
      <4>4. QED
        BY <1>2, <3>1, <4>3
    <3>4. QED
      BY <3>2, <3>3
  <2>2. QED
    BY <2>1 DEF TodoInv
<1>5. CurInv'
  <2>1. ASSUME NEW w \in Agents, NEW c, c = cur'[w], c # None
        PROVE  GoodCur(c)'
    <3> DEFINE k == KeyOf(c.item[1], c.item[2])
    <3>1. c \in Looked /\ c.item \in Items /\ k \in Keys
      BY <1>1, <2>1, KeyOfItem DEF TypeOK, Looked
    <3>2. CASE c = cur[w]
      <4>1. GoodCur(c)
        BY <2>1, <3>2 DEF LogInv, CurInv
      <4>2. QED
        BY <1>2, <3>1, <4>1, RecordsGrow DEF GoodCur
    <3>3. CASE c # cur[w]
      <4>1. PICK v \in Agents, item \in Items : LookUp(v, item)
        BY <2>1, <3>3, StepKinds DEF Mine, Gives, Stores, Drops, LogInv, TypeOK
      <4>2. c = [item |-> item, seen |-> db[KeyOf(item[1], item[2])]] /\ item \in todo[w]
        <5> DEFINE e == [item |-> item, seen |-> db[KeyOf(item[1], item[2])]]
        <5>1. cur' = [cur EXCEPT ![v] = e] /\ item \in todo[v]
          BY <4>1 DEF LookUp
        <5> HIDE DEF e
        <5>2. w = v /\ c = e
          BY <2>1, <3>3, <5>1 DEF LogInv, TypeOK
        <5>3. QED
          BY <5>1, <5>2 DEF e
      <4>3. c.item = item /\ c.seen = db[k]
        BY <4>2
      <4>4. db' = db
        BY <4>1 DEF LookUp
      <4>5. Mined(c.item)
        BY <4>2, <4>3 DEF LogInv, TodoInv
      <4>6. QED
        BY <1>2, <3>1, <4>3, <4>4, <4>5 DEF GoodCur
    <3>4. QED
      BY <3>2, <3>3
  <2>2. QED
    BY <2>1 DEF CurInv, GoodCur, Mined
<1>6. QED
  BY <1>1, <1>3, <1>4, <1>5 DEF LogInv

LEMMA LogInvariance == Spec => []LogInv
<1>1. Init => LogInv
  BY SyncConstants DEF Init, LogInv, TypeOK, ChainInv, RecordInv, TodoInv, CurInv, Statuses, Final
<1>2. LogInv /\ [Next]_vars => LogInv'
  BY NextKeepsLogInv
<1>3. QED
  BY <1>1, <1>2, PTL DEF Spec

\* The state of the handlers, the job and the records keeps its types.
THEOREM TypeCorrect == Spec => []TypeOK
<1>1. LogInv => TypeOK
  BY DEF LogInv
<1>2. QED
  BY <1>1, LogInvariance, PTL

\* Whatever handlers, the job and failures do to one another, the collection
\* implements TransferLog: a record is inserted once, is pending at most until
\* it has the outcome of the chain, and then never changes.
THEOREM SyncImplementsLog == Spec => ImplementsLog
<1>1. Init => Log!Init
  BY DEF Init, Log!Init, Log!TxOf, Keys
<1>2. ASSUME LogInv, [Next]_vars
      PROVE  [Log!Next]_<<db, receipt>>
  <2>1. CASE db' = db
    <3>1. Log!Decide
      BY <1>2, <2>1, ChainGrows DEF Log!Decide, Log!TxOf, Keys
    <3>2. QED
      BY <3>1 DEF Log!Next
  <2>2. ASSUME NEW w \in Agents, Stores(w)
        PROVE  Log!Next \/ UNCHANGED <<db, receipt>>
    <3>1. /\ db' = [db EXCEPT ![Key(w)] = Status(w)]
          /\ receipt' = receipt
          /\ Key(w) \in Keys
      BY <1>2, <2>2, StoreMoves DEF Stores, chain
    <3>2. CASE db[Key(w)] = "absent" /\ Status(w) = "pending"
      <4>1. Log!Announce(Key(w))
        BY <3>1, <3>2 DEF Log!Announce
      <4>2. QED
        BY <3>1, <4>1 DEF Log!Next
    <3>3. CASE db[Key(w)] \notin Final /\ Status(w) \in Final
      <4>1. Status(w) = receipt[Key(w)[1]]
        BY <1>2, <2>2, <3>3, StoreMoves
      <4>2. Log!Settle(Key(w))
        BY <3>1, <3>3, <4>1 DEF Log!Settle, Log!TxOf, Log!Final, Final
      <4>3. QED
        BY <3>1, <4>2 DEF Log!Next
    <3>4. CASE db[Key(w)] = Status(w)
      <4>1. db' = db
        BY <1>2, <3>1, <3>4 DEF LogInv, TypeOK
      <4>2. QED
        BY <3>1, <4>1
    <3>5. QED
      BY <1>2, <2>2, <3>2, <3>3, <3>4, StoreMoves
  <2>3. QED
    BY <1>2, <2>1, <2>2, StepKinds DEF Mine, Gives, LookUp, Drops, LogInv
<1>3. QED
  BY <1>1, <1>2, LogInvariance, PTL DEF Spec, ImplementsLog, Log!Spec

-----------------------------------------------------------------------------
(* The invariant behind CheckpointComplete                                 *)

InRange(x) == block[x] > 0 /\ block[x] >= FirstBlock

\* Recorded, or among what the job has still to go through.
Handled(x) ==
  \/ Recorded(x)
  \/ <<"call", x>> \in todo[Cron]
  \/ cur[Cron] # None /\ cur[Cron].item = <<"call", x>>

\* Of the blocks the running job has read, nothing is left out.
JobInv ==
  /\ lastChecked # None => lastChecked <= height
  /\ phase = "blocks" =>
       /\ target <= height
       /\ \A x \in Tracked : InRange(x) /\ block[x] < next /\ block[x] < target => Handled(x)

SyncInv == LogInv /\ CheckpointComplete /\ JobInv

\* What is recorded stays recorded.
LEMMA RecordedStays ==
  ASSUME LogInv, [Next]_vars, NEW x \in Txs, block[x] > 0, Recorded(x)
  PROVE  Recorded(x)'
<1> DEFINE k == <<x, "call">>
<1>1. k \in Keys
  BY DEF Keys
<1>2. receipt[x] # "none" /\ receipt[x] \in {"none"} \cup Final
  BY DEF LogInv, TypeOK, ChainInv
<1>3. receipt'[x] = receipt[x]
  BY <1>2, ChainGrows
<1>4. QED
  BY <1>1, <1>2, <1>3, RecordsGrow DEF Recorded

\* The chain only adds blocks above those a running job looks at.
LEMMA BlocksStay ==
  ASSUME LogInv, [Next]_vars, NEW x \in Txs, NEW b \in Nat, b <= height,
         block'[x] > 0, block'[x] < b
  PROVE  block'[x] = block[x]
<1> USE DEF LogInv, TypeOK
<1>1. ASSUME NEW X \in SUBSET Txs, NEW good \in SUBSET X, Mine(X, good)
      PROVE  block'[x] = block[x]
  BY <1>1 DEF Mine
<1>2. CASE UNCHANGED chain
  BY <1>2 DEF chain
<1>3. QED
  BY <1>1, <1>2, StepKinds DEF Gives, LookUp, Stores, Drops

\* When a worker is through with a tracked call, the call is recorded.
LEMMA DoneIsRecorded ==
  ASSUME LogInv, NEW w \in Agents, NEW x \in Tracked, block[x] > 0,
         cur[w] # None, cur[w].item = <<"call", x>>,
         Skip(w) \/ Insert(w) \/ Update(w)
  PROVE  Recorded(x)'
<1> DEFINE k == <<x, "call">>
           s == cur[w].seen
<1>1. k \in Keys /\ x \in Txs
  BY SyncConstants DEF Keys
<1>2. Key(w) = k
  BY DEF Key, KeyOf
<1>3. s \in Statuses /\ GoodCur(cur[w])
  BY DEF LogInv, TypeOK, CurInv
<1>4. receipt[x] \in Final
  BY <1>3 DEF GoodCur, Mined
<1>5. Status(w) = CallWrites(x, s)
  BY DEF Status, Writes
<1>6. CASE Skip(w)
  <2>1. db' = db /\ receipt' = receipt /\ Status(w) = "absent"
    BY <1>6 DEF Skip, Finish, chain
  <2>2. /\ s # "absent" => db[k] # "absent"
        /\ s \in Final => db[k] = s
    BY <1>2, <1>3 DEF GoodCur, KeyOf
  <2>3. \/ s # "absent" /\ IsToken(x) /\ receipt[x] = "confirmed"
        \/ s \in Final
    BY <1>4, <1>5, <2>1 DEF CallWrites, Final
  <2>4. db[k] # "absent"
    BY <2>2, <2>3 DEF Final
  <2>5. db[k] \in Final => db[k] = receipt[x]
    BY <1>1 DEF LogInv, RecordInv
  <2>6. QED
    BY <2>1, <2>2, <2>3, <2>4, <2>5 DEF Recorded
<1>7. CASE Insert(w) \/ Update(w)
  <2>1. db' = [db EXCEPT ![k] = Status(w)] /\ receipt' = receipt /\ Status(w) # "absent"
    BY <1>2, <1>7 DEF Insert, Update, Finish, chain
  <2>2. Status(w) = receipt[x]
    BY <1>5, <2>1 DEF CallWrites
  <2>3. db'[k] = receipt[x]
    BY <1>1, <2>1, <2>2 DEF LogInv, TypeOK
  <2>4. QED
    BY <1>4, <2>1, <2>3 DEF Recorded, Final
<1>8. QED
  BY <1>6, <1>7

\* What the job has handled stays handled while the job runs.
LEMMA HandledStays ==
  ASSUME LogInv, NEW x \in Tracked, block[x] > 0, Handled(x),
         phase = "blocks", phase' = "blocks", [Next]_vars
  PROVE  Handled(x)'
<1>1. x \in Txs /\ Cron \in Agents /\ (\A w \in Workers : w # Cron /\ w \in Agents)
  BY SyncConstants DEF Agents
<1>2. CASE Recorded(x)
  BY <1>1, <1>2, RecordedStays DEF Handled
<1>3. CASE todo'[Cron] = todo[Cron] /\ cur'[Cron] = cur[Cron]
  BY <1>1, <1>2, <1>3 DEF Handled
<1>4. CASE ReadBlock
  BY <1>2, <1>4 DEF ReadBlock, Phase, IdleAgent, Handled
<1>5. ASSUME NEW w \in Agents, Work(w)
      PROVE  Handled(x)'
  <2>1. CASE w # Cron
    <3>1. todo'[Cron] = todo[Cron] /\ cur'[Cron] = cur[Cron]
      BY <1>1, <1>5, <2>1 DEF Work, LookUp, Undecodable, Skip, Insert, Duplicate, Update,
         Finish, Abort, LogInv, TypeOK
    <3>2. QED
      BY <1>3, <3>1
  <2>2. CASE w = Cron
    <3>1. ASSUME NEW item \in Items, LookUp(w, item)
          PROVE  Handled(x)'
      <4> DEFINE seen == db[KeyOf(item[1], item[2])]
      <4>1. [item |-> item, seen |-> seen] \in Looked
        BY KeyOfItem DEF Looked, LogInv, TypeOK
      <4>2. /\ cur[Cron] = None
            /\ cur' = [cur EXCEPT ![Cron] = [item |-> item, seen |-> seen]]
            /\ todo' = [todo EXCEPT ![Cron] = todo[Cron] \ {item}]
        BY <2>2, <3>1 DEF LookUp
      <4>3. /\ cur'[Cron].item = item
            /\ cur'[Cron] = [item |-> item, seen |-> seen]
            /\ todo'[Cron] = todo[Cron] \ {item}
        BY <1>1, <4>2 DEF LogInv, TypeOK
      <4>4. cur'[Cron] # None
        BY <4>1, <4>3, SyncConstants DEF Looked
      <4>5. CASE item = <<"call", x>>
        BY <4>3, <4>4, <4>5 DEF Handled
      <4>6. CASE item # <<"call", x>> /\ <<"call", x>> \in todo[Cron]
        BY <4>3, <4>6 DEF Handled
      <4>7. QED
        BY <1>2, <3>1, <4>2, <4>5, <4>6 DEF Handled, LookUp
    <3>2. CASE Skip(w) \/ Insert(w) \/ Update(w)
      <4>1. CASE cur[Cron] # None /\ cur[Cron].item = <<"call", x>>
        BY <1>1, <2>2, <3>2, <4>1, DoneIsRecorded DEF Handled
      <4>2. CASE <<"call", x>> \in todo[Cron]
        BY <3>2, <4>2 DEF Skip, Insert, Update, Finish, Handled
      <4>3. QED
        BY <1>2, <4>1, <4>2 DEF Handled
    <3>3. ~Duplicate(w) /\ ~(\E item \in Items : Undecodable(w, item))
      BY <2>2 DEF Duplicate, Undecodable, Abort
    <3>4. QED
      BY <1>5, <3>1, <3>2, <3>3 DEF Work
  <2>3. QED
    BY <2>1, <2>2
<1>6. ASSUME NEW w \in Workers, Notify(w)
      PROVE  todo'[Cron] = todo[Cron] /\ cur'[Cron] = cur[Cron]
  BY <1>1, <1>6 DEF Notify, ProcessPendingTransaction, ProcessNewBlockHeaders,
     ProcessTokenTransfer, ProcessReferralTransfer, Start, LogInv, TypeOK
<1>7. ASSUME NEW W, Fault(W)
      PROVE  todo'[Cron] = todo[Cron] /\ cur'[Cron] = cur[Cron]
  BY <1>1, <1>7 DEF Fault
<1>8. QED
  BY <1>3, <1>4, <1>5, <1>6, <1>7
     DEF Next, RunJob, Mine, StartJob, ReadReferrals, ReadCheckpoint, NoSuchBlock,
         SaveCheckpoint, Phase, vars

\* When the job has nothing left to go through, handled means recorded.
LEMMA IdleJobRecorded ==
  ASSUME NEW x, IdleAgent(Cron), Handled(x)
  PROVE  Recorded(x)
BY DEF IdleAgent, Handled

\* The steps that change where the job is.
LEMMA JobMoves ==
  ASSUME LogInv, [Next]_vars
  PROVE  \/ ReadCheckpoint \/ ReadBlock \/ SaveCheckpoint
         \/ UNCHANGED <<next, target, lastChecked>> /\ (phase' = "blocks" => phase = "blocks")
BY DEF Next, Mine, Notify, ProcessPendingTransaction, ProcessNewBlockHeaders, ProcessTokenTransfer,
   ProcessReferralTransfer, Start, Work, LookUp, Undecodable, Skip, Insert, Duplicate, Update,
   Abort, Finish, RunJob, StartJob, ReadReferrals, NoSuchBlock, Phase, Fault, job, vars

LEMMA NextKeepsJob ==
  ASSUME SyncInv, [Next]_vars
  PROVE  CheckpointComplete' /\ JobInv'
<1> USE DEF SyncInv, LogInv, TypeOK
<1>1. height <= height' /\ height \in Nat /\ height' \in Nat
  BY ChainGrows, NextKeepsType
<1>2. block' \in [Txs -> Nat] /\ Tracked \subseteq Txs
  BY NextKeepsType, SyncConstants
<1>3. ASSUME NEW x \in Tracked, InRange(x)', block'[x] < lastChecked, lastChecked # None
      PROVE  Recorded(x)'
  <2>1. block'[x] = block[x]
    BY <1>2, <1>3, BlocksStay DEF JobInv, InRange
  <2>2. Recorded(x)
    BY <1>3, <2>1 DEF CheckpointComplete, InRange, FirstBlock
  <2>3. QED
    BY <1>2, <1>3, <2>1, <2>2, RecordedStays DEF InRange
<1>4. CASE UNCHANGED <<next, target, lastChecked>> /\ (phase' = "blocks" => phase = "blocks")
  <2>1. CheckpointComplete'
    BY <1>3, <1>4 DEF CheckpointComplete, InRange, FirstBlock
  <2>2. ASSUME NEW x \in Tracked, phase' = "blocks", InRange(x)', block'[x] < next, block'[x] < target
        PROVE  Handled(x)'
    <3>1. block'[x] = block[x]
      BY <1>2, <1>4, <2>2, BlocksStay DEF JobInv, InRange
    <3>2. Handled(x)
      BY <1>4, <2>2, <3>1 DEF JobInv, InRange, FirstBlock
    <3>3. QED
      BY <1>4, <2>2, <3>1, <3>2, HandledStays DEF InRange
  <2>3. JobInv'
    BY <1>1, <1>4, <2>2 DEF JobInv
  <2>4. QED
    BY <2>1, <2>3
<1>5. CASE ReadCheckpoint
  <2>1. /\ UNCHANGED <<db, block, receipt, lastChecked, height>>
        /\ target' = height
        /\ next' = (IF lastChecked = None THEN StartBlock ELSE lastChecked) - BlockOffset
    BY <1>5 DEF ReadCheckpoint, chain
  <2>2. CheckpointComplete'
    BY <1>3, <2>1 DEF CheckpointComplete, InRange, FirstBlock
  <2>3. ASSUME NEW x \in Tracked, InRange(x)', block'[x] < next'
        PROVE  Handled(x)'
    <3>1. lastChecked # None /\ block'[x] < lastChecked
      BY <1>2, <2>1, <2>3, SyncConstants DEF InRange, FirstBlock
    <3>2. QED
      BY <1>3, <2>3, <3>1 DEF Handled
  <2>4. JobInv'
    BY <2>1, <2>3 DEF JobInv
  <2>5. QED
    BY <2>2, <2>4
<1>6. CASE ReadBlock
  <2>1. /\ UNCHANGED <<db, block, receipt, lastChecked, height, target>>
        /\ IdleAgent(Cron) /\ phase = "blocks" /\ phase' = "blocks"
        /\ next' = next + 1
        /\ todo'[Cron] = {"call"} \X InBlock(next)
    BY <1>6 DEF ReadBlock, Phase, chain, Agents
  <2>2. CheckpointComplete'
    BY <1>3, <2>1 DEF CheckpointComplete, InRange, FirstBlock
  <2>3. ASSUME NEW x \in Tracked, InRange(x)', block'[x] < next', block'[x] < target
        PROVE  Handled(x)'
    <3>1. InRange(x) /\ block[x] \in Nat /\ next \in Int
      BY <1>2, <2>1, <2>3 DEF InRange, FirstBlock
    <3>2. CASE block[x] < next
      <4>1. Handled(x)
        BY <2>1, <2>3, <3>1, <3>2 DEF JobInv
      <4>2. QED
        BY <1>2, <2>1, <3>1, <4>1, HandledStays DEF InRange
    <3>3. CASE block[x] = next
      <4>1. x \in InBlock(next)
        BY <1>2, <3>1, <3>3 DEF InBlock, ChainInv, InRange
      <4>2. QED
        BY <2>1, <4>1 DEF Handled
    <3>4. QED
      BY <2>1, <2>3, <3>1, <3>2, <3>3
  <2>4. JobInv'
    BY <2>1, <2>3 DEF JobInv
  <2>5. QED
    BY <2>2, <2>4
<1>7. CASE SaveCheckpoint
  <2>1. /\ UNCHANGED <<db, block, receipt, height>>
        /\ IdleAgent(Cron) /\ phase = "blocks" /\ phase' = "idle"
        /\ next >= target
        /\ lastChecked' = target
    BY <1>7 DEF SaveCheckpoint, Phase, chain
  <2>2. ASSUME NEW x \in Tracked, InRange(x)', block'[x] < target
        PROVE  Recorded(x)'
    <3>1. InRange(x) /\ block[x] < next /\ block[x] < target
      BY <1>2, <2>1, <2>2 DEF InRange, FirstBlock
    <3>2. Recorded(x)
      BY <2>1, <3>1, IdleJobRecorded DEF JobInv
    <3>3. QED
      BY <1>2, <3>1, <3>2, RecordedStays DEF InRange
  <2>3. CheckpointComplete'
    BY <2>1, <2>2 DEF CheckpointComplete, InRange, FirstBlock
  <2>4. JobInv'
    BY <2>1 DEF JobInv
  <2>5. QED
    BY <2>3, <2>4
<1>8. QED
  BY <1>4, <1>5, <1>6, <1>7, JobMoves

\* Behind the checkpoint every tracked transaction is recorded: no loss of
\* notifications, fault or race between a handler and the job makes the job
\* skip one for good.
THEOREM CheckpointStaysComplete == Spec => []CheckpointComplete
<1>1. Init => SyncInv
  <2>1. Init => LogInv
    BY SyncConstants DEF Init, LogInv, TypeOK, ChainInv, RecordInv, TodoInv, CurInv,
       Statuses, Final
  <2>2. Init => CheckpointComplete /\ JobInv
    BY DEF Init, CheckpointComplete, JobInv
  <2>3. QED
    BY <2>1, <2>2 DEF SyncInv
<1>2. SyncInv /\ [Next]_vars => SyncInv'
  BY NextKeepsLogInv, NextKeepsJob DEF SyncInv
<1>3. SyncInv => CheckpointComplete
  BY DEF SyncInv
<1>4. QED
  BY <1>1, <1>2, <1>3, PTL DEF Spec
=============================================================================
