-------------------------- MODULE TransactionSync --------------------------
(***************************************************************************)
(* How Web3Handler keeps the transaction collection in step with the       *)
(* chain.  Handlers are started by web3 subscriptions (pending transaction, *)
(* new block, Transfer event, NewReferralTransfer event), which may be     *)
(* late, lost or, after a reconnect, duplicated.  A job repeated by Bull   *)
(* goes through all events and the blocks since the last checkpoint.       *)
(*                                                                         *)
(* All of them work through a list of items; for each they look the record *)
(* up, await, and write.  `todo' is what a worker still has to go through, *)
(* `cur' the item it has looked up and not written yet.                    *)
(***************************************************************************)
EXTENDS Integers

CONSTANTS Txs, Kind,                \* transactions and what each of them is
          Tracked,                  \* those from or to an investor's wallet
          Workers, Cron, None,      \* subscription handlers; the repeated job
          StartBlock, BlockOffset,  \* config.web3
          FirstHeight,              \* the chain's height when the program first starts
          MaxHeight, MaxFaults      \* bounds of the model

Kinds == {"eth",           \* a transfer of ether
          "invest",        \* ether to the ICO: tokens, and a referral bonus
          "transfer",      \* transfer() called on the token
          "transferFrom",  \* another token call that moves tokens
          "approve",       \* a token call that moves none
          "unknown"}       \* a call to the token the ABI decoder cannot read

Statuses == {"absent", "pending", "confirmed", "failed"}
Final    == {"confirmed", "failed"}
Paths    == {"pending", "call", "transfer", "referral"}
Items    == Paths \X Txs
Agents   == Workers \cup {Cron}

ASSUME SyncConstants ==
  /\ Kind \in [Txs -> Kinds]
  /\ Tracked \subseteq Txs
  /\ Cron \notin Workers /\ None \notin [item : Items, seen : Statuses]
  /\ StartBlock \in Nat /\ BlockOffset \in Nat
  /\ FirstHeight \in Nat /\ MaxHeight \in Nat /\ MaxFaults \in Nat

VARIABLES
  db,           \* the transaction collection: the status of every record
  receipt,      \* outcome of each mined transaction
  block,        \* its block, 0 before it is mined
  height,       \* the chain's last block
  todo, cur,    \* what each worker has left to do and is doing
  phase,        \* where the job is
  next, target, \* the blocks the job has still to read
  lastChecked,  \* the checkpoint kept in redis
  faults        \* failures so far (bound of the model)

chain == <<receipt, block, height>>
job   == <<phase, next, target>>
vars  == <<db, receipt, block, height, todo, cur, phase, next, target, lastChecked, faults>>

-----------------------------------------------------------------------------
(* Records are identified by hash, type, from and to (the unique index).   *)

Keys == Txs \X {"call", "event", "referral"}

\* The decoder gives a transfer() call the recipient its event has; any other
\* token call is looked up with no recipient.
TransferKey(x) == IF Kind[x] = "transfer" THEN <<x, "call">> ELSE <<x, "event">>

KeyOf(path, x) == IF path = "transfer" THEN TransferKey(x)
                  ELSE IF path = "referral" THEN <<x, "referral">>
                  ELSE <<x, "call">>

IsToken(x) == Kind[x] \in {"transfer", "transferFrom", "approve", "unknown"}

\* decodeMethod returns undefined and reading its name throws.
Throws(path, x) == path \in {"pending", "call"} /\ Kind[x] = "unknown"

Transfers == {x \in Txs : receipt[x] = "confirmed"
                          /\ Kind[x] \in {"transfer", "transferFrom", "invest"}}
Referrals == {x \in Txs : receipt[x] = "confirmed" /\ Kind[x] = "invest"}

\* What a handler that found status `seen' writes, "absent" for nothing.
PendingWrites(x, seen) ==
  IF seen = "absent" /\ x \in Tracked THEN "pending" ELSE "absent"

CallWrites(x, seen) ==
  IF \/ seen # "absent" /\ IsToken(x) /\ receipt[x] = "confirmed"
     \/ seen \in Final
     \/ x \notin Tracked
  THEN "absent" ELSE receipt[x]

TransferWrites(x, seen) == IF seen \in Final THEN "absent" ELSE receipt[x]

ReferralWrites(x, seen) == IF seen # "absent" THEN "absent" ELSE receipt[x]

Writes(path, x, seen) ==
  CASE path = "pending"  -> PendingWrites(x, seen)
    [] path = "call"     -> CallWrites(x, seen)
    [] path = "transfer" -> TransferWrites(x, seen)
    [] path = "referral" -> ReferralWrites(x, seen)

-----------------------------------------------------------------------------
(* The chain                                                               *)

\* A block with any of the transactions that are not mined yet.
Mine(X, good) ==
  /\ height < MaxHeight
  /\ \A x \in X : block[x] = 0
  /\ good \subseteq X
  /\ height' = height + 1
  /\ block' = [x \in Txs |-> IF x \in X THEN height + 1 ELSE block[x]]
  /\ receipt' = [x \in Txs |-> IF x \in good THEN "confirmed"
                               ELSE IF x \in X THEN "failed" ELSE receipt[x]]
  /\ UNCHANGED <<db, todo, cur, job, lastChecked, faults>>

-----------------------------------------------------------------------------
(* Subscriptions: any notification the chain's state justifies may arrive, *)
(* any number of times or never.                                           *)

IdleAgent(w) == todo[w] = {} /\ cur[w] = None

Start(w, items) ==
  /\ IdleAgent(w)
  /\ todo' = [todo EXCEPT ![w] = items]
  /\ UNCHANGED <<db, chain, cur, job, lastChecked, faults>>

\* Mutant: transactions without a receipt are gone through as well.
InBlockOrPending(b) == {x \in Txs : block[x] = b \/ block[x] = 0}

InBlock(b) == {x \in Txs : receipt[x] # "none" /\ block[x] = b}

ProcessPendingTransaction(w, x) == Start(w, {<<"pending", x>>})

ProcessNewBlockHeaders(w, b) ==
  /\ b \in 1..height
  /\ Start(w, {"call"} \X InBlock(b))

ProcessTokenTransfer(w, x) == x \in Transfers /\ Start(w, {<<"transfer", x>>})

ProcessReferralTransfer(w, x) == x \in Referrals /\ Start(w, {<<"referral", x>>})

-----------------------------------------------------------------------------
(* Working through the items                                               *)

\* Mutant: the job goes on to its next step after an exception.
AbortKeepsGoing(w) ==
  /\ todo' = [todo EXCEPT ![w] = {}]
  /\ cur' = [cur EXCEPT ![w] = None]
  /\ UNCHANGED phase

\* An exception: the handler, or the whole run of the job, is given up.
Abort(w) ==
  /\ todo' = [todo EXCEPT ![w] = {}]
  /\ cur' = [cur EXCEPT ![w] = None]
  /\ phase' = IF w = Cron THEN "idle" ELSE phase

LookUp(w, item) ==
  /\ cur[w] = None
  /\ item \in todo[w]
  /\ ~Throws(item[1], item[2])
  /\ cur' = [cur EXCEPT ![w] = [item |-> item, seen |-> db[KeyOf(item[1], item[2])]]]
  /\ todo' = [todo EXCEPT ![w] = @ \ {item}]
  /\ UNCHANGED <<db, chain, job, lastChecked, faults>>

Undecodable(w, item) ==
  /\ cur[w] = None
  /\ item \in todo[w]
  /\ Throws(item[1], item[2])
  /\ Abort(w)
  /\ UNCHANGED <<db, chain, next, target, lastChecked, faults>>

Key(w)    == KeyOf(cur[w].item[1], cur[w].item[2])
Status(w) == Writes(cur[w].item[1], cur[w].item[2], cur[w].seen)

Finish(w) ==
  /\ cur' = [cur EXCEPT ![w] = None]
  /\ UNCHANGED <<chain, todo, job, lastChecked, faults>>

Skip(w) ==
  /\ cur[w] # None
  /\ Status(w) = "absent"
  /\ Finish(w)
  /\ UNCHANGED db

\* Mutant: no unique index.
InsertNoIndex(w) ==
  /\ cur[w] # None
  /\ Status(w) # "absent"
  /\ cur[w].seen = "absent"
  /\ db' = [db EXCEPT ![Key(w)] = Status(w)]
  /\ Finish(w)

\* A record that was not found is inserted, unless the unique index refuses it.
Insert(w) ==
  /\ cur[w] # None
  /\ Status(w) # "absent"
  /\ cur[w].seen = "absent"
  /\ db[Key(w)] = "absent"
  /\ db' = [db EXCEPT ![Key(w)] = Status(w)]
  /\ Finish(w)

Duplicate(w) ==
  /\ cur[w] # None
  /\ Status(w) # "absent"
  /\ cur[w].seen = "absent"
  /\ db[Key(w)] # "absent"
  /\ Abort(w)
  /\ UNCHANGED <<db, chain, next, target, lastChecked, faults>>

\* A record that was found is saved whole, whatever it has become since.
Update(w) ==
  /\ cur[w] # None
  /\ Status(w) # "absent"
  /\ cur[w].seen # "absent"
  /\ db' = [db EXCEPT ![Key(w)] = Status(w)]
  /\ Finish(w)

-----------------------------------------------------------------------------
(* checkAndRestoreTransactions: all Transfer events, all referral events,  *)
(* then the blocks from the checkpoint (less an offset) to the one before  *)
(* the current block, and the checkpoint moves to the current block.       *)

Phase(from, to) == IdleAgent(Cron) /\ phase = from /\ phase' = to

\* Mutant: the job goes through the blocks before the events.
StartJobBlocksFirst ==
  /\ Phase("idle", "blocks")
  /\ target' = height
  /\ next' = (IF lastChecked = None THEN StartBlock ELSE lastChecked) - BlockOffset
  /\ UNCHANGED <<db, chain, todo, cur, lastChecked, faults>>

StartJob ==
  /\ Phase("idle", "transfers")
  /\ todo' = [todo EXCEPT ![Cron] = {"transfer"} \X Transfers]
  /\ UNCHANGED <<db, chain, cur, next, target, lastChecked, faults>>

ReadReferrals ==
  /\ Phase("transfers", "referrals")
  /\ todo' = [todo EXCEPT ![Cron] = {"referral"} \X Referrals]
  /\ UNCHANGED <<db, chain, cur, next, target, lastChecked, faults>>

\* Mutant: the job starts from the current block.
ReadCheckpointNow ==
  /\ Phase("referrals", "blocks")
  /\ target' = height
  /\ next' = height
  /\ UNCHANGED <<db, chain, todo, cur, lastChecked, faults>>

ReadCheckpoint ==
  /\ Phase("referrals", "blocks")
  /\ target' = height
  /\ next' = (IF lastChecked = None THEN StartBlock ELSE lastChecked) - BlockOffset
  /\ UNCHANGED <<db, chain, todo, cur, lastChecked, faults>>

ReadBlock ==
  /\ Phase("blocks", "blocks")
  /\ next < target
  /\ next >= 0
  /\ todo' = [todo EXCEPT ![Cron] = {"call"} \X InBlock(next)]
  /\ next' = next + 1
  /\ UNCHANGED <<db, chain, cur, target, lastChecked, faults>>

\* There is no block before the first: getBlock rejects and the run is given up.
NoSuchBlock ==
  /\ Phase("blocks", "idle")
  /\ next < target
  /\ next < 0
  /\ UNCHANGED <<db, chain, todo, cur, next, target, lastChecked, faults>>

SaveCheckpoint ==
  /\ Phase("blocks", "idle")
  /\ next >= target
  /\ lastChecked' = target
  /\ UNCHANGED <<db, chain, todo, cur, next, target, faults>>

-----------------------------------------------------------------------------
\* The node or the database fails one worker; a restart fails them all.
Fault(W) ==
  /\ faults < MaxFaults
  /\ \E w \in W : ~IdleAgent(w) \/ (w = Cron /\ phase # "idle")
  /\ faults' = faults + 1
  /\ todo' = [w \in Agents |-> IF w \in W THEN {} ELSE todo[w]]
  /\ cur' = [w \in Agents |-> IF w \in W THEN None ELSE cur[w]]
  /\ phase' = IF Cron \in W THEN "idle" ELSE phase
  /\ UNCHANGED <<db, chain, next, target, lastChecked>>

Init ==
  /\ db = [k \in Keys |-> "absent"]
  /\ receipt = [x \in Txs |-> "none"]
  /\ block = [x \in Txs |-> 0]
  /\ height = FirstHeight
  /\ todo = [w \in Agents |-> {}]
  /\ cur = [w \in Agents |-> None]
  /\ phase = "idle"
  /\ next = 0
  /\ target = 0
  /\ lastChecked = None
  /\ faults = 0

Notify(w) ==
  \/ \E x \in Txs : ProcessPendingTransaction(w, x)
  \/ \E b \in 1..height : ProcessNewBlockHeaders(w, b)
  \/ \E x \in Txs : ProcessTokenTransfer(w, x)
  \/ \E x \in Txs : ProcessReferralTransfer(w, x)

Work(w) ==
  \/ \E item \in Items : LookUp(w, item)
  \/ \E item \in Items : Undecodable(w, item)
  \/ Skip(w)
  \/ Insert(w)
  \/ Duplicate(w)
  \/ Update(w)

RunJob ==
  \/ StartJob
  \/ ReadReferrals
  \/ ReadCheckpoint
  \/ ReadBlock
  \/ NoSuchBlock
  \/ SaveCheckpoint

Next ==
  \/ \E X \in SUBSET Txs : \E good \in SUBSET X : Mine(X, good)
  \/ \E w \in Workers : Notify(w)
  \/ \E w \in Agents : Work(w)
  \/ RunJob
  \/ \E w \in Agents : Fault({w})
  \/ Fault(Agents)

Spec == Init /\ [][Next]_vars

\* Bull starts the job again and again, and awaited promises settle.
FairSpec == Spec /\ WF_vars(RunJob \/ Work(Cron))

-----------------------------------------------------------------------------
(* Properties                                                              *)

TypeOK ==
  /\ db \in [Keys -> Statuses]
  /\ receipt \in [Txs -> {"none"} \cup Final]
  /\ block \in [Txs -> Nat]
  /\ height \in Nat
  /\ todo \in [Agents -> SUBSET Items]
  /\ cur \in [Agents -> [item : Items, seen : Statuses] \cup {None}]
  /\ phase \in {"idle", "transfers", "referrals", "blocks"}
  /\ next \in Int
  /\ target \in Nat
  /\ lastChecked \in Nat \cup {None}
  /\ faults \in Nat

\* However notifications, the job and crashes interleave, every record appears
\* once, ends with the outcome on the chain and never changes again (the four
\* process* handlers and the unique index of entities/transaction.ts).
Log == INSTANCE TransferLog WITH log <- db
ImplementsLog == Log!Spec

FirstBlock == StartBlock - BlockOffset

\* A transaction has its record, and unless it is a successful token call, whose
\* event settles it, the record has the outcome of the chain.
Recorded(x) ==
  /\ db[<<x, "call">>] # "absent"
  /\ ~(IsToken(x) /\ receipt[x] = "confirmed") => db[<<x, "call">>] = receipt[x]

\* Nothing is lost behind the checkpoint: every tracked transaction in a block
\* the job has passed is recorded, whatever was reported in the meantime
\* (checkAndRestoreTransactions writes the checkpoint after its last block).
CheckpointComplete ==
  lastChecked # None =>
    \A x \in Tracked :
      block[x] > 0 /\ block[x] >= FirstBlock /\ block[x] < lastChecked => Recorded(x)

\* A tracked transfer that the chain has buried under another block gets its
\* outcome in the list even if every notification about it is lost.
TrackedSettles ==
  \A x \in Tracked :
    (/\ Kind[x] \in {"eth", "invest", "transfer"}
     /\ block[x] > 0 /\ block[x] >= FirstBlock /\ block[x] < height)
      ~> db[<<x, "call">>] = receipt[x]

\* Every token transfer and referral bonus on the chain gets a record.
EventsSettle ==
  \A x \in Txs :
    /\ (x \in Transfers) ~> db[TransferKey(x)] = "confirmed"
    /\ (x \in Referrals) ~> db[<<x, "referral">>] = "confirmed"

\* "To process confirmed success token transfers use token Transfer event":
\* going through a block confirms no token transfer.
OnlyEventsConfirmTokens ==
  [][\A w \in Agents :
       Insert(w) \/ Update(w)
         => ~(cur[w].item[1] = "call" /\ IsToken(cur[w].item[2]) /\ Status(w) = "confirmed")]_vars
=============================================================================
