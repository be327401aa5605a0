---------------------------- MODULE TransferLog ----------------------------
(* What the transaction list promises: a record appears once, may be       *)
(* pending first, ends with the outcome the chain gave the transaction,    *)
(* and that is final.                                                      *)
CONSTANT Keys        \* what identifies a record: a transaction and more

VARIABLES log,       \* status of every record
          receipt    \* outcome of every transaction on the chain

TxOf(k) == k[1]

Final == {"confirmed", "failed"}

Init == /\ log = [k \in Keys |-> "absent"]
        /\ \A k \in Keys : receipt[TxOf(k)] = "none"

\* The chain decides once.
Decide ==
  /\ log' = log
  /\ \A k \in Keys : receipt[TxOf(k)] # "none" => receipt'[TxOf(k)] = receipt[TxOf(k)]

Announce(k) ==
  /\ log[k] = "absent"
  /\ log' = [log EXCEPT ![k] = "pending"]
  /\ UNCHANGED receipt

Settle(k) ==
  /\ log[k] \notin Final
  /\ receipt[TxOf(k)] \in Final
  /\ log' = [log EXCEPT ![k] = receipt[TxOf(k)]]
  /\ UNCHANGED receipt

Next == Decide \/ \E k \in Keys : Announce(k) \/ Settle(k)

Spec == Init /\ [][Next]_<<log, receipt>>
=============================================================================
