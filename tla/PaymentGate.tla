---------------------------- MODULE PaymentGate ----------------------------
(***************************************************************************)
(* The payment gateway: an investor opens a CoinPayments transaction       *)
(* (PaymentsService.initiateBuyEths) and CoinPayments reports on it with   *)
(* Instant Payment Notifications (GatewayController.ipn, IPNService).      *)
(*                                                                         *)
(* Every handler reads the PaymentGateTransaction document, awaits, and    *)
(* saves the WHOLE document it read: the last writer wins.  A handler that *)
(* is between its read and its save is a busy worker; `read' is the        *)
(* document as it was read and `tx' the entity the handler mutates.  An    *)
(* IPN with any status may arrive any number of times and in any order.    *)
(***************************************************************************)
EXTENDS Integers

CONSTANTS Txns,      \* CoinPayments transaction ids
          Workers,   \* handlers that can be in flight at the same time
          Codes,     \* IPN statuses: < 0 failed, >= 100 complete, else pending
          NoDoc,     \* no PaymentGateTransaction document yet
          Idle       \* a worker with no request in flight

\* What a document stores.  buyIpns is the set of the statuses received: the
\* program only ever sorts the array by status and takes an end of it.
Docs == [type    : {"BUY", "CONVERT"},
         status  : {"STARTED", "PENDING", "FAILED"},
         buyIpns : SUBSET Codes,
         convert : {"none", "result", "error"}]

Requests == [pc   : {"convert", "save"},
             txn  : Txns,
             ipn  : Codes,
             read : Docs,
             tx   : Docs]

ASSUME GateConstants == /\ Codes \subseteq Int
                        /\ NoDoc \notin Docs
                        /\ Idle \notin Requests

VARIABLES gate,       \* the payment_gate_transaction collection
          issued,     \* transactions CoinPayments has created
          creating,   \* createTransaction handlers that have not saved yet
          req,        \* what each worker is doing
          converted,  \* transactions CoinPayments has converted at least once
          disturbed   \* history: a handler on it crashed or failed, or saved a stale document

vars == <<gate, issued, creating, req, converted, disturbed>>

-----------------------------------------------------------------------------
(* The document                                                            *)

NewDoc == [type |-> "BUY", status |-> "STARTED", buyIpns |-> {}, convert |-> "none"]

\* Mutant: the IPN is recorded after the conversion instead of before it.
PushedSwapped(d, c) == IF d.type = "CONVERT" THEN d.buyIpns \cup {c} ELSE d.buyIpns

\* The IPN is recorded while the payment is still being bought, not later.
Pushed(d, c) == IF d.type = "BUY" THEN d.buyIpns \cup {c} ELSE d.buyIpns

AfterFail(d, c) == [d EXCEPT !.status = "FAILED", !.buyIpns = Pushed(d, c)]

AfterPending(d, c) == [d EXCEPT !.status = "PENDING", !.buyIpns = Pushed(d, c)]

\* Mutant: the list of IPNs is started anew.
AfterCompleteFirst(d, c) == [d EXCEPT !.buyIpns = {c}]

AfterComplete(d, c) == [d EXCEPT !.buyIpns = @ \cup {c}]

\* Mutants: a status the program does not have; a conversion error that leaves
\* the status alone; an answer of CoinPayments that is not stored.
AfterConvertComplete(d, ok) ==
  IF ok THEN [d EXCEPT !.type = "CONVERT", !.status = "COMPLETE", !.convert = "result"]
        ELSE [d EXCEPT !.status = "FAILED", !.convert = "error"]

AfterConvertKeepsStatus(d, ok) ==
  IF ok THEN [d EXCEPT !.type = "CONVERT", !.status = "STARTED", !.convert = "result"]
        ELSE [d EXCEPT !.convert = "error"]

AfterConvertForgets(d, ok) ==
  IF ok THEN [d EXCEPT !.status = "STARTED"]
        ELSE [d EXCEPT !.status = "FAILED", !.convert = "error"]

AfterConvert(d, ok) ==
  IF ok THEN [d EXCEPT !.type = "CONVERT", !.status = "STARTED", !.convert = "result"]
        ELSE [d EXCEPT !.status = "FAILED", !.convert = "error"]

FailAccepts     == {"STARTED", "FAILED", "PENDING"}
PendingAccepts  == {"STARTED", "PENDING"}
CompleteAccepts == {"STARTED", "PENDING"}

\* The transaction list sorts the IPNs by status and shows the first one if it
\* is negative, otherwise the last: it shows a failure if there is any.
ShowsFailure(d) == \E c \in d.buyIpns : c < 0

-----------------------------------------------------------------------------
(* Opening a transaction                                                   *)

\* CoinPayments answers createTransaction; the document is not stored yet.
CreateTransaction(t) ==
  /\ t \notin issued
  /\ issued' = issued \cup {t}
  /\ creating' = creating \cup {t}
  /\ UNCHANGED <<gate, req, converted, disturbed>>

SaveNew(t) ==
  /\ t \in creating
  /\ gate' = [gate EXCEPT ![t] = NewDoc]
  /\ creating' = creating \ {t}
  /\ UNCHANGED <<issued, req, converted, disturbed>>

-----------------------------------------------------------------------------
(* IPN handlers.  A delivery whose transaction is not found, or whose      *)
(* status is not accepted, changes nothing and is answered 'IPN Error'.    *)

Accept(w, t, c, accepted, pc, tx) ==
  /\ req[w] = Idle
  /\ t \in issued
  /\ gate[t] # NoDoc
  /\ gate[t].status \in accepted
  /\ req' = [req EXCEPT ![w] = [pc |-> pc, txn |-> t, ipn |-> c,
                                read |-> gate[t], tx |-> tx]]
  /\ UNCHANGED <<gate, issued, creating, converted, disturbed>>

ProcessFail(w, t, c) ==
  /\ c < 0
  /\ Accept(w, t, c, FailAccepts, "save", AfterFail(gate[t], c))

ProcessPending(w, t, c) ==
  /\ c >= 0 /\ c < 100
  /\ Accept(w, t, c, PendingAccepts, "save", AfterPending(gate[t], c))

ProcessComplete(w, t, c) ==
  /\ c >= 100
  /\ Accept(w, t, c, CompleteAccepts, "convert", AfterComplete(gate[t], c))

\* convertCoinsTransaction settles.  A rejected call may still have been
\* carried out by CoinPayments (its answer was lost).
ConvertCoins(w, ok, effect) ==
  /\ req[w] # Idle
  /\ req[w].pc = "convert"
  /\ ok => effect
  /\ req' = [req EXCEPT ![w].pc = "save", ![w].tx = AfterConvert(req[w].tx, ok)]
  /\ converted' = IF effect THEN converted \cup {req[w].txn} ELSE converted
  /\ UNCHANGED <<gate, issued, creating, disturbed>>

\* Another handler has changed the document since worker w read it.
Stale(w) == gate[req[w].txn] # req[w].read

Save(w) ==
  /\ req[w] # Idle
  /\ req[w].pc = "save"
  /\ gate' = [gate EXCEPT ![req[w].txn] = req[w].tx]
  /\ req' = [req EXCEPT ![w] = Idle]
  /\ disturbed' = IF Stale(w) THEN disturbed \cup {req[w].txn} ELSE disturbed
  /\ UNCHANGED <<issued, creating, converted>>

\* The investor cannot be read or the document not saved; the handler answers
\* 'IPN Error'.
HandlerFails(w) ==
  /\ req[w] # Idle
  /\ req' = [req EXCEPT ![w] = Idle]
  /\ disturbed' = disturbed \cup {req[w].txn}
  /\ UNCHANGED <<gate, issued, creating, converted>>

Busy(t) == \E w \in Workers : req[w] # Idle /\ req[w].txn = t

\* The process stops and starts again: every handler in flight is forgotten.
Restart ==
  /\ creating # {} \/ \E w \in Workers : req[w] # Idle
  /\ req' = [w \in Workers |-> Idle]
  /\ creating' = {}
  /\ disturbed' = disturbed \cup {t \in Txns : Busy(t)}
  /\ UNCHANGED <<gate, issued, converted>>

-----------------------------------------------------------------------------
Init ==
  /\ gate = [t \in Txns |-> NoDoc]
  /\ issued = {}
  /\ creating = {}
  /\ req = [w \in Workers |-> Idle]
  /\ converted = {}
  /\ disturbed = {}

Deliver(w, t, c) ==
  \/ ProcessFail(w, t, c)
  \/ ProcessPending(w, t, c)
  \/ ProcessComplete(w, t, c)

Next ==
  \/ \E t \in Txns : CreateTransaction(t)
  \/ \E t \in Txns : SaveNew(t)
  \/ \E w \in Workers, t \in Txns, c \in Codes : Deliver(w, t, c)
  \/ \E w \in Workers, ok \in BOOLEAN, effect \in BOOLEAN : ConvertCoins(w, ok, effect)
  \/ \E w \in Workers : Save(w)
  \/ \E w \in Workers : HandlerFails(w)
  \/ Restart

Spec == Init /\ [][Next]_vars

\* A promise that was awaited settles and its continuation runs.
Continue(w) ==
  \/ \E ok \in BOOLEAN, effect \in BOOLEAN : ConvertCoins(w, ok, effect)
  \/ Save(w)

Fair(w) == WF_vars(Continue(w))

FairSpec == Spec /\ \A w \in Workers : Fair(w)

-----------------------------------------------------------------------------
(* Properties                                                              *)

TypeOK ==
  /\ gate \in [Txns -> Docs \cup {NoDoc}]
  /\ issued \in SUBSET Txns
  /\ creating \in SUBSET issued
  /\ req \in [Workers -> Requests \cup {Idle}]
  /\ converted \in SUBSET Txns
  /\ disturbed \in SUBSET Txns

\* A document that says the coins were converted was written after CoinPayments
\* converted them (done: what it has converted) on a complete IPN.
ConversionIsReal(done, t, d) ==
  d.type = "CONVERT" => t \in done /\ \E c \in d.buyIpns : c >= 100

\* The conversion data agrees with type and status, as two handlers may have
\* written them.
ConversionIsCoherent(d) ==
  /\ d.convert = "result" => d.type = "CONVERT"
  /\ d.type = "CONVERT" => d.convert # "none"
  /\ d.convert = "error" => d.status = "FAILED"

\* What the investor is shown and the status the handlers go by agree: a
\* failure is shown only for a failed payment, and a payment that failed before
\* any conversion was tried shows a failure.
FailureIsCoherent(d) ==
  /\ ShowsFailure(d) => d.status = "FAILED"
  /\ d.status = "FAILED" /\ d.convert = "none" => ShowsFailure(d)

\* Whatever handlers overlap, crash or repeat (processFail, processPending,
\* processComplete), no stored document claims a conversion that did not happen
\* or mixes the outcome of one handler with the status of another.
DocumentsCoherent ==
  \A t \in Txns : gate[t] # NoDoc =>
     ConversionIsReal(converted, t, gate[t]) /\ ConversionIsCoherent(gate[t])

\* The status list and the stored status never contradict each other
\* (getPaymentGateTransactions against IPNService).
FailureIsShown ==
  \A t \in Txns : gate[t] # NoDoc => FailureIsCoherent(gate[t])

\* Coins that CoinPayments converted are accounted for by the document or by a
\* handler about to save it; only a crash, a failed handler or an overwritten
\* save can forget them (processComplete converts before it saves).
ConversionIsRecorded ==
  \A t \in converted :
     \/ t \in disturbed
     \/ gate[t] # NoDoc /\ gate[t].convert # "none"
     \/ \E w \in Workers : req[w] # Idle /\ req[w].txn = t /\ req[w].tx.convert # "none"

Undone(t) ==
  /\ gate[t] # NoDoc
  /\ \/ gate'[t] = NoDoc
     \/ gate[t].status = "FAILED" /\ gate'[t].status # "FAILED"
     \/ gate[t].type = "CONVERT" /\ gate'[t].type # "CONVERT"
     \/ ~(gate[t].buyIpns \subseteq gate'[t].buyIpns)

\* A failed payment stays failed, a converted one converted and a recorded IPN
\* recorded, except when a handler saves a document it read before another
\* handler's save (findOne ... await ... save in the three IPN handlers).
OnlyStaleSaveUndoes ==
  [][\A t \in Txns : Undone(t) =>
       \E w \in Workers : Save(w) /\ req[w].txn = t /\ Stale(w)]_vars

\* Coins of a payment that is recorded as failed are converted only by a
\* handler that read the document before the failure was recorded.
NoConversionAfterFailure ==
  [][\A w \in Workers, ok \in BOOLEAN, effect \in BOOLEAN :
       ConvertCoins(w, ok, effect) /\ gate[req[w].txn].status = "FAILED" => Stale(w)]_vars

\* A handler in flight is never left without a next step, whatever the others
\* do to its document: fairness is asked of what is possible.
CanContinue(w) == ENABLED <<Continue(w)>>_vars
NeverStuck     == \A w \in Workers : req[w] # Idle => CanContinue(w)

\* A complete IPN that was accepted ends in a document that records what became
\* of the conversion, unless a crash, a failure or an overlapping handler
\* intervened.
ConversionSettles ==
  \A w \in Workers, t \in Txns :
     (req[w] # Idle /\ req[w].pc = "convert" /\ req[w].txn = t)
       ~> (t \in disturbed \/ (gate[t] # NoDoc /\ gate[t].convert # "none"))

\* "get latest actual ipn response": a failure IPN that was accepted and stored
\* is what the transaction list shows next.
LatestFailureShown ==
  [][\A w \in Workers :
       Save(w) /\ req[w].ipn < 0 => ShowsFailure(gate'[req[w].txn])]_vars

\* A document as a stage of the payment's life.
Stage(d) == IF d = NoDoc THEN "none"
            ELSE IF d.status = "FAILED" THEN "failed"
            ELSE IF d.type = "CONVERT" THEN "converted"
            ELSE "buying"

Lifecycle == INSTANCE PaymentLifecycle WITH payment <- [t \in Txns |-> Stage(gate[t])]

\* Handlers that do not overlap implement the payment lifecycle: a payment is
\* bought, converted, and once failed it stays failed.
ImplementsLifecycle == Lifecycle!Spec
=============================================================================
