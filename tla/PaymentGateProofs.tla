------------------------- MODULE PaymentGateProofs -------------------------
(* Theorems about PaymentGate for any number of transactions, overlapping  *)
(* handlers and IPN statuses.                                              *)
EXTENDS PaymentGate, TLAPS

\* A document the handlers can write, given what CoinPayments has converted.
GoodDoc(done, t, d) ==
  /\ ConversionIsReal(done, t, d)
  /\ ConversionIsCoherent(d)
  /\ FailureIsCoherent(d)

\* What a handler saves undoes nothing of what it read.
Extends(d, e) ==
  /\ d.status = "FAILED" => e.status = "FAILED"
  /\ d.type = "CONVERT" => e.type = "CONVERT"
  /\ d.buyIpns \subseteq e.buyIpns
  /\ e.convert = "none" => d.convert = "none"

\* A handler read a good document and, unless its conversion is still to come,
\* is about to save a good one that extends it.
GoodRequest(done, r) ==
  /\ GoodDoc(done, r.txn, r.read)
  /\ Extends(r.read, r.tx)
  /\ r.pc = "save" => GoodDoc(done, r.txn, r.tx)
  /\ r.pc = "convert" =>
       /\ r.ipn >= 100
       /\ r.read.status \in CompleteAccepts
       /\ r.tx = AfterComplete(r.read, r.ipn)

DocInv == \A t \in Txns : gate[t] # NoDoc => GoodDoc(converted, t, gate[t])

ReqInv == \A w \in Workers : req[w] # Idle => GoodRequest(converted, req[w])

\* A transaction's document is stored once, before any handler works on it.
SavedInv ==
  /\ \A t \in Txns : gate[t] # NoDoc => t \in issued /\ t \notin creating
  /\ \A t \in converted : gate[t] # NoDoc
  /\ \A w \in Workers : req[w] # Idle => gate[req[w].txn] # NoDoc

\* The inductive invariant: a save writes what an earlier step put into the
\* request, so the requests must be as coherent as the documents.
IInv == TypeOK /\ DocInv /\ ReqInv /\ SavedInv /\ ConversionIsRecorded

-----------------------------------------------------------------------------
(* What the handlers do to a document                                      *)

\* processFail and processPending keep a document coherent, provided the
\* status they go by was accepted.
LEMMA FailKeepsDoc ==
  ASSUME NEW done, NEW t \in Txns, NEW d \in Docs, NEW c \in Codes, c < 0, GoodDoc(done, t, d)
  PROVE  /\ AfterFail(d, c) \in Docs
         /\ GoodDoc(done, t, AfterFail(d, c))
         /\ Extends(d, AfterFail(d, c))
<1> DEFINE e == AfterFail(d, c)
<1>1. /\ e \in Docs
      /\ e.type = d.type /\ e.convert = d.convert /\ e.status = "FAILED"
      /\ e.buyIpns = IF d.type = "BUY" THEN d.buyIpns \cup {c} ELSE d.buyIpns
  BY DEF Docs, AfterFail, Pushed
<1>2. ConversionIsReal(done, t, e) /\ ConversionIsCoherent(e)
  BY <1>1 DEF GoodDoc, ConversionIsReal, ConversionIsCoherent
<1>3. FailureIsCoherent(e)
  BY <1>1 DEF Docs, GoodDoc, ConversionIsCoherent, FailureIsCoherent, ShowsFailure
<1>4. Extends(d, e)
  BY <1>1 DEF Extends
<1>5. QED
  BY <1>1, <1>2, <1>3, <1>4 DEF GoodDoc

LEMMA PendingKeepsDoc ==
  ASSUME NEW done, NEW t \in Txns, NEW d \in Docs, NEW c \in Codes, c >= 0, GoodDoc(done, t, d),
         d.status \in PendingAccepts
  PROVE  /\ AfterPending(d, c) \in Docs
         /\ GoodDoc(done, t, AfterPending(d, c))
         /\ Extends(d, AfterPending(d, c))
<1> DEFINE e == AfterPending(d, c)
<1>1. /\ e \in Docs
      /\ e.type = d.type /\ e.convert = d.convert /\ e.status = "PENDING"
      /\ e.buyIpns = IF d.type = "BUY" THEN d.buyIpns \cup {c} ELSE d.buyIpns
  BY DEF Docs, AfterPending, Pushed
<1>2. d.status # "FAILED"
  BY DEF PendingAccepts
<1>3. ConversionIsReal(done, t, e) /\ ConversionIsCoherent(e)
  BY <1>1, <1>2 DEF GoodDoc, ConversionIsReal, ConversionIsCoherent
<1>4. FailureIsCoherent(e)
  <2>1. ~ShowsFailure(e)
    BY <1>1, <1>2, GateConstants DEF GoodDoc, FailureIsCoherent, ShowsFailure
  <2>2. QED
    BY <1>1, <2>1 DEF FailureIsCoherent
<1>5. Extends(d, e)
  BY <1>1, <1>2 DEF Extends
<1>6. QED
  BY <1>1, <1>3, <1>4, <1>5 DEF GoodDoc

\* processComplete pushes the IPN, converts and only then sets type and status.
LEMMA ConvertKeepsDoc ==
  ASSUME NEW done, NEW t \in Txns, NEW d \in Docs, NEW c \in Codes, c >= 100, GoodDoc(done, t, d),
         d.status \in CompleteAccepts, NEW ok \in BOOLEAN, ok => t \in done
  PROVE  LET e == AfterConvert(AfterComplete(d, c), ok)
         IN  /\ e \in Docs
             /\ GoodDoc(done, t, e)
             /\ Extends(d, e)
<1> DEFINE e == AfterConvert(AfterComplete(d, c), ok)
<1>1. /\ e \in Docs
      /\ e.type = IF ok THEN "CONVERT" ELSE d.type
      /\ e.status = IF ok THEN "STARTED" ELSE "FAILED"
      /\ e.convert = IF ok THEN "result" ELSE "error"
      /\ e.buyIpns = d.buyIpns \cup {c}
  BY DEF Docs, AfterComplete, AfterConvert
<1>2. d.status # "FAILED"
  BY DEF CompleteAccepts
<1>3. ConversionIsReal(done, t, e)
  BY <1>1 DEF GoodDoc, ConversionIsReal
<1>4. ConversionIsCoherent(e)
  BY <1>1 DEF ConversionIsCoherent
<1>5. FailureIsCoherent(e)
  <2>1. ~ShowsFailure(e)
    BY <1>1, <1>2, GateConstants DEF GoodDoc, FailureIsCoherent, ShowsFailure
  <2>2. QED
    BY <1>1, <2>1 DEF FailureIsCoherent
<1>6. Extends(d, e)
  BY <1>1, <1>2 DEF Extends
<1>7. QED
  BY <1>1, <1>3, <1>4, <1>5, <1>6 DEF GoodDoc

\* A further conversion at CoinPayments spoils no document.
LEMMA MoreConversions ==
  ASSUME NEW S, NEW T, S \subseteq T, NEW t, NEW d, GoodDoc(S, t, d)
  PROVE  GoodDoc(T, t, d)
BY DEF GoodDoc, ConversionIsReal

LEMMA MoreConversionsRequest ==
  ASSUME NEW S, NEW T, S \subseteq T, NEW r, GoodRequest(S, r)
  PROVE  GoodRequest(T, r)
BY MoreConversions DEF GoodRequest

-----------------------------------------------------------------------------
(* The invariant                                                           *)

\* An accepted IPN puts a well-formed request into an idle worker.
LEMMA AcceptKeepsType ==
  ASSUME TypeOK, NEW w \in Workers, NEW t \in Txns, NEW c \in Codes,
         NEW accepted, NEW pc \in {"convert", "save"}, NEW tx \in Docs,
         Accept(w, t, c, accepted, pc, tx)
  PROVE  TypeOK'
<1>1. gate[t] \in Docs
  BY DEF TypeOK, Accept
<1>2. [pc |-> pc, txn |-> t, ipn |-> c, read |-> gate[t], tx |-> tx] \in Requests
  BY <1>1 DEF Requests
<1>3. QED
  BY <1>2 DEF TypeOK, Accept

\* Every step of the gateway keeps the types.
LEMMA NextKeepsType ==
  ASSUME TypeOK, [Next]_vars
  PROVE  TypeOK'
<1>1. ASSUME NEW t \in Txns, CreateTransaction(t)
      PROVE  TypeOK'
  BY <1>1 DEF TypeOK, CreateTransaction
<1>2. ASSUME NEW t \in Txns, SaveNew(t)
      PROVE  TypeOK'
  <2>1. NewDoc \in Docs
    BY DEF NewDoc, Docs
  <2>2. QED
    BY <1>2, <2>1 DEF TypeOK, SaveNew
<1>3. ASSUME NEW w \in Workers, NEW t \in Txns, NEW c \in Codes, Deliver(w, t, c)
      PROVE  TypeOK'
  <2>1. CASE ProcessFail(w, t, c)
    <3>1. gate[t] \in Docs
      BY <2>1 DEF TypeOK, ProcessFail, Accept
    <3>2. AfterFail(gate[t], c) \in Docs
      BY <3>1 DEF Docs, AfterFail, Pushed
    <3>3. QED
      BY <2>1, <3>2, AcceptKeepsType DEF ProcessFail
  <2>2. CASE ProcessPending(w, t, c)
    <3>1. gate[t] \in Docs
      BY <2>2 DEF TypeOK, ProcessPending, Accept
    <3>2. AfterPending(gate[t], c) \in Docs
      BY <3>1 DEF Docs, AfterPending, Pushed
    <3>3. QED
      BY <2>2, <3>2, AcceptKeepsType DEF ProcessPending
  <2>3. CASE ProcessComplete(w, t, c)
    <3>1. gate[t] \in Docs
      BY <2>3 DEF TypeOK, ProcessComplete, Accept
    <3>2. AfterComplete(gate[t], c) \in Docs
      BY <3>1 DEF Docs, AfterComplete
    <3>3. QED
      BY <2>3, <3>2, AcceptKeepsType DEF ProcessComplete
  <2>4. QED
    BY <1>3, <2>1, <2>2, <2>3 DEF Deliver
<1>4. ASSUME NEW w \in Workers, NEW ok \in BOOLEAN, NEW effect \in BOOLEAN,
             ConvertCoins(w, ok, effect)
      PROVE  TypeOK'
  <2>1. req[w] \in Requests
    BY <1>4 DEF TypeOK, ConvertCoins
  <2>2. AfterConvert(req[w].tx, ok) \in Docs
    BY <2>1 DEF Requests, Docs, AfterConvert
  <2>3. [req[w] EXCEPT !.pc = "save", !.tx = AfterConvert(req[w].tx, ok)] \in Requests
    BY <2>1, <2>2 DEF Requests
  <2>4. req' \in [Workers -> Requests \cup {Idle}]
    BY <1>4, <2>3 DEF TypeOK, ConvertCoins
  <2>5. converted' \in SUBSET Txns
    BY <1>4, <2>1 DEF TypeOK, ConvertCoins, Requests
  <2>6. QED
    BY <1>4, <2>4, <2>5 DEF TypeOK, ConvertCoins
<1>5. ASSUME NEW w \in Workers, Save(w)
      PROVE  TypeOK'
  <2>1. req[w] \in Requests
    BY <1>5 DEF TypeOK, Save
  <2>2. QED
    BY <1>5, <2>1 DEF TypeOK, Save, Requests
<1>6. ASSUME NEW w \in Workers, HandlerFails(w)
      PROVE  TypeOK'
  <2>1. req[w] \in Requests
    BY <1>6 DEF TypeOK, HandlerFails
  <2>2. QED
    BY <1>6, <2>1 DEF TypeOK, HandlerFails, Requests
<1>7. CASE Restart
  BY <1>7 DEF TypeOK, Restart
<1>8. CASE UNCHANGED vars
  BY <1>8 DEF TypeOK, vars
<1>9. QED
  BY <1>1, <1>2, <1>3, <1>4, <1>5, <1>6, <1>7, <1>8 DEF Next

\* The gateway's state keeps its types: documents, requests and the history
\* variables (PaymentGateTransaction, the three IPN handlers).
THEOREM TypeCorrect == Spec => []TypeOK
<1>1. Init => TypeOK
  BY DEF Init, TypeOK
<1>2. TypeOK /\ [Next]_vars => TypeOK'
  BY NextKeepsType
<1>3. QED
  BY <1>1, <1>2, PTL DEF Spec

-----------------------------------------------------------------------------
\* A document is only ever added or replaced by what a request carries.
LEMMA NextKeepsDocs ==
  ASSUME IInv, [Next]_vars
  PROVE  DocInv'
<1> USE DEF IInv
<1>1. ASSUME NEW t \in Txns, SaveNew(t)
      PROVE  DocInv'
  <2>1. GoodDoc(converted, t, NewDoc)
    BY DEF GoodDoc, NewDoc, ConversionIsReal, ConversionIsCoherent,
           FailureIsCoherent, ShowsFailure
  <2>2. QED
    BY <1>1, <2>1 DEF SaveNew, DocInv, TypeOK
<1>2. ASSUME NEW w \in Workers, Save(w)
      PROVE  DocInv'
  <2>1. GoodDoc(converted, req[w].txn, req[w].tx)
    BY <1>2 DEF Save, ReqInv, GoodRequest
  <2>2. QED
    BY <1>2, <2>1 DEF Save, DocInv, TypeOK
<1>3. ASSUME NEW w \in Workers, NEW ok \in BOOLEAN, NEW effect \in BOOLEAN,
             ConvertCoins(w, ok, effect)
      PROVE  DocInv'
  <2>1. converted \subseteq converted' /\ gate' = gate
    BY <1>3 DEF ConvertCoins
  <2>2. QED
    BY <2>1, MoreConversions DEF DocInv
<1>4. CASE UNCHANGED <<gate, converted>>
  BY <1>4 DEF DocInv
<1>5. QED
  BY <1>1, <1>2, <1>3, <1>4
     DEF Next, CreateTransaction, Deliver, ProcessFail, ProcessPending,
         ProcessComplete, Accept, HandlerFails, Restart, vars

\* What a request carries is as good as the document it was read from.
LEMMA NextKeepsRequests ==
  ASSUME IInv, [Next]_vars
  PROVE  ReqInv'
<1> USE DEF IInv
<1>1. ASSUME NEW w \in Workers, NEW t \in Txns, NEW c \in Codes, Deliver(w, t, c)
      PROVE  ReqInv'
  <2>1. /\ gate[t] \in Docs
        /\ GoodDoc(converted, t, gate[t])
        /\ converted' = converted
        /\ req'[w].pc \in {"convert", "save"}
        /\ \A v \in Workers : v # w => req'[v] = req[v]
    BY <1>1 DEF TypeOK, DocInv, Deliver, ProcessFail, ProcessPending,
                ProcessComplete, Accept
  <2>2. GoodRequest(converted, req'[w])
    <3>1. CASE ProcessFail(w, t, c)
      <4>1. req'[w] = [pc |-> "save", txn |-> t, ipn |-> c, read |-> gate[t],
                       tx |-> AfterFail(gate[t], c)]
        BY <3>1 DEF TypeOK, ProcessFail, Accept
      <4>2. QED
        BY <3>1, <2>1, <4>1, FailKeepsDoc DEF GoodRequest, ProcessFail
    <3>2. CASE ProcessPending(w, t, c)
      <4>1. req'[w] = [pc |-> "save", txn |-> t, ipn |-> c, read |-> gate[t],
                       tx |-> AfterPending(gate[t], c)]
        BY <3>2 DEF TypeOK, ProcessPending, Accept
      <4>2. gate[t].status \in PendingAccepts /\ c >= 0
        BY <3>2 DEF ProcessPending, Accept
      <4>3. QED
        BY <2>1, <4>1, <4>2, PendingKeepsDoc DEF GoodRequest
    <3>3. CASE ProcessComplete(w, t, c)
      <4>1. req'[w] = [pc |-> "convert", txn |-> t, ipn |-> c, read |-> gate[t],
                       tx |-> AfterComplete(gate[t], c)]
        BY <3>3 DEF TypeOK, ProcessComplete, Accept
      <4>2. gate[t].status \in CompleteAccepts /\ c >= 100
        BY <3>3 DEF ProcessComplete, Accept
      <4>3. Extends(gate[t], AfterComplete(gate[t], c))
        BY <2>1 DEF AfterComplete, Docs, Extends
      <4>4. QED
        BY <2>1, <4>1, <4>2, <4>3 DEF GoodRequest
    <3>4. QED
      BY <1>1, <3>1, <3>2, <3>3 DEF Deliver
  <2>3. QED
    BY <2>1, <2>2 DEF ReqInv
<1>2. ASSUME NEW w \in Workers, NEW ok \in BOOLEAN, NEW effect \in BOOLEAN,
             ConvertCoins(w, ok, effect)
      PROVE  ReqInv'
  <2> DEFINE r == req[w]
  <2>1. r \in Requests /\ r.pc = "convert" /\ GoodRequest(converted, r)
    BY <1>2 DEF TypeOK, ReqInv, ConvertCoins
  <2>2. /\ converted \subseteq converted'
        /\ ok => r.txn \in converted'
        /\ \A v \in Workers : v # w => req'[v] = req[v]
    BY <1>2 DEF TypeOK, ConvertCoins
  <2>3. req'[w] = [r EXCEPT !.pc = "save", !.tx = AfterConvert(r.tx, ok)]
    BY <1>2 DEF TypeOK, ConvertCoins
  <2>4. /\ r.txn \in Txns /\ r.ipn \in Codes /\ r.read \in Docs
        /\ r.ipn >= 100
        /\ r.read.status \in CompleteAccepts
        /\ r.tx = AfterComplete(r.read, r.ipn)
        /\ GoodDoc(converted', r.txn, r.read)
    BY <2>1, <2>2, MoreConversions DEF Requests, GoodRequest
  <2>5. /\ GoodDoc(converted', r.txn, AfterConvert(r.tx, ok))
        /\ Extends(r.read, AfterConvert(r.tx, ok))
    BY <2>2, <2>4, ConvertKeepsDoc
  <2>6. /\ req'[w].pc = "save" /\ req'[w].txn = r.txn /\ req'[w].read = r.read
        /\ req'[w].tx = AfterConvert(r.tx, ok)
    BY <2>1, <2>3 DEF Requests
  <2>7. GoodRequest(converted', req'[w])
    BY <2>4, <2>5, <2>6 DEF GoodRequest
  <2>8. QED
    BY <2>2, <2>7, MoreConversionsRequest DEF ReqInv
<1>3. ASSUME NEW w \in Workers, Save(w) \/ HandlerFails(w)
      PROVE  ReqInv'
  BY <1>3 DEF Save, HandlerFails, ReqInv, TypeOK
<1>4. CASE Restart
  BY <1>4 DEF Restart, ReqInv
<1>5. CASE UNCHANGED <<req, converted>>
  BY <1>5 DEF ReqInv
<1>6. QED
  BY <1>1, <1>2, <1>3, <1>4, <1>5 DEF Next, CreateTransaction, SaveNew, vars

\* A new document is stored before anything else happens to its transaction.
LEMMA NextKeepsSaved ==
  ASSUME IInv, [Next]_vars
  PROVE  SavedInv'
<1> USE DEF IInv
<1>1. ASSUME NEW t \in Txns, CreateTransaction(t)
      PROVE  SavedInv'
  BY <1>1 DEF CreateTransaction, SavedInv
<1>2. ASSUME NEW t \in Txns, SaveNew(t)
      PROVE  SavedInv'
  <2>1. NewDoc \in Docs
    BY DEF NewDoc, Docs
  <2>2. QED
    BY <1>2, <2>1, GateConstants DEF SaveNew, SavedInv, TypeOK, Requests
<1>3. ASSUME NEW w \in Workers, NEW t \in Txns, NEW c \in Codes, Deliver(w, t, c)
      PROVE  SavedInv'
  <2>1. PICK r : /\ r.txn = t
                 /\ req' = [req EXCEPT ![w] = r]
    BY <1>3 DEF Deliver, ProcessFail, ProcessPending, ProcessComplete, Accept
  <2>2. /\ gate[t] # NoDoc
        /\ UNCHANGED <<gate, issued, creating, converted>>
    BY <1>3 DEF Deliver, ProcessFail, ProcessPending, ProcessComplete, Accept
  <2>3. QED
    BY <2>1, <2>2 DEF SavedInv, TypeOK
<1>4. ASSUME NEW w \in Workers, NEW ok \in BOOLEAN, NEW effect \in BOOLEAN,
             ConvertCoins(w, ok, effect)
      PROVE  SavedInv'
  <2>1. req'[w].txn = req[w].txn
    BY <1>4 DEF ConvertCoins, TypeOK, Requests
  <2>2. QED
    BY <1>4, <2>1 DEF ConvertCoins, SavedInv, TypeOK
<1>5. ASSUME NEW w \in Workers, Save(w)
      PROVE  SavedInv'
  <2>1. req[w].tx \in Docs /\ req[w].txn \in Txns
    BY <1>5 DEF Save, TypeOK, Requests
  <2>2. QED
    BY <1>5, <2>1, GateConstants DEF Save, SavedInv, TypeOK
<1>6. ASSUME NEW w \in Workers, HandlerFails(w)
      PROVE  SavedInv'
  BY <1>6 DEF HandlerFails, SavedInv, TypeOK
<1>7. CASE Restart
  BY <1>7 DEF Restart, SavedInv
<1>8. CASE UNCHANGED vars
  BY <1>8 DEF SavedInv, vars
<1>9. QED
  BY <1>1, <1>2, <1>3, <1>4, <1>5, <1>6, <1>7, <1>8 DEF Next

\* No step forgets a conversion without marking the transaction disturbed.
LEMMA NextKeepsRecord ==
  ASSUME IInv, [Next]_vars
  PROVE  ConversionIsRecorded'
<1> USE DEF IInv
<1>1. ASSUME NEW t \in Txns, CreateTransaction(t)
      PROVE  ConversionIsRecorded'
  BY <1>1 DEF CreateTransaction, ConversionIsRecorded
<1>2. ASSUME NEW t \in Txns, SaveNew(t)
      PROVE  ConversionIsRecorded'
  <2>1. t \notin converted
    BY <1>2 DEF SaveNew, SavedInv
  <2>2. \A u \in Txns \ {t} : gate'[u] = gate[u]
    BY <1>2 DEF SaveNew, TypeOK
  <2>3. QED
    BY <1>2, <2>1, <2>2 DEF SaveNew, ConversionIsRecorded, TypeOK
<1>3. ASSUME NEW w \in Workers, NEW t \in Txns, NEW c \in Codes, Deliver(w, t, c)
      PROVE  ConversionIsRecorded'
  <2>1. /\ req[w] = Idle
        /\ \A v \in Workers : v # w => req'[v] = req[v]
        /\ UNCHANGED <<gate, converted, disturbed>>
    BY <1>3 DEF Deliver, ProcessFail, ProcessPending, ProcessComplete, Accept, TypeOK
  <2>2. QED
    BY <2>1 DEF ConversionIsRecorded
<1>4. ASSUME NEW w \in Workers, NEW ok \in BOOLEAN, NEW effect \in BOOLEAN,
             ConvertCoins(w, ok, effect)
      PROVE  ConversionIsRecorded'
  <2>1. req[w] \in Requests
    BY <1>4 DEF ConvertCoins, TypeOK
  <2>2. /\ req'[w] = [req[w] EXCEPT !.pc = "save", !.tx = AfterConvert(req[w].tx, ok)]
        /\ \A v \in Workers : v # w => req'[v] = req[v]
        /\ converted' \subseteq converted \cup {req[w].txn}
        /\ UNCHANGED <<gate, disturbed>>
    BY <1>4 DEF ConvertCoins, TypeOK
  <2>3. /\ AfterConvert(req[w].tx, ok) \in Docs
        /\ AfterConvert(req[w].tx, ok).convert # "none"
    BY <2>1 DEF AfterConvert, Requests, Docs
  <2>4. /\ req'[w].txn = req[w].txn
        /\ req'[w].tx = AfterConvert(req[w].tx, ok)
        /\ req'[w] \in Requests
    BY <2>1, <2>2, <2>3 DEF Requests
  <2>5. req'[w] # Idle /\ req'[w].tx.convert # "none"
    BY <2>3, <2>4, GateConstants
  <2>6. ASSUME NEW v \in Workers, req[v] # Idle, req[v].tx.convert # "none"
        PROVE  /\ req'[v] # Idle /\ req'[v].txn = req[v].txn
               /\ req'[v].tx.convert # "none"
    BY <2>2, <2>4, <2>5, <2>6
  <2>7. ASSUME NEW t \in converted', t \notin disturbed'
        PROVE  \/ gate'[t] # NoDoc /\ gate'[t].convert # "none"
               \/ \E v \in Workers : /\ req'[v] # Idle /\ req'[v].txn = t
                                     /\ req'[v].tx.convert # "none"
    <3>1. CASE t = req[w].txn
      BY <2>4, <2>5, <3>1
    <3>2. CASE t # req[w].txn
      <4>1. t \in converted /\ t \notin disturbed
        BY <2>2, <2>7, <3>2
      <4>2. QED
        BY <2>2, <2>6, <4>1 DEF ConversionIsRecorded
    <3>3. QED
      BY <3>1, <3>2
  <2>8. QED
    BY <2>7 DEF ConversionIsRecorded
<1>5. ASSUME NEW w \in Workers, Save(w)
      PROVE  ConversionIsRecorded'
  <2>1. req[w] \in Requests /\ req[w].txn \in Txns /\ req[w].tx \in Docs
    BY <1>5 DEF Save, TypeOK, Requests
  <2>2. /\ converted' = converted
        /\ disturbed \subseteq disturbed'
        /\ gate' = [gate EXCEPT ![req[w].txn] = req[w].tx]
        /\ \A v \in Workers : v # w => req'[v] = req[v]
    BY <1>5 DEF Save, TypeOK
  <2>3. SUFFICES ASSUME NEW t \in converted, t \notin disturbed'
                 PROVE  \/ gate'[t] # NoDoc /\ gate'[t].convert # "none"
                        \/ \E v \in Workers : /\ req'[v] # Idle /\ req'[v].txn = t
                                              /\ req'[v].tx.convert # "none"
    BY <2>2 DEF ConversionIsRecorded
  <2>4. t \in Txns /\ t \notin disturbed
    BY <2>2, <2>3 DEF TypeOK
  <2>5. CASE t = req[w].txn
    <3>1. gate'[t] = req[w].tx /\ gate'[t] # NoDoc
      BY <2>1, <2>2, <2>5, GateConstants DEF TypeOK
    <3>2. CASE req[w].tx.convert # "none"
      BY <3>1, <3>2
    <3>3. CASE req[w].tx.convert = "none"
      <4>1. gate[t] = req[w].read
        BY <1>5, <2>3, <2>5 DEF Save, Stale
      <4>2. gate[t].convert = "none"
        BY <1>5, <3>3, <4>1 DEF Save, ReqInv, GoodRequest, Extends
      <4>3. PICK v \in Workers : /\ req[v] # Idle /\ req[v].txn = t
                                 /\ req[v].tx.convert # "none"
        BY <2>4, <4>2 DEF ConversionIsRecorded
      <4>4. v # w
        BY <3>3, <4>3
      <4>5. QED
        BY <2>2, <4>3, <4>4
    <3>4. QED
      BY <3>2, <3>3
  <2>6. CASE t # req[w].txn
    <3>1. gate'[t] = gate[t]
      BY <2>1, <2>2, <2>4, <2>6 DEF TypeOK
    <3>2. QED
      BY <2>2, <2>4, <2>6, <3>1 DEF ConversionIsRecorded
  <2>7. QED
    BY <2>5, <2>6
<1>6. ASSUME NEW w \in Workers, HandlerFails(w)
      PROVE  ConversionIsRecorded'
  <2>1. /\ UNCHANGED <<gate, converted>>
        /\ disturbed' = disturbed \cup {req[w].txn}
        /\ \A v \in Workers : v # w => req'[v] = req[v]
    BY <1>6 DEF HandlerFails, TypeOK
  <2>2. QED
    BY <2>1 DEF ConversionIsRecorded
<1>7. CASE Restart
  BY <1>7 DEF Restart, ConversionIsRecorded, Busy, TypeOK
<1>8. CASE UNCHANGED vars
  BY <1>8 DEF ConversionIsRecorded, vars
<1>9. QED
  BY <1>1, <1>2, <1>3, <1>4, <1>5, <1>6, <1>7, <1>8 DEF Next

\* A document is written by nothing but the two saves.
LEMMA OnlySavesWrite ==
  ASSUME [Next]_vars
  PROVE  gate' = gate \/ (\E t \in Txns : SaveNew(t)) \/ (\E w \in Workers : Save(w))
<1>1. ASSUME NEW w \in Workers, NEW t \in Txns, NEW c \in Codes, Deliver(w, t, c)
      PROVE  gate' = gate
  BY <1>1 DEF Deliver, ProcessFail, ProcessPending, ProcessComplete, Accept
<1>2. ASSUME NEW t \in Txns, CreateTransaction(t)
      PROVE  gate' = gate
  BY <1>2 DEF CreateTransaction
<1>3. ASSUME NEW w \in Workers, NEW ok \in BOOLEAN, NEW effect \in BOOLEAN, ConvertCoins(w, ok, effect)
      PROVE  gate' = gate
  BY <1>3 DEF ConvertCoins
<1>4. ASSUME NEW w \in Workers, HandlerFails(w)
      PROVE  gate' = gate
  BY <1>4 DEF HandlerFails
<1>5. Restart \/ UNCHANGED vars => gate' = gate
  BY DEF Restart, vars
<1>6. QED
  BY <1>1, <1>2, <1>3, <1>4, <1>5, Zenon DEF Next

\* The invariant holds of every behaviour.
LEMMA Invariance == Spec => []IInv
<1>1. Init => IInv
  BY DEF Init, IInv, TypeOK, DocInv, ReqInv, SavedInv, ConversionIsRecorded
<1>2. IInv /\ [Next]_vars => IInv'
  <2>1. IInv /\ [Next]_vars => TypeOK'
    BY NextKeepsType DEF IInv
  <2>2. QED
    BY <2>1, NextKeepsDocs, NextKeepsRequests, NextKeepsSaved, NextKeepsRecord DEF IInv
<1>3. QED
  BY <1>1, <1>2, PTL DEF Spec

-----------------------------------------------------------------------------
(* What follows from it                                                    *)

\* No interleaving of handlers stores a document that claims a conversion that
\* did not happen or mixes two outcomes.
THEOREM DocumentsStayCoherent == Spec => []DocumentsCoherent
<1>1. IInv => DocumentsCoherent
  BY DEF IInv, DocInv, GoodDoc, DocumentsCoherent
<1>2. QED
  BY <1>1, Invariance, PTL

\* The status shown to the investor and the one the handlers go by agree.
THEOREM FailuresStayShown == Spec => []FailureIsShown
<1>1. IInv => FailureIsShown
  BY DEF IInv, DocInv, GoodDoc, FailureIsShown
<1>2. QED
  BY <1>1, Invariance, PTL

\* Converted coins are forgotten only by a crash, a failed or a stale save.
THEOREM ConversionsStayRecorded == Spec => []ConversionIsRecorded
<1>1. IInv => ConversionIsRecorded
  BY DEF IInv
<1>2. QED
  BY <1>1, Invariance, PTL

\* Coins of a failed payment are converted only on stale data.
THEOREM FailedPaymentsNotConverted == Spec => NoConversionAfterFailure
<1>1. ASSUME IInv, [Next]_vars, NEW w \in Workers, NEW ok \in BOOLEAN,
             NEW effect \in BOOLEAN, ConvertCoins(w, ok, effect),
             gate[req[w].txn].status = "FAILED"
      PROVE  Stale(w)
  <2>1. req[w].read.status \in CompleteAccepts
    BY <1>1 DEF IInv, ReqInv, GoodRequest, ConvertCoins
  <2>2. QED
    BY <1>1, <2>1 DEF Stale, CompleteAccepts
<1>2. IInv /\ [Next]_vars
        => [\A w \in Workers, ok \in BOOLEAN, effect \in BOOLEAN :
              ConvertCoins(w, ok, effect) /\ gate[req[w].txn].status = "FAILED"
                => Stale(w)]_vars
  BY <1>1
<1>3. QED
  BY <1>2, Invariance, PTL DEF Spec, NoConversionAfterFailure

\* A failure, a conversion or a recorded IPN is undone only by a stale save.
THEOREM UndoneOnlyByStaleSaves == Spec => OnlyStaleSaveUndoes
<1>1. ASSUME IInv, Next, NEW t \in Txns, Undone(t)
      PROVE  \E w \in Workers : Save(w) /\ req[w].txn = t /\ Stale(w)
  <2>1. gate'[t] # gate[t] /\ gate[t] # NoDoc
    BY <1>1 DEF Undone
  <2>2. ASSUME NEW u \in Txns, SaveNew(u)
        PROVE  FALSE
    BY <1>1, <2>1, <2>2 DEF SaveNew, IInv, SavedInv, TypeOK
  <2>3. PICK w \in Workers : Save(w)
    <3>1. gate' # gate
      BY <2>1
    <3>2. QED
      BY <1>1, <2>2, <3>1, OnlySavesWrite, Zenon
  <2>4. /\ req[w] \in Requests /\ req[w].tx \in Docs
        /\ GoodRequest(converted, req[w])
        /\ gate' = [gate EXCEPT ![req[w].txn] = req[w].tx]
    BY <2>3 , <1>1 DEF IInv, TypeOK, ReqInv, Save, Requests
  <2>5. req[w].txn = t /\ gate'[t] = req[w].tx
    BY <1>1, <2>1, <2>4 DEF IInv, TypeOK
  <2>6. Stale(w)
    <3>1. SUFFICES ASSUME gate[t] = req[w].read
                   PROVE  FALSE
      BY <2>5 DEF Stale
    <3>2. Extends(gate[t], gate'[t])
      BY <2>4, <2>5, <3>1 DEF GoodRequest
    <3>3. gate'[t] # NoDoc
      BY <2>4, <2>5, GateConstants
    <3>4. QED
      BY <1>1, <3>2, <3>3 DEF Undone, Extends
  <2>7. QED
    BY <2>3, <2>5, <2>6
<1>2. IInv /\ [Next]_vars
        => [\A t \in Txns : Undone(t) =>
              \E w \in Workers : Save(w) /\ req[w].txn = t /\ Stale(w)]_vars
  BY <1>1
<1>3. QED
  BY <1>2, Invariance, PTL DEF Spec, OnlyStaleSaveUndoes

-----------------------------------------------------------------------------
(* Refinement                                                              *)

Stages == [t \in Txns |-> Stage(gate[t])]

\* Every step moves a payment along its life, or saves a stale document.
LEMMA StepFollowsLifecycle ==
  ASSUME IInv, [Next]_vars
  PROVE  \/ Lifecycle!Next \/ Stages' = Stages
         \/ \E w \in Workers : Save(w) /\ Stale(w)
<1> USE DEF Stages
<1>1. ASSUME NEW t \in Txns, NEW e \in Docs, gate' = [gate EXCEPT ![t] = e]
      PROVE  Stages' = [Stages EXCEPT ![t] = Stage(e)]
  BY <1>1 DEF IInv, TypeOK
<1>2. ASSUME NEW t \in Txns, SaveNew(t)
      PROVE  Lifecycle!Open(t)
  <2>1. Stages[t] = "none"
    BY <1>2 DEF SaveNew, IInv, SavedInv, Stage
  <2>2. NewDoc \in Docs /\ Stage(NewDoc) = "buying"
    BY GateConstants DEF NewDoc, Docs, Stage
  <2>3. Stages' = [Stages EXCEPT ![t] = "buying"]
    BY <1>1, <1>2, <2>2 DEF SaveNew
  <2>4. QED
    BY <2>1, <2>3 DEF Lifecycle!Open, Lifecycle!Move
<1>3. ASSUME NEW w \in Workers, Save(w), ~Stale(w)
      PROVE  Lifecycle!Next \/ Stages' = Stages
  <2> DEFINE t == req[w].txn
             d == req[w].read
             e == req[w].tx
  <2>1. t \in Txns /\ d \in Docs /\ e \in Docs
    BY <1>3 DEF Save, IInv, TypeOK, Requests
  <2>2. gate[t] = d /\ Extends(d, e)
    BY <1>3 DEF Save, Stale, IInv, ReqInv, GoodRequest
  <2>3. Stages[t] = Stage(d) /\ Stages' = [Stages EXCEPT ![t] = Stage(e)]
    BY <1>1, <1>3, <2>1, <2>2 DEF Save
  <2>4. d # NoDoc /\ e # NoDoc
    BY <2>1, GateConstants
  <2>5. CASE Stage(e) = "failed"
    <3>1. Stage(d) \in Lifecycle!States \ {"none"}
      BY <2>4 DEF Stage, Lifecycle!States
    <3>2. Lifecycle!Fail(t)
      BY <2>3, <2>5, <3>1 DEF Lifecycle!Fail, Lifecycle!Move
    <3>3. QED
      BY <2>1, <3>2 DEF Lifecycle!Next
  <2>6. CASE Stage(e) = "converted"
    <3>1. Stage(d) \in {"buying", "converted"}
      BY <2>2, <2>4, <2>6 DEF Stage, Extends
    <3>2. Lifecycle!Convert(t)
      BY <2>3, <2>6, <3>1 DEF Lifecycle!Convert, Lifecycle!Move
    <3>3. QED
      BY <2>1, <3>2 DEF Lifecycle!Next
  <2>7. CASE Stage(e) = "buying"
    <3>1. Stage(d) = "buying"
      BY <2>2, <2>4, <2>7 DEF Stage, Extends
    <3>2. Stages' = Stages
      BY <2>1, <2>3, <2>7, <3>1
    <3>3. QED
      BY <3>2
  <2>8. QED
    BY <2>4, <2>5, <2>6, <2>7 DEF Stage
<1>4. CASE gate' = gate
  BY <1>4
<1>5. QED
  BY <1>2, <1>3, <1>4, OnlySavesWrite DEF Lifecycle!Next

\* However many handlers overlap, the gateway departs from PaymentLifecycle
\* only in a step that saves a document another handler has changed meanwhile
\* (findOne ... await ... save in the three IPN handlers).
THEOREM OnlyStaleSavesLeaveLifecycle ==
  Spec => /\ Lifecycle!Init
          /\ [][Lifecycle!Next \/ \E w \in Workers : Save(w) /\ Stale(w)]_Stages
<1>1. Init => Lifecycle!Init
  BY DEF Init, Lifecycle!Init, Stage
<1>2. IInv /\ [Next]_vars
        => [Lifecycle!Next \/ \E w \in Workers : Save(w) /\ Stale(w)]_Stages
  BY StepFollowsLifecycle
<1>3. QED
  BY <1>1, <1>2, Invariance, PTL DEF Spec

OneWorker == \A v, w \in Workers : v = w

FreshInv == \A w \in Workers : req[w] # Idle => ~Stale(w)

\* A single handler always saves what it read.
LEMMA AlwaysFresh ==
  ASSUME OneWorker
  PROVE  Spec => []FreshInv
<1>1. Init => FreshInv
  BY DEF Init, FreshInv
<1>2. ASSUME IInv, FreshInv, [Next]_vars
      PROVE  FreshInv'
  <2>1. ASSUME NEW t \in Txns, SaveNew(t)
        PROVE  FreshInv'
    <3>1. \A w \in Workers : req[w] # Idle => req[w].txn # t
      BY <1>2, <2>1 DEF SaveNew, IInv, SavedInv, TypeOK
    <3>2. QED
      BY <1>2, <2>1, <3>1 DEF SaveNew, IInv, TypeOK, FreshInv, Stale
  <2>2. ASSUME NEW w \in Workers, NEW t \in Txns, NEW c \in Codes, Deliver(w, t, c)
        PROVE  FreshInv'
    <3>1. gate' = gate /\ req'[w].txn = t /\ req'[w].read = gate[t]
      BY <1>2, <2>2 DEF Deliver, ProcessFail, ProcessPending, ProcessComplete,
                        Accept, IInv, TypeOK
    <3>2. QED
      BY <3>1 DEF OneWorker, FreshInv, Stale
  <2>3. ASSUME NEW w \in Workers, NEW ok \in BOOLEAN, NEW effect \in BOOLEAN,
               ConvertCoins(w, ok, effect)
        PROVE  FreshInv'
    <3>1. /\ gate' = gate /\ req[w] # Idle
          /\ req'[w].txn = req[w].txn /\ req'[w].read = req[w].read
      BY <1>2, <2>3 DEF ConvertCoins, IInv, TypeOK, Requests
    <3>2. QED
      BY <1>2, <3>1 DEF OneWorker, FreshInv, Stale
  <2>4. ASSUME NEW w \in Workers, Save(w) \/ HandlerFails(w)
        PROVE  FreshInv'
    <3>1. req'[w] = Idle
      BY <1>2, <2>4 DEF Save, HandlerFails, IInv, TypeOK
    <3>2. QED
      BY <3>1 DEF OneWorker, FreshInv
  <2>5. CASE Restart
    BY <2>5 DEF Restart, FreshInv
  <2>6. CASE UNCHANGED <<gate, req>>
    BY <1>2, <2>6 DEF FreshInv, Stale
  <2>7. QED
    BY <1>2, <2>1, <2>2, <2>3, <2>4, <2>5, <2>6 DEF Next, CreateTransaction, vars
<1>3. QED
  BY <1>1, <1>2, Invariance, PTL DEF Spec

\* With one handler at a time the gateway implements PaymentLifecycle: the
\* promise fails only through the overlap of handlers.
THEOREM SerialImplementsLifecycle ==
  ASSUME OneWorker
  PROVE  Spec => ImplementsLifecycle
<1>1. Init => Lifecycle!Init
  BY DEF Init, Lifecycle!Init, Stage
<1>2. ASSUME IInv, FreshInv, [Next]_vars
      PROVE  [Lifecycle!Next]_Stages
  <2>1. \A w \in Workers : Save(w) => ~Stale(w)
    BY <1>2 DEF FreshInv, Save
  <2>2. QED
    BY <1>2, <2>1, StepFollowsLifecycle
<1>3. QED
  BY <1>1, <1>2, Invariance, AlwaysFresh, PTL DEF Spec, ImplementsLifecycle, Lifecycle!Spec, Stages

-----------------------------------------------------------------------------
(* Progress                                                                *)

Converting(w, t) == req[w] # Idle /\ req[w].pc = "convert" /\ req[w].txn = t
Recording(w, t)  == req[w] # Idle /\ req[w].pc = "save" /\ req[w].txn = t /\ req[w].tx.convert # "none"
Settled(t)       == t \in disturbed \/ (gate[t] # NoDoc /\ gate[t].convert # "none")

\* What fairness comes to where a handler in flight can always continue.
Goes(w) == []<>(req[w] = Idle) \/ []<><<Continue(w)>>_vars

LEMMA FairGoes ==
  ASSUME NEW w \in Workers
  PROVE  Fair(w) /\ []NeverStuck => Goes(w)
<1>1. NeverStuck => (req[w] = Idle \/ CanContinue(w))
  BY DEF NeverStuck
<1>2. QED
  BY <1>1, PTL DEF Fair, Goes, CanContinue

\* Until it has recorded its conversion a handler changes by its own steps
\* only, or is disturbed.
LEMMA ConversionSteps ==
  ASSUME IInv, [Next]_vars, NEW w \in Workers, NEW t \in Txns
  PROVE  /\ Converting(w, t) => Converting(w, t)' \/ Recording(w, t)' \/ Settled(t)'
         /\ Converting(w, t) /\ Continue(w) => Recording(w, t)' \/ Settled(t)'
         /\ Recording(w, t) => Recording(w, t)' \/ Settled(t)'
         /\ Recording(w, t) /\ Continue(w) => Settled(t)'
<1> USE DEF Converting, Recording, Settled
<1>1. TypeOK
  BY DEF IInv
<1>2. ASSUME NEW ok \in BOOLEAN, NEW effect \in BOOLEAN, ConvertCoins(w, ok, effect), Converting(w, t)
      PROVE  Recording(w, t)'
  <2>1. req[w] \in Requests
    BY <1>1, <1>2 DEF TypeOK
  <2>2. req'[w] = [req[w] EXCEPT !.pc = "save", !.tx = AfterConvert(req[w].tx, ok)]
    BY <1>1, <1>2 DEF TypeOK, ConvertCoins
  <2>3. req'[w].pc = "save" /\ req'[w].txn = t /\ req'[w].tx = AfterConvert(req[w].tx, ok)
    BY <1>2, <2>1, <2>2 DEF Requests
  <2>4. AfterConvert(req[w].tx, ok).convert # "none"
    BY <2>1 DEF Requests, Docs, AfterConvert
  <2>5. AfterConvert(req[w].tx, ok) \in Docs
    BY <2>1 DEF Requests, Docs, AfterConvert
  <2>6. req'[w] \in Requests
    BY <2>1, <2>2, <2>5 DEF Requests
  <2>7. QED
    BY <2>3, <2>4, <2>6, GateConstants
<1>3. ASSUME Save(w), Recording(w, t)
      PROVE  Settled(t)'
  <2>1. req[w] \in Requests
    BY <1>1, <1>3 DEF TypeOK
  <2>2. gate'[t] = req[w].tx /\ req[w].tx \in Docs
    BY <1>1, <1>3, <2>1 DEF TypeOK, Save, Requests
  <2>3. QED
    BY <1>3, <2>2, GateConstants
<1>4. ASSUME NEW v \in Workers, v # w,
             \/ \E u \in Txns, c \in Codes : Deliver(v, u, c)
             \/ \E ok \in BOOLEAN, effect \in BOOLEAN : ConvertCoins(v, ok, effect)
             \/ Save(v)
             \/ HandlerFails(v)
      PROVE  req'[w] = req[w]
  BY <1>1, <1>4 DEF TypeOK, Deliver, ProcessFail, ProcessPending, ProcessComplete, Accept,
                    ConvertCoins, Save, HandlerFails
<1>5. ASSUME HandlerFails(w) \/ Restart, Converting(w, t) \/ Recording(w, t)
      PROVE  Settled(t)'
  BY <1>5 DEF HandlerFails, Restart, Busy
<1>6. ASSUME NEW u \in Txns, NEW c \in Codes, Deliver(w, u, c)
      PROVE  req[w] = Idle
  BY <1>6 DEF Deliver, ProcessFail, ProcessPending, ProcessComplete, Accept
<1>7. ASSUME NEW u \in Txns, CreateTransaction(u) \/ SaveNew(u)
      PROVE  req' = req
  BY <1>7 DEF CreateTransaction, SaveNew
<1>8. UNCHANGED vars => req' = req
  BY DEF vars
<1>9. /\ Converting(w, t) => ~Save(w)
      /\ Recording(w, t) => \A ok \in BOOLEAN, effect \in BOOLEAN : ~ConvertCoins(w, ok, effect)
  BY DEF Save, ConvertCoins
<1>10. \/ req'[w] = req[w]
       \/ req[w] = Idle
       \/ HandlerFails(w) \/ Restart
       \/ \E ok \in BOOLEAN, effect \in BOOLEAN : ConvertCoins(w, ok, effect)
       \/ Save(w)
  BY <1>4, <1>6, <1>7, <1>8, Zenon DEF Next
<1>11. QED
  BY <1>2, <1>3, <1>5, <1>9, <1>10 DEF Continue

\* A conversion that was begun is recorded in the end, for any number of
\* handlers.  That a handler in flight can continue (NeverStuck) is a premise,
\* for the prover does not know ENABLED: the guards of ConvertCoins and Save
\* speak of the handler alone, and each changes it.
THEOREM ConversionsSettle == FairSpec /\ []NeverStuck => ConversionSettles
<1>1. ASSUME NEW w \in Workers, NEW t \in Txns
      PROVE  Spec /\ []NeverStuck /\ Fair(w) => (Converting(w, t) ~> Settled(t))
  <2>1. IInv /\ [Next]_vars /\ Converting(w, t)
          => Converting(w, t)' \/ Recording(w, t)' \/ Settled(t)'
    BY ConversionSteps
  <2>2. IInv /\ [Next]_vars /\ Converting(w, t) /\ <<Continue(w)>>_vars
          => Recording(w, t)' \/ Settled(t)'
    BY ConversionSteps
  <2>3. IInv /\ [Next]_vars /\ Recording(w, t) => Recording(w, t)' \/ Settled(t)'
    BY ConversionSteps
  <2>4. IInv /\ [Next]_vars /\ Recording(w, t) /\ <<Continue(w)>>_vars => Settled(t)'
    BY ConversionSteps
  <2>5. req[w] = Idle => ~Converting(w, t) /\ ~Recording(w, t)
    BY DEF Converting, Recording
  <2>6. Fair(w) /\ []NeverStuck => Goes(w)
    BY FairGoes
  <2>7. QED
    BY <2>1, <2>2, <2>3, <2>4, <2>5, <2>6, Invariance, PTL DEF Spec, Goes
<1>2. QED
  BY <1>1 DEF FairSpec, ConversionSettles, Converting, Settled
=============================================================================
