---------------------------- MODULE InvestProofs ----------------------------
(* Theorems about Invest for any number of investors, tokens,              *)
(* verifications, amounts and overlapping handlers.                        *)
EXTENDS Invest, FiniteSetTheorems, TLAPS

\* The verification a handler goes by is the one it has compared, and an
\* investing handler has asked the whitelist.
GoodRequest(r) ==
  /\ ver[r.id] # None
  /\ ver[r.id].consumer = r.user
  /\ ver[r.id].payload = r.payload
  /\ r.op = "login" => /\ r.payload = Login
                       /\ tokens[r.token] # None
                       /\ tokens[r.token].ver = r.id
                       /\ tokens[r.token].user = r.user
  /\ r.op = "invest" => /\ \E a \in Amounts : r.payload = Investment(a)
                        /\ Cleared(r.user)
  /\ r.pc \in {"accepted", "funded", "rejected", "hung"} => r.id \in confirmed
  /\ r.pc \in {"funded", "rejected", "hung"} => r.op = "invest"
  /\ r.pc = "rejected" => Cost(r.payload.amount) > r.seen

ReqInv == \A w \in Workers : req[w] # None => GoodRequest(req[w])

\* A token keeps the verification it was issued with.
TokenInv ==
  \A t \in Tokens :
    tokens[t] # None /\ tokens[t].ver # None =>
      LET i == tokens[t].ver IN
      /\ ver[i] # None
      /\ ver[i].consumer = tokens[t].user
      /\ ver[i].payload = Login

IssuedInv == \A i \in confirmed : ver[i] # None

\* A wallet can pay for its unmined transaction.
PayableInv == \A u \in Users : pending[u] # None => Cost(pending[u].amount) <= balance[u]

IInv == /\ TypeOK /\ PayableInv /\ ReqInv /\ TokenInv /\ IssuedInv
        /\ OpensByOwnCode /\ InvestedAsConfirmed

-----------------------------------------------------------------------------
(* Types                                                                   *)

LEMMA CostType == \A a \in Amounts : Cost(a) \in Nat /\ Fee <= Cost(a)
<1>1. Amounts \subseteq Nat
  BY VerificationConstants
<1>2. Fee \in Nat
  BY InvestConstants
<1>3. QED
  BY <1>1, <1>2 DEF Cost

\* The verification service and the handlers, as Validate, Expire and Fail
\* leave them.
LEMMA ServiceTyped ==
  ASSUME VerificationTypeOK, \A w \in Workers : req[w] # None => ver[req[w].id] # None,
         (\E w \in Workers : Validate(w)) \/ (\E i \in Ids : Expire(i))
           \/ (\E W \in SUBSET Workers : Fail(W))
  PROVE  VerificationTypeOK'
<1> USE DEF VerificationTypeOK
<1>1. ASSUME NEW w \in Workers, RightCode(w)
      PROVE  VerificationTypeOK'
  <2>1. req[w] \in Requests /\ req[w].id \in Ids /\ ver[req[w].id] \in Verifications
    BY <1>1 DEF RightCode, At, Requests
  <2>2. ver' \in [Ids -> Verifications \cup {None}]
    <3>1. (~OneTime) \in BOOLEAN
      OBVIOUS
    <3>2. QED
      BY <1>1, <2>1, <3>1 DEF RightCode, Verifications
  <2>3. req' \in [Workers -> Requests \cup {None}]
    BY <1>1, <2>1 DEF RightCode, Goto, Requests
  <2>4. QED
    BY <1>1, <2>1, <2>2, <2>3 DEF RightCode
<1>2. ASSUME NEW w \in Workers, WrongCode(w)
      PROVE  VerificationTypeOK'
  <2>1. req[w] \in Requests /\ req[w].id \in Ids /\ ver[req[w].id] \in Verifications
    BY <1>2 DEF WrongCode, At, Requests
  <2>2. ver' \in [Ids -> Verifications \cup {None}]
    BY <1>2, <2>1 DEF WrongCode, Verifications
  <2>3. req' \in [Workers -> Requests \cup {None}]
    BY <1>2, <2>1 DEF WrongCode, Goto, Answer, Requests
  <2>4. QED
    BY <1>2, <2>2, <2>3 DEF WrongCode
<1>3. ASSUME NEW w \in Workers, NotFound(w)
      PROVE  VerificationTypeOK'
  BY <1>3 DEF NotFound, Answer, service
<1>4. ASSUME NEW w \in Workers, InvalidateVerification(w)
      PROVE  VerificationTypeOK'
  <2>1. req[w] \in Requests /\ req[w].id \in Ids /\ ver[req[w].id] \in Verifications
    BY <1>4 DEF InvalidateVerification, At, Requests
  <2>2. ver' \in [Ids -> Verifications \cup {None}]
    BY <1>4, <2>1 DEF InvalidateVerification, Verifications
  <2>3. QED
    BY <1>4, <2>2 DEF InvalidateVerification, Answer
<1>5. ASSUME NEW i \in Ids, Expire(i)
      PROVE  VerificationTypeOK'
  BY <1>5 DEF Expire, Verifications
<1>6. ASSUME NEW W \in SUBSET Workers, Fail(W)
      PROVE  VerificationTypeOK'
  <2>1. Undeleted(W) \subseteq Ids
    BY DEF Undeleted, At, Requests
  <2>2. QED
    BY <1>6, <2>1 DEF Fail
<1>7. QED
  BY <1>1, <1>2, <1>3, <1>4, <1>5, <1>6 DEF Validate

LEMMA TypeStep ==
  ASSUME IInv, Next
  PROVE  TypeOK' /\ PayableInv'
<1> USE DEF TypeOK, PayableInv
<1>0. /\ VerificationTypeOK /\ SessionTypeOK /\ TypeOK /\ PayableInv
      /\ \A w \in Workers : req[w] # None => req[w] \in Requests /\ ver[req[w].id] # None
  BY DEF IInv, ReqInv, GoodRequest, VerificationTypeOK
<1> DEFINE Same == UNCHANGED <<allowed, referred, balance, pending, spent>>
<1>1. ASSUME Same, VerificationTypeOK', SessionTypeOK'
      PROVE  TypeOK' /\ PayableInv'
  BY <1>0, <1>1
<1>2. ASSUME NEW i \in Ids, NEW u \in Users, NEW p \in Payloads, Issue(i, u, p),
             UNCHANGED <<confirmed, req, disturbed>>
      PROVE  VerificationTypeOK'
  <2>1. [consumer |-> u, payload |-> p, wrong |-> 0, open |-> TRUE] \in Verifications
    BY DEF Verifications
  <2>2. QED
    BY <1>0, <1>2, <2>1 DEF Issue, VerificationTypeOK
<1>3. ASSUME NEW w \in Workers, NEW r \in Requests, Begin(w, r), UNCHANGED service
      PROVE  VerificationTypeOK'
  BY <1>0, <1>3 DEF Begin, service, VerificationTypeOK
<1>4. ASSUME NEW w \in Workers, req[w] # None, UNCHANGED service,
             \/ Answer(w)
             \/ Goto(w, "funded")
             \/ Goto(w, "hung")
             \/ req' = [req EXCEPT ![w].pc = "rejected", ![w].seen = balance[req[w].user]]
      PROVE  VerificationTypeOK'
  <2>1. req[w] \in Requests /\ balance[req[w].user] \in Nat
    BY <1>0, <1>4 DEF Requests
  <2>2. req' \in [Workers -> Requests \cup {None}]
    BY <1>0, <1>4, <2>1 DEF VerificationTypeOK, Answer, Goto, Requests
  <2>3. QED
    BY <1>0, <1>4, <2>2 DEF VerificationTypeOK, service
<1>5. Login \in Payloads /\ Other \in Payloads /\ \A a \in Amounts : Investment(a) \in Payloads
  BY DEF Payloads
<1>6. ASSUME NEW u \in Users, Chain(u)
      PROVE  TypeOK' /\ PayableInv'
  <2>1. CASE AddToWhiteList(u)
    BY <1>0, <2>1 DEF AddToWhiteList, service, wallets, VerificationTypeOK, SessionTypeOK
  <2>2. CASE AddReferral(u)
    BY <1>0, <2>2, InvestConstants DEF AddReferral, service, wallets, VerificationTypeOK, SessionTypeOK
  <2>3. ASSUME NEW b \in 0..MaxBalance, Move(u, b)
        PROVE  TypeOK' /\ PayableInv'
    <3>1. VerificationTypeOK' /\ SessionTypeOK'
      BY <1>0, <2>3 DEF Move, service, VerificationTypeOK, SessionTypeOK
    <3>2. b \in Nat
      BY InvestConstants
    <3>3. PayableInv'
      <4>1. ASSUME NEW v \in Users, pending[v] # None
            PROVE  Cost(pending[v].amount) <= balance'[v]
        <5>1. Cost(pending[v].amount) \in Nat
          BY <1>0, <4>1, CostType DEF Sent
        <5>2. balance[v] \in Nat /\ Cost(pending[v].amount) <= balance[v]
          BY <1>0, <4>1
        <5>3. CASE v = u
          BY <1>0, <2>3, <3>2, <4>1, <5>1, <5>2, <5>3 DEF Move
        <5>4. CASE v # u
          BY <1>0, <2>3, <5>2, <5>4 DEF Move
        <5>5. QED
          BY <5>3, <5>4
      <4>2. QED
        BY <2>3, <4>1 DEF Move
    <3>4. QED
      BY <1>0, <2>3, <3>1, <3>2, <3>3 DEF Move, contract
  <2>4. ASSUME NEW taken \in BOOLEAN, Mine(u, taken)
        PROVE  TypeOK' /\ PayableInv'
    <3> DEFINE c == IF taken THEN Cost(pending[u].amount) ELSE Fee
    <3>1. VerificationTypeOK' /\ SessionTypeOK'
      BY <1>0, <2>4 DEF Mine, service, VerificationTypeOK, SessionTypeOK
    <3>2. pending[u].amount \in Amounts /\ Cost(pending[u].amount) <= balance[u]
      BY <1>0, <2>4 DEF Mine, Sent
    <3>3. /\ Cost(pending[u].amount) \in Nat /\ Fee <= Cost(pending[u].amount)
          /\ balance[u] \in Nat /\ Fee \in Nat
      BY <1>0, <3>2, CostType, InvestConstants
    <3>4. balance[u] - c \in Nat
      BY <3>2, <3>3
    <3>5. balance' = [balance EXCEPT ![u] = balance[u] - c]
      BY <2>4 DEF Mine
    <3>6. balance' \in [Users -> Nat]
      BY <1>0, <3>4, <3>5
    <3>7. PayableInv'
      BY <1>0, <2>4, <3>5 DEF Mine
    <3>8. QED
      BY <1>0, <2>4, <3>1, <3>6, <3>7 DEF Mine, contract
  <2>5. QED
    BY <1>6, <2>1, <2>2, <2>3, <2>4 DEF Chain
<1>7. CASE SignIn
  <2>1. Same
    BY <1>7 DEF SignIn, contract, wallets
  <2>2. ASSUME NEW u \in Users, NEW t \in Tokens, NEW i \in Ids, NEW stored \in BOOLEAN,
               InitiateLogin(u, t, i, stored)
        PROVE  VerificationTypeOK' /\ SessionTypeOK'
    <3>1. [user |-> u, verified |-> FALSE, ver |-> i] \in TokenDocs
      BY DEF TokenDocs
    <3>2. QED
      BY <1>0, <1>2, <1>5, <2>2, <3>1 DEF InitiateLogin, SessionTypeOK
  <2>3. ASSUME NEW u \in Users, NEW i \in Ids, InitiateOther(u, i)
        PROVE  VerificationTypeOK' /\ SessionTypeOK'
    BY <1>0, <1>2, <1>5, <2>3 DEF InitiateOther, SessionTypeOK
  <2>4. ASSUME NEW u \in Users, NEW t \in Tokens, HandOut(u, t)
        PROVE  VerificationTypeOK' /\ SessionTypeOK'
    <3>1. [user |-> u, verified |-> TRUE, ver |-> None] \in TokenDocs
      BY DEF TokenDocs
    <3>2. QED
      BY <1>0, <2>4, <3>1 DEF HandOut, service, VerificationTypeOK, SessionTypeOK
  <2>5. ASSUME NEW w \in Workers, NEW t \in Tokens, NEW i \in Ids, VerifyLogin(w, t, i)
        PROVE  VerificationTypeOK' /\ SessionTypeOK'
    <3>1. tokens[t] \in TokenDocs
      BY <1>0, <2>5 DEF VerifyLogin, SessionTypeOK
    <3>2. [op |-> "login", pc |-> "validate", user |-> tokens[t].user, token |-> t,
           id |-> i, payload |-> Login, seen |-> 0] \in Requests
      BY <1>5, <3>1 DEF Requests, TokenDocs
    <3>3. QED
      BY <1>0, <1>3, <2>5, <3>2 DEF VerifyLogin, SessionTypeOK
  <2>6. QED
    BY <1>1, <1>7, <2>1, <2>2, <2>3, <2>4, <2>5 DEF SignIn
<1>8. ASSUME NEW t \in Tokens, NEW u \in Users, NEW a \in Amounts, NEW i \in Ids
      PROVE  /\ InvestInitiate(t, u, a, i) => TypeOK' /\ PayableInv'
             /\ \A w \in Workers : InvestVerify(w, t, u, a, i) => TypeOK' /\ PayableInv'
  <2>1. CASE InvestInitiate(t, u, a, i)
    BY <1>0, <1>1, <1>2, <1>5, <2>1 DEF InvestInitiate, SessionTypeOK, contract, wallets
  <2>2. ASSUME NEW w \in Workers, InvestVerify(w, t, u, a, i)
        PROVE  TypeOK' /\ PayableInv'
    <3>1. [op |-> "invest", pc |-> "validate", user |-> u, token |-> t,
           id |-> i, payload |-> Investment(a), seen |-> 0] \in Requests
      BY <1>5 DEF Requests
    <3>2. VerificationTypeOK'
      BY <1>3, <2>2, <3>1 DEF InvestVerify
    <3>3. QED
      BY <1>0, <1>1, <2>2, <3>2 DEF InvestVerify, SessionTypeOK, contract, wallets
  <2>3. QED
    BY <2>1, <2>2
<1>9. CASE Service \/ Crash \/ (\E w \in Workers : Validate(w) /\ UNCHANGED <<tokens, contract, wallets>>)
  <2>1. Same /\ tokens' = tokens
    BY <1>9 DEF Service, Crash, contract, wallets
  <2>2. VerificationTypeOK'
    <3>1. \/ \E w \in Workers : Validate(w)
          \/ \E i \in Ids : Expire(i)
          \/ \E W \in SUBSET Workers : Fail(W)
      BY <1>9 DEF Service, Crash
    <3>2. QED
      BY <1>0, <3>1, ServiceTyped
  <2>3. QED
    BY <1>0, <1>1, <2>1, <2>2 DEF SessionTypeOK
<1>10. ASSUME NEW w \in Workers, SaveToken(w), UNCHANGED <<contract, wallets>>
       PROVE  TypeOK' /\ PayableInv'
  <2>1. req[w] # None /\ req[w].token \in Tokens /\ req[w].op = "login"
    BY <1>0, <1>10 DEF SaveToken, At, Requests
  <2>2. tokens[req[w].token] \in TokenDocs
    BY <1>0, <1>10, <2>1 DEF IInv, ReqInv, GoodRequest, SessionTypeOK
  <2>3. SessionTypeOK'
    BY <1>0, <1>10, <2>1, <2>2 DEF SaveToken, SessionTypeOK, TokenDocs
  <2>4. VerificationTypeOK'
    BY <1>4, <1>10, <2>1 DEF SaveToken
  <2>5. QED
    BY <1>1, <1>10, <2>3, <2>4 DEF contract, wallets
<1>11. ASSUME NEW w \in Workers, CheckBalance(w) \/ Unhandled(w) \/ NodeRefuses(w)
       PROVE  TypeOK' /\ PayableInv'
  <2>1. VerificationTypeOK'
    BY <1>4, <1>11 DEF CheckBalance, Unhandled, NodeRefuses, Sending, At
  <2>2. QED
    BY <1>0, <1>1, <1>11, <2>1 DEF CheckBalance, Unhandled, NodeRefuses, SessionTypeOK, contract, wallets
<1>12. ASSUME NEW w \in Workers, NodeTakes(w)
       PROVE  TypeOK' /\ PayableInv'
  <2> DEFINE u == req[w].user
             a == req[w].payload.amount
  <2>1. req[w] # None /\ req[w].op = "invest"
    BY <1>0, <1>12 DEF NodeTakes, Sending, At, IInv, ReqInv, GoodRequest
  <2>2. req[w] \in Requests /\ u \in Users /\ req[w].id \in Ids
    BY <1>0, <2>1 DEF Requests
  <2>3. a \in Amounts
    <3>1. PICK b \in Amounts : req[w].payload = Investment(b)
      BY <2>1 DEF IInv, ReqInv, GoodRequest
    <3>2. QED
      BY <3>1 DEF Investment
  <2>4. [id |-> req[w].id, amount |-> a] \in Sent
    BY <2>2, <2>3 DEF Sent
  <2>5. VerificationTypeOK' /\ SessionTypeOK'
    BY <1>0, <1>4, <1>12, <2>1 DEF NodeTakes, SessionTypeOK
  <2>6. /\ pending' = [pending EXCEPT ![u] = [id |-> req[w].id, amount |-> a]]
        /\ spent' = [spent EXCEPT ![req[w].id] = @ + 1]
        /\ Cost(a) <= balance[u]
        /\ UNCHANGED <<allowed, referred, balance>>
    BY <1>12 DEF NodeTakes, contract
  <2>7. pending' \in [Users -> Sent \cup {None}] /\ spent' \in [Ids -> Nat]
    BY <1>0, <2>2, <2>4, <2>6
  <2>8. PayableInv'
    BY <1>0, <2>2, <2>4, <2>6
  <2>9. QED
    BY <1>0, <2>5, <2>6, <2>7, <2>8
<1>13. QED
  BY <1>6, <1>7, <1>8, <1>9, <1>10, <1>11, <1>12
     DEF Next, Routes, Continue

-----------------------------------------------------------------------------
(* Confirmations                                                           *)

\* What a handler has compared or been told stays true.
Grown ==
  /\ confirmed \subseteq confirmed' /\ allowed \subseteq allowed' /\ referred \subseteq referred'
  /\ \A i \in Ids : ver[i] # None => /\ ver'[i] # None
                                     /\ ver'[i].consumer = ver[i].consumer
                                     /\ ver'[i].payload = ver[i].payload
  /\ \A t \in Tokens : tokens[t] # None => /\ tokens'[t] # None
                                           /\ tokens'[t].user = tokens[t].user
                                           /\ tokens'[t].ver = tokens[t].ver

\* What changes in the service, the tokens and the handlers, by who changes it.
Issues(i, u, p) == Issue(i, u, p) /\ UNCHANGED <<confirmed, req, disturbed>>

LEMMA VerTypes ==
  ASSUME IInv
  PROVE  /\ \A i \in Ids : ver[i] # None => ver[i] \in Verifications
         /\ \A t \in Tokens : tokens[t] # None => tokens[t] \in TokenDocs
         /\ \A w \in Workers : req[w] # None => req[w] \in Requests /\ GoodRequest(req[w])
         /\ None \notin Verifications /\ None \notin TokenDocs /\ None \notin Ids
         /\ None \notin Requests
<1>1. VerificationTypeOK /\ SessionTypeOK
  BY DEF IInv, TypeOK
<1>2. QED
  BY <1>1, VerificationConstants, SessionConstants
     DEF IInv, ReqInv, VerificationTypeOK, SessionTypeOK

LEMMA Grow ==
  ASSUME IInv, Next
  PROVE  Grown
<1>0. /\ ver \in [Ids -> Verifications \cup {None}]
      /\ tokens \in [Tokens -> TokenDocs \cup {None}]
  BY DEF IInv, TypeOK, VerificationTypeOK, SessionTypeOK
<1> USE VerTypes
<1>1. ASSUME UNCHANGED <<ver, confirmed, tokens>>, allowed \subseteq allowed', referred \subseteq referred'
      PROVE  Grown
  BY <1>1 DEF Grown
<1>2. ASSUME UNCHANGED <<confirmed, allowed, referred>>, NEW i \in Ids, NEW u \in Users, NEW p \in Payloads,
             Issue(i, u, p),
             tokens' = tokens \/ \E t \in Tokens, d \in TokenDocs : tokens[t] = None /\ tokens' = [tokens EXCEPT ![t] = d]
      PROVE  Grown
  <2>1. \A j \in Ids : ver[j] # None => ver'[j] = ver[j]
    BY <1>0, <1>2 DEF Issue
  <2>2. \A t \in Tokens : tokens[t] # None => tokens'[t] = tokens[t]
    BY <1>0, <1>2
  <2>3. QED
    BY <1>2, <2>1, <2>2 DEF Grown
<1>3. ASSUME UNCHANGED <<tokens, allowed, referred>>, confirmed \subseteq confirmed',
             NEW i \in Ids, ver[i] # None,
             \/ ver' = ver
             \/ \E b \in BOOLEAN : ver' = [ver EXCEPT ![i].open = b]
             \/ ver' = [ver EXCEPT ![i].wrong = @ + 1]
      PROVE  Grown
  <2>1. ver[i] \in Verifications
    BY <1>3
  <2>2. \A b \in BOOLEAN : [ver[i] EXCEPT !.open = b] \in Verifications
    BY <2>1 DEF Verifications
  <2>3. [ver[i] EXCEPT !.wrong = @ + 1] \in Verifications
    BY <2>1 DEF Verifications
  <2>4. CASE ver' = ver
    BY <1>3, <2>4 DEF Grown
  <2>5. ASSUME NEW b \in BOOLEAN, ver' = [ver EXCEPT ![i].open = b]
        PROVE  Grown
    <3>1. ver'[i] # None /\ ver'[i].consumer = ver[i].consumer /\ ver'[i].payload = ver[i].payload
      BY <1>0, <2>1, <2>2, <2>5 DEF Verifications
    <3>2. QED
      BY <1>0, <1>3, <2>5, <3>1 DEF Grown
  <2>6. CASE ver' = [ver EXCEPT ![i].wrong = @ + 1]
    <3>1. ver'[i] # None /\ ver'[i].consumer = ver[i].consumer /\ ver'[i].payload = ver[i].payload
      BY <1>0, <2>1, <2>3, <2>6 DEF Verifications
    <3>2. QED
      BY <1>0, <1>3, <2>6, <3>1 DEF Grown
  <2>7. QED
    BY <1>3, <2>4, <2>5, <2>6
<1>4. ASSUME NEW u \in Users, Chain(u)
      PROVE  Grown
  <2>1. /\ UNCHANGED <<ver, confirmed, tokens>>
        /\ allowed \subseteq allowed' /\ referred \subseteq referred'
    BY <1>4 DEF Chain, AddToWhiteList, AddReferral, Move, Mine, service, contract
  <2>2. QED
    BY <1>1, <2>1
<1>5. CASE SignIn
  <2>1. UNCHANGED <<allowed, referred>>
    BY <1>5 DEF SignIn, contract
  <2>2. Login \in Payloads /\ Other \in Payloads
    BY DEF Payloads
  <2>3. ASSUME NEW u \in Users, NEW t \in Tokens, NEW i \in Ids, NEW stored \in BOOLEAN,
               InitiateLogin(u, t, i, stored)
        PROVE  Grown
    <3>1. [user |-> u, verified |-> FALSE, ver |-> i] \in TokenDocs
      BY DEF TokenDocs
    <3>2. QED
      BY <1>2, <2>1, <2>2, <2>3, <3>1 DEF InitiateLogin
  <2>4. ASSUME NEW u \in Users, NEW i \in Ids, InitiateOther(u, i)
        PROVE  Grown
    BY <1>2, <2>1, <2>2, <2>4 DEF InitiateOther
  <2>5. ASSUME NEW u \in Users, NEW t \in Tokens, HandOut(u, t)
        PROVE  Grown
    BY <1>0, <2>1, <2>5 DEF HandOut, service, Grown
  <2>6. ASSUME NEW w \in Workers, NEW t \in Tokens, NEW i \in Ids, VerifyLogin(w, t, i)
        PROVE  Grown
    BY <1>1, <2>1, <2>6 DEF VerifyLogin, service
  <2>7. QED
    BY <1>5, <2>3, <2>4, <2>5, <2>6 DEF SignIn
<1>6. ASSUME NEW t \in Tokens, NEW u \in Users, NEW a \in Amounts, NEW i \in Ids,
             InvestInitiate(t, u, a, i) \/ \E w \in Workers : InvestVerify(w, t, u, a, i)
      PROVE  Grown
  <2>1. Investment(a) \in Payloads
    BY DEF Payloads
  <2>2. QED
    BY <1>1, <1>2, <1>6, <2>1 DEF InvestInitiate, InvestVerify, service, contract
<1>7. ASSUME Service \/ Crash
      PROVE  Grown
  <2>1. UNCHANGED <<tokens, allowed, referred, confirmed>>
    BY <1>7 DEF Service, Crash, Expire, Fail, contract
  <2>2. CASE ver' = ver
    BY <2>1, <2>2 DEF Grown
  <2>3. ASSUME NEW i \in Ids, Expire(i)
        PROVE  Grown
    BY <1>3, <2>1, <2>3 DEF Expire
  <2>4. QED
    BY <1>7, <2>2, <2>3 DEF Service, Crash, Fail
<1>8. ASSUME NEW w \in Workers, Validate(w), UNCHANGED <<tokens, contract, wallets>>
      PROVE  Grown
  <2>1. /\ req[w] # None /\ req[w].id \in Ids /\ ver[req[w].id] \in Verifications
        /\ confirmed \subseteq confirmed'
    BY <1>8 DEF Validate, RightCode, WrongCode, NotFound, InvalidateVerification, At, service, Requests, GoodRequest
  <2>2. \/ ver' = ver
        \/ \E b \in BOOLEAN : ver' = [ver EXCEPT ![req[w].id].open = b]
        \/ ver' = [ver EXCEPT ![req[w].id].wrong = @ + 1]
    <3>1. (~OneTime) \in BOOLEAN
      OBVIOUS
    <3>2. QED
      BY <1>8, <3>1 DEF Validate, RightCode, WrongCode, NotFound, InvalidateVerification, service
  <2>3. ver[req[w].id] # None
    BY <2>1
  <2>4. QED
    BY <1>3, <1>8, <2>1, <2>2, <2>3 DEF contract
<1>9. ASSUME NEW w \in Workers, SaveToken(w), UNCHANGED <<contract, wallets>>
      PROVE  Grown
  <2>1. req[w] # None /\ req[w].token \in Tokens /\ tokens[req[w].token] \in TokenDocs
    BY <1>0, <1>9 DEF SaveToken, At, Requests, GoodRequest
  <2>2. QED
    BY <1>0, <1>9, <2>1 DEF SaveToken, TokenDocs, service, contract, Grown
<1>10. ASSUME NEW w \in Workers, CheckBalance(w) \/ Unhandled(w) \/ NodeTakes(w) \/ NodeRefuses(w)
       PROVE  Grown
  BY <1>1, <1>10 DEF CheckBalance, Unhandled, NodeTakes, NodeRefuses, service, contract
<1>11. QED
  BY <1>4, <1>5, <1>6, <1>7, <1>8, <1>9, <1>10 DEF Next, Routes, Continue

LEMMA GoodStays ==
  ASSUME Grown
  PROVE  \A r \in Requests : GoodRequest(r) => GoodRequest(r)'
<1> SUFFICES ASSUME NEW r \in Requests, GoodRequest(r)
             PROVE  GoodRequest(r)'
  OBVIOUS
<1>1. r.id \in Ids /\ r.token \in Tokens
  BY DEF Requests
<1>2. Cleared(r.user) => Cleared(r.user)'
  BY DEF Cleared, Grown
<1>3. QED
  BY <1>1, <1>2 DEF GoodRequest, Grown

LEMMA ReqStep ==
  ASSUME IInv, Next
  PROVE  ReqInv'
<1>0. /\ req \in [Workers -> Requests \cup {None}]
      /\ \A w \in Workers : req[w] # None => req[w] \in Requests /\ GoodRequest(req[w])
      /\ Grown
      /\ \A r \in Requests : GoodRequest(r) => GoodRequest(r)'
  BY VerTypes, Grow, GoodStays DEF IInv, TypeOK, VerificationTypeOK
<1>1. ASSUME \A w \in Workers : req'[w] \in {None, req[w]}
      PROVE  ReqInv'
  <2>1. ASSUME NEW w \in Workers, req'[w] # None
        PROVE  GoodRequest(req[w])' /\ req'[w] = req[w]
    BY <1>0, <1>1, <2>1 DEF GoodRequest
  <2>2. QED
    BY <2>1 DEF ReqInv
<1>2. ASSUME NEW w \in Workers, NEW r \in Requests, req' = [req EXCEPT ![w] = r],
             ver'[r.id] # None, ver'[r.id].consumer = r.user, ver'[r.id].payload = r.payload,
             r.op = "login" => /\ r.payload = Login
                               /\ tokens'[r.token] # None
                               /\ tokens'[r.token].ver = r.id
                               /\ tokens'[r.token].user = r.user,
             r.op = "invest" => (\E a \in Amounts : r.payload = Investment(a)) /\ Cleared(r.user)',
             r.pc \in {"accepted", "funded", "rejected", "hung"} => r.id \in confirmed',
             r.pc \in {"funded", "rejected", "hung"} => r.op = "invest",
             r.pc = "rejected" => Cost(r.payload.amount) > r.seen
      PROVE  ReqInv'
  <2>1. ASSUME NEW v \in Workers, req'[v] # None
        PROVE  GoodRequest(req[v])'
    <3>1. CASE v = w
      <4>1. req'[v] = r
        BY <1>0, <1>2, <3>1
      <4>2. QED
        BY <1>2, <4>1 DEF GoodRequest
    <3>2. CASE v # w
      <4>1. req'[v] = req[v]
        BY <1>0, <1>2, <3>2
      <4>2. QED
        BY <1>0, <2>1, <4>1 DEF GoodRequest
    <3>3. QED
      BY <3>1, <3>2
  <2>2. QED
    BY <2>1 DEF ReqInv
<1>3. ASSUME NEW u \in Users, Chain(u)
      PROVE  ReqInv'
  <2>1. req' = req
    BY <1>3 DEF Chain, AddToWhiteList, AddReferral, Move, Mine
  <2>2. QED
    BY <1>1, <2>1
<1>4. ASSUME NEW w \in Workers, NEW t \in Tokens, NEW i \in Ids, VerifyLogin(w, t, i)
      PROVE  ReqInv'
  <2> DEFINE r == [op |-> "login", pc |-> "validate", user |-> tokens[t].user, token |-> t,
                   id |-> i, payload |-> Login, seen |-> 0]
  <2>1. tokens[t] # None /\ tokens[t].user \in Users /\ tokens[t].ver = i
    BY <1>4, VerTypes DEF VerifyLogin, TokenDocs
  <2>2. /\ ver[i] # None /\ ver[i].consumer = tokens[t].user /\ ver[i].payload = Login
        /\ req' = [req EXCEPT ![w] = r] /\ UNCHANGED <<ver, tokens>>
    BY <1>4 DEF VerifyLogin, Checks, Begin, service
  <2>3. r \in Requests
    BY <2>1 DEF Requests, Payloads
  <2>4. QED
    BY <1>2, <2>1, <2>2, <2>3
<1>5. CASE SignIn
  <2>1. ASSUME UNCHANGED req
        PROVE  ReqInv'
    BY <1>1, <2>1
  <2>2. QED
    BY <1>4, <1>5, <2>1 DEF SignIn, InitiateLogin, InitiateOther, HandOut
<1>6. ASSUME NEW w \in Workers, NEW t \in Tokens, NEW u \in Users, NEW a \in Amounts, NEW i \in Ids,
             InvestVerify(w, t, u, a, i)
      PROVE  ReqInv'
  <2> DEFINE r == [op |-> "invest", pc |-> "validate", user |-> u, token |-> t,
                   id |-> i, payload |-> Investment(a), seen |-> 0]
  <2>1. /\ ver[i] # None /\ ver[i].consumer = u /\ ver[i].payload = Investment(a)
        /\ req' = [req EXCEPT ![w] = r] /\ ver' = ver
    BY <1>6 DEF InvestVerify, Checks, Begin, service
  <2>2. Cleared(u)'
    BY <1>6 DEF InvestVerify, Cleared, contract
  <2>3. r \in Requests
    BY DEF Requests, Payloads
  <2>4. QED
    BY <1>2, <2>1, <2>2, <2>3
<1>7. CASE Routes
  BY <1>1, <1>6, <1>7 DEF Routes, InvestInitiate
<1>8. CASE Service \/ Crash
  <2>1. \A w \in Workers : req'[w] \in {None, req[w]}
    BY <1>8 DEF Service, Crash, Expire, Fail
  <2>2. QED
    BY <1>1, <2>1
<1>9. ASSUME NEW w \in Workers, Answer(w)
      PROVE  ReqInv'
  <2>1. \A v \in Workers : req'[v] \in {None, req[v]}
    BY <1>0, <1>9 DEF Answer
  <2>2. QED
    BY <1>1, <2>1
\* A handler that goes on, with what it has learnt.
<1>10. ASSUME NEW w \in Workers, req[w] # None, NEW r \in Requests,
              req' = [req EXCEPT ![w] = r],
              r.op = req[w].op, r.user = req[w].user, r.token = req[w].token,
              r.id = req[w].id, r.payload = req[w].payload,
              r.pc \in {"invalidate", "accepted", "funded", "rejected", "hung"},
              r.pc # "invalidate" => r.id \in confirmed',
              r.pc \in {"funded", "rejected", "hung"} => r.op = "invest",
              r.pc = "rejected" => Cost(r.payload.amount) > r.seen
       PROVE  ReqInv'
  <2>1. \E q \in Requests : q = req[w] /\ GoodRequest(q)'
    BY <1>0, <1>10 DEF GoodRequest
  <2>2. PICK q \in Requests : q = req[w] /\ GoodRequest(q)'
    BY <2>1
  <2>3. QED
    BY <1>2, <1>10, <2>2 DEF GoodRequest
<1>11. ASSUME NEW w \in Workers, NEW pc \in {"invalidate", "accepted", "funded", "hung"},
              req[w] # None, Goto(w, pc),
              pc # "invalidate" => req[w].id \in confirmed',
              pc \in {"funded", "hung"} => req[w].op = "invest"
       PROVE  ReqInv'
  <2> DEFINE r == [req[w] EXCEPT !.pc = pc]
  <2>1. req[w] \in Requests
    BY <1>0, <1>11
  <2>2. /\ r \in Requests /\ r.op = req[w].op /\ r.user = req[w].user /\ r.token = req[w].token
        /\ r.id = req[w].id /\ r.payload = req[w].payload /\ r.pc = pc
    BY <2>1 DEF Requests
  <2>3. req' = [req EXCEPT ![w] = r]
    BY <1>11 DEF Goto
  <2> HIDE DEF r
  <2>4. QED
    BY <1>10, <1>11, <2>2, <2>3
<1>12. ASSUME NEW w \in Workers, Validate(w)
       PROVE  ReqInv'
  <2>1. CASE RightCode(w)
    <3>1. req[w].id \in confirmed'
      BY <2>1 DEF RightCode
    <3>2. QED
      BY <1>11, <2>1, <3>1 DEF RightCode, At
  <2>2. QED
    BY <1>9, <1>11, <1>12, <2>1 DEF Validate, WrongCode, NotFound, InvalidateVerification, At
<1>13. ASSUME NEW w \in Workers, CheckBalance(w)
       PROVE  ReqInv'
  <2>1. /\ req[w] # None /\ req[w] \in Requests /\ req[w].op = "invest"
        /\ req[w].id \in confirmed'
    BY <1>0, <1>13 DEF CheckBalance, At, GoodRequest, service
  <2>2. CASE SufficientBalance(req[w].user, req[w].payload.amount)
    BY <1>11, <1>13, <2>1, <2>2 DEF CheckBalance
  <2>3. CASE ~SufficientBalance(req[w].user, req[w].payload.amount)
    <3> DEFINE r == [req[w] EXCEPT !.pc = "rejected", !.seen = balance[req[w].user]]
    <3>1. balance[req[w].user] \in Nat
      BY <2>1 DEF IInv, TypeOK, Requests
    <3>2. /\ r \in Requests /\ r.op = req[w].op /\ r.user = req[w].user /\ r.token = req[w].token
          /\ r.id = req[w].id /\ r.payload = req[w].payload /\ r.pc = "rejected"
          /\ r.seen = balance[req[w].user]
      BY <2>1, <3>1 DEF Requests
    <3>3. PICK a \in Amounts : req[w].payload = Investment(a)
      BY <1>0, <2>1 DEF GoodRequest
    <3>4. Cost(req[w].payload.amount) \in Nat
      BY <3>3, CostType DEF Investment
    <3>5. Cost(req[w].payload.amount) > balance[req[w].user]
      BY <2>3, <3>1, <3>4 DEF SufficientBalance
    <3>6. req' = [req EXCEPT ![w] = r]
      BY <1>13, <2>3 DEF CheckBalance
    <3> HIDE DEF r
    <3>7. QED
      BY <1>10, <2>1, <3>2, <3>5, <3>6
  <2>4. QED
    BY <2>2, <2>3
<1>14. ASSUME NEW w \in Workers, Unhandled(w)
       PROVE  ReqInv'
  <2>1. req[w] # None /\ req[w].op = "invest" /\ req[w].id \in confirmed'
    BY <1>0, <1>14 DEF Unhandled, GoodRequest, service
  <2>2. QED
    BY <1>9, <1>11, <1>14, <2>1 DEF Unhandled
<1>15. QED
  BY <1>3, <1>5, <1>7, <1>8, <1>9, <1>12, <1>13, <1>14
     DEF Next, Continue, SaveToken, NodeTakes, NodeRefuses

\* Which steps accept a code, store a token, or change what a wallet has sent.
LEMMA Writers ==
  ASSUME Next
  PROVE  /\ confirmed' = confirmed \/ \E w \in Workers : RightCode(w)
         /\ tokens' = tokens \/ SignIn \/ \E w \in Workers : SaveToken(w)
         /\ pending' = pending \/ (\E u \in Users, taken \in BOOLEAN : Mine(u, taken))
                               \/ \E w \in Workers : NodeTakes(w)
<1>1. ASSUME NEW u \in Users, Chain(u)
      PROVE  /\ UNCHANGED <<confirmed, tokens>>
             /\ pending' = pending \/ \E taken \in BOOLEAN : Mine(u, taken)
  BY <1>1 DEF Chain, AddToWhiteList, AddReferral, Move, Mine, service, wallets
<1>2. SignIn => UNCHANGED <<confirmed, pending>>
  BY DEF SignIn, InitiateLogin, InitiateOther, HandOut, VerifyLogin, service, wallets
<1>3. Routes => UNCHANGED <<confirmed, tokens, pending>>
  BY DEF Routes, InvestInitiate, InvestVerify, service, wallets
<1>4. Service \/ Crash => UNCHANGED <<confirmed, tokens, pending>>
  BY DEF Service, Expire, Crash, Fail, wallets
<1>5. ASSUME NEW w \in Workers, Continue(w)
      PROVE  /\ confirmed' = confirmed \/ RightCode(w)
             /\ tokens' = tokens \/ SaveToken(w)
             /\ pending' = pending \/ NodeTakes(w)
  <2>1. CASE Validate(w) /\ UNCHANGED <<tokens, contract, wallets>>
    BY <2>1 DEF Validate, WrongCode, NotFound, InvalidateVerification, service, wallets
  <2>2. CASE SaveToken(w) /\ UNCHANGED <<contract, wallets>>
    BY <2>2 DEF SaveToken, service, wallets
  <2>3. CASE CheckBalance(w) \/ Unhandled(w) \/ NodeTakes(w) \/ NodeRefuses(w)
    BY <2>3 DEF CheckBalance, Unhandled, NodeTakes, NodeRefuses, service, wallets
  <2>4. QED
    BY <1>5, <2>1, <2>2, <2>3 DEF Continue
<1>6. confirmed' = confirmed \/ \E w \in Workers : RightCode(w)
  BY <1>1, <1>2, <1>3, <1>4, <1>5, Zenon DEF Next
<1>7. tokens' = tokens \/ SignIn \/ \E w \in Workers : SaveToken(w)
  BY <1>1, <1>2, <1>3, <1>4, <1>5, Zenon DEF Next
<1>8. \/ pending' = pending \/ (\E u \in Users, taken \in BOOLEAN : Mine(u, taken))
      \/ \E w \in Workers : NodeTakes(w)
  BY <1>1, <1>2, <1>3, <1>4, <1>5, Zenon DEF Next
<1>9. QED
  BY <1>6, <1>7, <1>8

LEMMA RestStep ==
  ASSUME IInv, Next
  PROVE  TokenInv' /\ IssuedInv' /\ OpensByOwnCode' /\ InvestedAsConfirmed'
<1>0. /\ Grown
      /\ tokens \in [Tokens -> TokenDocs \cup {None}]
      /\ pending \in [Users -> Sent \cup {None}]
      /\ \A t \in Tokens : tokens[t] # None => tokens[t] \in TokenDocs
      /\ \A w \in Workers : req[w] # None => req[w] \in Requests /\ GoodRequest(req[w])
      /\ None \notin Ids /\ None \notin TokenDocs
      /\ TokenInv /\ IssuedInv /\ OpensByOwnCode /\ InvestedAsConfirmed
      /\ confirmed \subseteq Ids
  BY VerTypes, Grow DEF IInv, TypeOK, VerificationTypeOK, SessionTypeOK
<1>1. IssuedInv'
  <2>1. \A w \in Workers : RightCode(w) => confirmed' = confirmed \cup {req[w].id} /\ ver[req[w].id] # None
                                           /\ req[w].id \in Ids
    BY <1>0 DEF RightCode, At, GoodRequest, Requests
  <2>2. confirmed' = confirmed \/ \E w \in Workers : RightCode(w)
    BY Writers
  <2>3. QED
    BY <1>0, <2>1, <2>2 DEF IssuedInv, Grown
<1>2. ASSUME UNCHANGED tokens
      PROVE  TokenInv' /\ OpensByOwnCode'
  <2>1. \A t \in Tokens : tokens[t] # None /\ tokens[t].ver # None => tokens[t].ver \in Ids
    BY <1>0 DEF TokenDocs
  <2>2. QED
    BY <1>0, <1>2, <2>1 DEF TokenInv, OpensByOwnCode, Grown
<1>3. ASSUME NEW t \in Tokens, NEW d \in TokenDocs, tokens' = [tokens EXCEPT ![t] = d],
             d.ver # None => /\ ver'[d.ver] # None
                             /\ ver'[d.ver].consumer = d.user
                             /\ ver'[d.ver].payload = Login,
             d.ver # None /\ d.verified => d.ver \in confirmed'
      PROVE  TokenInv' /\ OpensByOwnCode'
  <2>1. \A s \in Tokens : tokens[s] # None /\ tokens[s].ver # None => tokens[s].ver \in Ids
    BY <1>0 DEF TokenDocs
  <2>2. \A s \in Tokens : \/ s = t /\ tokens'[s] = d
                          \/ s # t /\ tokens'[s] = tokens[s]
    BY <1>0, <1>3
  <2>3. QED
    BY <1>0, <1>3, <2>1, <2>2 DEF TokenInv, OpensByOwnCode, Grown
<1>4. ASSUME SignIn
      PROVE  TokenInv' /\ OpensByOwnCode'
  <2>1. ASSUME NEW u \in Users, NEW t \in Tokens, NEW i \in Ids, NEW stored \in BOOLEAN,
               InitiateLogin(u, t, i, stored)
        PROVE  TokenInv' /\ OpensByOwnCode'
    <3> DEFINE d == [user |-> u, verified |-> FALSE, ver |-> i]
    <3>1. /\ d \in TokenDocs /\ d.ver = i /\ d.user = u /\ ~d.verified
      BY DEF TokenDocs
    <3>2. ver' = [ver EXCEPT ![i] = [consumer |-> u, payload |-> Login, wrong |-> 0, open |-> TRUE]]
      BY <2>1 DEF InitiateLogin, Issue
    <3>3. ver'[i] = [consumer |-> u, payload |-> Login, wrong |-> 0, open |-> TRUE]
      BY <3>2 DEF IInv, TypeOK, VerificationTypeOK
    <3>4. [consumer |-> u, payload |-> Login, wrong |-> 0, open |-> TRUE] # None
      <4>1. [consumer |-> u, payload |-> Login, wrong |-> 0, open |-> TRUE] \in Verifications
        BY DEF Verifications, Payloads
      <4>2. QED
        BY <4>1, VerTypes
    <3>5. tokens' = tokens \/ tokens' = [tokens EXCEPT ![t] = d]
      BY <2>1 DEF InitiateLogin
    <3> HIDE DEF d
    <3>6. QED
      BY <1>2, <1>3, <3>1, <3>3, <3>4, <3>5
  <2>2. ASSUME NEW u \in Users, NEW t \in Tokens, HandOut(u, t)
        PROVE  TokenInv' /\ OpensByOwnCode'
    <3> DEFINE d == [user |-> u, verified |-> TRUE, ver |-> None]
    <3>1. d \in TokenDocs /\ d.ver = None
      BY DEF TokenDocs
    <3>2. tokens' = [tokens EXCEPT ![t] = d]
      BY <2>2 DEF HandOut
    <3> HIDE DEF d
    <3>3. QED
      BY <1>3, <3>1, <3>2
  <2>3. QED
    BY <1>2, <1>4, <2>1, <2>2 DEF SignIn, InitiateOther, VerifyLogin
<1>5. ASSUME NEW w \in Workers, SaveToken(w)
      PROVE  TokenInv' /\ OpensByOwnCode'
  <2> DEFINE t == req[w].token
             d == [tokens[t] EXCEPT !.verified = TRUE]
  <2>1. /\ t \in Tokens /\ tokens[t] \in TokenDocs /\ tokens[t].ver = req[w].id
        /\ req[w].id \in confirmed'
    BY <1>0, <1>5 DEF SaveToken, At, GoodRequest, Requests, service
  <2>2. d \in TokenDocs /\ d.ver = tokens[t].ver /\ d.user = tokens[t].user
    BY <2>1 DEF TokenDocs
  <2>3. tokens' = [tokens EXCEPT ![t] = d]
    BY <1>5 DEF SaveToken
  <2>4. /\ d.ver # None => /\ ver[d.ver] # None
                           /\ ver[d.ver].consumer = d.user
                           /\ ver[d.ver].payload = Login
        /\ ver' = ver
    BY <1>0, <1>5, <2>1, <2>2 DEF TokenInv, SaveToken, service
  <2> HIDE DEF t, d
  <2>5. QED
    BY <1>3, <2>1, <2>2, <2>3, <2>4
<1>6. TokenInv' /\ OpensByOwnCode'
  <2>1. tokens' = tokens \/ SignIn \/ \E w \in Workers : SaveToken(w)
    BY Writers
  <2>2. QED
    BY <1>2, <1>4, <1>5, <2>1
<1>7. ASSUME \A u \in Users : pending'[u] \in {None, pending[u]}
      PROVE  InvestedAsConfirmed'
  <2>1. \A u \in Users : pending[u] # None => pending[u].id \in Ids
    BY <1>0 DEF Sent
  <2>2. \A u \in Users : Cleared(u) => Cleared(u)'
    BY <1>0 DEF Cleared, Grown
  <2>3. ASSUME NEW u \in Users, pending'[u] # None
        PROVE  /\ Cleared(u)'
               /\ pending'[u].id \in confirmed'
               /\ ver'[pending'[u].id].consumer = u
               /\ ver'[pending'[u].id].payload = Investment(pending'[u].amount)
    BY <1>0, <1>7, <2>1, <2>2, <2>3 DEF InvestedAsConfirmed, IssuedInv, Grown
  <2>4. QED
    BY <2>3 DEF InvestedAsConfirmed
<1>8. ASSUME NEW w \in Workers, NodeTakes(w)
      PROVE  InvestedAsConfirmed'
  <2> DEFINE u == req[w].user
             a == req[w].payload.amount
  <2>1. /\ u \in Users /\ req[w].op = "invest" /\ req[w].id \in confirmed /\ Cleared(u)
        /\ ver[req[w].id].consumer = u /\ ver[req[w].id].payload = req[w].payload
    BY <1>0, <1>8 DEF NodeTakes, Sending, At, GoodRequest, Requests
  <2>2. req[w].payload = Investment(a)
    <3>1. PICK b \in Amounts : req[w].payload = Investment(b)
      BY <1>0, <1>8, <2>1 DEF NodeTakes, Sending, At, GoodRequest
    <3>2. QED
      BY <3>1 DEF Investment
  <2>3. /\ pending' = [pending EXCEPT ![u] = [id |-> req[w].id, amount |-> a]]
        /\ UNCHANGED <<ver, confirmed, allowed, referred>>
    BY <1>8 DEF NodeTakes, service, contract
  <2>4. \A v \in Users : Cleared(v) => Cleared(v)'
    BY <1>0 DEF Cleared, Grown
  <2>5. \A v \in Users : \/ v = u /\ pending'[v] = [id |-> req[w].id, amount |-> a]
                         \/ v # u /\ pending'[v] = pending[v]
    BY <1>0, <2>3
  <2> HIDE DEF u, a
  <2>6. QED
    BY <1>0, <2>1, <2>2, <2>3, <2>4, <2>5 DEF InvestedAsConfirmed
<1>9. InvestedAsConfirmed'
  <2>1. \/ \A u \in Users : pending'[u] \in {None, pending[u]}
        \/ \E w \in Workers : NodeTakes(w)
    <3>1. ASSUME NEW u \in Users, NEW taken \in BOOLEAN, Mine(u, taken)
          PROVE  \A v \in Users : pending'[v] \in {None, pending[v]}
      BY <1>0, <3>1 DEF Mine
    <3> QED
      BY <3>1, Writers, Zenon
  <2>2. QED
    BY <1>7, <1>8, <2>1
<1>10. QED
  BY <1>1, <1>6, <1>9

LEMMA Invariance == Spec => []IInv
<1>1. Init => IInv
  <2> SUFFICES ASSUME Init PROVE IInv
    OBVIOUS
  <2>1. TypeOK /\ PayableInv
    BY DEF Init, VerificationInit, SessionInit, TypeOK, VerificationTypeOK, SessionTypeOK, PayableInv
  <2>2. ReqInv /\ TokenInv /\ IssuedInv /\ OpensByOwnCode /\ InvestedAsConfirmed
    BY DEF Init, VerificationInit, SessionInit, ReqInv, TokenInv, IssuedInv, OpensByOwnCode, InvestedAsConfirmed
  <2>3. QED
    BY <2>1, <2>2 DEF IInv
<1>2. IInv /\ [Next]_vars => IInv'
  <2> SUFFICES ASSUME IInv, [Next]_vars PROVE IInv'
    OBVIOUS
  <2>1. CASE Next
    BY <2>1, TypeStep, ReqStep, RestStep DEF IInv
  <2>2. CASE UNCHANGED vars
    BY <2>2 DEF vars, IInv, TypeOK, VerificationTypeOK, SessionTypeOK, PayableInv, ReqInv, GoodRequest, Cleared,
                TokenInv, IssuedInv, OpensByOwnCode, InvestedAsConfirmed
  <2>3. QED
    BY <2>1, <2>2
<1>3. QED
  BY <1>1, <1>2, PTL DEF Spec

\* Every reachable state is well typed; in particular no wallet is overdrawn.
THEOREM TypeCorrect == Spec => []TypeOK
<1>1. IInv => TypeOK
  BY DEF IInv
<1>2. QED
  BY <1>1, Invariance, PTL

\* A token from initiateLogin opens routes only after its own code for signing
\* in, sent to its own user, was accepted.
THEOREM OpenedByOwnCode == Spec => []OpensByOwnCode
<1>1. IInv => OpensByOwnCode
  BY DEF IInv
<1>2. QED
  BY <1>1, Invariance, PTL

\* What a wallet sends to the ICO was confirmed, with its amount, by its owner,
\* and the whitelist contract knows the owner and the referral.
THEOREM InvestedOnlyAsConfirmed == Spec => []InvestedAsConfirmed
<1>1. IInv => InvestedAsConfirmed
  BY DEF IInv
<1>2. QED
  BY <1>1, Invariance, PTL

\* An investment answered with `Insufficient funds' is taken by the node only
\* when the wallet has more than it had for that answer.
THEOREM RevivedOnlyByDeposit == Spec => OnlyDepositRevives
<1>1. ASSUME IInv, NEW w \in Workers, NodeTakes(w), req[w].pc = "rejected"
      PROVE  balance[req[w].user] > req[w].seen
  <2>1. req[w] \in Requests /\ GoodRequest(req[w]) /\ req[w].op = "invest"
    BY <1>1, VerTypes DEF NodeTakes, Sending, At, GoodRequest
  <2>2. PICK a \in Amounts : req[w].payload = Investment(a)
    BY <2>1 DEF GoodRequest
  <2>3. Cost(req[w].payload.amount) \in Nat
    BY <2>2, CostType DEF Investment
  <2>4. balance[req[w].user] \in Nat /\ req[w].seen \in Nat
    BY <1>1, <2>1 DEF IInv, TypeOK, Requests
  <2>5. /\ Cost(req[w].payload.amount) > req[w].seen
        /\ Cost(req[w].payload.amount) <= balance[req[w].user]
    BY <1>1, <2>1 DEF GoodRequest, NodeTakes
  <2>6. QED
    BY <2>3, <2>4, <2>5
<1>2. IInv => (\A w \in Workers : NodeTakes(w) /\ req[w].pc = "rejected" => balance[req[w].user] > req[w].seen)
  BY <1>1
<1>3. QED
  BY <1>2, Invariance, PTL DEF Spec, OnlyDepositRevives

-----------------------------------------------------------------------------
(* Attempts                                                                *)

Invalidating(i) == {w \in Workers : At(w, "invalidate") /\ req[w].id = i}

\* While a verification is open, each attempt beyond the limit belongs to a
\* handler that is about to delete it.
AttemptsInv ==
  \A i \in Ids :
    ver[i] # None /\ ver[i].open /\ i \notin disturbed =>
      ver[i].wrong <= MaxAttempts - 1 + Cardinality(Invalidating(i))

LEMMA CountType ==
  ASSUME NEW S \in SUBSET Workers, NEW T \in SUBSET S
  PROVE  /\ Cardinality(S) \in Nat /\ Cardinality(T) \in Nat
         /\ Cardinality(T) <= Cardinality(S)
         /\ Cardinality(S) <= Cardinality(Workers)
         /\ Cardinality(Workers) \in Nat
         /\ IsFiniteSet(S) /\ IsFiniteSet(T)
<1>1. IsFiniteSet(Workers)
  BY VerificationConstants
<1>2. IsFiniteSet(S) /\ Cardinality(S) <= Cardinality(Workers)
  BY <1>1, FS_Subset
<1>3. IsFiniteSet(T) /\ Cardinality(T) <= Cardinality(S)
  BY <1>2, FS_Subset
<1>4. QED
  BY <1>1, <1>2, <1>3, FS_CardinalityType

LEMMA AttemptsStep ==
  ASSUME IInv, AttemptsInv, AttemptsBounded, Next
  PROVE  AttemptsInv' /\ AttemptsBounded'
<1>0. /\ ver \in [Ids -> Verifications \cup {None}]
      /\ \A i \in Ids : ver[i] # None => ver[i] \in Verifications /\ ver[i].wrong \in Nat
      /\ req \in [Workers -> Requests \cup {None}]
      /\ \A w \in Workers : req[w] # None => /\ req[w] \in Requests /\ req[w].id \in Ids
                                             /\ ver[req[w].id] # None
      /\ disturbed \subseteq Ids
  BY VerTypes DEF IInv, TypeOK, VerificationTypeOK, Verifications, Requests, GoodRequest
<1>1. MaxAttempts \in Nat /\ MaxAttempts # 0
  BY VerificationConstants
<1> DEFINE Bounded(i) ==
             /\ ver'[i] # None /\ ver'[i].open /\ i \notin disturbed' =>
                  ver'[i].wrong <= MaxAttempts - 1 + Cardinality(Invalidating(i)')
             /\ ver'[i] # None => \/ i \in disturbed'
                                  \/ ver'[i].wrong <= MaxAttempts - 1 + Cardinality(Workers)
<1>2. SUFFICES ASSUME NEW i \in Ids
               PROVE  Bounded(i)
  BY DEF AttemptsInv, AttemptsBounded
<1>3. /\ Cardinality(Invalidating(i)) \in Nat /\ Cardinality(Invalidating(i)') \in Nat
      /\ Cardinality(Workers) \in Nat
      /\ Cardinality(Invalidating(i)') <= Cardinality(Workers)
      /\ Invalidating(i) \subseteq Invalidating(i)' =>
           Cardinality(Invalidating(i)) <= Cardinality(Invalidating(i)')
  <2>1. Invalidating(i) \in SUBSET Workers /\ Invalidating(i)' \in SUBSET Workers
    BY DEF Invalidating
  <2>2. QED
    BY <2>1, CountType
\* Most steps neither count an attempt nor end a deletion.
<1>4. ASSUME ver[i] # None => /\ ver'[i].wrong = ver[i].wrong
                              /\ ver'[i].open => ver[i].open
                              /\ \/ Invalidating(i) \subseteq Invalidating(i)'
                                 \/ ~ver'[i].open
                                 \/ i \in disturbed',
             ver[i] = None => ver'[i] = None \/ ver'[i].wrong = 0,
             disturbed \subseteq disturbed'
      PROVE  Bounded(i)
  <2>1. CASE ver[i] = None
    BY <1>1, <1>3, <1>4, <2>1
  <2>2. CASE ver[i] # None
    BY <1>0, <1>1, <1>3, <1>4, <2>2 DEF AttemptsInv, AttemptsBounded
  <2>3. QED
    BY <2>1, <2>2
<1>5. ASSUME UNCHANGED <<ver, disturbed>>, Invalidating(i) \subseteq Invalidating(i)'
      PROVE  Bounded(i)
  <2>1. CASE ver[i] = None
    BY <1>1, <1>3, <1>4, <1>5, <2>1
  <2>2. CASE ver[i] # None
    BY <1>4, <1>5, <2>2
  <2>3. QED
    BY <2>1, <2>2
<1>6. ASSUME NEW w \in Workers, ~At(w, "invalidate"), NEW r, req' = [req EXCEPT ![w] = r]
      PROVE  Invalidating(i) \subseteq Invalidating(i)'
  <2>1. \A v \in Workers : v # w => req'[v] = req[v]
    BY <1>0, <1>6
  <2>2. QED
    BY <1>6, <2>1 DEF Invalidating, At
<1>7. ASSUME NEW j \in Ids, NEW u \in Users, NEW p \in Payloads, Issue(j, u, p), UNCHANGED <<req, disturbed>>
      PROVE  Bounded(i)
  <2>1. Invalidating(i)' = Invalidating(i)
    BY <1>7 DEF Invalidating, At
  <2>2. \/ ver'[i] = ver[i]
        \/ ver[i] = None /\ ver'[i].wrong = 0
    BY <1>0, <1>7 DEF Issue
  <2>3. QED
    BY <1>4, <1>7, <2>1, <2>2
<1>8. ASSUME NEW w \in Workers, RightCode(w)
      PROVE  Bounded(i)
  <2>1. Invalidating(i) \subseteq Invalidating(i)'
    BY <1>6, <1>8 DEF RightCode, Goto, At
  <2>2. ver[i] = None => ver'[i] = None
    BY <1>0, <1>8 DEF RightCode, At
  <2>3. ver[i] # None => ver'[i].wrong = ver[i].wrong /\ (ver'[i].open => ver[i].open)
    BY <1>0, <1>8 DEF RightCode, At, Verifications
  <2>4. QED
    BY <1>4, <1>8, <2>1, <2>2, <2>3 DEF RightCode
<1>9. ASSUME NEW w \in Workers, WrongCode(w)
      PROVE  Bounded(i)
  <2> DEFINE j == req[w].id
  <2>1. /\ j \in Ids /\ ver[j] # None /\ ver[j].open /\ At(w, "validate")
        /\ ver' = [ver EXCEPT ![j].wrong = @ + 1] /\ disturbed' = disturbed
        /\ req[w] # None /\ req[w] \in Requests
    BY <1>0, <1>9 DEF WrongCode, At
  <2>2. Invalidating(i) \subseteq Invalidating(i)'
    BY <1>6, <1>9, <2>1 DEF WrongCode, Goto, Answer, At
  <2>3. CASE i # j
    BY <1>0, <1>4, <2>1, <2>2, <2>3
  <2>4. CASE i = j
    <3>1. ver'[i] # None /\ ver'[i].wrong = ver[i].wrong + 1 /\ ver[i].wrong \in Nat
      <4>1. [ver[i] EXCEPT !.wrong = @ + 1] \in Verifications
        BY <1>0, <2>1, <2>4 DEF Verifications
      <4>2. ver'[i] = [ver[i] EXCEPT !.wrong = @ + 1]
        BY <1>0, <2>1, <2>4
      <4>3. ver'[i] # None
        BY <4>1, <4>2, VerTypes
      <4>4. QED
        BY <1>0, <2>1, <2>4, <4>2, <4>3 DEF Verifications
    <3>2. CASE ver[i].wrong + 1 < MaxAttempts
      BY <1>1, <1>3, <3>1, <3>2
    <3>3. CASE ver[i].wrong + 1 >= MaxAttempts
      <4>1. req' = [req EXCEPT ![w].pc = "invalidate"]
        BY <1>9, <2>4, <3>3 DEF WrongCode, Goto
      <4>2. req'[w] # None /\ req'[w].pc = "invalidate" /\ req'[w].id = i
        <5>1. [req[w] EXCEPT !.pc = "invalidate"] \in Requests
          BY <2>1 DEF Requests
        <5>2. req'[w] = [req[w] EXCEPT !.pc = "invalidate"]
          BY <1>0, <4>1
        <5>3. req'[w] # None
          BY <5>1, <5>2, VerTypes
        <5>4. QED
          BY <2>1, <2>4, <5>2, <5>3 DEF Requests
      <4>3. w \in Invalidating(i)' /\ w \notin Invalidating(i)
        BY <2>1, <4>2 DEF Invalidating, At
      <4>4. Cardinality(Invalidating(i) \cup {w}) = Cardinality(Invalidating(i)) + 1
        <5>1. Invalidating(i) \in SUBSET Workers
          BY DEF Invalidating
        <5>2. QED
          BY <4>3, <5>1, CountType, FS_AddElement
      <4>5. Cardinality(Invalidating(i) \cup {w}) <= Cardinality(Invalidating(i)')
        <5>1. Invalidating(i)' \in SUBSET Workers /\ Invalidating(i) \cup {w} \in SUBSET Invalidating(i)'
          BY <2>2, <4>3 DEF Invalidating
        <5>2. QED
          BY <5>1, CountType
      <4>6. i \notin disturbed => ver[i].wrong <= MaxAttempts - 1 + Cardinality(Invalidating(i))
        BY <2>1, <2>4 DEF AttemptsInv
      <4>7. QED
        BY <1>1, <1>3, <2>1, <3>1, <4>4, <4>5, <4>6
    <3>4. QED
      BY <1>1, <3>1, <3>2, <3>3
  <2>5. QED
    BY <2>3, <2>4
<1>10. ASSUME NEW w \in Workers, InvalidateVerification(w)
       PROVE  Bounded(i)
  <2> DEFINE j == req[w].id
  <2>1. /\ j \in Ids /\ ver[j] \in Verifications
        /\ ver' = [ver EXCEPT ![j].open = FALSE] /\ disturbed' = disturbed
        /\ req' = [req EXCEPT ![w] = None]
    BY <1>0, <1>10 DEF InvalidateVerification, At, Answer
  <2>2. CASE i = j
    <3>1. ver'[i].wrong = ver[i].wrong /\ ~ver'[i].open /\ ver[i] # None
      BY <1>0, <2>1, <2>2, VerTypes DEF Verifications
    <3>2. QED
      BY <1>4, <2>1, <3>1
  <2>3. CASE i # j
    <3>1. Invalidating(i) \subseteq Invalidating(i)'
      BY <1>0, <2>1, <2>3 DEF Invalidating, At
    <3>2. QED
      BY <1>0, <1>4, <2>1, <2>3, <3>1
  <2>4. QED
    BY <2>2, <2>3
<1>11. ASSUME NEW j \in Ids, Expire(j)
       PROVE  Bounded(i)
  <2>1. Invalidating(i)' = Invalidating(i) /\ disturbed' = disturbed
    BY <1>11 DEF Expire, Invalidating, At
  <2>2. \/ ver'[i] = ver[i]
        \/ ver[i] # None /\ ver'[i].wrong = ver[i].wrong /\ ver[i].open
    BY <1>0, <1>11 DEF Expire, Verifications
  <2>3. QED
    BY <1>4, <2>1, <2>2
<1>12. ASSUME NEW W \in SUBSET Workers, Fail(W)
       PROVE  Bounded(i)
  <2>1. /\ ver' = ver /\ disturbed' = disturbed \cup Undeleted(W)
        /\ \A w \in Workers : req'[w] = IF w \in W THEN None ELSE req[w]
    BY <1>12 DEF Fail
  <2>2. Invalidating(i) \subseteq Invalidating(i)' \/ i \in disturbed'
    BY <2>1 DEF Invalidating, Undeleted, At
  <2>3. QED
    BY <1>4, <2>1, <2>2
\* What is left changes nothing here, or moves a handler that deletes nothing.
<1>13. CASE /\ UNCHANGED <<ver, disturbed>>
            /\ \/ req' = req
               \/ \E w \in Workers : ~At(w, "invalidate") /\ \E r : req' = [req EXCEPT ![w] = r]
  <2>1. Invalidating(i) \subseteq Invalidating(i)'
    BY <1>6, <1>13 DEF Invalidating, At
  <2>2. QED
    BY <1>5, <1>13, <2>1
<1>14. QED
  <2>1. ASSUME NEW u \in Users, Chain(u)
        PROVE  Bounded(i)
    BY <1>13, <2>1 DEF Chain, AddToWhiteList, AddReferral, Move, Mine, service
  <2>2. Login \in Payloads /\ Other \in Payloads /\ \A a \in Amounts : Investment(a) \in Payloads
    BY DEF Payloads
  <2>3. ASSUME SignIn
        PROVE  Bounded(i)
    BY <1>7, <1>13, <2>2, <2>3 DEF SignIn, InitiateLogin, InitiateOther, HandOut, VerifyLogin, Begin, At, service
  <2>4. ASSUME Routes
        PROVE  Bounded(i)
    BY <1>7, <1>13, <2>2, <2>4 DEF Routes, InvestInitiate, InvestVerify, Begin, At, service
  <2>5. ASSUME NEW w \in Workers, Continue(w)
        PROVE  Bounded(i)
    <3>1. CASE Validate(w)
      BY <1>8, <1>9, <1>10, <1>13, <3>1 DEF Validate, NotFound, At, Answer, service
    <3>2. CASE SaveToken(w) \/ CheckBalance(w) \/ Unhandled(w) \/ NodeTakes(w) \/ NodeRefuses(w)
      <4>1. UNCHANGED <<ver, disturbed>> /\ ~At(w, "invalidate")
        BY <3>2 DEF SaveToken, CheckBalance, Unhandled, NodeTakes, NodeRefuses, Sending, At, service
      <4>2. \E r : req' = [req EXCEPT ![w] = r]
        BY <3>2 DEF SaveToken, CheckBalance, Unhandled, NodeTakes, NodeRefuses, Answer, Goto
      <4>3. QED
        BY <1>13, <4>1, <4>2
    <3>3. QED
      BY <2>5, <3>1, <3>2 DEF Continue
  <2>6. QED
    BY <1>11, <1>12, <2>1, <2>3, <2>4, <2>5 DEF Next, Service, Crash

LEMMA AttemptsInvariance == Spec => [](AttemptsInv /\ AttemptsBounded)
<1>1. Init => AttemptsInv /\ AttemptsBounded
  BY DEF Init, VerificationInit, AttemptsInv, AttemptsBounded
<1>2. IInv /\ AttemptsInv /\ AttemptsBounded /\ [Next]_vars => AttemptsInv' /\ AttemptsBounded'
  <2>1. UNCHANGED vars /\ AttemptsInv /\ AttemptsBounded => AttemptsInv' /\ AttemptsBounded'
    BY DEF vars, AttemptsInv, AttemptsBounded, Invalidating, At
  <2>2. QED
    BY <2>1, AttemptsStep
<1>3. QED
  BY <1>1, <1>2, Invariance, PTL DEF Spec

\* A verification takes at most one wrong code for each handler beyond the
\* limit, unless deleting it failed.
THEOREM AttemptsStayBounded == Spec => []AttemptsBounded
BY AttemptsInvariance, PTL

-----------------------------------------------------------------------------
(* The refinement of CodeUse                                               *)

\* A handler that may still act on its code.
Holds(w) == req[w] # None /\ req[w].pc \in {"accepted", "funded", "rejected"}

UseInv ==
  /\ \A i \in confirmed : ~ver[i].open
  /\ \A i \in Ids : UsesOf(i) # 0 => i \in confirmed
  /\ \A w \in Workers : Holds(w) => UsesOf(req[w].id) = 0
  /\ \A v, w \in Workers : Holds(v) /\ Holds(w) /\ req[v].id = req[w].id => v = w

code == [i \in Ids |-> CodeOf(i)]
uses == [i \in Ids |-> UsesOf(i)]

\* What was made of codes, when nobody acts on one.
LEMMA UsesStay ==
  ASSUME IInv, spent' = spent,
         \/ tokens' = tokens
         \/ \E t \in Tokens, u \in Users, i \in Ids, stored \in BOOLEAN : InitiateLogin(u, t, i, stored)
         \/ \E t \in Tokens, u \in Users : HandOut(u, t)
  PROVE  \A i \in Ids : UsesOf(i)' = UsesOf(i)
<1>0. /\ tokens \in [Tokens -> TokenDocs \cup {None}]
      /\ None \notin TokenDocs /\ None \notin Ids
      /\ \A t \in Tokens : tokens[t] # None => tokens[t] \in TokenDocs
  BY VerTypes DEF IInv, TypeOK, SessionTypeOK
<1>2. ASSUME NEW t \in Tokens, tokens[t] = None, NEW d \in TokenDocs, d.ver = None \/ d.verified = FALSE,
             tokens' = [tokens EXCEPT ![t] = d]
      PROVE  \A i \in Ids : Opened(i)' <=> Opened(i)
  <2>1. \A s \in Tokens : \/ s = t /\ tokens'[s] = d
                          \/ s # t /\ tokens'[s] = tokens[s]
    BY <1>0, <1>2
  <2>2. QED
    BY <1>0, <1>2, <2>1 DEF Opened
<1>4. ASSUME tokens' = tokens
      PROVE  \A i \in Ids : Opened(i)' <=> Opened(i)
  BY <1>4 DEF Opened
<1>5. ASSUME NEW t \in Tokens, NEW u \in Users, NEW i \in Ids, NEW stored \in BOOLEAN,
             InitiateLogin(u, t, i, stored)
      PROVE  \A j \in Ids : Opened(j)' <=> Opened(j)
  <2> DEFINE d == [user |-> u, verified |-> FALSE, ver |-> i]
  <2>1. d \in TokenDocs /\ d.verified = FALSE
    BY DEF TokenDocs
  <2>2. tokens[t] = None /\ (tokens' = tokens \/ tokens' = [tokens EXCEPT ![t] = d])
    BY <1>5 DEF InitiateLogin
  <2> HIDE DEF d
  <2>3. QED
    BY <1>2, <1>4, <2>1, <2>2
<1>6. ASSUME NEW t \in Tokens, NEW u \in Users, HandOut(u, t)
      PROVE  \A j \in Ids : Opened(j)' <=> Opened(j)
  <2> DEFINE d == [user |-> u, verified |-> TRUE, ver |-> None]
  <2>1. d \in TokenDocs /\ d.ver = None
    BY DEF TokenDocs
  <2>2. tokens[t] = None /\ tokens' = [tokens EXCEPT ![t] = d]
    BY <1>6 DEF HandOut
  <2> HIDE DEF d
  <2>3. QED
    BY <1>2, <2>1, <2>2
<1>7. \A i \in Ids : Opened(i)' <=> Opened(i)
  BY <1>4, <1>5, <1>6
<1>8. QED
  BY <1>7 DEF UsesOf

UseStep == UseInv' /\ [Codes!Next]_<<code, uses>>

\* No handler comes to hold a code.
NoNewHolder == \A w \in Workers : Holds(w)' => Holds(w) /\ req'[w].id = req[w].id

\* The state of one verification changes, and it was not accepted.
LEMMA CodeMoves ==
  ASSUME IInv, UseInv, NoNewHolder, confirmed' = confirmed,
         \A j \in Ids : UsesOf(j)' = UsesOf(j),
         \A j \in confirmed : ~ver'[j].open,
         NEW i \in Ids, \A j \in Ids \ {i} : CodeOf(j)' = CodeOf(j),
         \/ CodeOf(i)' = CodeOf(i)
         \/ CodeOf(i) = "none" /\ CodeOf(i)' = "open"
         \/ CodeOf(i) = "open" /\ CodeOf(i)' = "void"
  PROVE  UseStep
<1>1. \A w \in Workers : Holds(w) => req[w].id \in Ids
  BY VerTypes DEF Holds, Requests
<1>2. UseInv'
  BY <1>1 DEF UseInv, NoNewHolder
<1>3. uses' = uses
  BY DEF uses
<1>4. code' = [code EXCEPT ![i] = CodeOf(i)'] /\ code[i] = CodeOf(i)
  BY DEF code
<1>5. CASE CodeOf(i)' = CodeOf(i)
  BY <1>2, <1>3, <1>4, <1>5 DEF UseStep, code, uses
<1>6. CASE CodeOf(i) = "none" /\ CodeOf(i)' = "open"
  <2>1. Codes!Become(i, "none", "open")
    BY <1>3, <1>4, <1>6 DEF Codes!Become, code, uses
  <2>2. QED
    BY <1>2, <2>1 DEF UseStep, Codes!Next
<1>7. CASE CodeOf(i) = "open" /\ CodeOf(i)' = "void"
  <2>1. Codes!Become(i, "open", "void")
    BY <1>3, <1>4, <1>7 DEF Codes!Become, code, uses
  <2>2. QED
    BY <1>2, <2>1 DEF UseStep, Codes!Next
<1>8. QED
  BY <1>5, <1>6, <1>7

\* A handler acts on the code it holds and holds it no longer.
LEMMA CodeUsed ==
  ASSUME IInv, UseInv, UNCHANGED <<ver, confirmed>>,
         NEW w \in Workers, Holds(w), req' = [req EXCEPT ![w] = None],
         NEW i \in Ids, req[w].id = i, UsesOf(i)' = 1,
         \A j \in Ids \ {i} : UsesOf(j)' = UsesOf(j)
  PROVE  UseStep
<1>1. /\ \A v \in Workers : Holds(v) => req[v].id \in Ids /\ req[v].id \in confirmed /\ ver[req[v].id] # None
      /\ req \in [Workers -> Requests \cup {None}]
  BY VerTypes DEF Holds, Requests, GoodRequest, IInv, TypeOK, VerificationTypeOK
<1>2. \A v \in Workers : Holds(v)' => v # w /\ Holds(v) /\ req'[v] = req[v]
  BY <1>1 DEF Holds
<1>3. UseInv'
  <2>1. \A v \in Workers : Holds(v)' => req'[v].id # i /\ req'[v].id = req[v].id
    BY <1>2 DEF UseInv
  <2>2. \A v \in Workers : Holds(v)' => UsesOf(req[v].id)' = 0
    <3>1. \A j \in Ids : j # i => UsesOf(j)' = UsesOf(j)
      OBVIOUS
    <3>2. ASSUME NEW v \in Workers, Holds(v)'
          PROVE  UsesOf(req[v].id)' = 0
      <4>1. PICK j \in Ids : j = req[v].id /\ j # i /\ req'[v].id = j
        BY <1>1, <1>2, <2>1, <3>2
      <4>2. UsesOf(j) = 0
        BY <1>2, <3>2, <4>1 DEF UseInv
      <4>3. UsesOf(j)' = 0
        BY <3>1, <4>1, <4>2
      <4>4. QED
        BY <4>1, <4>3 DEF UsesOf, Opened
    <3>3. QED
      BY <3>2 DEF UsesOf, Opened
  <2>3. \A v, x \in Workers : Holds(v)' /\ Holds(x)' /\ req'[v].id = req'[x].id => v = x
    BY <1>2 DEF UseInv
  <2>4. \A j \in Ids : UsesOf(j)' # 0 => j \in confirmed'
    BY <1>1 DEF UseInv
  <2>5. QED
    BY <2>2, <2>3, <2>4 DEF UseInv
<1>4. code' = code /\ code[i] = "accepted" /\ uses[i] = 0
  BY <1>1 DEF code, uses, CodeOf, UseInv
<1>5. uses' = [uses EXCEPT ![i] = 1]
  BY <1>1 DEF uses
<1>6. Codes!Use(i)
  BY <1>4, <1>5 DEF Codes!Use, code, uses
<1>7. QED
  BY <1>1, <1>3, <1>6 DEF UseStep, Codes!Next

LEMMA UseKept ==
  ASSUME IInv, UseInv, OneTime, Next
  PROVE  UseStep
<1>0. /\ ver \in [Ids -> Verifications \cup {None}]
      /\ tokens \in [Tokens -> TokenDocs \cup {None}]
      /\ req \in [Workers -> Requests \cup {None}]
      /\ spent \in [Ids -> Nat]
      /\ \A w \in Workers : req[w] # None =>
           req[w] \in Requests /\ GoodRequest(req[w]) /\ req[w].id \in Ids /\ ver[req[w].id] # None
      /\ \A i \in Ids : ver[i] # None => ver[i] \in Verifications
      /\ None \notin Verifications
      /\ confirmed \subseteq Ids /\ \A i \in confirmed : ver[i] # None /\ ~ver[i].open
  BY VerTypes DEF IInv, TypeOK, VerificationTypeOK, SessionTypeOK, Requests, GoodRequest, IssuedInv, UseInv
\* Steps that touch neither codes nor what was made of them.
<1>1. ASSUME NoNewHolder, UNCHANGED <<confirmed, spent, ver>>,
             \/ tokens' = tokens
             \/ \E t \in Tokens, u \in Users : HandOut(u, t)
      PROVE  UseStep
  <2>1. \A i \in Ids : UsesOf(i)' = UsesOf(i)
    BY <1>1, UsesStay
  <2>2. \A i \in Ids : CodeOf(i)' = CodeOf(i)
    BY <1>1 DEF CodeOf
  <2>3. code' = code /\ uses' = uses
    BY <2>1, <2>2 DEF code, uses
  <2>4. \A w \in Workers : Holds(w) => req[w].id \in Ids
    BY <1>0 DEF Holds
  <2>5. UseInv'
    BY <1>0, <1>1, <2>1, <2>4 DEF UseInv, NoNewHolder
  <2>6. QED
    BY <2>3, <2>5 DEF UseStep, code, uses
<1>2. ASSUME NEW u \in Users, Chain(u)
      PROVE  UseStep
  BY <1>1, <1>2 DEF Chain, AddToWhiteList, AddReferral, Move, Mine, NoNewHolder, Holds, service, wallets
\* A verification is issued.
<1>3. ASSUME NEW i \in Ids, NEW u \in Users, NEW p \in Payloads, Issue(i, u, p),
             UNCHANGED <<req, confirmed, spent>>,
             \/ tokens' = tokens
             \/ \E t \in Tokens, v \in Users, j \in Ids, stored \in BOOLEAN : InitiateLogin(v, t, j, stored)
      PROVE  UseStep
  <2>1. NoNewHolder
    BY <1>3 DEF NoNewHolder, Holds
  <2>2. \A j \in Ids : UsesOf(j)' = UsesOf(j)
    BY <1>3, UsesStay
  <2>3. \A j \in Ids : j # i => ver'[j] = ver[j]
    BY <1>0, <1>3 DEF Issue
  <2>4. ver[i] = None /\ i \notin confirmed
    BY <1>0, <1>3 DEF Issue
  <2>5. ver'[i] # None /\ ver'[i].open
    <3> DEFINE d == [consumer |-> u, payload |-> p, wrong |-> 0, open |-> TRUE]
    <3>1. d \in Verifications /\ d.open
      BY DEF Verifications
    <3>2. ver'[i] = d
      BY <1>0, <1>3 DEF Issue
    <3> HIDE DEF d
    <3>3. QED
      BY <1>0, <3>1, <3>2
  <2>6. \A j \in Ids \ {i} : CodeOf(j)' = CodeOf(j)
    BY <1>3, <2>3 DEF CodeOf
  <2>7. CodeOf(i) = "none" /\ CodeOf(i)' = "open"
    BY <1>3, <2>4, <2>5 DEF CodeOf
  <2>8. \A j \in confirmed : ~ver'[j].open
    BY <1>0, <2>3, <2>4
  <2>9. QED
    BY <1>3, <2>1, <2>2, <2>6, <2>7, <2>8, CodeMoves
\* A verification is closed, or its count changes.
<1>4. ASSUME NEW i \in Ids, ver[i] # None, NoNewHolder, UNCHANGED <<confirmed, spent, tokens>>,
             \/ ver' = [ver EXCEPT ![i].open = FALSE]
             \/ ver' = [ver EXCEPT ![i].wrong = @ + 1]
      PROVE  UseStep
  <2>1. \A j \in Ids : UsesOf(j)' = UsesOf(j)
    BY <1>4, UsesStay
  <2>2. \A j \in Ids : j # i => ver'[j] = ver[j]
    BY <1>0, <1>4
  <2>3. ver'[i] # None /\ (ver'[i].open => ver[i].open) /\ ver'[i].open \in BOOLEAN /\ ver[i].open \in BOOLEAN
    <3>1. [ver[i] EXCEPT !.open = FALSE] \in Verifications /\ [ver[i] EXCEPT !.wrong = @ + 1] \in Verifications
      <4>1. ver[i] \in Verifications
        BY <1>0, <1>4
      <4>2. [ver[i] EXCEPT !.open = FALSE] \in Verifications
        BY <4>1 DEF Verifications
      <4>3. [ver[i] EXCEPT !.wrong = @ + 1] \in Verifications
        BY <4>1 DEF Verifications
      <4>4. QED
        BY <4>2, <4>3
    <3>2. \/ ver'[i] = [ver[i] EXCEPT !.open = FALSE]
          \/ ver'[i] = [ver[i] EXCEPT !.wrong = @ + 1]
      BY <1>0, <1>4
    <3>3. ver'[i] \in Verifications
      BY <3>1, <3>2
    <3>4. ver'[i] # None
      BY <1>0, <3>3
    <3>5. QED
      BY <1>0, <1>4, <3>2, <3>3, <3>4 DEF Verifications
  <2>4. \A j \in Ids \ {i} : CodeOf(j)' = CodeOf(j)
    BY <1>4, <2>2 DEF CodeOf
  <2>5. \/ CodeOf(i)' = CodeOf(i)
        \/ CodeOf(i) = "open" /\ CodeOf(i)' = "void"
    BY <1>4, <2>3 DEF CodeOf
  <2>6. \A j \in confirmed : ~ver'[j].open
    BY <1>0, <2>2, <2>3
  <2>7. QED
    BY <1>4, <2>1, <2>4, <2>5, <2>6, CodeMoves
<1>5. CASE SignIn
  <2>1. Login \in Payloads /\ Other \in Payloads
    BY DEF Payloads
  <2>2. spent' = spent
    BY <1>5 DEF SignIn, wallets
  <2>3. ASSUME NEW w \in Workers, NEW t \in Tokens, NEW i \in Ids, VerifyLogin(w, t, i)
        PROVE  UseStep
    <3>1. NoNewHolder
      BY <1>0, <2>3 DEF VerifyLogin, Begin, NoNewHolder, Holds
    <3>2. QED
      BY <1>1, <2>2, <2>3, <3>1 DEF VerifyLogin, service
  <2>4. ASSUME NEW u \in Users, NEW t \in Tokens, HandOut(u, t)
        PROVE  UseStep
    <3>1. NoNewHolder
      BY <2>4 DEF HandOut, NoNewHolder, Holds
    <3>2. QED
      BY <1>1, <2>2, <2>4, <3>1 DEF HandOut, service
  <2>5. ASSUME NEW u \in Users, NEW i \in Ids, InitiateOther(u, i)
        PROVE  UseStep
    BY <1>3, <2>1, <2>2, <2>5 DEF InitiateOther
  <2>6. ASSUME NEW u \in Users, NEW t \in Tokens, NEW i \in Ids, NEW stored \in BOOLEAN, InitiateLogin(u, t, i, stored)
        PROVE  UseStep
    <3>1. Issue(i, u, Login) /\ UNCHANGED <<confirmed, req>>
      BY <2>6 DEF InitiateLogin
    <3>2. QED
      BY <1>3, <2>1, <2>2, <2>6, <3>1
  <2>7. QED
    BY <1>5, <2>3, <2>4, <2>5, <2>6 DEF SignIn
<1>6. ASSUME NEW t \in Tokens, NEW u \in Users, NEW a \in Amounts, NEW i \in Ids,
             InvestInitiate(t, u, a, i) \/ \E w \in Workers : InvestVerify(w, t, u, a, i)
      PROVE  UseStep
  <2>1. Investment(a) \in Payloads
    BY DEF Payloads
  <2>2. CASE InvestInitiate(t, u, a, i)
    BY <1>3, <2>1, <2>2 DEF InvestInitiate, wallets
  <2>3. ASSUME NEW w \in Workers, InvestVerify(w, t, u, a, i)
        PROVE  UseStep
    <3>1. NoNewHolder
      BY <1>0, <2>3 DEF InvestVerify, Begin, NoNewHolder, Holds
    <3>2. QED
      BY <1>1, <2>3, <3>1 DEF InvestVerify, service, wallets
  <2>4. QED
    BY <1>6, <2>2, <2>3
<1>7. CASE Service
  BY <1>4, <1>7 DEF Service, Expire, NoNewHolder, Holds, wallets
<1>8. CASE Crash
  <2>1. ASSUME NEW W \in SUBSET Workers, Fail(W)
        PROVE  NoNewHolder /\ UNCHANGED <<ver, confirmed>>
    BY <2>1 DEF Fail, NoNewHolder, Holds
  <2>2. NoNewHolder /\ UNCHANGED <<ver, confirmed, spent, tokens>>
    BY <1>8, <2>1 DEF Crash, wallets
  <2>3. QED
    BY <1>1, <2>2
<1>9. ASSUME NEW w \in Workers, Answer(w)
      PROVE  NoNewHolder
  BY <1>0, <1>9 DEF Answer, NoNewHolder, Holds
<1>10. ASSUME NEW w \in Workers, req[w] # None, NEW pc, Goto(w, pc), Holds(w) \/ pc \in {"invalidate", "hung"}
       PROVE  NoNewHolder
  <2>1. req[w] \in Requests
    BY <1>0, <1>10
  <2>2. \A v \in Workers : v # w => req'[v] = req[v]
    BY <1>0, <1>10 DEF Goto
  <2>3. req'[w].id = req[w].id /\ req'[w].pc = pc
    BY <1>0, <1>10, <2>1 DEF Goto, Requests
  <2>4. QED
    BY <1>10, <2>2, <2>3 DEF NoNewHolder, Holds
<1>11. ASSUME NEW w \in Workers, RightCode(w), UNCHANGED <<tokens, spent>>
       PROVE  UseStep
  <2> DEFINE d == [req[w] EXCEPT !.pc = "accepted"]
  <2>1. PICK i \in Ids : i = req[w].id
    BY <1>0, <1>11 DEF RightCode, At
  <2>2. /\ req[w] \in Requests /\ ver[i] \in Verifications /\ ver[i] # None /\ ver[i].open
        /\ ver' = [ver EXCEPT ![i].open = ~OneTime] /\ confirmed' = confirmed \cup {i}
        /\ req' = [req EXCEPT ![w] = d] /\ ~Holds(w)
    BY <1>0, <1>11, <2>1 DEF RightCode, At, Goto, Holds
  <2>3. i \notin confirmed /\ UsesOf(i) = 0
    BY <1>0, <2>2 DEF UseInv
  <2>4. \A j \in Ids : UsesOf(j)' = UsesOf(j)
    BY <1>11, UsesStay
  <2>5. /\ \A j \in Ids : j # i => ver'[j] = ver[j]
        /\ ~ver'[i].open
    BY <1>0, <2>2 DEF Verifications
  <2>6. ver'[i] # None
    <3>1. [ver[i] EXCEPT !.open = ~OneTime] \in Verifications
      BY <2>2 DEF Verifications
    <3>2. ver'[i] = [ver[i] EXCEPT !.open = ~OneTime]
      BY <1>0, <2>2
    <3>3. QED
      BY <1>0, <3>1, <3>2
  <2>7. d.id = i
    BY <2>1, <2>2 DEF Requests
  <2> HIDE DEF d
  <2>8. \A v \in Workers : Holds(v)' => \/ v = w /\ req'[v].id = i
                                        \/ v # w /\ Holds(v) /\ req'[v] = req[v] /\ req[v].id # i /\ req[v].id \in Ids
    BY <1>0, <2>2, <2>3, <2>7 DEF Holds, GoodRequest
  <2>9. UseInv'
    <3>1. \A j \in confirmed' : ~ver'[j].open
      BY <1>0, <2>2, <2>5
    <3>2. \A j \in Ids : UsesOf(j)' # 0 => j \in confirmed'
      BY <2>2, <2>4 DEF UseInv
    <3>3. ASSUME NEW v \in Workers, Holds(v)'
          PROVE  UsesOf(req[v].id)' = 0
      <4>1. PICK j \in Ids : j = req'[v].id /\ UsesOf(j) = 0
        BY <2>3, <2>8, <3>3 DEF UseInv
      <4>2. UsesOf(j)' = 0
        BY <2>4, <4>1
      <4>3. QED
        BY <4>1, <4>2 DEF UsesOf, Opened
    <3>4. \A v, x \in Workers : Holds(v)' /\ Holds(x)' /\ req'[v].id = req'[x].id => v = x
      BY <2>8 DEF UseInv
    <3>5. QED
      BY <3>1, <3>2, <3>3, <3>4 DEF UseInv
  <2>10. /\ CodeOf(i) = "open" /\ CodeOf(i)' = "accepted"
         /\ \A j \in Ids : j # i => CodeOf(j)' = CodeOf(j)
    BY <2>2, <2>3, <2>5, <2>6 DEF CodeOf
  <2>11. code' = [code EXCEPT ![i] = "accepted"] /\ code[i] = "open" /\ uses' = uses
    BY <2>4, <2>10 DEF code, uses
  <2>12. Codes!Become(i, "open", "accepted")
    BY <2>11 DEF Codes!Become, code, uses
  <2>13. QED
    BY <2>9, <2>12 DEF UseStep, Codes!Next
<1>12. ASSUME NEW w \in Workers, Validate(w), UNCHANGED <<tokens, spent>>
       PROVE  UseStep
  <2>1. CASE RightCode(w)
    BY <1>11, <1>12, <2>1
  <2>2. CASE NotFound(w)
    BY <1>1, <1>9, <1>12, <2>2 DEF NotFound, service
  <2>3. ASSUME WrongCode(w) \/ InvalidateVerification(w)
        PROVE  UseStep
    <3>1. req[w] # None /\ req[w].id \in Ids /\ ver[req[w].id] # None
      BY <1>0, <2>3 DEF WrongCode, InvalidateVerification, At
    <3>2. NoNewHolder
      BY <1>9, <1>10, <2>3, <3>1 DEF WrongCode, InvalidateVerification
    <3>3. /\ confirmed' = confirmed
          /\ \/ ver' = [ver EXCEPT ![req[w].id].open = FALSE]
             \/ ver' = [ver EXCEPT ![req[w].id].wrong = @ + 1]
      BY <2>3 DEF WrongCode, InvalidateVerification
    <3>4. QED
      BY <1>4, <1>12, <3>1, <3>2, <3>3
  <2>4. QED
    BY <1>12, <2>1, <2>2, <2>3 DEF Validate
<1>13. ASSUME NEW w \in Workers, SaveToken(w), UNCHANGED wallets
       PROVE  UseStep
  <2> DEFINE t == req[w].token
  <2>1. PICK i \in Ids : i = req[w].id
    BY <1>0, <1>13 DEF SaveToken, At
  <2>2. /\ Holds(w) /\ t \in Tokens /\ tokens[t] # None /\ tokens[t] \in TokenDocs /\ tokens[t].ver = i
        /\ tokens' = [tokens EXCEPT ![t].verified = TRUE]
        /\ req' = [req EXCEPT ![w] = None]
        /\ UNCHANGED <<ver, confirmed, spent>>
    BY <1>0, <1>13, <2>1 DEF SaveToken, At, Holds, GoodRequest, Requests, Answer, service, wallets
  <2>3. UsesOf(i) = 0 /\ spent[i] \in Nat
    BY <1>0, <2>1, <2>2 DEF UseInv
  <2>4. spent[i] = 0
    BY <2>3 DEF UsesOf
  <2>5. /\ tokens'[t] # None /\ tokens'[t].ver = i /\ tokens'[t].verified
        /\ \A s \in Tokens : s # t => tokens'[s] = tokens[s]
    <3>1. [tokens[t] EXCEPT !.verified = TRUE] \in TokenDocs
      BY <2>2 DEF TokenDocs
    <3>2. tokens'[t] = [tokens[t] EXCEPT !.verified = TRUE]
      BY <1>0, <2>2
    <3>3. tokens'[t] # None
      BY <3>1, <3>2, VerTypes
    <3>4. QED
      BY <1>0, <2>2, <3>2, <3>3 DEF TokenDocs
  <2> HIDE DEF t
  <2>6. UsesOf(i)' = 1
    BY <2>2, <2>4, <2>5 DEF UsesOf, Opened
  <2>7. \A j \in Ids \ {i} : UsesOf(j)' = UsesOf(j)
    <3>1. \A j \in Ids \ {i} : Opened(j)' <=> Opened(j)
      BY <2>2, <2>5 DEF Opened
    <3>2. QED
      BY <2>2, <3>1 DEF UsesOf
  <2>8. QED
    BY <2>1, <2>2, <2>6, <2>7, CodeUsed
<1>14. ASSUME NEW w \in Workers, NodeTakes(w)
       PROVE  UseStep
  <2>1. PICK i \in Ids : i = req[w].id
    BY <1>0, <1>14 DEF NodeTakes, Sending, At
  <2>2. /\ Holds(w) /\ spent' = [spent EXCEPT ![i] = @ + 1]
        /\ req' = [req EXCEPT ![w] = None]
        /\ UNCHANGED <<ver, confirmed, tokens>>
    BY <1>14, <2>1 DEF NodeTakes, Sending, At, Holds, Answer, service
  <2>3. UsesOf(i) = 0 /\ spent[i] \in Nat
    BY <1>0, <2>1, <2>2 DEF UseInv
  <2>4. spent[i] = 0 /\ ~Opened(i)
    BY <2>3 DEF UsesOf
  <2>5. \A j \in Ids : Opened(j)' <=> Opened(j)
    BY <2>2 DEF Opened
  <2>6. UsesOf(i)' = 1 /\ \A j \in Ids \ {i} : UsesOf(j)' = UsesOf(j)
    BY <1>0, <2>2, <2>4, <2>5 DEF UsesOf
  <2>7. QED
    BY <2>1, <2>2, <2>6, CodeUsed
<1>15. ASSUME NEW w \in Workers, CheckBalance(w) \/ Unhandled(w) \/ NodeRefuses(w)
       PROVE  UseStep
  <2>1. UNCHANGED <<ver, confirmed, tokens, spent>>
    BY <1>15 DEF CheckBalance, Unhandled, NodeRefuses, service, wallets
  <2>2. CASE CheckBalance(w)
    <3>1. CASE SufficientBalance(req[w].user, req[w].payload.amount)
      <4>1. Holds(w) /\ Goto(w, "funded")
        BY <2>2, <3>1 DEF CheckBalance, At, Holds
      <4>2. QED
        BY <1>1, <1>10, <2>1, <4>1 DEF Holds
    <3>2. CASE ~SufficientBalance(req[w].user, req[w].payload.amount)
      <4>1. req' = [req EXCEPT ![w].pc = "rejected", ![w].seen = balance[req[w].user]]
        BY <2>2, <3>2 DEF CheckBalance
      <4>2. Holds(w) /\ req[w] \in Requests
        BY <1>0, <2>2 DEF CheckBalance, At, Holds
      <4>3. req'[w].id = req[w].id
        BY <1>0, <4>1, <4>2 DEF Requests
      <4>4. NoNewHolder
        BY <1>0, <4>1, <4>2, <4>3 DEF NoNewHolder, Holds
      <4>5. QED
        BY <1>1, <2>1, <4>4
    <3>3. QED
      BY <3>1, <3>2
  <2>3. CASE Unhandled(w)
    <3>1. NoNewHolder
      BY <1>9, <1>10, <2>3 DEF Unhandled
    <3>2. QED
      BY <1>1, <2>1, <3>1
  <2>4. CASE NodeRefuses(w)
    BY <1>1, <1>9, <2>1, <2>4 DEF NodeRefuses
  <2>5. QED
    BY <1>15, <2>2, <2>3, <2>4
<1>16. QED
  BY <1>2, <1>5, <1>6, <1>7, <1>8, <1>12, <1>13, <1>14, <1>15
     DEF Next, Routes, Continue, wallets

\* Provided that the verification service forgets what it has accepted, a code
\* opens one session or makes one investment: the routes implement CodeUse.
THEOREM RoutesImplementCodeUse ==
  ASSUME OneTime
  PROVE  Spec => ImplementsCodeUse
<1>1. Init => UseInv /\ Codes!Init
  <2> SUFFICES ASSUME Init PROVE UseInv /\ Codes!Init
    OBVIOUS
  <2>1. \A i \in Ids : UsesOf(i) = 0 /\ CodeOf(i) = "none"
    BY DEF Init, VerificationInit, SessionInit, UsesOf, Opened, CodeOf
  <2>2. UseInv
    BY <2>1 DEF Init, VerificationInit, UseInv, Holds
  <2>3. Codes!Init
    BY <2>1 DEF Codes!Init
  <2>4. QED
    BY <2>2, <2>3
<1>2. IInv /\ UseInv /\ [Next]_vars => UseStep
  <2>1. UNCHANGED vars /\ UseInv => UseStep
    BY DEF vars, UseInv, UseStep, Holds, code, uses, UsesOf, Opened, CodeOf
  <2>2. QED
    BY <2>1, UseKept
<1>3. UseStep => UseInv' /\ [Codes!Next]_<<code, uses>>
  BY DEF UseStep
<1>4. QED
  BY <1>1, <1>2, <1>3, Invariance, PTL DEF Spec, ImplementsCodeUse, Codes!Spec, code, uses

-----------------------------------------------------------------------------
(* Progress                                                                *)

Early(w)  == At(w, "validate")
Middle(w) == At(w, "invalidate") \/ At(w, "accepted")
Late(w)   == At(w, "funded") \/ At(w, "rejected")
Done(w)   == req[w] = None \/ At(w, "hung")

\* A request is somewhere.
LEMMA Stages ==
  ASSUME IInv, NEW w \in Workers
  PROVE  Early(w) \/ Middle(w) \/ Late(w) \/ Done(w)
<1>1. req[w] # None => req[w] \in Requests
  BY VerTypes
<1>2. QED
  BY <1>1 DEF Requests, Early, Middle, Late, Done, At

\* A request in flight changes by its own steps only, or is failed.
LEMMA OwnSteps ==
  ASSUME IInv, [Next]_vars, NEW w \in Workers, req[w] # None
  PROVE  \/ req'[w] = req[w]
         \/ Continue(w)
         \/ req'[w] = None /\ (At(w, "invalidate") => req[w].id \in disturbed')
<1>1. req \in [Workers -> Requests \cup {None}]
  BY DEF IInv, TypeOK, VerificationTypeOK
<1>2. ASSUME NEW u \in Users, Chain(u)
      PROVE  req' = req
  BY <1>2 DEF Chain, AddToWhiteList, AddReferral, Move, Mine
<1>3. ASSUME NEW v \in Workers, NEW r, Begin(v, r)
      PROVE  req'[w] = req[w]
  BY <1>1, <1>3 DEF Begin
<1>4. SignIn => req'[w] = req[w]
  <2>1. ASSUME NEW v \in Workers, NEW t \in Tokens, NEW i \in Ids, VerifyLogin(v, t, i)
        PROVE  req'[w] = req[w]
    BY <1>3, <2>1 DEF VerifyLogin
  <2>2. QED
    BY <2>1 DEF SignIn, InitiateLogin, InitiateOther, HandOut
<1>5. Routes => req'[w] = req[w]
  BY <1>3 DEF Routes, InvestInitiate, InvestVerify
<1>6. Service \/ UNCHANGED vars => req' = req
  BY DEF Service, Expire, vars
<1>7. ASSUME NEW v \in Workers, v # w, Continue(v)
      PROVE  req'[w] = req[w]
  <2>1. \E r : req' = [req EXCEPT ![v] = r]
    BY <1>7 DEF Continue, Validate, RightCode, WrongCode, NotFound, InvalidateVerification, SaveToken,
                CheckBalance, Unhandled, NodeTakes, NodeRefuses, Goto, Answer
  <2>2. QED
    BY <1>1, <1>7, <2>1
<1>8. ASSUME NEW W \in SUBSET Workers, Fail(W)
      PROVE  \/ req'[w] = req[w]
             \/ req'[w] = None /\ (At(w, "invalidate") => req[w].id \in disturbed')
  <2>1. CASE w \in W
    BY <1>8, <2>1 DEF Fail, Undeleted
  <2>2. CASE w \notin W
    BY <1>8, <2>2 DEF Fail
  <2>3. QED
    BY <2>1, <2>2
<1>9. Crash => \/ req'[w] = req[w]
               \/ req'[w] = None /\ (At(w, "invalidate") => req[w].id \in disturbed')
  BY <1>8 DEF Crash
<1>10. QED
  BY <1>2, <1>4, <1>5, <1>6, <1>7, <1>9, Zenon DEF Next

LEMMA GotoAt ==
  ASSUME IInv, NEW w \in Workers, req[w] # None, NEW pc, Goto(w, pc)
  PROVE  At(w, pc)' \/ req'[w] = None
<1>1. req \in [Workers -> Requests \cup {None}] /\ req[w] \in Requests
  BY DEF IInv, TypeOK, VerificationTypeOK
<1>2. QED
  BY <1>1 DEF Goto, At, Requests

\* Every step of a request takes it to a later stage.
LEMMA StageSteps ==
  ASSUME IInv, NEW w \in Workers, Continue(w)
  PROVE  /\ Early(w) => Middle(w)' \/ Done(w)'
         /\ Middle(w) => Late(w)' \/ Done(w)'
         /\ Late(w) => Done(w)'
<1>1. req \in [Workers -> Requests \cup {None}] /\ (req[w] # None => req[w] \in Requests)
  BY DEF IInv, TypeOK, VerificationTypeOK
<1>2. Answer(w) => Done(w)'
  BY <1>1 DEF Answer, Done
<1>3. CASE Validate(w)
  <2>1. CASE RightCode(w)
    BY <2>1, GotoAt DEF RightCode, Early, Middle, Late, Done, At
  <2>2. CASE WrongCode(w)
    BY <1>2, <2>2, GotoAt DEF WrongCode, Early, Middle, Late, Done, At
  <2>3. CASE NotFound(w) \/ InvalidateVerification(w)
    BY <1>2, <2>3 DEF NotFound, InvalidateVerification
  <2>4. QED
    BY <1>3, <2>1, <2>2, <2>3 DEF Validate
<1>4. CASE SaveToken(w) \/ NodeTakes(w) \/ NodeRefuses(w)
  BY <1>2, <1>4 DEF SaveToken, NodeTakes, NodeRefuses
<1>5. CASE CheckBalance(w)
  <2>1. At(w, "accepted") /\ ~Early(w) /\ ~Late(w)
    BY <1>5 DEF CheckBalance, At, Early, Late
  <2>2. CASE Goto(w, "funded")
    BY <2>1, <2>2, GotoAt DEF At, Late, Done
  <2>3. CASE req' = [req EXCEPT ![w].pc = "rejected", ![w].seen = balance[req[w].user]]
    BY <1>1, <2>1, <2>3 DEF At, Late, Done, Requests
  <2>4. QED
    BY <1>5, <2>2, <2>3 DEF CheckBalance
<1>6. CASE Unhandled(w)
  <2>1. req[w] # None /\ (Answer(w) \/ Goto(w, "hung"))
    BY <1>6 DEF Unhandled
  <2>2. Done(w)'
    BY <1>2, <2>1, GotoAt DEF Done
  <2>3. QED
    BY <1>6, <2>2 DEF Unhandled, Early, At
<1>7. QED
  BY <1>3, <1>4, <1>5, <1>6 DEF Continue

\* A request is answered or hangs, whatever else is in flight.  That a request
\* which is not hung can continue (NeverStuck) is a premise: TLC checks it, and
\* the prover does not know ENABLED.
THEOREM RequestsAreAnswered == FairSpec /\ []NeverStuck => AnsweredUnlessHung
<1> DEFINE Live == [][Next]_vars /\ []IInv /\ []NeverStuck
<1>1. ASSUME NEW w \in Workers
      PROVE  Spec /\ []NeverStuck /\ Fair(w) => ((req[w] # None) ~> Done(w))
  <2>1. NeverStuck => Done(w) \/ CanContinue(w)
    BY DEF NeverStuck, Done, At
  <2>2. Live /\ Fair(w) => (Late(w) ~> Done(w))
    <3>1. IInv /\ [Next]_vars /\ Late(w) => Late(w)' \/ Done(w)'
      BY OwnSteps, StageSteps DEF Late, Done, At
    <3>2. IInv /\ Late(w) /\ <<Continue(w)>>_vars => Done(w)'
      BY StageSteps
    <3>3. QED
      BY <2>1, <3>1, <3>2, PTL DEF Fair, CanContinue
  <2>3. Live /\ Fair(w) => (Middle(w) ~> (Late(w) \/ Done(w)))
    <3>1. IInv /\ [Next]_vars /\ Middle(w) => Middle(w)' \/ Late(w)' \/ Done(w)'
      BY OwnSteps, StageSteps DEF Middle, Late, Done, At
    <3>2. IInv /\ Middle(w) /\ <<Continue(w)>>_vars => Late(w)' \/ Done(w)'
      BY StageSteps
    <3>3. QED
      BY <2>1, <3>1, <3>2, PTL DEF Fair, CanContinue
  <2>4. Live /\ Fair(w) => (Early(w) ~> (Middle(w) \/ Done(w)))
    <3>1. IInv /\ [Next]_vars /\ Early(w) => Early(w)' \/ Middle(w)' \/ Done(w)'
      BY OwnSteps, StageSteps DEF Early, Middle, Done, At
    <3>2. IInv /\ Early(w) /\ <<Continue(w)>>_vars => Middle(w)' \/ Done(w)'
      BY StageSteps
    <3>3. QED
      BY <2>1, <3>1, <3>2, PTL DEF Fair, CanContinue
  <2>5. IInv => Early(w) \/ Middle(w) \/ Late(w) \/ Done(w)
    BY Stages
  <2>6. QED
    BY <2>2, <2>3, <2>4, <2>5, Invariance, PTL DEF Spec
<1>2. QED
  BY <1>1 DEF FairSpec, AnsweredUnlessHung, Done

Exhausted(i)   == ver[i] # None /\ ver[i].wrong >= MaxAttempts
Closed(i)      == (ver[i] # None /\ ~ver[i].open) \/ i \in disturbed
Deleting(w, i) == At(w, "invalidate") /\ req[w].id = i

\* While an exhausted verification is open, some handler is about to delete it.
LEMMA ExhaustedIsDeleted ==
  ASSUME IInv, AttemptsInv, NEW i \in Ids, Exhausted(i), ~Closed(i)
  PROVE  \E w \in Workers : Deleting(w, i)
<1>1. /\ ver[i] # None /\ ver[i].open /\ i \notin disturbed /\ ver[i].wrong \in Nat
      /\ ver[i].wrong >= MaxAttempts
  BY VerTypes DEF Exhausted, Closed, Verifications
<1>2. Cardinality(Invalidating(i)) \in Nat
  BY CountType DEF Invalidating
<1>3. Cardinality(Invalidating(i)) # 0
  BY <1>1, <1>2, VerificationConstants DEF AttemptsInv
<1>4. Invalidating(i) # {}
  BY <1>3, FS_EmptySet
<1>5. QED
  BY <1>4 DEF Invalidating, Deleting

LEMMA DeletingSteps ==
  ASSUME IInv, [Next]_vars, NEW w \in Workers, NEW i \in Ids, Deleting(w, i)
  PROVE  /\ Deleting(w, i)' \/ Closed(i)'
         /\ Continue(w) => Closed(i)'
<1>1. /\ ver \in [Ids -> Verifications \cup {None}]
      /\ req[w] # None /\ req[w].id = i /\ req[w].pc = "invalidate"
      /\ ver[i] \in Verifications /\ None \notin Verifications
  BY VerTypes DEF IInv, TypeOK, VerificationTypeOK, Deleting, At, GoodRequest
<1>2. ASSUME Continue(w)
      PROVE  Closed(i)'
  <2>1. InvalidateVerification(w)
    BY <1>1, <1>2 DEF Continue, Validate, RightCode, WrongCode, NotFound, SaveToken, CheckBalance,
                      Unhandled, NodeTakes, NodeRefuses, Sending, At
  <2>2. ver'[i] = [ver[i] EXCEPT !.open = FALSE]
    BY <1>1, <2>1 DEF InvalidateVerification
  <2>3. ver'[i] \in Verifications /\ ~ver'[i].open
    BY <1>1, <2>2 DEF Verifications
  <2>4. QED
    BY <1>1, <2>3 DEF Closed
<1>3. QED
  BY <1>1, <1>2, OwnSteps DEF Deleting, At, Closed

\* A verification whose attempts are used up is deleted, unless that fails, for
\* any number of handlers that count and delete at the same time.
THEOREM ExhaustedAreClosed == FairSpec /\ []NeverStuck => ExhaustedIsClosed
<1> DEFINE Live  == [][Next]_vars /\ []IInv /\ []NeverStuck
           Fairs == \A w \in Workers : Fair(w)
<1>1. ASSUME NEW i \in Ids, NEW w \in Workers
      PROVE  Live /\ Fair(w) => (Deleting(w, i) => <>Closed(i))
  <2>1. NeverStuck /\ Deleting(w, i) => CanContinue(w)
    BY DEF NeverStuck, Deleting, At
  <2>2. IInv /\ [Next]_vars /\ Deleting(w, i) => Deleting(w, i)' \/ Closed(i)'
    BY DeletingSteps
  <2>3. IInv /\ [Next]_vars /\ Deleting(w, i) /\ <<Continue(w)>>_vars => Closed(i)'
    BY DeletingSteps
  <2>4. QED
    BY <2>1, <2>2, <2>3, PTL DEF Fair, CanContinue
<1>2. Fairs => []Fairs
  <2>1. ASSUME NEW w \in Workers
        PROVE  Fair(w) => []Fair(w)
    BY PTL DEF Fair
  <2>2. QED
    BY <2>1
<1>3. ASSUME NEW i \in Ids
      PROVE  Spec /\ []NeverStuck /\ Fairs => (Exhausted(i) ~> Closed(i))
  <2> DEFINE Deleted == \E w \in Workers : Deleting(w, i)
  <2>1. Live /\ Fairs => (Deleted => <>Closed(i))
    BY <1>1
  <2>2. IInv /\ AttemptsInv /\ Exhausted(i) => Closed(i) \/ Deleted
    BY ExhaustedIsDeleted
  <2>3. QED
    BY <1>2, <2>1, <2>2, Invariance, AttemptsInvariance, PTL DEF Spec
<1>4. QED
  BY <1>3 DEF FairSpec, ExhaustedIsClosed, Exhausted, Closed
=============================================================================
