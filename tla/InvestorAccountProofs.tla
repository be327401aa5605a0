----------------------- MODULE InvestorAccountProofs -----------------------
(* Theorems about InvestorAccount for any number of accounts, passwords,   *)
(* wallets and overlapping handlers.                                       *)
EXTENDS InvestorAccount, TLAPS

\* An active investor has a wallet, and only an active one has.
Coherent(d) == d.active <=> d.wallet # None

\* What a handler is about to save changes of what it read only what its
\* operation is for.
GoodRequest(r) ==
  /\ r.op = "create" <=> r.read = None
  /\ Coherent(r.tx)
  /\ r.op # "create" => Coherent(r.read)
  /\ r.op = "create" => r.tx.wallet = None
  /\ r.op = "activate" => ~r.read.active /\ r.tx.active
  /\ r.op \notin {"create", "activate"} => r.tx.wallet = r.read.wallet
  /\ r.op \notin {"create", "change", "reset"} => r.tx.password = r.read.password
  /\ r.pc = "auth" => r.op \in {"create", "change", "reset"}
  /\ r.pc = "login" => r.op \in {"activate", "change"}
  /\ r.pc = "refer" => r.op = "activate"

\* Points of a handler before its save.
Unsaved == {"refer", "save"}

DocInv == \A u \in Users : db[u] # None => Coherent(db[u])

ReqInv == \A w \in Workers : req[w] # None => GoodRequest(req[w])

\* What comes after a save finds the document; nothing comes before it.
SavedInv ==
  /\ \A w \in Workers : req[w] # None /\ req[w].pc \notin Unsaved => db[req[w].who] # None
  /\ \A u \in Users : db[u] = None => handed[u] = {}

\* An activation that has saved is about to hand over the wallet in the document.
HandingInv ==
  \A w \in Workers :
    /\ req[w] # None
    /\ req[w].op = "activate" /\ req[w].pc = "login"
    /\ req[w].who \notin disturbed
    => db[req[w].who].wallet = req[w].tx.wallet

\* What is about to be saved as active has its wallet registered.
ReferInv ==
  \A w \in Workers :
    /\ req[w] # None
    /\ req[w].tx.active /\ req[w].pc # "refer"
    /\ req[w].who \in Referred
    => req[w].tx.wallet \in registered

IInv == /\ TypeOK /\ DocInv /\ ReqInv /\ SavedInv /\ HandingInv /\ ReferInv
        /\ PasswordsAgree /\ WalletIsHandedOut /\ ReferralIsRegistered

-----------------------------------------------------------------------------
(* Starting                                                                *)

\* A handler starts with a good request: nothing else changes but the wallets
\* drawn.
LEMMA BeginKeepsInv ==
  ASSUME IInv, NEW w \in Workers, NEW op \in Ops, NEW u \in Users, NEW tx \in Docs,
         Begin(w, op, u, tx), drawn' \in SUBSET Wallets,
         GoodRequest([op |-> op, pc |-> FirstPoint(op, u), who |-> u, read |-> db[u], tx |-> tx])
  PROVE  IInv'
<1> DEFINE r == [op |-> op, pc |-> FirstPoint(op, u), who |-> u, read |-> db[u], tx |-> tx]
<1>1. r \in Requests
  BY DEF IInv, TypeOK, Requests, FirstPoint
<1>2. /\ req' = [req EXCEPT ![w] = r]
      /\ req[w] = None
      /\ UNCHANGED <<db, auth, tokens, handed, registered, disturbed>>
  BY DEF Begin
<1>3. TypeOK'
  BY <1>1, <1>2 DEF IInv, TypeOK
<1>4. \A v \in Workers : \/ v = w /\ req'[v] = r
                         \/ v # w /\ req'[v] = req[v]
  BY <1>2 DEF IInv, TypeOK
<1>5. DocInv' /\ ReqInv'
  BY <1>2, <1>4 DEF IInv, DocInv, ReqInv
<1>6. SavedInv' /\ HandingInv' /\ ReferInv' /\ ReferralIsRegistered'
  <2>1. tx.active /\ r.pc # "refer" /\ u \in Referred => tx.wallet \in registered
    <3> SUFFICES ASSUME tx.active, r.pc # "refer", u \in Referred
                 PROVE  tx.wallet \in registered
      OBVIOUS
    <3>1. op # "activate"
      BY DEF FirstPoint
    <3>2. GoodRequest(r) /\ r.op = op /\ r.tx = tx /\ r.read = db[u]
      OBVIOUS
    <3>3. op # "create" /\ tx.wallet # None
      BY <3>2 DEF GoodRequest, Coherent
    <3>4. tx.wallet = db[u].wallet /\ db[u] # None /\ db[u].active
      BY <3>1, <3>2, <3>3 DEF GoodRequest, Coherent
    <3>5. QED
      BY <3>4 DEF IInv, ReferralIsRegistered
  <2>2. ReferInv'
    BY <1>2, <1>4, <2>1 DEF IInv, ReferInv
  <2>3. QED
    BY <1>2, <1>4, <2>2 DEF IInv, SavedInv, HandingInv, ReferralIsRegistered, FirstPoint, Unsaved
<1>7. PasswordsAgree'
  BY <1>2, <1>4 DEF IInv, PasswordsAgree, FirstPoint
<1>8. WalletIsHandedOut'
  BY <1>2, <1>4 DEF IInv, WalletIsHandedOut, FirstPoint
<1>9. QED
  BY <1>3, <1>5, <1>6, <1>7, <1>8 DEF IInv

LEMMA ReceiveKeepsInv ==
  ASSUME IInv, NEW w \in Workers, NEW u \in Users, Receive(w, u)
  PROVE  IInv'
<1> DEFINE r(op, tx) == [op |-> op, pc |-> FirstPoint(op, u), who |-> u, read |-> db[u], tx |-> tx]
<1>1. drawn \in SUBSET Wallets /\ db[u] \in Docs \cup {None}
  BY DEF IInv, TypeOK
<1>2. db[u] # None => db[u] \in Docs /\ Coherent(db[u])
  BY <1>1 DEF IInv, DocInv
<1>3. ASSUME NEW p \in Passwords, Create(w, u, p)
      PROVE  IInv'
  <2> DEFINE d == [active |-> FALSE, wallet |-> None, password |-> p, method |-> "email"]
  <2>1. d \in Docs
    BY DEF Docs
  <2>2. GoodRequest(r("create", d))
    BY <1>3 DEF Create, GoodRequest, Coherent, FirstPoint
  <2>3. QED
    BY <1>1, <1>3, <2>1, <2>2, BeginKeepsInv DEF Create, Ops
<1>4. ASSUME NEW op \in {"resend", "change", "reset", "factor", "invite"}, NEW e \in Docs,
             db[u] # None, Begin(w, op, u, e), drawn' = drawn,
             e.active = db[u].active, e.wallet = db[u].wallet,
             op \notin {"change", "reset"} => e.password = db[u].password
      PROVE  IInv'
  <2>1. GoodRequest(r(op, e))
    BY <1>2, <1>4 DEF GoodRequest, Coherent, FirstPoint
  <2>2. QED
    BY <1>1, <1>4, <2>1, BeginKeepsInv DEF Ops
<1>5. CASE ResendVerification(w, u)
  BY <1>2, <1>4, <1>5 DEF ResendVerification
<1>6. CASE Invite(w, u)
  BY <1>2, <1>4, <1>6 DEF Invite, Authenticated
<1>7. ASSUME NEW p \in Passwords, VerifyChangePassword(w, u, p) \/ VerifyResetPassword(w, u, p)
      PROVE  IInv'
  <2>1. db[u] # None
    BY <1>7 DEF VerifyChangePassword, VerifyResetPassword, Authenticated
  <2>2. /\ [db[u] EXCEPT !.password = p] \in Docs
        /\ [db[u] EXCEPT !.password = p].active = db[u].active
        /\ [db[u] EXCEPT !.password = p].wallet = db[u].wallet
    BY <1>2, <2>1 DEF Docs
  <2>3. QED
    BY <1>4, <1>7, <2>1, <2>2 DEF VerifyChangePassword, VerifyResetPassword
<1>8. ASSUME NEW method \in {"email", "authenticator"}, SetMethod(w, u, method)
      PROVE  IInv'
  <2>1. db[u] # None
    BY <1>8 DEF SetMethod, Authenticated
  <2>2. /\ [db[u] EXCEPT !.method = method] \in Docs
        /\ [db[u] EXCEPT !.method = method].active = db[u].active
        /\ [db[u] EXCEPT !.method = method].wallet = db[u].wallet
        /\ [db[u] EXCEPT !.method = method].password = db[u].password
    BY <1>2, <2>1 DEF Docs
  <2>3. QED
    BY <1>4, <1>8, <2>1, <2>2 DEF SetMethod
<1>9. ASSUME NEW wallet \in Wallets, Activate(w, u, wallet)
      PROVE  IInv'
  <2> DEFINE e == [db[u] EXCEPT !.active = TRUE, !.wallet = wallet]
  <2>1. db[u] # None /\ ~db[u].active
    BY <1>9 DEF Activate
  <2>2. /\ e \in Docs
        /\ e.active /\ e.wallet = wallet /\ e.password = db[u].password
    BY <1>2, <2>1 DEF Docs
  <2>3. GoodRequest(r("activate", e))
    BY <1>2, <2>1, <2>2, AccountConstants DEF GoodRequest, Coherent, FirstPoint
  <2>4. drawn' \in SUBSET Wallets
    BY <1>1, <1>9 DEF Activate
  <2>5. QED
    BY <1>9, <2>2, <2>3, <2>4, BeginKeepsInv DEF Activate, Ops
<1>10. QED
  BY <1>3, <1>5, <1>6, <1>7, <1>8, <1>9 DEF Receive

-----------------------------------------------------------------------------
(* Going on                                                                *)

\* A handler goes on with the same request, or ends.
LEMMA GotoStep ==
  ASSUME TypeOK, NEW w \in Workers, req[w] # None,
         NEW pc \in {"auth", "login", "answer"}, Goto(w, pc)
  PROVE  /\ req' \in [Workers -> Requests \cup {None}]
         /\ \A v \in Workers : v # w => req'[v] = req[v]
         /\ pc = "answer" => req'[w] = None
         /\ pc # "answer" =>
              /\ req'[w] # None
              /\ req'[w].pc = pc /\ req'[w].op = req[w].op /\ req'[w].who = req[w].who
              /\ req'[w].read = req[w].read /\ req'[w].tx = req[w].tx
<1>1. req[w] \in Requests
  BY DEF TypeOK
<1>2. /\ [req[w] EXCEPT !.pc = pc].op = req[w].op
      /\ [req[w] EXCEPT !.pc = pc].pc = pc
      /\ [req[w] EXCEPT !.pc = pc].who = req[w].who
      /\ [req[w] EXCEPT !.pc = pc].read = req[w].read
      /\ [req[w] EXCEPT !.pc = pc].tx = req[w].tx
      /\ pc # "answer" => [req[w] EXCEPT !.pc = pc] \in Requests
  BY <1>1 DEF Requests
<1>3. req' = [req EXCEPT ![w] = IF pc = "answer" THEN None ELSE [req[w] EXCEPT !.pc = pc]]
  BY DEF Goto, TypeOK
<1>4. /\ \A v \in Workers : v # w => req'[v] = req[v]
      /\ req'[w] = IF pc = "answer" THEN None ELSE [req[w] EXCEPT !.pc = pc]
  BY <1>3 DEF TypeOK
<1>5. req' \in [Workers -> Requests \cup {None}]
  BY <1>2, <1>3 DEF TypeOK
<1>6. QED
  BY <1>2, <1>4, <1>5, AccountConstants

\* The requests stay good if the worker's next point fits its operation.
LEMMA GotoKeepsReq ==
  ASSUME TypeOK, ReqInv, NEW w \in Workers, req[w] # None,
         NEW pc \in {"auth", "login", "answer"}, Goto(w, pc),
         pc = "auth" => req[w].op \in {"create", "change", "reset"},
         pc = "login" => req[w].op \in {"activate", "change"}
  PROVE  ReqInv'
<1> SUFFICES ASSUME NEW v \in Workers, req'[v] # None
             PROVE  GoodRequest(req'[v])
  BY DEF ReqInv
<1>1. CASE v # w
  BY <1>1, GotoStep DEF ReqInv
<1>2. CASE v = w
  BY <1>2, GotoStep DEF ReqInv, GoodRequest
<1>3. QED
  BY <1>1, <1>2

\* A registered referral changes nothing but the registry and the handler's point.
LEMMA AddReferralOfKeepsInv ==
  ASSUME IInv, NEW w \in Workers, AddReferralOf(w)
  PROVE  IInv'
<1> DEFINE r == [req[w] EXCEPT !.pc = "save"]
<1>1. /\ req[w] # None /\ req[w] \in Requests /\ req[w].pc = "refer"
      /\ GoodRequest(req[w]) /\ req[w].op = "activate"
      /\ req' = [req EXCEPT ![w] = r]
      /\ registered' = registered \cup {req[w].tx.wallet}
      /\ UNCHANGED <<db, auth, tokens, drawn, handed, disturbed>>
  BY DEF AddReferralOf, IInv, TypeOK, ReqInv, GoodRequest
<1>2. /\ r \in Requests /\ r # None /\ r.pc = "save"
      /\ r.op = req[w].op /\ r.who = req[w].who /\ r.read = req[w].read /\ r.tx = req[w].tx
  BY <1>1, AccountConstants DEF Requests
<1>3. \A v \in Workers : \/ v = w /\ req'[v] = r
                         \/ v # w /\ req'[v] = req[v]
  BY <1>1 DEF IInv, TypeOK
<1>4. req[w].tx.wallet \in Wallets
  BY <1>1 DEF GoodRequest, Coherent, Requests, Docs
<1>5. TypeOK'
  BY <1>1, <1>2, <1>4 DEF IInv, TypeOK
<1>6. GoodRequest(r)
  BY <1>1, <1>2 DEF GoodRequest
<1>7. DocInv' /\ ReqInv'
  BY <1>1, <1>3, <1>6 DEF IInv, DocInv, ReqInv
<1>8. SavedInv' /\ HandingInv'
  BY <1>1, <1>2, <1>3 DEF IInv, SavedInv, HandingInv, Unsaved
<1>9. ReferInv' /\ ReferralIsRegistered'
  BY <1>1, <1>2, <1>3 DEF IInv, ReferInv, ReferralIsRegistered
<1>10. PasswordsAgree'
  BY <1>1, <1>2, <1>3 DEF IInv, PasswordsAgree
<1>11. WalletIsHandedOut'
  BY <1>1, <1>2, <1>3 DEF IInv, WalletIsHandedOut
<1>12. QED
  BY <1>5, <1>7, <1>8, <1>9, <1>10, <1>11 DEF IInv

LEMMA SaveKeepsInv ==
  ASSUME IInv, NEW w \in Workers, Save(w)
  PROVE  IInv'
<1> DEFINE u == req[w].who
           op == req[w].op
           d == req[w].read
           e == req[w].tx
           pc == AfterSave(op)
<1>1. /\ req[w] # None /\ req[w] \in Requests /\ req[w].pc = "save"
      /\ u \in Users /\ op \in Ops /\ e \in Docs
      /\ GoodRequest(req[w])
  BY DEF Save, IInv, TypeOK, ReqInv, Requests
<1>2. /\ db' = [db EXCEPT ![u] = e]
      /\ disturbed' = IF Stale(w) THEN disturbed \cup {u} ELSE disturbed
      /\ Goto(w, pc)
      /\ op = "create" => db[u] = None
      /\ UNCHANGED <<auth, tokens, drawn, handed, registered>>
  BY DEF Save
<1>3. /\ db'[u] = e /\ e # None
      /\ \A t \in Users : t # u => db'[t] = db[t]
      /\ db' \in [Users -> Docs \cup {None}]
  BY <1>1, <1>2, AccountConstants DEF IInv, TypeOK
<1>4. /\ pc \in {"auth", "login", "answer"}
      /\ pc = "auth" <=> op \in {"create", "change", "reset"}
      /\ pc = "login" <=> op = "activate"
  BY DEF AfterSave
<1>5. TypeOK'
  BY <1>1, <1>2, <1>3, <1>4, GotoStep DEF IInv, TypeOK
<1>6. DocInv'
  BY <1>1, <1>3 DEF IInv, DocInv, GoodRequest
<1>7. ReqInv'
  BY <1>1, <1>2, <1>4, GotoKeepsReq DEF IInv
<1>8. SavedInv'
  <2>1. \A v \in Workers : req'[v] # None /\ req'[v].pc \notin Unsaved => db'[req'[v].who] # None
    <3> SUFFICES ASSUME NEW v \in Workers, req'[v] # None, req'[v].pc \notin Unsaved
                 PROVE  db'[req'[v].who] # None
      OBVIOUS
    <3>1. CASE v = w
      BY <1>1, <1>2, <1>3, <1>4, <3>1, GotoStep DEF IInv
    <3>2. CASE v # w
      <4>1. req'[v] = req[v] /\ req[v].who \in Users
        BY <1>1, <1>2, <1>4, <3>2, GotoStep DEF IInv, TypeOK, Requests
      <4>2. QED
        BY <1>3, <4>1 DEF IInv, SavedInv, Unsaved
    <3>3. QED
      BY <3>1, <3>2
  <2>2. QED
    BY <1>2, <1>3, <2>1 DEF IInv, SavedInv, Unsaved
<1>9. ASSUME u \notin disturbed'
      PROVE  u \notin disturbed /\ db[u] = d /\ (d # None => op # "create" /\ Coherent(d))
  BY <1>1, <1>2, <1>9 DEF Stale, GoodRequest
<1>10. HandingInv'
  <2> SUFFICES ASSUME NEW v \in Workers, req'[v] # None, req'[v].op = "activate",
                      req'[v].pc = "login", req'[v].who \notin disturbed'
               PROVE  db'[req'[v].who].wallet = req'[v].tx.wallet
    BY DEF HandingInv
  <2>1. CASE v = w
    BY <1>1, <1>2, <1>3, <1>4, <2>1, GotoStep DEF IInv
  <2>2. CASE v # w
    <3>1. req'[v] = req[v] /\ req[v].who \in Users /\ GoodRequest(req[v])
      BY <1>1, <1>2, <1>4, <2>2, GotoStep DEF IInv, TypeOK, ReqInv, Requests
    <3>2. req[v].who \notin disturbed
      BY <1>2, <3>1
    <3>3. /\ db[req[v].who].wallet = req[v].tx.wallet /\ db[req[v].who] # None
          /\ req[v].tx.wallet # None
      BY <3>1, <3>2 DEF IInv, HandingInv, SavedInv, Unsaved, GoodRequest, Coherent
    <3>4. CASE req[v].who = u
      <4>1. db[u] = d /\ Coherent(d) /\ op # "create"
        BY <1>9, <3>1, <3>3, <3>4
      <4>2. op # "activate"
        BY <1>1, <3>3, <3>4, <4>1 DEF GoodRequest, Coherent
      <4>3. e.wallet = d.wallet
        BY <1>1, <4>1, <4>2 DEF GoodRequest
      <4>4. QED
        BY <1>3, <3>1, <3>3, <3>4, <4>1, <4>3
    <3>5. CASE req[v].who # u
      BY <1>3, <3>1, <3>3, <3>5
    <3>6. QED
      BY <3>4, <3>5
  <2>3. QED
    BY <2>1, <2>2
<1>11. PasswordsAgree'
  <2> SUFFICES ASSUME NEW t \in Users, db'[t] # None, t \notin disturbed'
               PROVE  \/ auth[t] = db'[t].password
                      \/ \E v \in Workers : /\ req'[v] # None /\ req'[v].who = t /\ req'[v].pc = "auth"
                                            /\ req'[v].tx.password = db'[t].password
    BY <1>2 DEF PasswordsAgree
  <2>1. CASE t = u /\ pc = "auth"
    BY <1>1, <1>2, <1>3, <1>4, <2>1, GotoStep DEF IInv
  <2>2. CASE ~(t = u /\ pc = "auth")
    <3>1. t \notin disturbed
      BY <1>2
    <3>2. db[t] # None /\ db'[t].password = db[t].password
      <4>1. CASE t = u
        BY <1>1, <1>3, <1>4, <1>9, <2>2, <4>1 DEF GoodRequest
      <4>2. CASE t # u
        BY <1>3, <4>2
      <4>3. QED
        BY <4>1, <4>2
    <3>3. \/ auth[t] = db[t].password
          \/ \E v \in Workers : /\ req[v] # None /\ req[v].who = t /\ req[v].pc = "auth"
                                /\ req[v].tx.password = db[t].password
      BY <3>1, <3>2 DEF IInv, PasswordsAgree
    <3>4. \A v \in Workers : req[v] # None /\ req[v].pc = "auth" => req'[v] = req[v]
      BY <1>1, <1>2, <1>4, GotoStep DEF IInv
    <3>5. QED
      BY <3>2, <3>3, <3>4
  <2>3. QED
    BY <2>1, <2>2
<1>12. WalletIsHandedOut'
  <2> SUFFICES ASSUME NEW t \in Users, db'[t] # None, t \notin disturbed'
               PROVE  \/ handed[t] = {db'[t].wallet} \ {None}
                      \/ \E v \in Workers :
                           /\ req'[v] # None /\ req'[v].who = t
                           /\ req'[v].op = "activate" /\ req'[v].pc = "login"
                           /\ req'[v].tx.wallet = db'[t].wallet /\ handed[t] = {}
    BY <1>2 DEF WalletIsHandedOut
  <2>1. t \notin disturbed
    BY <1>2
  <2>2. db[t] # None =>
          \/ handed[t] = {db[t].wallet} \ {None}
          \/ \E v \in Workers :
               /\ req[v] # None /\ req[v].who = t
               /\ req[v].op = "activate" /\ req[v].pc = "login"
               /\ req[v].tx.wallet = db[t].wallet /\ handed[t] = {}
    BY <2>1 DEF IInv, WalletIsHandedOut
  <2>3. \A v \in Workers : req[v] # None /\ req[v].pc = "login" => req'[v] = req[v]
    BY <1>1, <1>2, <1>4, GotoStep DEF IInv
  <2>4. CASE t # u
    BY <1>3, <2>2, <2>3, <2>4
  <2>5. CASE t = u /\ op = "create"
    <3>1. handed[u] = {} /\ e.wallet = None
      BY <1>1, <1>2, <2>5 DEF IInv, SavedInv, Unsaved, GoodRequest
    <3>2. QED
      BY <1>3, <2>5, <3>1
  <2>6. CASE t = u /\ op = "activate"
    <3>1. db[u] = d /\ d # None /\ d.wallet = None
      BY <1>1, <1>9, <2>6 DEF GoodRequest, Coherent
    <3>2. handed[u] = {}
      <4>1. ASSUME NEW v \in Workers, req[v] # None, req[v].op = "activate"
            PROVE  req[v].tx.wallet # None
        BY <4>1 DEF IInv, ReqInv, GoodRequest, Coherent
      <4>2. QED
        BY <2>2, <2>6, <3>1, <4>1
    <3>3. /\ req'[w] # None /\ req'[w].who = u
          /\ req'[w].op = "activate" /\ req'[w].pc = "login" /\ req'[w].tx = e
      BY <1>1, <1>2, <1>4, <2>6, GotoStep DEF IInv
    <3>4. QED
      BY <1>3, <2>6, <3>2, <3>3
  <2>7. CASE t = u /\ op \notin {"create", "activate"}
    <3>1. db[u] = d /\ d # None /\ e.wallet = d.wallet
      BY <1>1, <1>9, <2>7 DEF GoodRequest
    <3>2. QED
      BY <1>3, <2>2, <2>3, <2>7, <3>1
  <2>8. QED
    BY <2>4, <2>5, <2>6, <2>7
<1>13. ReferInv'
  BY <1>1, <1>2, <1>4, GotoStep DEF IInv, ReferInv
<1>14. ReferralIsRegistered'
  <2> SUFFICES ASSUME NEW t \in Referred, db'[t] # None, db'[t].active
               PROVE  db'[t].wallet \in registered
    BY <1>2 DEF ReferralIsRegistered
  <2>1. t \in Users
    BY AccountConstants
  <2>2. CASE t # u
    BY <1>3, <2>1, <2>2 DEF IInv, ReferralIsRegistered
  <2>3. CASE t = u
    BY <1>1, <1>3, <2>3 DEF IInv, ReferInv
  <2>4. QED
    BY <2>2, <2>3
<1>15. QED
  BY <1>5, <1>6, <1>7, <1>8, <1>10, <1>11, <1>12, <1>13, <1>14 DEF IInv

LEMMA CreateAuthUserKeepsInv ==
  ASSUME IInv, NEW w \in Workers, CreateAuthUser(w)
  PROVE  IInv'
<1> DEFINE u == req[w].who
           pc == AfterAuth(req[w].op)
<1>1. /\ req[w] # None /\ req[w] \in Requests /\ req[w].pc = "auth"
      /\ u \in Users /\ req[w].tx.password \in Passwords
      /\ GoodRequest(req[w]) /\ db[u] # None
  BY DEF CreateAuthUser, IInv, TypeOK, ReqInv, SavedInv, Unsaved, Requests, Docs
<1>2. /\ auth' = [auth EXCEPT ![u] = req[w].tx.password]
      /\ disturbed' = IF Overtaken(w) THEN disturbed \cup {u} ELSE disturbed
      /\ Goto(w, pc)
      /\ UNCHANGED <<db, tokens, drawn, handed, registered>>
  BY DEF CreateAuthUser
<1>3. /\ pc \in {"auth", "login", "answer"} /\ pc # "auth"
      /\ pc = "login" <=> req[w].op = "change"
  BY DEF AfterAuth
<1>4. /\ req' \in [Workers -> Requests \cup {None}]
      /\ \A v \in Workers : v # w => req'[v] = req[v]
      /\ req'[w] # None =>
           /\ req'[w].pc = "login" /\ req'[w].op = "change" /\ req'[w].who = u
  BY <1>1, <1>2, <1>3, GotoStep DEF IInv
<1>5. TypeOK'
  BY <1>1, <1>2, <1>4 DEF IInv, TypeOK
<1>6. DocInv'
  BY <1>2 DEF IInv, DocInv
<1>7. ReqInv'
  BY <1>1, <1>2, <1>3, GotoKeepsReq DEF IInv
<1>8. SavedInv'
  BY <1>1, <1>2, <1>4 DEF IInv, SavedInv, Unsaved
<1>9. HandingInv' /\ ReferInv' /\ ReferralIsRegistered'
  <2>1. req'[w] # None => req'[w].tx = req[w].tx /\ req[w].pc # "refer"
    BY <1>1, <1>2, <1>3, GotoStep DEF IInv
  <2>2. ReferInv'
    BY <1>1, <1>2, <1>4, <2>1 DEF IInv, ReferInv
  <2>3. HandingInv'
    BY <1>2, <1>4 DEF IInv, HandingInv
  <2>4. QED
    BY <1>2, <2>2, <2>3 DEF IInv, ReferralIsRegistered
<1>10. PasswordsAgree'
  <2> SUFFICES ASSUME NEW t \in Users, db[t] # None, t \notin disturbed'
               PROVE  \/ auth'[t] = db[t].password
                      \/ \E v \in Workers : /\ req'[v] # None /\ req'[v].who = t /\ req'[v].pc = "auth"
                                            /\ req'[v].tx.password = db[t].password
    BY <1>2 DEF PasswordsAgree
  <2>1. CASE t = u
    BY <1>1, <1>2, <2>1 DEF Overtaken, IInv, TypeOK
  <2>2. CASE t # u
    <3>1. auth'[t] = auth[t] /\ t \notin disturbed
      BY <1>2, <2>2 DEF IInv, TypeOK
    <3>2. \A v \in Workers : req[v] # None /\ req[v].who = t => req'[v] = req[v]
      BY <1>4, <2>2
    <3>3. QED
      BY <3>1, <3>2 DEF IInv, PasswordsAgree
  <2>3. QED
    BY <2>1, <2>2
<1>11. WalletIsHandedOut'
  <2>1. \A v \in Workers : req[v] # None /\ req[v].pc = "login" => req'[v] = req[v]
    BY <1>1, <1>4
  <2>2. QED
    BY <1>2, <2>1 DEF IInv, WalletIsHandedOut
<1>12. QED
  BY <1>5, <1>6, <1>7, <1>8, <1>9, <1>10, <1>11 DEF IInv

LEMMA LoginUserKeepsInv ==
  ASSUME IInv, NEW w \in Workers, LoginUser(w)
  PROVE  IInv'
<1> DEFINE u == req[w].who
<1>1. /\ req[w] # None /\ req[w] \in Requests /\ req[w].pc = "login"
      /\ u \in Users /\ GoodRequest(req[w]) /\ db[u] # None
      /\ req[w].tx.wallet \in Wallets \cup {None}
  BY DEF LoginUser, IInv, TypeOK, ReqInv, SavedInv, Unsaved, Requests, Docs
<1>2. /\ tokens' = [tokens EXCEPT ![u] = @ \cup {"verified"}]
      /\ handed' = IF req[w].op = "activate"
                   THEN [handed EXCEPT ![u] = @ \cup {req[w].tx.wallet}] ELSE handed
      /\ Goto(w, "answer")
      /\ UNCHANGED <<db, auth, drawn, registered, disturbed>>
  BY DEF LoginUser
<1>3. /\ req' \in [Workers -> Requests \cup {None}]
      /\ \A v \in Workers : v # w => req'[v] = req[v]
      /\ req'[w] = None
  BY <1>1, <1>2, GotoStep DEF IInv
<1>4. req[w].op = "activate" => req[w].tx.wallet # None
  BY <1>1 DEF GoodRequest, Coherent
<1>5. /\ handed' \in [Users -> SUBSET Wallets]
      /\ \A t \in Users : t # u => handed'[t] = handed[t]
      /\ req[w].op = "activate" => handed'[u] = handed[u] \cup {req[w].tx.wallet}
      /\ req[w].op # "activate" => handed'[u] = handed[u]
  BY <1>1, <1>2, <1>4 DEF IInv, TypeOK
<1>6. TypeOK'
  BY <1>1, <1>2, <1>3, <1>5 DEF IInv, TypeOK
<1>7. DocInv' /\ ReqInv'
  BY <1>2, <1>3 DEF IInv, DocInv, ReqInv
<1>8. SavedInv'
  BY <1>1, <1>2, <1>3, <1>5 DEF IInv, SavedInv, Unsaved
<1>9. HandingInv' /\ ReferInv' /\ ReferralIsRegistered'
  BY <1>2, <1>3 DEF IInv, HandingInv, ReferInv, ReferralIsRegistered
<1>10. PasswordsAgree'
  <2>1. \A v \in Workers : req[v] # None /\ req[v].pc = "auth" => req'[v] = req[v]
    BY <1>1, <1>3
  <2>2. QED
    BY <1>2, <2>1 DEF IInv, PasswordsAgree
<1>11. WalletIsHandedOut'
  <2> SUFFICES ASSUME NEW t \in Users, db[t] # None, t \notin disturbed
               PROVE  \/ handed'[t] = {db[t].wallet} \ {None}
                      \/ \E v \in Workers :
                           /\ req'[v] # None /\ req'[v].who = t
                           /\ req'[v].op = "activate" /\ req'[v].pc = "login"
                           /\ req'[v].tx.wallet = db[t].wallet /\ handed'[t] = {}
    BY <1>2 DEF WalletIsHandedOut
  <2>1. \/ handed[t] = {db[t].wallet} \ {None}
        \/ \E v \in Workers :
             /\ req[v] # None /\ req[v].who = t
             /\ req[v].op = "activate" /\ req[v].pc = "login"
             /\ req[v].tx.wallet = db[t].wallet /\ handed[t] = {}
    BY DEF IInv, WalletIsHandedOut
  <2>2. CASE t = u /\ req[w].op = "activate"
    <3>1. db[u].wallet = req[w].tx.wallet /\ db[u].wallet # None
      BY <1>1, <1>4, <2>2 DEF IInv, HandingInv
    <3>2. handed'[u] = {db[u].wallet}
      BY <1>5, <2>1, <2>2, <3>1
    <3>3. QED
      BY <2>2, <3>1, <3>2
  <2>3. CASE t # u \/ req[w].op # "activate"
    <3>1. handed'[t] = handed[t]
      BY <1>5, <2>3
    <3>2. \A v \in Workers : req[v] # None /\ req[v].who = t /\ req[v].op = "activate"
             => req'[v] = req[v]
      BY <1>3, <2>3
    <3>3. QED
      BY <2>1, <3>1, <3>2
  <2>4. QED
    BY <2>2, <2>3
<1>12. QED
  BY <1>6, <1>7, <1>8, <1>9, <1>10, <1>11 DEF IInv

\* Handlers W end: those that have saved leave their investor disturbed.
LEMMA EndKeepsInv ==
  ASSUME IInv, NEW W \in SUBSET Workers,
         req' = [v \in Workers |-> IF v \in W THEN None ELSE req[v]],
         UNCHANGED <<db, auth, tokens, drawn, handed, registered>>,
         disturbed \subseteq disturbed', disturbed' \in SUBSET Users,
         \A v \in W : req[v] # None /\ req[v].pc \notin Unsaved => req[v].who \in disturbed'
  PROVE  IInv'
<1>1. /\ req' \in [Workers -> Requests \cup {None}]
      /\ \A v \in Workers : \/ v \in W /\ req'[v] = None
                            \/ v \notin W /\ req'[v] = req[v]
  BY DEF IInv, TypeOK
<1>2. TypeOK' /\ DocInv' /\ ReqInv' /\ SavedInv' /\ HandingInv' /\ ReferInv' /\ ReferralIsRegistered'
  BY <1>1 DEF IInv, TypeOK, DocInv, ReqInv, SavedInv, HandingInv, ReferInv, ReferralIsRegistered
<1>3. PasswordsAgree'
  BY <1>1 DEF IInv, PasswordsAgree, Unsaved
<1>4. WalletIsHandedOut'
  BY <1>1 DEF IInv, WalletIsHandedOut, Unsaved
<1>5. QED
  BY <1>2, <1>3, <1>4 DEF IInv

LEMMA EndingsKeepInv ==
  ASSUME IInv, Restart \/ \E w \in Workers : Refuse(w) \/ LoginRefused(w) \/ ServiceFails(w)
  PROVE  IInv'
<1>1. ASSUME NEW w \in Workers, Refuse(w)
      PROVE  IInv'
  <2>1. req' = [v \in Workers |-> IF v \in {w} THEN None ELSE req[v]]
    BY <1>1 DEF Refuse, IInv, TypeOK
  <2>2. QED
    BY <1>1, <2>1, EndKeepsInv DEF Refuse, IInv, TypeOK, Unsaved
<1>2. ASSUME NEW w \in Workers, Stop(w), req[w] # None
      PROVE  IInv'
  <2>1. req' = [v \in Workers |-> IF v \in {w} THEN None ELSE req[v]]
    BY <1>2 DEF Stop, Goto, IInv, TypeOK
  <2>2. req[w].who \in Users
    BY <1>2 DEF IInv, TypeOK, Requests
  <2>3. /\ disturbed' = disturbed \cup {req[w].who}
        /\ UNCHANGED <<db, auth, tokens, drawn, handed, registered>>
    BY <1>2 DEF Stop
  <2>4. disturbed' \in SUBSET Users
    BY <2>2, <2>3 DEF IInv, TypeOK
  <2>5. {w} \in SUBSET Workers
    OBVIOUS
  <2>6. QED
    BY <2>1, <2>3, <2>4, <2>5, EndKeepsInv
<1>3. CASE Restart
  <2>1. req' = [v \in Workers |-> IF v \in Workers THEN None ELSE req[v]]
    BY <1>3 DEF Restart
  <2>2. \A v \in Workers : req[v] # None => req[v].who \in Users
    BY DEF IInv, TypeOK, Requests
  <2>3. QED
    BY <1>3, <2>1, <2>2, EndKeepsInv DEF Restart, IInv, TypeOK, Unsaved
<1>4. QED
  BY <1>1, <1>2, <1>3 DEF LoginRefused, ServiceFails

LEMMA SignInKeepsInv ==
  ASSUME IInv, NEW u \in Users, InitiateLogin(u) \/ VerifyLogin(u)
  PROVE  IInv'
<1>1. /\ tokens' \in [Users -> SUBSET {"unverified", "verified"}]
      /\ UNCHANGED <<db, auth, req, drawn, handed, registered, disturbed>>
  BY DEF InitiateLogin, VerifyLogin, IInv, TypeOK
<1>2. QED
  BY <1>1 DEF IInv, TypeOK, DocInv, ReqInv, SavedInv, Unsaved, HandingInv, PasswordsAgree, WalletIsHandedOut,
     ReferInv, ReferralIsRegistered

LEMMA NextKeepsInv ==
  ASSUME IInv, [Next]_vars
  PROVE  IInv'
<1>1. CASE UNCHANGED vars
  BY <1>1 DEF IInv, TypeOK, DocInv, ReqInv, SavedInv, Unsaved, HandingInv, PasswordsAgree,
              WalletIsHandedOut, ReferInv, ReferralIsRegistered, vars
<1>2. QED
  BY <1>1, ReceiveKeepsInv, SaveKeepsInv, CreateAuthUserKeepsInv, LoginUserKeepsInv,
     EndingsKeepInv, SignInKeepsInv, AddReferralOfKeepsInv DEF Next, Continue

LEMMA InitHasInv ==
  ASSUME Init
  PROVE  IInv
BY AccountConstants DEF Init, IInv, TypeOK, DocInv, ReqInv, SavedInv, Unsaved, HandingInv, PasswordsAgree, WalletIsHandedOut,
     ReferInv, ReferralIsRegistered

LEMMA Invariance == Spec => []IInv
BY InitHasInv, NextKeepsInv, PTL DEF Spec

-----------------------------------------------------------------------------
(* The theorems                                                            *)

\* Every variable keeps its type.
THEOREM TypeCorrect == Spec => []TypeOK
BY Invariance, PTL DEF IInv

\* The document and the auth service agree on the password, or a handler is
\* about to tell it, or a handler stopped half-way or overlapped another.
THEOREM PasswordsStayAgreed == Spec => []PasswordsAgree
BY Invariance, PTL DEF IInv

\* The wallet stored is the one handed to the investor, or about to be, or a
\* handler stopped half-way or overlapped another.
THEOREM WalletsAreHandedOut == Spec => []WalletIsHandedOut
BY Invariance, PTL DEF IInv

\* An active investor that was referred has a registered wallet.
THEOREM ReferralsAreRegistered == Spec => []ReferralIsRegistered
BY Invariance, PTL DEF IInv

\* An investor is written by no step but the save of a handler.
LEMMA OnlySavesWrite ==
  ASSUME [Next]_vars
  PROVE  db' = db \/ \E w \in Workers : Save(w)
<1>1. ASSUME NEW w \in Workers, NEW u \in Users, Receive(w, u)
      PROVE  db' = db
  BY <1>1 DEF Receive, Create, ResendVerification, Activate, VerifyChangePassword, VerifyResetPassword,
              SetMethod, Invite, Begin
<1>2. ASSUME NEW w \in Workers, AddReferralOf(w) \/ Refuse(w) \/ ServiceFails(w)
      PROVE  db' = db
  BY <1>2 DEF AddReferralOf, Refuse, ServiceFails, Stop
<1>3. ASSUME NEW w \in Workers, Continue(w)
      PROVE  db' = db \/ Save(w)
  BY <1>3 DEF Continue, CreateAuthUser, LoginUser, LoginRefused, Stop
<1>4. ASSUME NEW u \in Users, InitiateLogin(u) \/ VerifyLogin(u)
      PROVE  db' = db
  BY <1>4 DEF InitiateLogin, VerifyLogin
<1>5. Restart \/ UNCHANGED vars => db' = db
  BY DEF Restart, vars
<1>6. QED
  BY <1>1, <1>2, <1>3, <1>4, <1>5, Zenon DEF Next

\* Only a stale save deactivates an investor or replaces a wallet.
THEOREM DeactivatedOnlyByStaleSaves == Spec => OnlyStaleSaveDeactivates
<1> DEFINE Lost(u) == /\ db[u] # None /\ db[u].active
                      /\ db'[u] = None \/ ~db'[u].active \/ db'[u].wallet # db[u].wallet
<1>1. ASSUME IInv, [Next]_vars, NEW u \in Users, Lost(u)
      PROVE  \E w \in Workers : Save(w) /\ req[w].who = u /\ Stale(w)
  <2>1. PICK w \in Workers : Save(w)
    <3>1. db' # db
      BY <1>1
    <3> QED
      BY <1>1, <3>1, OnlySavesWrite, Zenon
  <2>2. /\ req[w] # None /\ req[w].tx \in Docs /\ GoodRequest(req[w])
        /\ db' = [db EXCEPT ![req[w].who] = req[w].tx]
        /\ req[w].op = "create" => db[req[w].who] = None
    BY <1>1, <2>1 DEF Save, IInv, TypeOK, ReqInv, Requests
  <2>3. req[w].who = u /\ db'[u] = req[w].tx /\ req[w].tx # None
    BY <1>1, <2>2, AccountConstants DEF IInv, TypeOK
  <2>4. Stale(w)
    <3> SUFFICES ASSUME db[u] = req[w].read
                 PROVE  FALSE
      BY <2>3 DEF Stale
    <3>1. req[w].op \notin {"create", "activate"}
      BY <1>1, <2>2, <2>3 DEF GoodRequest
    <3>2. req[w].tx.wallet = db[u].wallet /\ Coherent(req[w].tx) /\ Coherent(db[u])
      BY <1>1, <2>2, <3>1 DEF GoodRequest
    <3>3. QED
      BY <1>1, <2>3, <3>2 DEF Coherent
  <2>5. QED
    BY <2>1, <2>3, <2>4
<1>2. IInv /\ [Next]_vars =>
        [\A u \in Users : Lost(u) => \E w \in Workers : Save(w) /\ req[w].who = u /\ Stale(w)]_vars
  BY <1>1
<1>3. QED
  BY <1>2, Invariance, PTL DEF Spec, OnlyStaleSaveDeactivates

\* The auth service refuses a handler its own password only after an overlap.
THEOREM RefusedOnlyAfterOverlap == Spec => RefusedOnlyWhenOverlapping
<1>1. ASSUME IInv, NEW w \in Workers, LoginRefused(w),
             ~Overtaken(w), req[w].who \notin disturbed
      PROVE  \E v \in Workers \ {w} : req[v] # None /\ req[v].who = req[w].who
  <2>1. /\ req[w] # None /\ req[w].pc = "login" /\ req[w].who \in Users
        /\ db[req[w].who] # None /\ auth[req[w].who] # req[w].tx.password
    BY <1>1 DEF LoginRefused, Stop, IInv, TypeOK, SavedInv, Unsaved, Requests
  <2>2. auth[req[w].who] # db[req[w].who].password
    BY <1>1, <2>1 DEF Overtaken
  <2>3. PICK v \in Workers : req[v] # None /\ req[v].who = req[w].who /\ req[v].pc = "auth"
    BY <1>1, <2>1, <2>2 DEF IInv, PasswordsAgree
  <2>4. QED
    BY <2>1, <2>3
<1>2. IInv /\ [Next]_vars =>
        [\A w \in Workers : LoginRefused(w) =>
           \/ Overtaken(w)
           \/ req[w].who \in disturbed
           \/ \E v \in Workers \ {w} : req[v] # None /\ req[v].who = req[w].who]_vars
  BY <1>1
<1>3. QED
  BY <1>2, Invariance, PTL DEF Spec, RefusedOnlyWhenOverlapping

-----------------------------------------------------------------------------
(* Progress                                                                *)

Telling(w, u) == req[w] # None /\ req[w].who = u /\ req[w].pc = "auth"
Told(u)       == u \in disturbed \/ (db[u] # None /\ auth[u] = db[u].password)

\* A handler that has to tell the auth service stays there until it does, or
\* is disturbed.
LEMMA TellingSteps ==
  ASSUME IInv, [Next]_vars, NEW w \in Workers, NEW u \in Users, Telling(w, u)
  PROVE  /\ Telling(w, u)' \/ Told(u)'
         /\ Continue(w) => Told(u)'
<1> USE DEF Telling, Told
<1>1. TypeOK /\ SavedInv
  BY DEF IInv
<1>2. ASSUME CreateAuthUser(w)
      PROVE  Told(u)'
  <2>1. /\ auth'[u] = req[w].tx.password /\ db' = db
        /\ disturbed' = IF Overtaken(w) THEN disturbed \cup {u} ELSE disturbed
    BY <1>1, <1>2 DEF CreateAuthUser, TypeOK
  <2>2. db[u] # None
    BY <1>1 DEF SavedInv, Unsaved
  <2>3. QED
    BY <2>1, <2>2 DEF Overtaken
<1>3. ASSUME ServiceFails(w) \/ Restart
      PROVE  Told(u)'
  BY <1>3 DEF ServiceFails, Stop, Restart
<1>4. ~Save(w) /\ ~LoginUser(w) /\ ~LoginRefused(w)
  BY DEF Save, LoginUser, LoginRefused
<1>5. ASSUME NEW v \in Workers, NEW x \in Users, Receive(v, x)
      PROVE  req[v] = None /\ \E r : req' = [req EXCEPT ![v] = r]
  <2>1. \A op, tx : Begin(v, op, x, tx) => req[v] = None /\ \E r : req' = [req EXCEPT ![v] = r]
    BY DEF Begin
  <2>2. \A p \in Passwords : ~Create(v, x, p) \/ \E op, tx : Begin(v, op, x, tx)
    BY Zenon DEF Create
  <2>3. \A a \in Wallets : ~Activate(v, x, a) \/ \E op, tx : Begin(v, op, x, tx)
    BY Zenon DEF Activate
  <2>4. \A p \in Passwords :
          \/ ~VerifyChangePassword(v, x, p) /\ ~VerifyResetPassword(v, x, p)
          \/ \E op, tx : Begin(v, op, x, tx)
    BY Zenon DEF VerifyChangePassword, VerifyResetPassword
  <2>5. \A m \in {"email", "authenticator"} : ~SetMethod(v, x, m) \/ \E op, tx : Begin(v, op, x, tx)
    BY Zenon DEF SetMethod
  <2>6. ResendVerification(v, x) \/ Invite(v, x) => \E op, tx : Begin(v, op, x, tx)
    BY Zenon DEF ResendVerification, Invite
  <2>7. QED
    BY <1>5, <2>1, <2>2, <2>3, <2>4, <2>5, <2>6, Zenon DEF Receive
<1>6. ASSUME NEW v \in Workers, NEW x \in Users, Receive(v, x)
      PROVE  req'[w] = req[w]
  BY <1>1, <1>5, <1>6 DEF TypeOK
<1>7. ASSUME NEW v \in Workers, v # w, AddReferralOf(v) \/ Refuse(v) \/ ServiceFails(v) \/ Continue(v)
      PROVE  req'[w] = req[w]
  BY <1>1, <1>7 DEF TypeOK, AddReferralOf, Refuse, ServiceFails, Stop, Goto, Continue, Save,
                    CreateAuthUser, LoginUser, LoginRefused
<1>8. ASSUME NEW x \in Users, InitiateLogin(x) \/ VerifyLogin(x)
      PROVE  req' = req
  BY <1>8 DEF InitiateLogin, VerifyLogin
<1>9. UNCHANGED vars => req' = req
  BY DEF vars
<1>10. Continue(w) => CreateAuthUser(w)
  BY <1>4 DEF Continue
<1>11. ~AddReferralOf(w) /\ ~Refuse(w)
  BY DEF AddReferralOf, Refuse
<1>12. req'[w] = req[w] \/ CreateAuthUser(w) \/ ServiceFails(w) \/ Restart
  BY <1>11, <1>6, <1>7, <1>8, <1>9, <1>10, Zenon DEF Next
<1>13. QED
  BY <1>2, <1>3, <1>10, <1>12

\* A password that was saved reaches the auth service, for any number of
\* handlers and accounts.  That a handler which has saved can continue
\* (NeverStuck) is a premise, for the prover does not know ENABLED: the guard of
\* CreateAuthUser speaks of the handler alone, and LoginUser and LoginRefused
\* leave no answer of the auth service out.
THEOREM PasswordsReachAuth == FairSpec /\ []NeverStuck => PasswordReachesAuth
<1>1. ASSUME NEW w \in Workers, NEW u \in Users
      PROVE  Spec /\ []NeverStuck /\ Fair(w) => (Telling(w, u) ~> Told(u))
  <2>1. NeverStuck /\ Telling(w, u) => CanContinue(w)
    BY DEF NeverStuck, Telling
  <2>2. IInv /\ [Next]_vars /\ Telling(w, u) => Telling(w, u)' \/ Told(u)'
    BY TellingSteps
  <2>3. IInv /\ [Next]_vars /\ Telling(w, u) /\ <<Continue(w)>>_vars => Told(u)'
    BY TellingSteps
  <2>4. QED
    BY <2>1, <2>2, <2>3, Invariance, PTL DEF Spec, Fair, CanContinue
<1>2. QED
  BY <1>1 DEF FairSpec, PasswordReachesAuth, Telling, Told
=============================================================================
