------------------------------- MODULE Invest -------------------------------
(***************************************************************************)
(* Investing (DashboardController.investInitiate and investVerify, and     *)
(* Web3Client.sendTransactionByMnemonic) behind sign-in and verification.  *)
(*                                                                         *)
(* Both routes ask the whitelist contract, which other components fill     *)
(* (module KycWhitelist); the second sends, after the code was accepted,   *)
(* a transaction from the investor's own wallet.  Signing takes the nonce  *)
(* after the last mined transaction, so a wallet has one unmined           *)
(* transaction at most.                                                    *)
(***************************************************************************)
EXTENDS Session

CONSTANTS Referred,    \* investors who signed up with a referral
          Fee,         \* gas times gas price
          MaxBalance   \* bound of the model

ASSUME InvestConstants ==
  /\ Referred \subseteq Users
  /\ Fee \in Nat /\ MaxBalance \in Nat
  /\ None \notin [id : Ids, amount : Amounts]

VARIABLES
  allowed, referred,  \* the whitelist contract: investors, referrals
  balance,            \* of each investor's wallet
  pending,            \* its unmined investment
  spent               \* investments the node took for a verification

contract == <<allowed, referred>>
wallets  == <<balance, pending, spent>>
vars     == <<ver, confirmed, req, disturbed, tokens, allowed, referred, balance, pending, spent>>

Cost(a) == a + Fee

Sent == [id : Ids, amount : Amounts]

-----------------------------------------------------------------------------
(* The chain                                                               *)

AddToWhiteList(u) ==
  /\ u \notin allowed
  /\ allowed' = allowed \cup {u}
  /\ UNCHANGED <<service, req, tokens, referred, wallets>>

AddReferral(u) ==
  /\ u \in Referred \ referred
  /\ referred' = referred \cup {u}
  /\ UNCHANGED <<service, req, tokens, allowed, wallets>>

\* The investor receives ether, or spends some elsewhere.
Move(u, b) ==
  /\ b # balance[u]
  /\ b < balance[u] => pending[u] = None
  /\ balance' = [balance EXCEPT ![u] = b]
  /\ UNCHANGED <<service, req, tokens, contract, pending, spent>>

\* The contract takes the ether, or reverts and only the fee is gone.
Mine(u, taken) ==
  /\ pending[u] # None
  /\ balance' = [balance EXCEPT ![u] = @ - (IF taken THEN Cost(pending[u].amount) ELSE Fee)]
  /\ pending' = [pending EXCEPT ![u] = None]
  /\ UNCHANGED <<service, req, tokens, contract, spent>>

-----------------------------------------------------------------------------
(* The routes                                                              *)

Cleared(u) == u \in allowed /\ (u \in Referred => u \in referred)

\* Mutant: lt instead of lte.
SufficientStrict(u, a) == Cost(a) < balance[u]

SufficientBalance(u, a) == Cost(a) <= balance[u]

InvestInitiate(t, u, a, i) ==
  /\ Authenticated(t, u)
  /\ SufficientBalance(u, a)
  /\ Cleared(u)
  /\ Issue(i, u, Investment(a))
  /\ UNCHANGED <<confirmed, req, disturbed, tokens, contract, wallets>>

InvestVerify(w, t, u, a, i) ==
  /\ Authenticated(t, u)
  /\ Cleared(u)
  /\ Checks(i, u, Investment(a))
  /\ Begin(w, [op |-> "invest", pc |-> "validate", user |-> u, token |-> t,
               id |-> i, payload |-> Investment(a), seen |-> 0])
  /\ UNCHANGED <<service, tokens, contract, wallets>>

\* sendTransactionByMnemonic: too low a balance rejects the promise, which
\* answers the request, and the code goes on to sign and send all the same.
CheckBalance(w) ==
  /\ At(w, "accepted")
  /\ req[w].op = "invest"
  /\ IF SufficientBalance(req[w].user, req[w].payload.amount)
     THEN Goto(w, "funded")
     ELSE req' = [req EXCEPT ![w].pc = "rejected", ![w].seen = balance[req[w].user]]
  /\ UNCHANGED <<service, tokens, contract, wallets>>

\* The balance or the signature fails: nobody handles the rejection, and the
\* promise of sendTransactionByMnemonic, unless it was rejected, never settles.
Unhandled(w) ==
  /\ req[w] # None
  /\ req[w].op = "invest"
  /\ req[w].pc \in {"accepted", "funded", "rejected"}
  /\ IF req[w].pc = "rejected" THEN Answer(w) ELSE Goto(w, "hung")
  /\ UNCHANGED <<service, tokens, contract, wallets>>

Sending(w) == At(w, "funded") \/ At(w, "rejected")

\* Mutant: the handler sends again, for a hash that did not come in time.
NodeTakesAgain(w) ==
  /\ Sending(w)
  /\ Cost(req[w].payload.amount) <= balance[req[w].user]
  /\ pending' = [pending EXCEPT ![req[w].user] = [id |-> req[w].id, amount |-> req[w].payload.amount]]
  /\ spent' = [spent EXCEPT ![req[w].id] = @ + 1]
  /\ UNCHANGED <<service, req, tokens, contract, balance>>

\* The node takes a transaction the wallet can pay for; one with the nonce of an
\* unmined one replaces it if it pays more for gas.
NodeTakes(w) ==
  LET u == req[w].user
      a == req[w].payload.amount IN
  /\ Sending(w)
  /\ Cost(a) <= balance[u]
  /\ pending' = [pending EXCEPT ![u] = [id |-> req[w].id, amount |-> a]]
  /\ spent' = [spent EXCEPT ![req[w].id] = @ + 1]
  /\ Answer(w)
  /\ UNCHANGED <<service, tokens, contract, balance>>

NodeRefuses(w) ==
  /\ Sending(w)
  /\ Answer(w)
  /\ UNCHANGED <<service, tokens, contract, wallets>>

-----------------------------------------------------------------------------
Init ==
  /\ VerificationInit
  /\ SessionInit
  /\ allowed = {}
  /\ referred = {}
  /\ balance = [u \in Users |-> 0]
  /\ pending = [u \in Users |-> None]
  /\ spent = [i \in Ids |-> 0]

Chain(u) ==
  \/ AddToWhiteList(u)
  \/ AddReferral(u)
  \/ \E b \in 0..MaxBalance : Move(u, b)
  \/ \E taken \in BOOLEAN : Mine(u, taken)

SignIn ==
  /\ \/ \E u \in Users, t \in Tokens, i \in Ids, stored \in BOOLEAN : InitiateLogin(u, t, i, stored)
     \/ \E u \in Users, i \in Ids : InitiateOther(u, i)
     \/ \E u \in Users, t \in Tokens : HandOut(u, t)
     \/ \E w \in Workers, t \in Tokens, i \in Ids : VerifyLogin(w, t, i)
  /\ UNCHANGED <<contract, wallets>>

Routes ==
  \E t \in Tokens, u \in Users, a \in Amounts, i \in Ids :
    \/ InvestInitiate(t, u, a, i)
    \/ \E w \in Workers : InvestVerify(w, t, u, a, i)

Service ==
  /\ \E i \in Ids : Expire(i)
  /\ UNCHANGED <<tokens, contract, wallets>>

Continue(w) ==
  \/ Validate(w) /\ UNCHANGED <<tokens, contract, wallets>>
  \/ SaveToken(w) /\ UNCHANGED <<contract, wallets>>
  \/ CheckBalance(w)
  \/ Unhandled(w)
  \/ NodeTakes(w)
  \/ NodeRefuses(w)

Crash ==
  /\ (\E w \in Workers : Fail({w})) \/ Fail(Workers)
  /\ UNCHANGED <<tokens, contract, wallets>>

Next ==
  \/ \E u \in Users : Chain(u)
  \/ SignIn
  \/ Routes
  \/ Service
  \/ \E w \in Workers : Continue(w)
  \/ Crash

Spec == Init /\ [][Next]_vars

\* A promise that was awaited settles, or its rejection is lost, and what comes
\* after it runs.
Fair(w) == WF_vars(Continue(w))

FairSpec == Spec /\ \A w \in Workers : Fair(w)

-----------------------------------------------------------------------------
(* Properties                                                              *)

TypeOK ==
  /\ VerificationTypeOK
  /\ SessionTypeOK
  /\ allowed \in SUBSET Users
  /\ referred \in SUBSET Users
  /\ balance \in [Users -> Nat]
  /\ pending \in [Users -> Sent \cup {None}]
  /\ spent \in [Ids -> Nat]

\* Ether leaves the wallet for the ICO only for an investor whom the contract
\* knows with the referral, who confirmed this very amount by a code of their
\* own (investVerify compares the payload before it validates the code).
InvestedAsConfirmed ==
  \A u \in Users : pending[u] # None =>
    LET i == pending[u].id IN
    /\ Cleared(u)
    /\ i \in confirmed
    /\ ver[i].consumer = u
    /\ ver[i].payload = Investment(pending[u].amount)

\* A code opens one session or makes one investment, whatever is repeated,
\* overlaps or fails, provided that the service forgets what it has accepted.
CodeOf(i) ==
  IF ver[i] = None THEN "none"
  ELSE IF i \in confirmed THEN "accepted"
  ELSE IF ver[i].open THEN "open" ELSE "void"

Opened(i) == \E t \in Tokens : tokens[t] # None /\ tokens[t].ver = i /\ tokens[t].verified

UsesOf(i) == spent[i] + (IF Opened(i) THEN 1 ELSE 0)

Codes == INSTANCE CodeUse WITH code <- [i \in Ids |-> CodeOf(i)],
                               uses <- [i \in Ids |-> UsesOf(i)]
ImplementsCodeUse == Codes!Spec

\* An investment that was answered with `Insufficient funds' is sent all the
\* same; the node takes it only if the wallet received ether after the answer.
OnlyDepositRevives ==
  [][\A w \in Workers :
       NodeTakes(w) /\ req[w].pc = "rejected" => balance[req[w].user] > req[w].seen]_vars

\* A request that is not hung always has a next step, though codes are accepted,
\* verifications deleted and wallets emptied behind its back: fairness is asked
\* of what is possible.
CanContinue(w) == ENABLED <<Continue(w)>>_vars
NeverStuck     == \A w \in Workers : req[w] # None /\ req[w].pc # "hung" => CanContinue(w)

\* A verification that has used up its attempts is deleted, unless that fails.
ExhaustedIsClosed ==
  \A i \in Ids :
    (ver[i] # None /\ ver[i].wrong >= MaxAttempts)
      ~> (ver[i] # None /\ ~ver[i].open) \/ i \in disturbed

\* A request is answered or hangs because a rejection was not handled.
AnsweredUnlessHung ==
  \A w \in Workers : (req[w] # None) ~> (req[w] = None \/ At(w, "hung"))
=============================================================================
