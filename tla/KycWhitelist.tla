--------------------------- MODULE KycWhitelist ---------------------------
(***************************************************************************)
(* Identity checks and the on-chain whitelist.  An activation makes the    *)
(* investor's wallet, registers its referral and introduces the investor   *)
(* to the KYC provider.  The provider reports a verdict (JumioProvider or  *)
(* ShuftiproProvider), the callback changes the investor's kycStatus and   *)
(* has the owner account add the wallet to the whitelist contract.  A      *)
(* repeated job (Web3Queue) adds the wallets of verified investors that    *)
(* are still missing, and the referrals.                                   *)
(*                                                                         *)
(* Handlers read the investor document, await, and save it whole; all of   *)
(* them, and the job, share the owner account's nonces.                    *)
(***************************************************************************)
EXTENDS Integers

CONSTANTS Investors, HasReferral,   \* investors; those an active investor referred
          Wallets,                  \* the addresses activations can generate
          Provider,                 \* "JUMIO" or "SHUFTIPRO"
          AllowRecreate,            \* config.kyc.shuftipro.allowRecreateSession
          Workers, Job, None,       \* request handlers; the repeated job
          Depth, MaxFaults          \* bounds: the owner's pool, failures

Agents   == Workers \cup {Job}
Statuses == {"not_verified", "pending", "verified", "failed"}

\* What the provider can report: identity confirmed, refused, or anything else,
\* a report whose signature does not fit included.
Verdicts == {"confirmed", "refused", "other"}

\* The fields of an investor document that several handlers write.
Docs == [wallet : Wallets \cup {None},               \* ethWallet; None: not active
         kyc    : Statuses,
         init   : {"open", "confirmed", "refused"},  \* kycInitResult (Shuftipro)
         method : {"email", "authenticator"}]        \* second factor

Requests == [pc      : {"find", "submit", "init", "save"},
             who     : Investors,
             verdict : Verdicts \cup {None},
             known   : BOOLEAN,
             read    : Docs \cup {None},
             tx      : Docs \cup {None}]

Calls == [kind : {"allow", "refer"}, wallet : Wallets, nonce : -1..Depth \cup {None}]

ASSUME KycConstants ==
  /\ HasReferral \subseteq Investors
  /\ Provider \in {"JUMIO", "SHUFTIPRO"}
  /\ AllowRecreate \in BOOLEAN
  /\ Job \notin Workers
  /\ Depth \in Nat \ {0} /\ MaxFaults \in Nat
  /\ None \notin Requests /\ None \notin Calls /\ None \notin -1..Depth
  /\ None \notin Wallets /\ None \notin Investors

VARIABLES
  doc,        \* the investor collection
  made,       \* whose each generated wallet is
  stage,      \* what an investor may take part in: the provider's session, the routes
  archive,    \* stored results: the verdicts received for each investor
  req,        \* what each handler is doing
  call,       \* the owner transaction an agent is sending
  hung,       \* agents waiting for a promise that never settles
  phase, todo,               \* the job
  pool,       \* the owner's unmined transactions, counted from the next nonce
  allowed, referred,         \* the whitelist contract
  submitted,  \* history: wallets whose whitelisting a node once accepted
  faults      \* failures so far (bound of the model)

chain  == <<pool, allowed, referred>>
job    == <<phase, todo>>
active == <<made, stage>>
vars   == <<doc, made, stage, archive, req, call, hung, phase, todo, pool, allowed, referred,
            submitted, faults>>

-----------------------------------------------------------------------------
(* The owner account                                                       *)

Slots == 0..(Depth - 1)

\* getTransactionCount(owner, 'pending'): the first nonce nobody has used.
IsPendingCount(n) ==
  /\ \A m \in Slots : m < n => pool[m] # None
  /\ n \in Slots => pool[n] = None

\* addAddressToWhiteList asks for the pending nonce; addReferralOf leaves it to
\* web3, which takes the nonce after the last mined transaction.
TakeNonce(a) ==
  /\ call[a] # None
  /\ call[a].nonce = None
  /\ a \notin hung
  /\ \E n \in 0..Depth :
       /\ IF call[a].kind = "allow" THEN IsPendingCount(n) ELSE n = 0
       /\ call' = [call EXCEPT ![a].nonce = n]
  /\ UNCHANGED <<doc, archive, req, hung, job, chain, active, submitted, faults>>

\* Asking for the nonce fails inside the promise's executor, where no one
\* catches it: the promise never settles.
TakeNonceFails(a) ==
  /\ call[a] # None
  /\ call[a].nonce = None
  /\ a \notin hung
  /\ faults < MaxFaults
  /\ faults' = faults + 1
  /\ hung' = hung \cup {a}
  /\ UNCHANGED <<doc, archive, req, call, job, chain, active, submitted>>

\* An activation changes the investor's wallet.
Activates(r) == r.tx.wallet # r.read.wallet

AfterSubmit(r) == [r EXCEPT !.pc = IF Activates(r) THEN "init" ELSE "save"]

\* An agent goes on after its transaction was accepted, or gives up.
Resolve(a) ==
  /\ call' = [call EXCEPT ![a] = None]
  /\ req' = IF a = Job THEN req ELSE [req EXCEPT ![a] = AfterSubmit(@)]
  /\ UNCHANGED job

\* Mutant: the handler saves its investor although the node refused.
RejectIgnored(a) ==
  /\ call' = [call EXCEPT ![a] = None]
  /\ req' = IF a = Job THEN req ELSE [req EXCEPT ![a] = AfterSubmit(@)]
  /\ phase' = IF a = Job THEN "idle" ELSE phase
  /\ todo' = IF a = Job THEN {} ELSE todo

Reject(a) ==
  /\ call' = [call EXCEPT ![a] = None]
  /\ req' = IF a = Job THEN req ELSE [req EXCEPT ![a] = None]
  /\ phase' = IF a = Job THEN "idle" ELSE phase
  /\ todo' = IF a = Job THEN {} ELSE todo

Sending(a) == call[a] # None /\ call[a].nonce # None

\* The node takes the transaction: its nonce is free, or it replaces the one
\* that had it because gas has become more expensive.
SubmitAccepted(a) ==
  /\ Sending(a)
  /\ call[a].nonce \in Slots
  /\ pool' = [pool EXCEPT ![call[a].nonce] = <<call[a].kind, call[a].wallet>>]
  /\ submitted' = IF call[a].kind = "allow" THEN submitted \cup {call[a].wallet} ELSE submitted
  /\ Resolve(a)
  /\ UNCHANGED <<doc, active, archive, hung, allowed, referred, faults>>

\* The nonce is too low, taken, or the account has too many transactions.
SubmitRejected(a) ==
  /\ Sending(a)
  /\ call[a].nonce \in Slots => pool[call[a].nonce] # None
  /\ Reject(a)
  /\ UNCHANGED <<doc, archive, hung, chain, active, submitted, faults>>

SubmitFails(a) ==
  /\ Sending(a)
  /\ faults < MaxFaults
  /\ faults' = faults + 1
  /\ Reject(a)
  /\ UNCHANGED <<doc, archive, hung, chain, active, submitted>>

\* The owner's next transaction is mined; every nonce moves one closer.
Mine ==
  /\ pool[0] # None
  /\ allowed' = IF pool[0][1] = "allow" THEN allowed \cup {pool[0][2]} ELSE allowed
  /\ referred' = IF pool[0][1] = "refer" THEN referred \cup {pool[0][2]} ELSE referred
  /\ pool' = [n \in Slots |-> IF n + 1 \in Slots THEN pool[n + 1] ELSE None]
  /\ call' = [a \in Agents |->
                IF Sending(a) /\ call[a].nonce >= 0
                THEN [call[a] EXCEPT !.nonce = @ - 1] ELSE call[a]]
  /\ UNCHANGED <<doc, archive, req, hung, job, active, submitted, faults>>

\* The node loses what it had not mined.
DropPool ==
  /\ faults < MaxFaults
  /\ faults' = faults + 1
  /\ pool' = [n \in Slots |-> None]
  /\ UNCHANGED <<doc, archive, req, call, hung, job, allowed, referred, active, submitted>>

-----------------------------------------------------------------------------
(* Request handlers                                                        *)

Request(pc, i, verdict, known, read, tx) ==
  [pc |-> pc, who |-> i, verdict |-> verdict, known |-> known, read |-> read, tx |-> tx]

Begin(w, request) ==
  /\ req[w] = None
  /\ req' = [req EXCEPT ![w] = request]
  /\ UNCHANGED <<doc, stage, hung, job, chain, submitted, faults>>

Send(kind, wallet) == [kind |-> kind, wallet |-> wallet, nonce |-> None]

\* UserService.activate, of an investor that is not active: a wallet of its own
\* is generated, the referral if there is one is registered for it, the investor
\* introduced to the provider, and then saved.
Activate(w, i, x) ==
  /\ doc[i].wallet = None
  /\ made[x] = None
  /\ made' = [made EXCEPT ![x] = i]
  /\ Begin(w, Request(IF i \in HasReferral THEN "submit" ELSE "init", i, None, TRUE,
                      doc[i], [doc[i] EXCEPT !.wallet = x, !.init = "open"]))
  /\ call' = IF i \in HasReferral THEN [call EXCEPT ![w] = Send("refer", x)] ELSE call
  /\ UNCHANGED archive

\* The provider opens a session: from now on it can report on the investor.
InitKyc(w) ==
  /\ req[w] # None
  /\ req[w].pc = "init"
  /\ req' = [req EXCEPT ![w].pc = "save"]
  /\ stage' = [stage EXCEPT ![req[w].who] = IF @ = "active" THEN @ ELSE "session"]
  /\ UNCHANGED <<doc, made, archive, call, hung, job, chain, submitted, faults>>

\* The provider's answer, or the session, does not come about.
InitKycFails(w) ==
  /\ req[w] # None
  /\ req[w].pc = "init"
  /\ faults < MaxFaults
  /\ faults' = faults + 1
  /\ req' = [req EXCEPT ![w] = None]
  /\ \/ UNCHANGED stage
     \/ stage' = [stage EXCEPT ![req[w].who] = IF @ = "active" THEN @ ELSE "session"]
  /\ UNCHANGED <<doc, made, archive, call, hung, job, chain, submitted>>

\* Mutant: the investor's status is not looked at.
SuccessUploadAgain(w, i) ==
  /\ Provider = "JUMIO"
  /\ stage[i] # "new"
  /\ Begin(w, Request("save", i, None, TRUE, doc[i], [doc[i] EXCEPT !.kyc = "pending"]))
  /\ UNCHANGED <<made, archive, call>>

\* Jumio sends the investor back after the upload, to an address it was given
\* with the session.
SuccessUpload(w, i) ==
  /\ Provider = "JUMIO"
  /\ stage[i] # "new"
  /\ doc[i].kyc = "not_verified"
  /\ Begin(w, Request("save", i, None, TRUE, doc[i], [doc[i] EXCEPT !.kyc = "pending"]))
  /\ UNCHANGED <<made, archive, call>>

\* Shuftipro's getInitStatus and reinit: a session that can no longer be used is
\* replaced and the investor saved as it was when the request was authenticated.
MayInit(d) == /\ d.kyc # "verified" /\ d.kyc # "pending"
              /\ d.kyc = "failed" => AllowRecreate
              /\ d.init # "confirmed"

RecreateSession(w, i, reinit) ==
  /\ Provider = "SHUFTIPRO"
  /\ stage[i] = "active"
  /\ reinit \/ MayInit(doc[i])
  /\ Begin(w, Request("save", i, None, TRUE, doc[i], [doc[i] EXCEPT !.init = "open"]))
  /\ UNCHANGED <<made, archive, call>>

\* UserService changes another field of the investor it was given by the
\* authentication (here the second factor).
ChangeMethod(w, i, method) ==
  /\ stage[i] = "active"
  /\ Begin(w, Request("save", i, None, TRUE, doc[i], [doc[i] EXCEPT !.method = method]))
  /\ UNCHANGED <<made, archive, call>>

File(i, verdict) == [archive EXCEPT ![i] = @ \cup {verdict}]

\* Jumio's callback stores the result, then reads the investor.  The customerId
\* need not be an investor's id (`known'): init sends the e-mail.
JumioCallback(w, i, verdict, known) ==
  /\ Provider = "JUMIO"
  /\ stage[i] # "new"
  /\ Begin(w, Request("find", i, verdict, known, None, None))
  /\ archive' = File(i, verdict)
  /\ UNCHANGED <<made, call>>

\* Shuftipro's callback reads the investor, then stores the result.
ShuftiproCallback(w, i, verdict) ==
  /\ Provider = "SHUFTIPRO"
  /\ stage[i] # "new"
  /\ Begin(w, Request("find", i, verdict, TRUE, doc[i], None))
  /\ UNCHANGED <<made, archive, call>>

Closed == IF Provider = "JUMIO" THEN {"verified", "failed"} ELSE {"verified"}

\* Mutants: the provider's word is the status; the face need not match the ID.
AfterVerdictRaw(d, verdict) == [d EXCEPT !.kyc = verdict]

AfterVerdictAny(d, verdict) ==
  IF verdict = "other" THEN d ELSE [d EXCEPT !.kyc = "verified"]

AfterVerdict(d, verdict) ==
  IF verdict = "other" THEN d
  ELSE [d EXCEPT !.kyc = IF verdict = "confirmed" THEN "verified" ELSE "failed",
                 !.init = IF Provider = "SHUFTIPRO" THEN verdict ELSE @]

Finding(w) == /\ req[w] # None
              /\ req[w].pc = "find"
              /\ archive' = File(req[w].who, req[w].verdict)

\* The investor as the callback knows it.
Found(w) == IF Provider = "JUMIO" THEN doc[req[w].who] ELSE req[w].read

Answer(w) == req' = [req EXCEPT ![w] = None]

\* A verdict was reached before: nothing changes.
FindClosed(w) ==
  /\ Finding(w)
  /\ req[w].known
  /\ Found(w).kyc \in Closed
  /\ Answer(w)
  /\ UNCHANGED <<doc, call, hung, job, chain, active, submitted, faults>>

\* Nobody to whitelist: the verdict is positive and there is no wallet yet.
NoWallet(d, verdict) == verdict = "confirmed" /\ d.wallet = None

\* new ObjectId(customerId) throws for an e-mail; a scan status that is unknown
\* or a signature that does not fit throws, and so does investor.ethWallet.address
\* of an investor without a wallet.
FindThrows(w) ==
  /\ Finding(w)
  /\ \/ ~req[w].known
     \/ /\ Found(w).kyc \notin Closed
        /\ \/ req[w].verdict = "other"
           \/ NoWallet(Found(w), req[w].verdict)
  /\ Answer(w)
  /\ UNCHANGED <<doc, call, hung, job, chain, active, submitted, faults>>

FindOpen(w) ==
  LET d == Found(w) IN
  /\ Finding(w)
  /\ req[w].known
  /\ d.kyc \notin Closed
  /\ Provider = "JUMIO" => req[w].verdict # "other"
  /\ ~NoWallet(d, req[w].verdict)
  /\ req' = [req EXCEPT
       ![w].read = d,
       ![w].tx = AfterVerdict(d, req[w].verdict),
       ![w].pc = IF req[w].verdict = "confirmed" THEN "submit" ELSE "save"]
  /\ call' = IF req[w].verdict = "confirmed"
             THEN [call EXCEPT ![w] = Send("allow", d.wallet)] ELSE call
  /\ UNCHANGED <<doc, hung, job, chain, active, submitted, faults>>

Saving(w) == req[w] # None /\ req[w].pc = "save"

\* Another handler has changed the document since worker w read it.
Stale(w) == doc[req[w].who] # req[w].read

\* An activation ends with the investor signed in.
Save(w) ==
  /\ Saving(w)
  /\ doc' = [doc EXCEPT ![req[w].who] = req[w].tx]
  /\ stage' = IF Activates(req[w]) THEN [stage EXCEPT ![req[w].who] = "active"] ELSE stage
  /\ Answer(w)
  /\ UNCHANGED <<made, archive, call, hung, job, chain, submitted, faults>>

SaveFails(w) ==
  /\ Saving(w)
  /\ faults < MaxFaults
  /\ faults' = faults + 1
  /\ Answer(w)
  /\ UNCHANGED <<doc, archive, call, hung, job, chain, active, submitted>>

-----------------------------------------------------------------------------
(* Web3Queue.checkWhiteList                                                *)

AtRest == call[Job] = None

\* The wallets of some investors; the job skips those that have none.
WalletsOf(S) == {doc[i].wallet : i \in S} \ {None}

\* Mutants: the job looks for the wrong investors, or referrals.
StartJobPending ==
  /\ phase = "idle" /\ AtRest
  /\ phase' = "allow"
  /\ todo' = WalletsOf({i \in Investors : doc[i].kyc = "pending"})
  /\ UNCHANGED <<doc, archive, req, call, hung, chain, active, submitted, faults>>

ReadReferralsVerified ==
  /\ phase = "allow" /\ AtRest /\ todo = {}
  /\ phase' = "refer"
  /\ todo' = WalletsOf({i \in HasReferral : doc[i].kyc = "verified"})
  /\ UNCHANGED <<doc, archive, req, call, hung, chain, active, submitted, faults>>

StartJob ==
  /\ phase = "idle" /\ AtRest
  /\ phase' = "allow"
  /\ todo' = WalletsOf({i \in Investors : doc[i].kyc = "verified"})
  /\ UNCHANGED <<doc, archive, req, call, hung, chain, active, submitted, faults>>

Check(x, at, kind, onChain) ==
  /\ phase = at /\ AtRest
  /\ x \in todo
  /\ todo' = todo \ {x}
  /\ call' = IF x \in onChain THEN call ELSE [call EXCEPT ![Job] = Send(kind, x)]
  /\ UNCHANGED <<doc, archive, req, hung, phase, chain, active, submitted, faults>>

CheckAllowed(x)  == Check(x, "allow", "allow", allowed)
CheckReferral(x) == Check(x, "refer", "refer", referred)

ReadReferrals ==
  /\ phase = "allow" /\ AtRest /\ todo = {}
  /\ phase' = "refer"
  /\ todo' = WalletsOf(HasReferral)
  /\ UNCHANGED <<doc, archive, req, call, hung, chain, active, submitted, faults>>

FinishJob ==
  /\ phase = "refer" /\ AtRest /\ todo = {}
  /\ phase' = "idle"
  /\ UNCHANGED <<doc, archive, req, call, hung, todo, chain, active, submitted, faults>>

\* Reading the collection or the contract fails: the run is given up.
JobFails ==
  /\ phase # "idle" /\ AtRest
  /\ faults < MaxFaults
  /\ faults' = faults + 1
  /\ phase' = "idle"
  /\ todo' = {}
  /\ UNCHANGED <<doc, archive, req, call, hung, chain, active, submitted>>

-----------------------------------------------------------------------------
\* The process stops and starts again: whatever was in flight is forgotten.
Restart ==
  /\ faults < MaxFaults
  /\ faults' = faults + 1
  /\ req' = [w \in Workers |-> None]
  /\ call' = [a \in Agents |-> None]
  /\ hung' = {}
  /\ phase' = "idle"
  /\ todo' = {}
  /\ UNCHANGED <<doc, archive, chain, active, submitted>>

Init ==
  /\ doc = [i \in Investors |->
              [wallet |-> None, kyc |-> "not_verified", init |-> "open", method |-> "email"]]
  /\ made = [x \in Wallets |-> None]
  /\ stage = [i \in Investors |-> "new"]
  /\ archive = [i \in Investors |-> {}]
  /\ req = [w \in Workers |-> None]
  /\ call = [a \in Agents |-> None]
  /\ hung = {}
  /\ phase = "idle"
  /\ todo = {}
  /\ pool = [n \in Slots |-> None]
  /\ allowed = {}
  /\ referred = {}
  /\ submitted = {}
  /\ faults = 0

Owner(a) ==
  \/ TakeNonce(a)
  \/ TakeNonceFails(a)
  \/ SubmitAccepted(a)
  \/ SubmitRejected(a)
  \/ SubmitFails(a)

Receive(w) ==
  \/ \E i \in Investors, x \in Wallets : Activate(w, i, x)
  \/ \E i \in Investors : SuccessUpload(w, i)
  \/ \E i \in Investors, reinit \in BOOLEAN : RecreateSession(w, i, reinit)
  \/ \E i \in Investors, method \in {"email", "authenticator"} : ChangeMethod(w, i, method)
  \/ \E i \in Investors, verdict \in Verdicts, known \in BOOLEAN : JumioCallback(w, i, verdict, known)
  \/ \E i \in Investors, verdict \in Verdicts : ShuftiproCallback(w, i, verdict)

Handle(w) ==
  \/ InitKyc(w)
  \/ InitKycFails(w)
  \/ FindClosed(w)
  \/ FindThrows(w)
  \/ FindOpen(w)
  \/ Save(w)
  \/ SaveFails(w)

RunJob ==
  \/ StartJob
  \/ \E x \in Wallets : CheckAllowed(x)
  \/ \E x \in Wallets : CheckReferral(x)
  \/ ReadReferrals
  \/ FinishJob

Next ==
  \/ \E a \in Agents : Owner(a)
  \/ \E w \in Workers : Receive(w)
  \/ \E w \in Workers : Handle(w)
  \/ RunJob
  \/ JobFails
  \/ Mine
  \/ DropPool
  \/ Restart

Spec == Init /\ [][Next]_vars

\* The job is repeated for ever and its promises settle unless they hang; the
\* chain mines what the owner account sends.
FairSpec == Spec /\ WF_vars(RunJob \/ Owner(Job)) /\ WF_vars(Mine)

-----------------------------------------------------------------------------
(* Properties                                                              *)

TypeOK ==
  /\ doc \in [Investors -> Docs]
  /\ made \in [Wallets -> Investors \cup {None}]
  /\ stage \in [Investors -> {"new", "session", "active"}]
  /\ archive \in [Investors -> SUBSET Verdicts]
  /\ req \in [Workers -> Requests \cup {None}]
  /\ call \in [Agents -> Calls \cup {None}]
  /\ hung \in SUBSET Agents
  /\ phase \in {"idle", "allow", "refer"}
  /\ todo \in SUBSET Wallets
  /\ pool \in [Slots -> ({"allow", "refer"} \X Wallets) \cup {None}]
  /\ allowed \in SUBSET Wallets
  /\ referred \in SUBSET Wallets
  /\ submitted \in SUBSET Wallets
  /\ faults \in Nat

\* The provider has confirmed the owner of a wallet.
Confirmed(x) == made[x] # None /\ "confirmed" \in archive[made[x]]

\* No wallet is let into the sale without a positive verdict on its owner on
\* file: whichever handler or job run sends a whitelisting, whatever stale
\* document it goes by and whichever activation made the wallet, the provider's
\* confirmation was stored before (callback archives first).
AllowedWasConfirmed ==
  /\ \A x \in allowed : Confirmed(x)
  /\ \A i \in Investors : doc[i].kyc = "verified" => "confirmed" \in archive[i]

\* An investor is told "verified" only when a node took the whitelisting of the
\* very wallet the investor has, although activations and callbacks overlap and
\* save each other's investor.
VerifiedWasSubmitted ==
  \A i \in Investors : doc[i].kyc = "verified" => doc[i].wallet \in submitted

\* A verdict that is final or a wallet is no longer what it was.
TakenBack(i) ==
  \/ doc[i].kyc \in Closed /\ doc'[i].kyc # doc[i].kyc
  \/ doc[i].wallet # None /\ doc'[i].wallet # doc[i].wallet

\* A positive verdict (and with Jumio a negative one), and the activation with
\* its wallet, are taken back only by a handler that saves an investor it read
\* before they were saved: no callback, upload or other route that read the
\* investor as it is disturbs them.
OnlyStaleSaveReopens ==
  [][\A i \in Investors :
       TakenBack(i) => \E w \in Workers : Save(w) /\ req[w].who = i /\ Stale(w)]_vars

\* The wallet of a verified investor gets into the whitelist although the
\* whitelisting was replaced, dropped or refused, unless a stale save takes the
\* verdict or the wallet back or the job hangs on a nonce that never arrives.
VerifiedGetsAllowed ==
  \A i \in Investors, x \in Wallets :
    doc[i].kyc = "verified" /\ doc[i].wallet = x ~>
      x \in allowed \/ doc[i].kyc # "verified" \/ doc[i].wallet # x \/ Job \in hung

\* The referral of every active investor is registered on the chain in the end,
\* although all of them, the activations and the whitelistings compete for the
\* owner's nonces, and an activation saves its wallet before its transaction,
\* which can still be replaced, is mined.
ReferralsGetRegistered ==
  \A i \in HasReferral, x \in Wallets :
    doc[i].wallet = x ~> x \in referred \/ doc[i].wallet # x \/ Job \in hung

\* "no such user/already verified/max attempts reached, respond with 200": a
\* callback that names no investor is answered, it does not fail.
NoSuchUserIsAnswered == [][\A w \in Workers : FindThrows(w) => req[w].known]_vars
=============================================================================
