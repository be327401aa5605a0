-------------------------- MODULE InvestorAccount --------------------------
(***************************************************************************)
(* An investor's account (UserService): registration, activation, which    *)
(* creates the wallet, sign-in, password, second factor.                   *)
(*                                                                         *)
(* An account lives in two places that no transaction ties together: the   *)
(* investor document, with the password hash, and the auth service, which  *)
(* checks it.  Every handler reads the investor, awaits (at least the      *)
(* verification service), saves the whole document and then goes on to the *)
(* auth service.  The wallet's mnemonic exists only in the memory of the   *)
(* activation and in its answer.  The activation of an investor that was    *)
(* referred first has the wallet registered with the whitelist contract.   *)
(***************************************************************************)
EXTENDS Integers

CONSTANTS Users,       \* e-mail addresses
          Referred,    \* those that another investor has referred
          Passwords,   \* password hashes
          Wallets,     \* bound of the model: wallets that can be generated
          Workers,     \* handlers that can be in flight at the same time
          None

Docs == [active   : BOOLEAN,                     \* isVerified
         wallet   : Wallets \cup {None},
         password : Passwords,
         method   : {"email", "authenticator"}]  \* defaultVerificationMethod

Ops == {"create", "resend", "activate", "change", "reset", "factor", "invite"}

Requests == [op   : Ops,
             pc   : {"refer", "save", "auth", "login"},
             who  : Users,
             read : Docs \cup {None},
             tx   : Docs]

ASSUME AccountConstants ==
  /\ Referred \subseteq Users
  /\ None \notin Passwords /\ None \notin Wallets /\ None \notin Docs /\ None \notin Requests

VARIABLES
  db,        \* the investor collection
  auth,      \* the auth service: password hash of each user it knows
  tokens,    \* the verified_token collection: which kinds a user has
  req,       \* what each handler is doing
  drawn,     \* wallets generated
  handed,    \* wallets whose mnemonic an investor has been given
  registered,\* wallets whose referral a node has accepted
  disturbed  \* history: a handler stopped half-way, or saved over another one

vars == <<db, auth, tokens, req, drawn, handed, registered, disturbed>>

-----------------------------------------------------------------------------
(* Handlers up to their first save                                         *)

\* Mutant: the activation does not wait for the referral.
FirstPointSave(op, u) == "save"

\* An activation has the referral registered before it goes on.
FirstPoint(op, u) == IF op = "activate" /\ u \in Referred THEN "refer" ELSE "save"

Begin(w, op, u, tx) ==
  /\ req[w] = None
  /\ req' = [req EXCEPT ![w] = [op |-> op, pc |-> FirstPoint(op, u), who |-> u, read |-> db[u], tx |-> tx]]
  /\ UNCHANGED <<db, auth, tokens, handed, registered, disturbed>>

\* Mutant: the second factor is not set.
CreateNoMethod(w, u, p) ==
  /\ db[u] = None
  /\ Begin(w, "create", u, [active |-> FALSE, wallet |-> None, password |-> p, method |-> None])
  /\ UNCHANGED drawn

Create(w, u, p) ==
  /\ db[u] = None
  /\ Begin(w, "create", u, [active |-> FALSE, wallet |-> None, password |-> p, method |-> "email"])
  /\ UNCHANGED drawn

\* Another verification is stored; what the handlers go by stays as it was read.
ResendVerification(w, u) ==
  /\ db[u] # None
  /\ ~db[u].active
  /\ Begin(w, "resend", u, db[u])
  /\ UNCHANGED drawn

\* Mutant: an active investor is activated again.
ActivateAgain(w, u, wallet) ==
  /\ db[u] # None
  /\ wallet \notin drawn
  /\ drawn' = drawn \cup {wallet}
  /\ Begin(w, "activate", u, [db[u] EXCEPT !.active = TRUE, !.wallet = wallet])

Activate(w, u, wallet) ==
  /\ db[u] # None
  /\ ~db[u].active
  /\ wallet \notin drawn
  /\ drawn' = drawn \cup {wallet}
  /\ Begin(w, "activate", u, [db[u] EXCEPT !.active = TRUE, !.wallet = wallet])

\* The middleware lets a request through by its token and hands it the investor;
\* it does not ask whether the investor is active.
Authenticated(u) == "verified" \in tokens[u] /\ db[u] # None

VerifyChangePassword(w, u, p) ==
  /\ Authenticated(u)
  /\ Begin(w, "change", u, [db[u] EXCEPT !.password = p])
  /\ UNCHANGED drawn

\* Open to investors that are not active as well.
VerifyResetPassword(w, u, p) ==
  /\ db[u] # None
  /\ Begin(w, "reset", u, [db[u] EXCEPT !.password = p])
  /\ UNCHANGED drawn

\* verifyEnable2fa and verifyDisable2fa.
SetMethod(w, u, method) ==
  /\ Authenticated(u)
  /\ db[u].method # method
  /\ Begin(w, "factor", u, [db[u] EXCEPT !.method = method])
  /\ UNCHANGED drawn

\* The list of invitees is stored; what the handlers go by stays as it was read.
Invite(w, u) ==
  /\ Authenticated(u)
  /\ Begin(w, "invite", u, db[u])
  /\ UNCHANGED drawn

\* web3Client.addReferralOf in the activation: a node accepts the transaction of
\* the contract's owner.  When it cannot be signed the promise never settles, so
\* no fairness is assumed of this step.
AddReferralOf(w) ==
  /\ req[w] # None
  /\ req[w].pc = "refer"
  /\ registered' = registered \cup {req[w].tx.wallet}
  /\ req' = [req EXCEPT ![w] = [@ EXCEPT !.pc = "save"]]
  /\ UNCHANGED <<db, auth, tokens, drawn, handed, disturbed>>

\* Code, password or invitees are refused, the node, the KYC provider's init or
\* another service fails, the referring investor has no wallet, or another
\* investor with the e-mail has been stored (unique index): nothing is saved.
Refuse(w) ==
  /\ req[w] # None
  /\ req[w].pc \in {"refer", "save"}
  /\ req' = [req EXCEPT ![w] = None]
  /\ UNCHANGED <<db, auth, tokens, drawn, handed, registered, disturbed>>

-----------------------------------------------------------------------------
(* From the save on                                                        *)

\* Where a handler goes on: to the auth service, or to its answer.
Goto(w, pc) == req' = [req EXCEPT ![w] = IF pc = "answer" THEN None ELSE [@ EXCEPT !.pc = pc]]

\* Mutants: a reset password is not taken to the auth service; a changed one is
\* used before it is.
AfterSaveNoReset(op) == IF op \in {"create", "change"} THEN "auth"
                        ELSE IF op = "activate" THEN "login" ELSE "answer"

AfterSaveLogin(op) == IF op \in {"create", "reset"} THEN "auth"
                      ELSE IF op \in {"activate", "change"} THEN "login" ELSE "answer"

AfterSave(op) == IF op \in {"create", "change", "reset"} THEN "auth"
                 ELSE IF op = "activate" THEN "login" ELSE "answer"

AfterAuth(op) == IF op = "change" THEN "login" ELSE "answer"

\* Another handler has changed the document since worker w read it.
Stale(w) == db[req[w].who] # req[w].read

Save(w) ==
  /\ req[w] # None
  /\ req[w].pc = "save"
  /\ req[w].op = "create" => db[req[w].who] = None
  /\ db' = [db EXCEPT ![req[w].who] = req[w].tx]
  /\ disturbed' = IF Stale(w) THEN disturbed \cup {req[w].who} ELSE disturbed
  /\ Goto(w, AfterSave(req[w].op))
  /\ UNCHANGED <<auth, tokens, drawn, handed, registered>>

\* Another handler has changed the password that worker w saved.
Overtaken(w) == db[req[w].who].password # req[w].tx.password

\* Mutant: a user the auth service knows is left as it is.
CreateAuthUserOnce(w) ==
  /\ req[w] # None
  /\ req[w].pc = "auth"
  /\ auth' = [auth EXCEPT ![req[w].who] = IF @ = None THEN req[w].tx.password ELSE @]
  /\ disturbed' = IF Overtaken(w) THEN disturbed \cup {req[w].who} ELSE disturbed
  /\ Goto(w, AfterAuth(req[w].op))
  /\ UNCHANGED <<db, tokens, drawn, handed, registered>>

\* authClient.createUser makes the user, or replaces its password.
CreateAuthUser(w) ==
  /\ req[w] # None
  /\ req[w].pc = "auth"
  /\ auth' = [auth EXCEPT ![req[w].who] = req[w].tx.password]
  /\ disturbed' = IF Overtaken(w) THEN disturbed \cup {req[w].who} ELSE disturbed
  /\ Goto(w, AfterAuth(req[w].op))
  /\ UNCHANGED <<db, tokens, drawn, handed, registered>>

\* authClient.loginUser with the password hash of the entity, then a verified
\* token and the answer; the activation's answer carries the mnemonic.
LoginUser(w) ==
  LET u == req[w].who IN
  /\ req[w] # None
  /\ req[w].pc = "login"
  /\ auth[u] = req[w].tx.password
  /\ tokens' = [tokens EXCEPT ![u] = @ \cup {"verified"}]
  /\ handed' = IF req[w].op = "activate"
               THEN [handed EXCEPT ![u] = @ \cup {req[w].tx.wallet}] ELSE handed
  /\ Goto(w, "answer")
  /\ UNCHANGED <<db, auth, drawn, registered, disturbed>>

\* The handler ends with an error after it has saved.
Stop(w) ==
  /\ disturbed' = disturbed \cup {req[w].who}
  /\ Goto(w, "answer")
  /\ UNCHANGED <<db, auth, tokens, drawn, handed, registered>>

LoginRefused(w) ==
  /\ req[w] # None
  /\ req[w].pc = "login"
  /\ auth[req[w].who] # req[w].tx.password
  /\ Stop(w)

ServiceFails(w) ==
  /\ req[w] # None
  /\ req[w].pc \in {"auth", "login"}
  /\ Stop(w)

\* The process stops and starts again: whatever was in flight is forgotten.
Restart ==
  /\ \E w \in Workers : req[w] # None
  /\ req' = [w \in Workers |-> None]
  /\ disturbed' = disturbed \cup
       {u \in Users : \E w \in Workers : req[w] # None /\ req[w].who = u /\ req[w].pc \notin {"refer", "save"}}
  /\ UNCHANGED <<db, auth, tokens, drawn, handed, registered>>

-----------------------------------------------------------------------------
(* Sign-in                                                                 *)

\* The auth service is asked with the hash stored in the document; the token is
\* of no use before it is verified.
InitiateLogin(u) ==
  /\ db[u] # None
  /\ db[u].active
  /\ auth[u] = db[u].password
  /\ tokens' = [tokens EXCEPT ![u] = @ \cup {"unverified"}]
  /\ UNCHANGED <<db, auth, req, drawn, handed, registered, disturbed>>

VerifyLogin(u) ==
  /\ "unverified" \in tokens[u]
  /\ db[u] # None
  /\ tokens' = [tokens EXCEPT ![u] = @ \cup {"verified"}]
  /\ UNCHANGED <<db, auth, req, drawn, handed, registered, disturbed>>

-----------------------------------------------------------------------------
Init ==
  /\ db = [u \in Users |-> None]
  /\ auth = [u \in Users |-> None]
  /\ tokens = [u \in Users |-> {}]
  /\ req = [w \in Workers |-> None]
  /\ drawn = {}
  /\ handed = [u \in Users |-> {}]
  /\ registered = {}
  /\ disturbed = {}

Receive(w, u) ==
  \/ \E p \in Passwords : Create(w, u, p)
  \/ ResendVerification(w, u)
  \/ \E wallet \in Wallets : Activate(w, u, wallet)
  \/ \E p \in Passwords : VerifyChangePassword(w, u, p)
  \/ \E p \in Passwords : VerifyResetPassword(w, u, p)
  \/ \E method \in {"email", "authenticator"} : SetMethod(w, u, method)
  \/ Invite(w, u)

Continue(w) ==
  \/ Save(w)
  \/ CreateAuthUser(w)
  \/ LoginUser(w)
  \/ LoginRefused(w)

Next ==
  \/ \E w \in Workers, u \in Users : Receive(w, u)
  \/ \E w \in Workers : AddReferralOf(w)
  \/ \E w \in Workers : Refuse(w)
  \/ \E w \in Workers : Continue(w)
  \/ \E w \in Workers : ServiceFails(w)
  \/ Restart
  \/ \E u \in Users : InitiateLogin(u)
  \/ \E u \in Users : VerifyLogin(u)

Spec == Init /\ [][Next]_vars

\* A promise that was awaited settles and its continuation runs.
Fair(w) == WF_vars(Continue(w))

FairSpec == Spec /\ \A w \in Workers : Fair(w)

-----------------------------------------------------------------------------
(* Properties                                                              *)

TypeOK ==
  /\ db \in [Users -> Docs \cup {None}]
  /\ auth \in [Users -> Passwords \cup {None}]
  /\ tokens \in [Users -> SUBSET {"unverified", "verified"}]
  /\ req \in [Workers -> Requests \cup {None}]
  /\ drawn \in SUBSET Wallets
  /\ handed \in [Users -> SUBSET Wallets]
  /\ registered \in SUBSET Wallets
  /\ disturbed \in SUBSET Users

\* The password the investor signs in with is the one the auth service checks,
\* or a handler is about to tell it; only a handler that stops after its save
\* or overlaps another one locks the investor out (create, verifyChangePassword
\* and verifyResetPassword save first and recreate the user in auth after).
PasswordsAgree ==
  \A u \in Users : db[u] # None =>
     \/ u \in disturbed
     \/ auth[u] = db[u].password
     \/ \E w \in Workers : /\ req[w] # None /\ req[w].who = u /\ req[w].pc = "auth"
                           /\ req[w].tx.password = db[u].password

\* The wallet in the document is the one whose mnemonic the investor has, or is
\* about to get; only an activation that stops after its save, or overlaps
\* another handler, strands it (activate saves before it answers).
WalletIsHandedOut ==
  \A u \in Users : db[u] # None =>
     \/ u \in disturbed
     \/ handed[u] = {db[u].wallet} \ {None}
     \/ \E w \in Workers : /\ req[w] # None /\ req[w].who = u
                           /\ req[w].op = "activate" /\ req[w].pc = "login"
                           /\ req[w].tx.wallet = db[u].wallet /\ handed[u] = {}

\* An active investor stays active and keeps the wallet, unless a handler saves
\* the investor as it was read before the activation was saved (a second
\* activation, resendVerification and verifyResetPassword can be in flight).
OnlyStaleSaveDeactivates ==
  [][\A u \in Users :
       /\ db[u] # None /\ db[u].active
       /\ db'[u] = None \/ ~db'[u].active \/ db'[u].wallet # db[u].wallet
       => \E w \in Workers : Save(w) /\ req[w].who = u /\ Stale(w)]_vars

\* An active investor that was referred has a wallet whose referral a node has
\* accepted, however activations, stale saves, failures and restarts follow one
\* another: activate registers the wallet before it saves it, and starts anew
\* with another wallet when it failed.
ReferralIsRegistered ==
  \A u \in Referred : db[u] # None /\ db[u].active => db[u].wallet \in registered

\* The auth service refuses a handler its own password only if the password has
\* changed since, another handler for the investor is in flight (an activation
\* can come before create has reached the auth service), or one was disturbed.
RefusedOnlyWhenOverlapping ==
  [][\A w \in Workers : LoginRefused(w) =>
       \/ Overtaken(w)
       \/ req[w].who \in disturbed
       \/ \E v \in Workers \ {w} : req[v] # None /\ req[v].who = req[w].who]_vars

\* A handler that has saved is never left without a next step, whatever the
\* others do to investor and password: fairness is asked of what is possible.
CanContinue(w) == ENABLED <<Continue(w)>>_vars
NeverStuck == \A w \in Workers : req[w] # None /\ req[w].pc \in {"auth", "login"} => CanContinue(w)

\* A password that was saved reaches the auth service.
PasswordReachesAuth ==
  \A w \in Workers, u \in Users :
     (req[w] # None /\ req[w].who = u /\ req[w].pc = "auth")
       ~> (u \in disturbed \/ (db[u] # None /\ auth[u] = db[u].password))
=============================================================================
