# TLA+ verification of the ICO dashboard backend

The backend lets investors register, verify their identity, buy ether through a
payment gateway and see their transactions. It is a Node.js program: one
process, no threads, no transactions over its MongoDB collections. What is hard
about it is that every request handler reads a document, awaits other services
and saves the **whole** document again, while other handlers, chain
subscriptions and repeated jobs do the same; and that most operations change two
places (database and payment gateway, database and chain, database and auth
service) that nothing ties together.

The modules here model those handlers step by step, one step per stretch of code
between two awaits that matter. TLC checks them on small instances; TLAPS proves
type correctness, the safety properties and the refinements of all of them for
all values of the constants.

Paths below are relative to the repository, `*.ts` names to its `src/`.

## Inventory

| Component | State | Operations | Interacts with | Hard about it | Must hold |
|---|---|---|---|---|---|
| **Payment gateway** `services/ipn.service.ts`, `payments.service.ts`, `controllers/gateway.controller.ts` | `payment_gate_transaction` documents: type, status, IPNs, conversion data | `initiateBuyEths`, `processFail`, `processPending`, `processComplete` | CoinPayments (creates transactions, sends IPNs, converts coins), transaction views | repeated, reordered, overlapping IPNs; conversion before save | a document tells what happened; a failure stays a failure; converted coins are not forgotten |
| **Chain synchronisation** `events/handlers/web3.handler.ts`, `services/transaction.service.ts` | `transaction` documents with a unique index, `lastCheckedBlock` in redis | four subscription handlers, `checkAndRestoreTransactions` every ten minutes | Ethereum node, investors' wallets | lost and duplicated notifications, races of handlers and job, given-up runs | each record appears once, gets the chain's outcome and keeps it; nothing is lost behind the checkpoint |
| **KYC providers** `providers/kyc/*.ts`, `controllers/kyc.controller.ts` | `kycStatus`, `kycInitResult` of investors, stored results | `callback`, `successUpload`, `getInitStatus`, `reinit` | Jumio or Shuftipro, owner account, accounts | stale saves, crash between whitelisting and save | nobody is let in without a positive verdict; a verdict stays |
| **Whitelist job, owner account** `queues/web3.queue.ts`, `services/web3.client.ts` | contract's whitelist and referrals, owner's nonce | `checkWhiteList`, `addAddressToWhiteList`, `addReferralOf` | callbacks, chain | nonce races, replaced and dropped transactions, hanging promises | verified investors and referrals get onto the chain in the end |
| **Investor accounts** `services/user.service.ts`, `entities/investor.ts` | investor document, user in the auth service | `create`, `resendVerification`, `activate`, `verifyChangePassword`, `verifyResetPassword`, `verifyEnable2fa`, `verifyDisable2fa`, `invite`, `initiateLogin`, `verifyLogin` | auth service, verification service, wallet generation, whitelist contract | save first, auth service after; mnemonic only in memory; referral registered before the save | same password in both places; the stored wallet is the one the investor has, and its referral is registered |
| **Sessions** `middlewares/auth.ts`, `entities/verified.token.ts`, `services/auth.client.ts` | verified tokens | `authenticate`, `initiateLogin`, `verifyLogin`, `createVerifiedToken` | verification, all authenticated routes | repeated and overlapping requests for one token | a token opens a route only by its own code |
| **Verification client** `services/verify.client.ts` | none of its own (verifications and their attempts, in the service) | `initiateVerification`, `checkVerificationPayloadAndCode`, `validateVerification`, `invalidateVerification` | verification service, everything that needs a code | wrong codes in flight, a deletion in a call of its own | guessing is bounded and ends; a code is used once |
| **Invest flow** `controllers/dashboard.controller.ts`, `sendTransactionByMnemonic` | none of its own (wallet and its unmined transaction, on the chain) | `investInitiate`, `investVerify` | whitelist, verification, chain | check then send; send after reject; promises that never settle | no investment before whitelist, referral and code, and no other amount |
| **Invitees** `entities/invitee.ts`, `Investor.checkAndUpdateInvitees`, `UserService.invite` | list in the investor | `invite` | e-mail queue | list spliced while used; mails before the save; stale saves | limits of five and fifty; list and mails agree |
| **E-mail queue, mail services, templates** | jobs in redis (Bull) | `addJob`, `process` | Mailgun, Mailjet | – | – |
| **Validation, errors, configuration, logging, bootstrap** | none | – | – | – | – |

`PROJECT.json` lists the components with their status, the hazards with the line
where each bites, and which lines each definition stands for.

## Modules

| Module | What it is |
|---|---|
| `PaymentGate` | the gateway: documents, requests in flight, what CoinPayments has converted |
| `PaymentLifecycle` | abstract: none → buying → converted, and failed for ever |
| `TransactionSync` | the chain, the four subscription handlers, the restore job, the collection |
| `TransferLog` | abstract: a record appears once, may be pending, gets the chain's outcome, keeps it |
| `KycWhitelist` | the activation with its wallet and its session at the provider, callbacks of either provider, other handlers that save the investor, the job, the owner's nonces and the whitelist contract |
| `InvestorAccount` | the operations of `UserService` against database, auth service, tokens and the registry of referrals |
| `Verification` | the verification service and the client's way through it |
| `Session` | extends `Verification`: tokens from their issue to the middleware |
| `Invest` | extends `Session`: the two invest routes, the wallet, the contract; the specification of the three |
| `CodeUse` | abstract: a code is issued, then accepted or void for good, and used once if accepted |
| `Invitees` | an investor's list, the walk through it, mails and saves |
| `MC*` | constants and symmetry for TLC |
| `*Proofs` | theorems and proofs |
| `Counting` | lemmas for `InviteesProofs`: induction over a set of numbers, and how many there are of something among the first positions of a list |

`PaymentGate` implements `PaymentLifecycle`, `TransactionSync` implements
`TransferLog` and `Invest` implements `CodeUse`, by an `INSTANCE` with a mapping,
checked by TLC and proved. `Invest` composes three components: it extends
`Session`, which extends `Verification`, and all three work on the same requests
in flight. The other components share only the investor document. They are modelled apart, each
with the fields it writes; what the others do to the document appears as a
handler that saves another field of it (`ChangeMethod` in `KycWhitelist`,
`ResendVerification` and `Invite` in `InvestorAccount`, `BeginOther` in
`Invitees`). The activation is in two of them: `InvestorAccount` follows its
password, tokens and mnemonic, `KycWhitelist` its wallet on the way through the
owner account. What `KycWhitelist` puts into the contract appears in `Invest` as a
whitelist and a registry that grow at any time.

### How state and actions correspond to the code

*Saves.* TypeORM 0.1 replaces a whole document when it saves an entity it has
read, so the last writer wins. A handler is a worker holding `read`, the
document as it was found, and `tx`, the entity it will save. `Stale(w)` says
that the document has changed in between.

*Awaits.* A handler is cut where another handler can see or change what it
works on: after the read, after a call with effects elsewhere, after the save.
Awaits that only read (the verification service, block data, receipts, which do
not change once there) are not steps of their own. `initiateLogin` and
`verifyLogin` are single steps in `InvestorAccount`, which asks only who has a
verified token; `Session` takes them apart.

*Failures.* A handler in flight may end without finishing: a service or the
database fails (`HandlerFails`, `SaveFails`, `ServiceFails`, `Fault`) or the process
restarts (`Restart`, `Fault(Agents)`), which forgets everything but the database,
redis, the chain and the services. The invariants that a crash or a stale save
really breaks say so with a history variable (`disturbed`): outside those cases
they must hold.

*PaymentGate.* `gate` is the collection, `req` the IPN handlers in flight,
`creating` the calls of `initiateBuyEths` between CoinPayments' answer and the
save. `buyIpns` is a set of IPN statuses, because the program only sorts the
array by status and takes an end of it. `ConvertCoins(w, ok, effect)` is the
awaited conversion: `ok` what the program is told, `effect` what happened; a
call that fails may have had its effect. An IPN that is not accepted is answered
with `IPN Error` and changes nothing: it is not an action.

*TransactionSync.* `receipt`, `block` and `height` are the chain; `todo` and
`cur` are the events or transactions a handler still has to go through and the
one it has looked up. What each path writes, given the status it found, is in
`PendingWrites`, `CallWrites`, `TransferWrites` and `ReferralWrites`. A record is
identified by hash, type, from and to; for one transaction this gives a record
of the call, one of the event if call and event disagree on the recipient, and
one of the referral bonus. `NoSuchBlock` is the job asking for a block before
the first, as the defaults (start block 1, offset 200) make it do; `Undecodable`
is the `TypeError` for a token call the ABI decoder does not know.

*KycWhitelist.* `archive` is the stored results, `call` the owner's transaction
an agent is sending, `hung` the agents whose promise will never settle (an error
in the async executor of `addAddressToWhiteList`). `pool` counts the owner's
unmined transactions from the next nonce, so `Mine` shifts it and the nonces
already taken. `addAddressToWhiteList` takes the pending nonce and
`addReferralOf` the one after the last mined transaction; a transaction with a
nonce that is taken may replace the one that has it or be refused. A result is
stored before the investor is read with Jumio, after it with Shuftipro.
`Activate` generates a wallet (`made` tells whose), has the owner account
register the referral, and goes through `InitKyc` to the `Save` that stores the
wallet; `stage` tells whether the provider knows the investor and whether it has
signed in. Callbacks, uploads and reports come as soon as there is a session,
before the wallet is saved too. Whitelist and referrals are sets of wallets, as
in the contract.

*InvestorAccount.* `db`, `auth` and `tokens` are the three places an account
lives in; `drawn` and `handed` are the wallets generated and the ones whose
mnemonic an answer has carried to the investor; `registered` the wallets whose
referral a node has accepted. An activation of a referred investor first waits
for `AddReferralOf`, which may never come: a failing signature settles nothing.

*Verification and Session.* `ver` is the service: consumer, payload, wrong codes
counted, and whether the verification can still be used. `Checks` is the look-up
and the comparison of consumer and payload; they are one step with the start of
the request because neither can turn out otherwise later. From then on a request
is in `req`: `validate` (the code is at the service), `invalidate` (the service
has said that the attempts are used up, the client deletes), `accepted`. A token
is stored unverified with the verification it was issued with, or verified with
none (`HandOut`: activation and changed password). `confirmed` remembers which
codes were accepted.

*Invest.* `balance` and `pending` are the wallet and its one unmined transaction
(signing takes the nonce after the last mined one, so a second transaction
replaces the first or is refused); `spent` counts what the node took for a
verification. `CheckBalance` is the check inside `sendTransactionByMnemonic`: on
too low a balance it rejects, which answers the request, and goes on to sign and
send all the same (`rejected`, with the balance it saw). `Unhandled` is a
rejection of the inner promises: nobody handles it, so a request not yet answered
hangs. The route answers what the node answers.

*Invitees.* `invitees` is the list in the document, `req[w].read` and
`req[w].save` the list a handler found and the one it will store, `mails` how
often an address was mailed. `Visit` is one turn of the loop and `Walk` what the
turns come to over the positions of the list; the request's addresses shrink on the way, as the code splices the array
that `invite` goes through afterwards. So an address that is found gets an
attempt but no mail. Addresses are kept and mailed as typed and looked for in
small letters: one typed otherwise in a request is never found. The refusal of
an investor's own address and of existing accounts are `AccountExists`.

### Assumptions

- One process and one instance of each repeated job; Bull does not run two of
  the same kind at once.
- No chain reorganisations, and receipts do not change.
- A provider's and CoinPayments' messages are genuine; those with a wrong
  signature change nothing.
- A verification code is accepted or refused, nondeterministically. The service
  counts wrong codes one by one and says how many there were. Whether it forgets
  a verification it has accepted is the constant `OneTime`; `ImplementsCodeUse`
  is checked and proved under `OneTime`, and without it a code can be used again
  until it expires: the program itself keeps no record of used codes. All other
  properties of `Invest` are proved for both.
- In `InvestorAccount` codes are accepted nondeterministically; the auth service
  replaces the password of a user it is told to create again, which is how
  `verifyChangePassword` uses it.
- The node refuses a transaction its wallet cannot pay for, and replaces one with
  the same nonce at will (gas prices are not modelled, their sum is `Fee`).
  A wallet's balance falls by other means only while it has no unmined investment.
- The contract's whitelist and referrals only grow.
- Which transactions belong to investors (`Tracked`) does not change while they
  are worked on.
- `KycWhitelist` has KYC enabled, and the investor who referred others is active
  (otherwise the activation throws before it changes anything). An activation
  may be repeated while its investor is stored as not active: each needs a code
  of its own, which `InvestorAccount` and `Verification` model. Its sign-in is
  in `InvestorAccount`; here an investor uses the routes once its activation was saved.
- A report whose signature does not fit counts as one that says nothing
  (`"other"` in `archive`).

## Runs

| Run | Instance | Shows |
|---|---|---|
| `PaymentGate_overlap` | 1 transaction, 3 fair handlers, statuses −2, 1, 100 | `DocumentsCoherent`, `FailureIsShown`, `ConversionIsRecorded`, `OnlyStaleSaveUndoes`, `NoConversionAfterFailure`, `ConversionSettles` |
| `PaymentGate_serial` | 2 transactions, 1 handler | `ImplementsLifecycle` |
| `TransactionSync_races` | ether and token transfer, handler and fair job, 3 blocks, 1 failure; any notification may be lost | `CheckpointComplete`, `ImplementsLog`, `TrackedSettles` |
| `TransactionSync_events` | an investment and a call that cannot be decoded, start block 0, offset 1 | `EventsSettle` although no run of the job completes |
| `KycWhitelist_jumio` | 1 investor, 2 wallets, 2 handlers and job | `AllowedWasConfirmed`, `VerifiedWasSubmitted`, `OnlyStaleSaveReopens` |
| `KycWhitelist_shuftipro` | 1 referred investor, 2 wallets, handler and fair job, 2 failures, sessions may be recreated | `VerifiedGetsAllowed`, `ReferralsGetRegistered` |
| `InvestorAccount_overlap` | 1 referred account, 2 fair handlers, 2 passwords, 2 wallets | `PasswordsAgree`, `WalletIsHandedOut`, `ReferralIsRegistered`, `OnlyStaleSaveDeactivates`, `RefusedOnlyWhenOverlapping`, `PasswordReachesAuth` |
| `Invest_routes` | 1 referred investor, 1 token, 2 amounts, 2 verifications, 2 fair handlers, 2 attempts | `AttemptsBounded`, `OpensByOwnCode`, `InvestedAsConfirmed`, `NeverStuck`, `ImplementsCodeUse`, `OnlyDepositRevives`, `ExhaustedIsClosed`, `AnsweredUnlessHung` |
| `Invitees_walk` | 3 ways to type 2 addresses, 5 requests of up to 2, 2 invitations a day, 2 attempts, 3 days, 2 handlers | `DayLimitSoft`, `MailsMatchEntries`, `WalkMeetsEntries`, `OnlyStaleSaveForgets` |

`TypeOK` is checked in the first safety run of each component.

*Bounds.* Transactions, accounts and investors do not interact except through
the owner account, so one or two of each are enough; two handlers on the same
document give every order of two reads and two saves, and the invariants speak
of pairs of handlers; the gateway, the smallest document, has room for three.
Blocks 1 to 3 let the job pass a block, fall behind by one and come back over
the offset. The chain is at block 1 when the program starts: with a checkpoint
below the offset the next run asks for a block before the first and never gets
further, which is the case of `TransactionSync_events`. One failure may hit each step of a run; two let
a retry fail again. `Depth` bounds the owner's pool: at two, a transaction can
be queued behind another, be replaced, and be refused because the pool is full.
Two wallets allow two activations in flight, or one after another that failed.
Two verifications give every pair of purposes (two sign-ins, a sign-in and an
investment, two amounts); four wrong codes pass the limit of two by one more than
two handlers can, and a balance of three pays for either amount or for none. For
invitations the limits are scaled down: two at once and two a day reach the
list's greatest length (three recent entries), two attempts and three days an
address that is refused for good; the address typed with a capital is the one
that the walk never finds. `WalkMeetsEntries` compares the walk with its
definition for all twelve requests in every reachable list, whatever was asked.
The bounds `MaxHeight`, `MaxFaults`, `Depth`, `Wallets`, `Ids`, `MaxWrong`,
`MaxBalance`, `MaxClock`, `MaxMails` are constants named as bounds in the
modules; the proofs hold for any value of them.

*Symmetry* over handlers is used in `KycWhitelist_jumio` (over wallets too) and
`Invitees_walk`, which check no liveness: the specifications never name one of them.

*Deadlock* is checked except where the comment in the `.cfg` says that the
system may really stop: every transaction lost before it was stored, a hung
handler and a hung job with no restart left in the bound, or (`Invitees_walk`)
nobody invites any more.

*Fairness.* Handlers that read only this program's promises continue
(`WF_vars(Continue(w))`): an awaited promise settles, and Node runs what comes
after it. Nothing is assumed about requests, IPNs or subscriptions, which may
stop. The jobs are repeated by Bull every ten minutes for ever, so their next
step is weakly fair; a step of the job can only be disabled by the job itself or
a failure, and failures are bounded. The chain mines what its pool holds. IPN
redelivery is not assumed: the handler answers every IPN with status 200.
`VerifiedGetsAllowed` and `ReferralsGetRegistered` name the one way out that
fairness cannot exclude, a job that hangs on a promise nobody settles;
`AnsweredUnlessHung` does the same for the invest routes. `AddReferralOf` in
`InvestorAccount` has no fairness for that reason. `ExhaustedIsClosed` needs the
handler that was told of the last attempt to go on to the deletion, and names the
deletion that fails. `NeverStuck` says that fairness is asked of what is possible:
a handler that has to go on can (`ENABLED <<Continue(w)>>_vars`), whatever
happened to the documents, codes and wallets it was begun with. `Invest_routes`
checks it, where it is least obvious. The instances of `PaymentGate_overlap` and
`InvestorAccount_overlap` satisfy theirs too: there the guards of a handler's next
step speak of the handler alone, or are complements of each other, so no run is
spent on them (add `INVARIANT NeverStuck` to the `.cfg` to see it).

### Where the code and its comments disagree

Three runs expect a violation; each checks what a comment says.

- `PaymentGate_refund`, `LatestFailureShown`: the transaction list takes the
  "latest actual ipn response", but `processFail` does not store the IPN of a
  payment that was converted, so after a refund the list still shows the
  complete one.
- `TransactionSync_approve`, `OnlyEventsConfirmTokens`:
  `saveConfirmedTransaction` is said to leave successful token transfers to the
  Transfer event, but stores a confirmed token transfer for every successful
  token call it has no record of, `approve` among them.
- `KycWhitelist_customer`, `NoSuchUserIsAnswered`: a Jumio callback that names
  no user is said to be answered with 200, but the customer id that `init` sends
  is an e-mail, and making an object id of it throws before the user is looked
  for.

## Proofs

Each `*Proofs` module extends its component and proves, for all values of the
constants, `TypeOK` and every safety property of the runs above as a theorem of
`Spec` (the three refinements included), and four of the liveness properties as
theorems of `FairSpec`. The assumptions
are those named in the modules (types of the constants, and that the value for
"nothing" is none of the real ones); for `SerialImplementsLifecycle` also that
there is one handler (`OneWorker`), without which it is false: a stale save
reopens a failed payment (what holds for any number of handlers is
`OnlyStaleSavesLeaveLifecycle`: nothing else leaves the life of a payment, and the
refinement follows from it); and for `RoutesImplementCodeUse` that the service
forgets what it accepted (`OneTime`).

None of the invariants is inductive as it stands, and for the same reason
everywhere: what a step saves was decided by an earlier step. The inductive
invariants therefore speak of requests in flight as well as of the database.

- *PaymentGate.* `DocInv` (documents are good), `ReqInv` (a request read a good
  document and is about to save a good one that extends it) and `SavedInv` (a
  document is stored once, before any handler works on it). Monotonicity carries
  them: what CoinPayments has converted only grows. For one handler,
  `FreshInv` adds that the document in flight is still the one in the database.
- *TransactionSync.* The refinement needs that what a worker has seen of a
  record bounds what the record can be now (it was absent, or pending, or has
  the final outcome), and that an item exists only for a transaction with the
  receipt its path presupposes. The checkpoint needs that whatever the job has
  passed is recorded or still on its list.
- *KycWhitelist.* Every transaction of the owner that whitelists a wallet, from
  the call being sent to the pool, is for one whose owner has a stored positive
  verdict (`FiledInv`); the wallet of an investor is its own (`OwnInv`); a request
  about to save a verified investor was submitted for the wallet it saves, and
  one that changes the wallet read an investor without one, who was not verified
  (`GoodRequest`). All of this stays true because results are only added, and a
  wallet keeps its owner (`Grown`).
- *InvestorAccount.* Each request's `read` and `tx` agree in what its operation
  does not change, an account that is not active has no wallet, and a request
  past its save wrote what the database has unless the account is disturbed.
  A request about to save an active investor has a registered wallet (`ReferInv`),
  which a handler that read the investor earlier keeps because the registry grows.
- *Invest.* A request past the comparison is for the consumer and payload of its
  verification (`GoodRequest`), and what it was begun with stays true because
  verifications keep consumer and payload, and whitelist and codes accepted only
  grow (`GoodStays`). `AttemptsInv` counts: as long as a
  verification can be tried, its wrong codes exceed the limit less one by at most
  the number of handlers that have still to delete it. For the refinement, `UseInv` says
  that an accepted code can no longer be tried, that what was used was accepted,
  and that at most one request holds an accepted code, one that was not used yet.

- *Invitees.* Two arguments. The first is about the walk alone: `WalkMeetsAll`
  holds for every list, request and time, and says without walking what comes
  out. `WalkInv` is the loop invariant: after `k` turns, each address has lost as
  many occurrences as it has entries among the first `k` (or all it had), the
  entries passed are updated where they were met, and a walk that is not refused
  has passed fewer recent entries than the limit of a day. `WalkInvInit`,
  `WalkInvNext` and `WalkEnds` are its three facts. The second is about handlers: a list that is about to be
  saved has grown out of the one that was read, which is within the day's limit
  as of any later time (`HandlerInv`, `ListInv`); while nothing is disturbed,
  what a handler read lies before the list in the document (`ReadsInv`); and mails
  are accounted for, exactly while at most one handler has walked and is not
  done, and otherwise one of them is late, or will be, so that its save is a
  disturbance (`MailInv`).

None of the modules with proofs uses a recursive operator. `Walk` is a recursive
function over positions. That there is such a function, and that the loop
invariant holds of it, is induction over the natural numbers. The library's
induction theorems take a predicate, which the provers cannot instantiate; the
induction here is over a *set* of numbers (`SetInduction` in `Counting`), proved
from the least number outside it, whose existence the library's `WFMin` gives.

*Liveness.* `ConversionsSettle`, `PasswordsReachAuth`, `RequestsAreAnswered` and
`ExhaustedAreClosed` state what a handler in flight comes to, for any number of
them. The argument is the same each time. The handler passes through few stages
(`Converting`, `Recording`; `Telling`; `Early`, `Middle`, `Late`; `Deleting`); a step
of another handler leaves it where it is or disturbs it, its own step takes it
on, and both facts are proved of the actions like an invariant
(`ConversionSteps`, `TellingSteps`, `OwnSteps`, `StageSteps`, `DeletingSteps`). Weak
fairness then makes the step happen. For an exhausted verification it is not
known beforehand which handler will delete it: `AttemptsInv`, with the cardinality
lemmas, yields one as long as the verification can be tried. The prover treats
`ENABLED` as an unknown formula, so that a handler *can* go on is a premise of the four,
`[]NeverStuck` (see *Fairness*), and nothing else is assumed.

*Only model-checked:* the liveness properties of the two jobs
(`TrackedSettles`, `EventsSettle`, `VerifiedGetsAllowed`,
`ReferralsGetRegistered`), where the progress is a list or a chain getting
shorter, an induction over data inside a temporal argument; `NeverStuck`; and the
three runs that expect a violation.

## Not modelled

- **Shuftipro's answers.** Which answers to `getInitStatus` lead to a new session
  is left open by `RecreateSession`, and a callback may report on any session the
  investor had. A callback for a reference nobody knows throws before it stores
  anything.
- **A second complete IPN for a payment being converted** is accepted and
  modelled, but nothing in the repository says what should hold.
- **`getExtendedTransactions` and `getReferralIncome`** read and change nothing.
  The second throws while a referred investor is not activated; no text of the
  repository says what it should show instead.
- **Mail services and templates, request validation, error wording, logging,
  configuration and bootstrap** keep no state that another component relies on.
