---------------------------- MODULE Verification ----------------------------
(***************************************************************************)
(* VerificationClient and the verification service behind it.  A handler   *)
(* that needs a code looks the verification up, compares consumer and      *)
(* payload (checkVerificationPayloadAndCode), has the service validate the *)
(* code and, when the service says that the attempts are used up, deletes  *)
(* the verification in a call of its own.                                  *)
(*                                                                         *)
(* A module of handlers EXTENDS this one: `req' is what they are doing,    *)
(* from the comparison on.                                                 *)
(***************************************************************************)
EXTENDS Integers, FiniteSets

CONSTANTS Users, Tokens, Amounts,
          Workers,      \* handlers that can be in flight at the same time
          None,
          MaxAttempts,  \* config.verify.maxAttempts
          OneTime,      \* whether the service forgets a verification it accepted
          Ids,          \* bound of the model: verifications that can be issued
          MaxWrong      \* bound of the model: wrong codes the service counts

Login       == [scope |-> "login_user", amount |-> None]
Other       == [scope |-> "other", amount |-> None]   \* activation, passwords, second factor
Investment(a) == [scope |-> "invest", amount |-> a]
Payloads    == {Login, Other} \cup {Investment(a) : a \in Amounts}

Verifications == [consumer : Users, payload : Payloads, wrong : Nat, open : BOOLEAN]

Requests == [op      : {"login", "invest"},
             pc      : {"validate", "invalidate", "accepted", "funded", "rejected", "hung"},
             user    : Users,
             token   : Tokens,
             id      : Ids,
             payload : Payloads,
             seen    : Nat]        \* the balance that was found too low

ASSUME VerificationConstants ==
  /\ None \notin Verifications /\ None \notin Requests
  /\ None \notin Amounts /\ None \notin Ids
  /\ Amounts \subseteq Nat
  /\ IsFiniteSet(Workers)
  /\ MaxAttempts \in Nat \ {0} /\ OneTime \in BOOLEAN /\ MaxWrong \in Nat

VARIABLES
  ver,        \* the verification service
  confirmed,  \* history: verifications whose code was accepted
  req,        \* what each handler is doing
  disturbed   \* history: verifications whose deletion failed

service == <<ver, confirmed, disturbed>>

-----------------------------------------------------------------------------
Issue(i, u, payload) ==
  /\ ver[i] = None
  /\ ver' = [ver EXCEPT ![i] = [consumer |-> u, payload |-> payload, wrong |-> 0, open |-> TRUE]]

\* Mutant: only the scopes are compared.
ChecksScope(i, u, payload) ==
  /\ ver[i] # None
  /\ ver[i].open
  /\ ver[i].consumer = u
  /\ ver[i].payload.scope = payload.scope

\* getVerification and the comparison: neither can turn out differently later.
Checks(i, u, payload) ==
  /\ ver[i] # None
  /\ ver[i].open
  /\ ver[i].consumer = u
  /\ ver[i].payload = payload

Begin(w, request) ==
  /\ req[w] = None
  /\ req' = [req EXCEPT ![w] = request]

At(w, pc) == req[w] # None /\ req[w].pc = pc

Goto(w, pc) == req' = [req EXCEPT ![w].pc = pc]
Answer(w)   == req' = [req EXCEPT ![w] = None]

RightCode(w) ==
  /\ At(w, "validate")
  /\ ver[req[w].id].open
  /\ ver' = [ver EXCEPT ![req[w].id].open = ~OneTime]
  /\ confirmed' = confirmed \cup {req[w].id}
  /\ Goto(w, "accepted")
  /\ UNCHANGED disturbed

\* Mutant: the limit is compared with the count before this attempt.
WrongCodeLate(w) ==
  LET i == req[w].id IN
  /\ At(w, "validate")
  /\ ver[i].open
  /\ ver[i].wrong < MaxWrong
  /\ ver' = [ver EXCEPT ![i].wrong = @ + 1]
  /\ IF ver[i].wrong > MaxAttempts THEN Goto(w, "invalidate") ELSE Answer(w)
  /\ UNCHANGED <<confirmed, disturbed>>

\* 422, with the number of attempts the service has counted.
WrongCode(w) ==
  LET i == req[w].id IN
  /\ At(w, "validate")
  /\ ver[i].open
  /\ ver[i].wrong < MaxWrong
  /\ ver' = [ver EXCEPT ![i].wrong = @ + 1]
  /\ IF ver[i].wrong + 1 >= MaxAttempts THEN Goto(w, "invalidate") ELSE Answer(w)
  /\ UNCHANGED <<confirmed, disturbed>>

\* Mutant: the client waits for a verification that is not there.
NotFoundWaits(w) ==
  /\ At(w, "validate")
  /\ ~ver[req[w].id].open
  /\ UNCHANGED <<service, req>>

\* 404: deleted, expired or accepted since it was looked up.
NotFound(w) ==
  /\ At(w, "validate")
  /\ ~ver[req[w].id].open
  /\ Answer(w)
  /\ UNCHANGED service

\* Mutant: the verification is left to expire.
InvalidateNothing(w) ==
  /\ At(w, "invalidate")
  /\ Answer(w)
  /\ UNCHANGED service

InvalidateVerification(w) ==
  /\ At(w, "invalidate")
  /\ ver' = [ver EXCEPT ![req[w].id].open = FALSE]
  /\ Answer(w)
  /\ UNCHANGED <<confirmed, disturbed>>

Validate(w) == RightCode(w) \/ WrongCode(w) \/ NotFound(w) \/ InvalidateVerification(w)

\* The service forgets a verification at the time given in its policy.
Expire(i) ==
  /\ ver[i] # None
  /\ ver[i].open
  /\ ver' = [ver EXCEPT ![i].open = FALSE]
  /\ UNCHANGED <<req, confirmed, disturbed>>

Undeleted(W) == {req[w].id : w \in {v \in W : At(v, "invalidate")}}

\* A service fails the handlers in W, or the process stops and starts again.
Fail(W) ==
  /\ \E w \in W : req[w] # None
  /\ req' = [w \in Workers |-> IF w \in W THEN None ELSE req[w]]
  /\ disturbed' = disturbed \cup Undeleted(W)
  /\ UNCHANGED <<ver, confirmed>>

VerificationInit ==
  /\ ver = [i \in Ids |-> None]
  /\ confirmed = {}
  /\ req = [w \in Workers |-> None]
  /\ disturbed = {}

VerificationTypeOK ==
  /\ ver \in [Ids -> Verifications \cup {None}]
  /\ confirmed \in SUBSET Ids
  /\ req \in [Workers -> Requests \cup {None}]
  /\ disturbed \in SUBSET Ids

\* However many wrong codes are in flight, a verification takes at most one for
\* each handler beyond the limit (validateVerification deletes it only after the
\* service has counted), unless a deletion failed.
AttemptsBounded ==
  \A i \in Ids : ver[i] # None =>
     \/ i \in disturbed
     \/ ver[i].wrong <= MaxAttempts - 1 + Cardinality(Workers)
=============================================================================
