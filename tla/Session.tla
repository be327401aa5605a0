------------------------------- MODULE Session -------------------------------
(***************************************************************************)
(* Sign-in (UserService.initiateLogin, verifyLogin) and the middleware     *)
(* that lets requests through (Auth.authenticate).  A token of the auth    *)
(* service is stored unverified with the verification it was issued with;  *)
(* activation and a changed password store verified ones without.          *)
(***************************************************************************)
EXTENDS Verification

VARIABLE tokens  \* the verified_token collection, with the user auth knows for the token

TokenDocs == [user : Users, verified : BOOLEAN, ver : Ids \cup {None}]

ASSUME SessionConstants == None \notin TokenDocs

-----------------------------------------------------------------------------
\* The handler may stop before the token is stored; the code is out by then.
InitiateLogin(u, t, i, stored) ==
  /\ tokens[t] = None
  /\ Issue(i, u, Login)
  /\ tokens' = IF stored
               THEN [tokens EXCEPT ![t] = [user |-> u, verified |-> FALSE, ver |-> i]]
               ELSE tokens
  /\ UNCHANGED <<confirmed, req, disturbed>>

\* Codes for activation, passwords and the second factor.
InitiateOther(u, i) ==
  /\ Issue(i, u, Other)
  /\ UNCHANGED <<confirmed, req, disturbed, tokens>>

\* Mutant: the new token is not marked.
HandOutUnmarked(u, t) ==
  /\ tokens[t] = None
  /\ tokens' = [tokens EXCEPT ![t] = [user |-> u, verified |-> None, ver |-> None]]
  /\ UNCHANGED <<service, req>>

\* activate and verifyChangePassword (createVerifiedToken).
HandOut(u, t) ==
  /\ tokens[t] = None
  /\ tokens' = [tokens EXCEPT ![t] = [user |-> u, verified |-> TRUE, ver |-> None]]
  /\ UNCHANGED <<service, req>>

\* Mutant: any verification of the investor will do.
VerifyLoginAny(w, t, i) ==
  /\ tokens[t] # None
  /\ Checks(i, tokens[t].user, Login)
  /\ Begin(w, [op |-> "login", pc |-> "validate", user |-> tokens[t].user, token |-> t,
               id |-> i, payload |-> Login, seen |-> 0])
  /\ UNCHANGED <<service, tokens>>

VerifyLogin(w, t, i) ==
  /\ tokens[t] # None
  /\ tokens[t].ver = i
  /\ Checks(i, tokens[t].user, Login)
  /\ Begin(w, [op |-> "login", pc |-> "validate", user |-> tokens[t].user, token |-> t,
               id |-> i, payload |-> Login, seen |-> 0])
  /\ UNCHANGED <<service, tokens>>

\* makeVerified throws for a token that was verified when it was read: the
\* document stays as it is either way.
SaveToken(w) ==
  /\ At(w, "accepted")
  /\ req[w].op = "login"
  /\ tokens' = [tokens EXCEPT ![req[w].token].verified = TRUE]
  /\ Answer(w)
  /\ UNCHANGED service

Authenticated(t, u) == tokens[t] # None /\ tokens[t].verified /\ tokens[t].user = u

SessionInit == tokens = [t \in Tokens |-> None]

SessionTypeOK == tokens \in [Tokens -> TokenDocs \cup {None}]

-----------------------------------------------------------------------------
(* Properties                                                              *)

\* A token issued by initiateLogin opens a route only after the very code it
\* was issued with, sent to the token's own user for signing in, was accepted
\* (authenticate goes by `verified'; verifyLogin ties token, verification id,
\* consumer and scope together).
OpensByOwnCode ==
  \A t \in Tokens :
    tokens[t] # None /\ tokens[t].verified /\ tokens[t].ver # None =>
      LET i == tokens[t].ver IN
      /\ i \in confirmed
      /\ ver[i].consumer = tokens[t].user
      /\ ver[i].payload = Login
=============================================================================
