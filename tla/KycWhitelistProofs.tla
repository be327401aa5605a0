------------------------ MODULE KycWhitelistProofs ------------------------
(* Theorems about KycWhitelist for any number of investors and handlers,   *)
(* either provider, any depth of the pool and any number of failures.      *)
EXTENDS KycWhitelist, TLAPS

\* What a handler knows at each point of its work, given the results on file,
\* the whitelistings a node accepted and the owners of the wallets: it saves a
\* positive verdict only if it is on file and was submitted for the wallet it
\* saves, keeps a verdict it read, and replaces no wallet.
GoodRequest(filed, sent, owner, r) ==
  /\ r.pc = "find" =>
       /\ r.verdict \in Verdicts
       /\ Provider = "SHUFTIPRO" =>
            /\ r.known
            /\ r.read \in Docs
            /\ r.read.wallet # None => owner[r.read.wallet] = r.who
  /\ r.pc # "find" =>
       /\ r.read \in Docs /\ r.tx \in Docs
       /\ r.read.kyc \in Closed => r.tx.kyc = r.read.kyc
       /\ Activates(r) => r.read.wallet = None /\ r.tx.kyc # "verified"
       /\ r.tx.wallet # None => owner[r.tx.wallet] = r.who
       /\ r.tx.kyc = "verified" => "confirmed" \in filed[r.who]
  /\ r.pc = "init" => Activates(r)
  /\ r.pc = "save" /\ r.tx.kyc = "verified" => r.tx.wallet \in sent

ReqInv ==
  \A w \in Workers : req[w] # None => GoodRequest(archive, submitted, made, req[w])

\* A handler has the owner account send exactly while it waits for it.
CallInv ==
  \A w \in Workers : call[w] # None =>
    /\ req[w] # None
    /\ req[w].pc = "submit"
    /\ call[w].wallet = req[w].tx.wallet
    /\ call[w].kind = "refer" => Activates(req[w])

\* Everything on its way to the whitelist has a positive verdict on file.
FiledInv ==
  /\ AllowedWasConfirmed
  /\ \A a \in Agents : call[a] # None /\ call[a].kind = "allow" => Confirmed(call[a].wallet)
  /\ \A n \in Slots : pool[n] # None /\ pool[n][1] = "allow" => Confirmed(pool[n][2])
  /\ phase = "allow" => \A x \in todo : Confirmed(x)

\* An investor has a wallet of its own.
OwnInv == \A i \in Investors : doc[i].wallet # None => made[doc[i].wallet] = i

IInv == TypeOK /\ ReqInv /\ CallInv /\ FiledInv /\ OwnInv /\ VerifiedWasSubmitted

-----------------------------------------------------------------------------
(* Requests                                                                *)

\* Results are only added to the file, and a wallet keeps its owner.
Grown == /\ \A i \in Investors : archive[i] \subseteq archive'[i]
         /\ \A x \in Wallets : made[x] # None => made'[x] = made[x]

\* What is on file, was submitted and was made only grows, and that spoils
\* nothing a handler knows.
LEMMA MoreIsFiled ==
  ASSUME Grown, NEW S, NEW T, S \subseteq T, NEW r \in Requests,
         GoodRequest(archive, S, made, r)
  PROVE  GoodRequest(archive', T, made', r)
<1>1. r.who \in Investors /\ None \notin Investors
  BY KycConstants DEF Requests
<1>2. \A d \in Docs : d.wallet # None => d.wallet \in Wallets
  BY DEF Docs
<1>3. QED
  BY <1>1, <1>2 DEF GoodRequest, Grown

LEMMA ConfirmedStays ==
  ASSUME TypeOK, Grown, NEW x \in Wallets, Confirmed(x)
  PROVE  made'[x] # None /\ "confirmed" \in archive'[made'[x]]
<1>1. made[x] # None /\ made[x] \in Investors /\ made'[x] = made[x]
  BY DEF TypeOK, Grown, Confirmed
<1>2. QED
  BY <1>1 DEF Grown, Confirmed

\* A handler goes on with request r, or ends (None); its transaction, if it has
\* the owner account send one now, is for the wallet it is about to save.
LEMMA HandlerKeepsInv ==
  ASSUME IInv, NEW w \in Workers, call[w] = None,
         NEW r \in Requests \cup {None}, req' = [req EXCEPT ![w] = r],
         NEW k \in {"allow", "refer"},
         r # None => GoodRequest(archive', submitted, made', r),
         \/ call' = call
         \/ /\ r # None /\ r.pc = "submit" /\ r.tx.wallet \in Wallets
            /\ k = "refer" => Activates(r)
            /\ k = "allow" => /\ made'[r.tx.wallet] # None
                              /\ "confirmed" \in archive'[made'[r.tx.wallet]]
            /\ call' = [call EXCEPT ![w] = Send(k, r.tx.wallet)],
         archive' \in [Investors -> SUBSET Verdicts],
         made' \in [Wallets -> Investors \cup {None}],
         stage' \in [Investors -> {"new", "session", "active"}],
         faults' \in Nat,
         Grown,
         UNCHANGED <<doc, hung, job, chain, submitted>>
  PROVE  IInv'
<1>1. /\ req' \in [Workers -> Requests \cup {None}]
      /\ call' \in [Agents -> Calls \cup {None}]
  <2>1. r # None /\ r.tx.wallet \in Wallets => Send(k, r.tx.wallet) \in Calls
    BY DEF Calls, Send
  <2>2. QED
    BY <2>1 DEF IInv, TypeOK
<1>2. TypeOK'
  BY <1>1 DEF IInv, TypeOK, job, chain
<1>3. ReqInv'
  <2> SUFFICES ASSUME NEW v \in Workers, req'[v] # None
               PROVE  GoodRequest(archive', submitted', made', req'[v])
    BY DEF ReqInv
  <2>1. CASE v = w
    BY <2>1 DEF IInv, TypeOK
  <2>2. CASE v # w
    <3>1. req'[v] = req[v] /\ req[v] \in Requests
      BY <2>2 DEF IInv, TypeOK
    <3>2. GoodRequest(archive, submitted, made, req[v])
      BY <3>1 DEF IInv, ReqInv
    <3>3. QED
      BY <3>1, <3>2, MoreIsFiled
  <2>3. QED
    BY <2>1, <2>2
<1>4. CallInv'
  <2> SUFFICES ASSUME NEW v \in Workers, call'[v] # None
               PROVE  /\ req'[v] # None
                      /\ req'[v].pc = "submit"
                      /\ call'[v].wallet = req'[v].tx.wallet
                      /\ call'[v].kind = "refer" => Activates(req'[v])
    BY DEF CallInv, Activates
  <2>1. CASE v = w
    BY <2>1 DEF IInv, TypeOK, Agents, Send
  <2>2. CASE v # w
    BY <2>2 DEF IInv, TypeOK, CallInv, Agents
  <2>3. QED
    BY <2>1, <2>2
<1>5. FiledInv'
  <2>1. /\ UNCHANGED <<pool, todo, phase, allowed, doc>>
        /\ call \in [Agents -> Calls \cup {None}]
        /\ todo \in SUBSET Wallets /\ allowed \in SUBSET Wallets
        /\ pool \in [Slots -> ({"allow", "refer"} \X Wallets) \cup {None}]
    BY DEF IInv, TypeOK, job, chain
  <2>2. \A x \in Wallets : Confirmed(x) => made'[x] # None /\ "confirmed" \in archive'[made'[x]]
    BY ConfirmedStays DEF IInv
  <2>3. \A a \in Agents : call'[a] # None /\ call'[a].kind = "allow" =>
          made'[call'[a].wallet] # None /\ "confirmed" \in archive'[made'[call'[a].wallet]]
    <3> SUFFICES ASSUME NEW a \in Agents, call'[a] # None, call'[a].kind = "allow"
                 PROVE  made'[call'[a].wallet] # None /\ "confirmed" \in archive'[made'[call'[a].wallet]]
      OBVIOUS
    <3>1. CASE call'[a] = call[a]
      <4>1. call[a].wallet \in Wallets /\ Confirmed(call[a].wallet)
        BY <2>1, <3>1 DEF IInv, FiledInv, Calls
      <4>2. QED
        BY <2>2, <3>1, <4>1
    <3>2. CASE call'[a] # call[a]
      <4>1. call'[a] = Send(k, r.tx.wallet)
        BY <2>1, <3>2
      <4>2. k = "allow" /\ call'[a].wallet = r.tx.wallet
        BY <4>1 DEF Send
      <4>3. QED
        BY <3>2, <4>2
    <3>3. QED
      BY <3>1, <3>2
  <2>4. \A n \in Slots : pool[n] # None /\ pool[n][1] = "allow" =>
          made'[pool[n][2]] # None /\ "confirmed" \in archive'[made'[pool[n][2]]]
    <3>1. \A n \in Slots : pool[n] # None => pool[n][2] \in Wallets
      BY <2>1
    <3>2. QED
      BY <2>2, <3>1 DEF IInv, FiledInv
  <2>5. phase = "allow" =>
          \A x \in todo : made'[x] # None /\ "confirmed" \in archive'[made'[x]]
    BY <2>1, <2>2 DEF IInv, FiledInv
  <2>6. AllowedWasConfirmed'
    BY <2>1, <2>2 DEF IInv, FiledInv, AllowedWasConfirmed, Confirmed, Grown
  <2>7. QED
    BY <2>1, <2>3, <2>4, <2>5, <2>6 DEF FiledInv, Confirmed
<1>6. OwnInv'
  BY KycConstants DEF IInv, TypeOK, OwnInv, Grown, Docs
<1>7. VerifiedWasSubmitted'
  BY DEF IInv, VerifiedWasSubmitted
<1>8. QED
  BY <1>2, <1>3, <1>4, <1>5, <1>6, <1>7 DEF IInv

\* The handlers that go by the investor as the authentication or their own
\* lookup returned it.
LEMMA ReceiveKeepsInv ==
  ASSUME IInv, NEW w \in Workers, Receive(w)
  PROVE  IInv'
<1> USE DEF Request
<1>1. /\ doc \in [Investors -> Docs]
      /\ archive \in [Investors -> SUBSET Verdicts]
      /\ made \in [Wallets -> Investors \cup {None}]
      /\ stage \in [Investors -> {"new", "session", "active"}]
      /\ faults \in Nat
      /\ submitted \subseteq Wallets
      /\ \A i \in Investors : doc[i].kyc = "verified" =>
           "confirmed" \in archive[i] /\ doc[i].wallet \in submitted
      /\ \A i \in Investors : doc[i].wallet # None => made[doc[i].wallet] = i
  BY DEF IInv, TypeOK, FiledInv, AllowedWasConfirmed, VerifiedWasSubmitted, OwnInv
<1>2. ASSUME req[w] = None
      PROVE  call[w] = None
  BY <1>2 DEF IInv, CallInv
<1>3. ASSUME NEW i \in Investors, NEW e \in Docs,
             Begin(w, Request("save", i, None, TRUE, doc[i], e)),
             UNCHANGED <<made, archive, call>>,
             doc[i].kyc \in Closed => e.kyc = doc[i].kyc,
             e.wallet = doc[i].wallet,
             e.kyc = "verified" => doc[i].kyc = "verified"
      PROVE  IInv'
  <2> DEFINE r == Request("save", i, None, TRUE, doc[i], e)
  <2>1. r \in Requests
    BY <1>1 DEF Requests
  <2>2. GoodRequest(archive', submitted, made', r)
    BY <1>1, <1>3 DEF GoodRequest, Activates
  <2>3. Grown
    BY <1>3 DEF Grown
  <2>4. call[w] = None /\ req' = [req EXCEPT ![w] = r]
        /\ UNCHANGED <<doc, stage, hung, job, chain, submitted, faults>>
    BY <1>2, <1>3 DEF Begin
  <2>5. QED
    BY <1>1, <1>3, <2>1, <2>2, <2>3, <2>4, HandlerKeepsInv
<1>4. ASSUME NEW i \in Investors, SuccessUpload(w, i)
      PROVE  IInv'
  <2>1. /\ [doc[i] EXCEPT !.kyc = "pending"] \in Docs
        /\ [doc[i] EXCEPT !.kyc = "pending"].wallet = doc[i].wallet
        /\ [doc[i] EXCEPT !.kyc = "pending"].kyc # "verified"
    BY <1>1 DEF Docs, Statuses
  <2>2. doc[i].kyc \notin Closed
    BY <1>4 DEF SuccessUpload, Closed
  <2>3. QED
    BY <1>3, <1>4, <2>1, <2>2 DEF SuccessUpload
<1>5. ASSUME NEW i \in Investors, NEW reinit \in BOOLEAN, RecreateSession(w, i, reinit)
      PROVE  IInv'
  <2>1. /\ [doc[i] EXCEPT !.init = "open"] \in Docs
        /\ [doc[i] EXCEPT !.init = "open"].kyc = doc[i].kyc
        /\ [doc[i] EXCEPT !.init = "open"].wallet = doc[i].wallet
    BY <1>1 DEF Docs
  <2>2. QED
    BY <1>3, <1>5, <2>1 DEF RecreateSession
<1>6. ASSUME NEW i \in Investors, NEW method \in {"email", "authenticator"},
             ChangeMethod(w, i, method)
      PROVE  IInv'
  <2>1. /\ [doc[i] EXCEPT !.method = method] \in Docs
        /\ [doc[i] EXCEPT !.method = method].kyc = doc[i].kyc
        /\ [doc[i] EXCEPT !.method = method].wallet = doc[i].wallet
    BY <1>1 DEF Docs
  <2>2. QED
    BY <1>3, <1>6, <2>1 DEF ChangeMethod
<1>7. ASSUME NEW i \in Investors, NEW verdict \in Verdicts, NEW known \in BOOLEAN,
             JumioCallback(w, i, verdict, known)
      PROVE  IInv'
  <2> DEFINE r == Request("find", i, verdict, known, None, None)
  <2>1. r \in Requests
    BY DEF Requests
  <2>2. GoodRequest(archive', submitted, made', r)
    BY <1>7 DEF GoodRequest, JumioCallback
  <2>3. /\ archive' \in [Investors -> SUBSET Verdicts]
        /\ Grown
    BY <1>1, <1>7 DEF JumioCallback, File, Grown
  <2>4. call[w] = None /\ req' = [req EXCEPT ![w] = r] /\ call' = call /\ made' = made
        /\ UNCHANGED <<doc, stage, hung, job, chain, submitted, faults>>
    BY <1>2, <1>7 DEF Begin, JumioCallback
  <2>5. QED
    BY <1>1, <2>1, <2>2, <2>3, <2>4, HandlerKeepsInv
<1>8. ASSUME NEW i \in Investors, NEW verdict \in Verdicts, ShuftiproCallback(w, i, verdict)
      PROVE  IInv'
  <2> DEFINE r == Request("find", i, verdict, TRUE, doc[i], None)
  <2>1. r \in Requests
    BY <1>1 DEF Requests
  <2>2. Grown
    BY <1>8 DEF ShuftiproCallback, Grown
  <2>3. GoodRequest(archive', submitted, made', r)
    BY <1>1, <1>8 DEF GoodRequest, ShuftiproCallback
  <2>4. call[w] = None /\ req' = [req EXCEPT ![w] = r] /\ UNCHANGED <<call, made, archive>>
        /\ UNCHANGED <<doc, stage, hung, job, chain, submitted, faults>>
    BY <1>2, <1>8 DEF Begin, ShuftiproCallback
  <2>5. QED
    BY <1>1, <2>1, <2>2, <2>3, <2>4, HandlerKeepsInv
<1>9. ASSUME NEW i \in Investors, NEW x \in Wallets, Activate(w, i, x)
      PROVE  IInv'
  <2> DEFINE e == [doc[i] EXCEPT !.wallet = x, !.init = "open"]
             r == Request(IF i \in HasReferral THEN "submit" ELSE "init", i, None, TRUE, doc[i], e)
  <2>1. x # None /\ doc[i].wallet = None /\ doc[i].kyc # "verified" /\ made[x] = None
    BY <1>1, <1>9, KycConstants DEF Activate
  <2>2. e \in Docs /\ e.wallet = x /\ e.kyc = doc[i].kyc
    <3>1. doc[i] \in Docs
      BY <1>1
    <3> QED
      BY <3>1, Zenon DEF Docs
  <2>3. r \in Requests
    BY <1>1, <2>2 DEF Requests
  <2>4. Activates(r)
    BY <2>1, <2>2 DEF Activates
  <2>5. made' \in [Wallets -> Investors \cup {None}] /\ made'[x] = i /\ Grown
    BY <1>1, <1>9, <2>1 DEF Activate, Grown
  <2>6. GoodRequest(archive', submitted, made', r)
    <3>1. /\ r.pc # "find" /\ r.pc # "save" /\ r.who = i
          /\ r.read = doc[i] /\ r.tx = e /\ doc[i] \in Docs
      BY <1>1
    <3> HIDE DEF e, r
    <3>2. QED
      BY <2>1, <2>2, <2>4, <2>5, <3>1 DEF GoodRequest
  <2>7. call[w] = None /\ req' = [req EXCEPT ![w] = r] /\ archive' = archive
        /\ UNCHANGED <<doc, stage, hung, job, chain, submitted, faults>>
    BY <1>2, <1>9 DEF Begin, Activate
  <2>8. \/ call' = call
        \/ /\ r # None /\ r.pc = "submit" /\ r.tx.wallet \in Wallets
           /\ call' = [call EXCEPT ![w] = Send("refer", r.tx.wallet)]
    BY <1>9, <2>2, <2>3, KycConstants DEF Activate
  <2>9. QED
    BY <1>1, <2>3, <2>4, <2>5, <2>6, <2>7, <2>8, HandlerKeepsInv
<1>10. QED
  BY <1>4, <1>5, <1>6, <1>7, <1>8, <1>9 DEF Receive

\* The provider is asked for a session.
LEMMA InitKycKeepsInv ==
  ASSUME IInv, NEW w \in Workers, InitKyc(w) \/ InitKycFails(w)
  PROVE  IInv'
<1>1. /\ req[w] \in Requests /\ req[w].pc = "init" /\ req[w].who \in Investors
      /\ GoodRequest(archive, submitted, made, req[w])
  BY DEF IInv, TypeOK, ReqInv, InitKyc, InitKycFails, Requests
<1>2. call[w] = None
  BY <1>1 DEF IInv, CallInv
<1>3. /\ Grown
      /\ stage' \in [Investors -> {"new", "session", "active"}]
      /\ faults' \in Nat
      /\ UNCHANGED <<doc, made, archive, call, hung, job, chain, submitted>>
      /\ archive \in [Investors -> SUBSET Verdicts]
      /\ made \in [Wallets -> Investors \cup {None}]
  BY DEF InitKyc, InitKycFails, IInv, TypeOK, Grown
<1>4. CASE InitKyc(w)
  <2> DEFINE r == [req[w] EXCEPT !.pc = "save"]
  <2>1. /\ r \in Requests /\ r.pc = "save" /\ r.tx = req[w].tx /\ r.read = req[w].read
        /\ r.who = req[w].who
    BY <1>1 DEF Requests
  <2>2. GoodRequest(archive', submitted, made', r)
    BY <1>1, <1>3, <2>1 DEF GoodRequest, Activates
  <2>3. req' = [req EXCEPT ![w] = r]
    BY <1>4 DEF InitKyc
  <2>4. QED
    BY <1>2, <1>3, <2>1, <2>2, <2>3, HandlerKeepsInv
<1>5. CASE InitKycFails(w)
  BY <1>2, <1>3, <1>5, HandlerKeepsInv DEF InitKycFails
<1>6. QED
  BY <1>4, <1>5

\* A callback files its result and goes on with request r, or ends (None).
LEMMA FindKeepsInv ==
  ASSUME IInv, NEW w \in Workers, Finding(w), NEW r \in Requests \cup {None},
         req' = [req EXCEPT ![w] = r],
         r # None => GoodRequest(archive', submitted, made, r),
         \/ call' = call
         \/ /\ r # None /\ r.pc = "submit" /\ r.tx.wallet \in Wallets
            /\ made[r.tx.wallet] # None /\ "confirmed" \in archive'[made[r.tx.wallet]]
            /\ call' = [call EXCEPT ![w] = Send("allow", r.tx.wallet)],
         UNCHANGED <<doc, hung, job, chain, active, submitted, faults>>
  PROVE  IInv'
<1>1. /\ req[w] \in Requests
      /\ req[w].pc = "find"
      /\ req[w].who \in Investors
      /\ req[w].verdict \in Verdicts
  BY DEF IInv, TypeOK, ReqInv, GoodRequest, Finding, Requests
<1>2. /\ archive' \in [Investors -> SUBSET Verdicts]
      /\ made' = made /\ stage' = stage
      /\ Grown
  BY <1>1 DEF IInv, TypeOK, Finding, File, Grown, active
<1>3. call[w] = None
  BY <1>1 DEF IInv, CallInv
<1>4. \/ call' = call
      \/ /\ r # None /\ r.pc = "submit" /\ r.tx.wallet \in Wallets
         /\ made'[r.tx.wallet] # None /\ "confirmed" \in archive'[made'[r.tx.wallet]]
         /\ call' = [call EXCEPT ![w] = Send("allow", r.tx.wallet)]
  BY <1>2
<1>5. /\ made' \in [Wallets -> Investors \cup {None}]
      /\ stage' \in [Investors -> {"new", "session", "active"}]
      /\ faults' \in Nat
      /\ r # None => GoodRequest(archive', submitted, made', r)
  BY <1>2 DEF IInv, TypeOK
<1>6. UNCHANGED <<doc, hung, job, chain, submitted>>
  OBVIOUS
<1>7. CASE call' = call
  BY <1>2, <1>3, <1>5, <1>6, <1>7, HandlerKeepsInv
<1>8. CASE call' # call
  <2> DEFINE k == "allow"
  <2>1. /\ k \in {"allow", "refer"} /\ k # "refer"
        /\ r # None /\ r.pc = "submit" /\ r.tx.wallet \in Wallets
        /\ made'[r.tx.wallet] # None /\ "confirmed" \in archive'[made'[r.tx.wallet]]
        /\ call' = [call EXCEPT ![w] = Send(k, r.tx.wallet)]
    BY <1>4, <1>8
  <2> HIDE DEF k
  <2>2. QED
    BY <1>2, <1>3, <1>5, <1>6, <2>1, HandlerKeepsInv
<1>9. QED
  BY <1>7, <1>8

\* The callback goes by the investor it found: nothing, a save, or a submission.
LEMMA FindOpenKeepsInv ==
  ASSUME IInv, NEW w \in Workers, FindOpen(w)
  PROVE  IInv'
<1> DEFINE d == Found(w)
           v == req[w].verdict
           e == AfterVerdict(d, v)
           r == [req[w] EXCEPT !.read = d, !.tx = e,
                               !.pc = IF v = "confirmed" THEN "submit" ELSE "save"]
<1>1. /\ req[w] \in Requests
      /\ req[w].pc = "find"
      /\ req[w].who \in Investors
      /\ v \in Verdicts
      /\ archive \in [Investors -> SUBSET Verdicts]
      /\ archive' = File(req[w].who, v)
  BY DEF IInv, TypeOK, ReqInv, GoodRequest, FindOpen, Finding, Requests
<1>2. d \in Docs /\ (d.wallet # None => made[d.wallet] = req[w].who)
  BY <1>1, KycConstants DEF IInv, TypeOK, ReqInv, OwnInv, GoodRequest, FindOpen, Finding, Found
<1>3. e \in Docs /\ e.wallet = d.wallet
  BY <1>2, <1>1 DEF Docs, AfterVerdict, Statuses, Verdicts
<1>4. d.kyc \notin Closed /\ d.kyc # "verified"
  BY DEF FindOpen, Closed
<1>5. e.kyc = "verified" => v = "confirmed"
  BY <1>2, <1>4 DEF AfterVerdict, Docs
<1>6. /\ r \in Requests
      /\ r.who = req[w].who /\ r.read = d /\ r.tx = e
      /\ r.pc = IF v = "confirmed" THEN "submit" ELSE "save"
  BY <1>1, <1>2, <1>3 DEF Requests
<1>7. v \in archive'[r.who]
  BY <1>1, <1>6 DEF File
<1>8. ~Activates(r)
  BY <1>3, <1>6 DEF Activates
<1>9. GoodRequest(archive', submitted, made, r)
  BY <1>2, <1>3, <1>4, <1>5, <1>6, <1>7, <1>8 DEF GoodRequest
<1>10. req' = [req EXCEPT ![w] = r]
  BY <1>1 DEF FindOpen, IInv, TypeOK
<1>11. r # None
  BY <1>6, KycConstants
<1>12. v = "confirmed" => d.wallet \in Wallets /\ made[d.wallet] = r.who /\ r.who # None
  BY <1>1, <1>2, <1>6, KycConstants DEF FindOpen, NoWallet, Docs
<1>13. \/ call' = call
       \/ /\ r # None /\ r.pc = "submit" /\ r.tx.wallet \in Wallets
          /\ made[r.tx.wallet] # None /\ "confirmed" \in archive'[made[r.tx.wallet]]
          /\ call' = [call EXCEPT ![w] = Send("allow", r.tx.wallet)]
  BY <1>3, <1>6, <1>7, <1>11, <1>12 DEF FindOpen
<1>14. Finding(w) /\ UNCHANGED <<doc, hung, job, chain, active, submitted, faults>>
  BY DEF FindOpen
<1>15. QED
  BY <1>6, <1>9, <1>10, <1>13, <1>14, FindKeepsInv

\* The other steps of a handler.
LEMMA HandleKeepsInv ==
  ASSUME IInv, NEW w \in Workers, Handle(w)
  PROVE  IInv'
<1>0. CASE InitKyc(w) \/ InitKycFails(w)
  BY <1>0, InitKycKeepsInv
<1>1. CASE FindClosed(w) \/ FindThrows(w)
  BY <1>1, FindKeepsInv DEF FindClosed, FindThrows, Answer
<1>2. CASE FindOpen(w)
  BY <1>2, FindOpenKeepsInv
<1>3. ASSUME Saving(w), req' = [req EXCEPT ![w] = None],
             \/ doc' = doc
             \/ doc' = [doc EXCEPT ![req[w].who] = req[w].tx],
             UNCHANGED <<made, archive, call, hung, job, chain, submitted>>,
             stage' \in [Investors -> {"new", "session", "active"}], faults' \in Nat
      PROVE  IInv'
  <2>1. /\ req[w] \in Requests /\ req[w].pc = "save"
        /\ req[w].who \in Investors /\ req[w].tx \in Docs
        /\ req[w].tx.kyc = "verified" =>
             "confirmed" \in archive[req[w].who] /\ req[w].tx.wallet \in submitted
        /\ req[w].tx.wallet # None => made[req[w].tx.wallet] = req[w].who
    BY <1>3 DEF IInv, TypeOK, ReqInv, GoodRequest, Saving, Requests
  <2>2. TypeOK'
    BY <1>3, <2>1 DEF IInv, TypeOK, job, chain, active
  <2>3. ReqInv'
    BY <1>3 DEF IInv, TypeOK, ReqInv
  <2>4. CallInv'
    BY <1>3, <2>1 DEF IInv, TypeOK, CallInv
  <2>5. \A i \in Investors : doc'[i].kyc = "verified" =>
           "confirmed" \in archive[i] /\ doc'[i].wallet \in submitted
    BY <1>3, <2>1 DEF IInv, TypeOK, FiledInv, AllowedWasConfirmed, VerifiedWasSubmitted
  <2>6. FiledInv'
    BY <1>3, <2>5 DEF IInv, FiledInv, AllowedWasConfirmed, Confirmed, job, chain
  <2>7. OwnInv'
    BY <1>3, <2>1 DEF IInv, TypeOK, OwnInv
  <2>8. QED
    BY <1>3, <2>2, <2>3, <2>4, <2>5, <2>6, <2>7 DEF IInv, VerifiedWasSubmitted
<1>4. CASE Save(w)
  BY <1>3, <1>4 DEF Save, Answer, IInv, TypeOK
<1>5. CASE SaveFails(w)
  BY <1>3, <1>5 DEF SaveFails, Answer, IInv, TypeOK, active
<1>6. QED
  BY <1>0, <1>1, <1>2, <1>4, <1>5 DEF Handle

\* The owner account takes a nonce and sends for handler or job a.
LEMMA OwnerKeepsInv ==
  ASSUME IInv, NEW a \in Agents, Owner(a)
  PROVE  IInv'
<1>1. ASSUME NEW n \in 0..Depth, call[a] # None, call' = [call EXCEPT ![a].nonce = n],
             UNCHANGED <<doc, active, archive, req, hung, job, chain, submitted, faults>>
      PROVE  IInv'
  <2>1. [call[a] EXCEPT !.nonce = n] \in Calls
    BY <1>1, KycConstants DEF IInv, TypeOK, Calls
  <2>2. /\ call[a] \in Calls
        /\ [call[a] EXCEPT !.nonce = n].wallet = call[a].wallet
        /\ [call[a] EXCEPT !.nonce = n].kind = call[a].kind
    BY <1>1 DEF IInv, TypeOK, Calls
  <2>3. /\ call' \in [Agents -> Calls \cup {None}]
        /\ \A b \in Agents : call'[b] # None =>
             call[b] # None /\ call'[b].kind = call[b].kind /\ call'[b].wallet = call[b].wallet
    BY <1>1, <2>1, <2>2 DEF IInv, TypeOK
  <2>4. TypeOK'
    BY <1>1, <2>3 DEF IInv, TypeOK, job, chain, active
  <2>5. CallInv'
    BY <1>1, <2>3 DEF IInv, CallInv, Agents
  <2>6. FiledInv'
    BY <1>1, <2>3 DEF IInv, FiledInv, AllowedWasConfirmed, job, chain, active, Confirmed
  <2>7. QED
    BY <1>1, <2>4, <2>5, <2>6 DEF IInv, ReqInv, VerifiedWasSubmitted, active, OwnInv
<1>2. ASSUME Reject(a), UNCHANGED <<doc, active, archive, hung, chain, submitted>>, faults' \in Nat
      PROVE  IInv'
  <2>1. TypeOK'
    BY <1>2 DEF IInv, TypeOK, Reject, chain, active
  <2>2. ReqInv'
    BY <1>2 DEF IInv, TypeOK, ReqInv, Reject, active
  <2>3. CallInv'
    BY <1>2, KycConstants DEF IInv, TypeOK, CallInv, Reject, Agents
  <2>4. FiledInv'
    BY <1>2
       DEF IInv, TypeOK, FiledInv, AllowedWasConfirmed, Reject, chain, active, Confirmed
  <2>5. QED
    BY <1>2, <2>1, <2>2, <2>3, <2>4 DEF IInv, VerifiedWasSubmitted, active, OwnInv
<1>3. CASE TakeNonce(a)
  BY <1>1, <1>3 DEF TakeNonce
<1>4. CASE TakeNonceFails(a)
  BY <1>4 DEF TakeNonceFails, IInv, TypeOK, ReqInv, CallInv, FiledInv, AllowedWasConfirmed, Confirmed,
              OwnInv, VerifiedWasSubmitted, active, job, chain
<1>5. CASE SubmitRejected(a)
  BY <1>2, <1>5 DEF SubmitRejected, IInv, TypeOK
<1>6. CASE SubmitFails(a)
  BY <1>2, <1>6 DEF SubmitFails, IInv, TypeOK
<1>7. CASE SubmitAccepted(a)
  <2>1. /\ call[a] \in Calls
        /\ call[a].wallet \in Wallets /\ call[a].kind \in {"allow", "refer"}
        /\ call[a].nonce \in Slots
    BY <1>7 DEF SubmitAccepted, Sending, IInv, TypeOK, Calls
  <2>2. <<call[a].kind, call[a].wallet>> \in {"allow", "refer"} \X Wallets
    BY <2>1
  <2>3. pool' \in [Slots -> ({"allow", "refer"} \X Wallets) \cup {None}]
    BY <1>7, <2>2 DEF SubmitAccepted, IInv, TypeOK
  <2>4. submitted \subseteq submitted' /\ submitted' \in SUBSET Wallets
    BY <1>7, <2>1 DEF SubmitAccepted, IInv, TypeOK
  <2>5. a # Job => /\ a \in Workers
                   /\ req[a] \in Requests /\ req[a].pc = "submit"
                   /\ ~Activates(req[a]) => req[a].tx.wallet \in submitted'
    BY <1>7, <2>1 DEF SubmitAccepted, Sending, IInv, TypeOK, CallInv, Agents
  <2>6. a # Job => /\ AfterSubmit(req[a]) \in Requests
                   /\ AfterSubmit(req[a]).pc = IF Activates(req[a]) THEN "init" ELSE "save"
                   /\ AfterSubmit(req[a]).who = req[a].who
                   /\ AfterSubmit(req[a]).read = req[a].read
                   /\ AfterSubmit(req[a]).tx = req[a].tx
    BY <2>5 DEF Requests, AfterSubmit
  <2>7. req' \in [Workers -> Requests \cup {None}]
    BY <1>7, <2>6 DEF SubmitAccepted, Resolve, IInv, TypeOK
  <2>8. TypeOK'
    BY <1>7, <2>3, <2>4, <2>7 DEF SubmitAccepted, Resolve, IInv, TypeOK, job, active
  <2>9. ReqInv'
    <3> SUFFICES ASSUME NEW v \in Workers, req'[v] # None
                 PROVE  GoodRequest(archive', submitted', made', req'[v])
      BY DEF ReqInv
    <3>1. CASE v = a /\ a # Job
      <4>1. req'[v] = AfterSubmit(req[a])
        BY <1>7, <3>1 DEF SubmitAccepted, Resolve, IInv, TypeOK
      <4>2. GoodRequest(archive, submitted, made, req[a])
        BY <2>5, <3>1, KycConstants DEF IInv, ReqInv
      <4>3. UNCHANGED <<archive, made>>
        BY <1>7 DEF SubmitAccepted, active
      <4>4. QED
        BY <2>5, <2>6, <3>1, <4>1, <4>2, <4>3 DEF GoodRequest, Activates
    <3>2. CASE ~(v = a /\ a # Job)
      <4>1. req'[v] = req[v] /\ req[v] \in Requests
        BY <1>7, <3>2 DEF SubmitAccepted, Resolve, IInv, TypeOK
      <4>2. GoodRequest(archive, submitted, made, req[v])
        BY <4>1 DEF IInv, ReqInv
      <4>3. Grown
        BY <1>7 DEF SubmitAccepted, active, Grown
      <4>4. QED
        BY <2>4, <4>1, <4>2, <4>3, MoreIsFiled
    <3>3. QED
      BY <3>1, <3>2
  <2>10. CallInv'
    BY <1>7, KycConstants DEF SubmitAccepted, Resolve, IInv, TypeOK, CallInv, Agents
  <2>11. FiledInv'
    <3>1. \A b \in Agents : call'[b] # None => call'[b] = call[b]
      BY <1>7 DEF SubmitAccepted, Resolve, IInv, TypeOK
    <3>2. \A n \in Slots : pool'[n] # None /\ pool'[n][1] = "allow" =>
             Confirmed(pool'[n][2])
      <4> SUFFICES ASSUME NEW n \in Slots, pool'[n] # None, pool'[n][1] = "allow"
                   PROVE  Confirmed(pool'[n][2])
        OBVIOUS
      <4>1. CASE n = call[a].nonce
        <5>1. pool'[n] = <<call[a].kind, call[a].wallet>>
          BY <1>7, <4>1 DEF SubmitAccepted, IInv, TypeOK
        <5>2. QED
          BY <1>7, <5>1 DEF SubmitAccepted, Sending, IInv, FiledInv
      <4>2. CASE n # call[a].nonce
        BY <1>7, <4>2 DEF SubmitAccepted, IInv, TypeOK, FiledInv
      <4>3. QED
        BY <4>1, <4>2
    <3>3. UNCHANGED <<made, archive, doc, allowed, phase, todo>>
      BY <1>7 DEF SubmitAccepted, Resolve, job, active
    <3>4. QED
      BY <3>1, <3>2, <3>3 DEF IInv, FiledInv, AllowedWasConfirmed, Confirmed
  <2>12. VerifiedWasSubmitted'
    BY <1>7, <2>4 DEF SubmitAccepted, IInv, VerifiedWasSubmitted
  <2>13. OwnInv'
    BY <1>7 DEF SubmitAccepted, IInv, OwnInv, active
  <2>14. QED
    BY <2>8, <2>9, <2>10, <2>11, <2>12, <2>13 DEF IInv
<1>8. QED
  BY <1>3, <1>4, <1>5, <1>6, <1>7 DEF Owner

\* The repeated job, and its failures.
LEMMA JobKeepsInv ==
  ASSUME IInv, RunJob \/ JobFails
  PROVE  IInv'
<1>1. ASSUME UNCHANGED <<doc, active, archive, req, call, hung, chain, submitted>>,
             phase' \in {"idle", "allow", "refer"}, todo' \in SUBSET Wallets, faults' \in Nat,
             phase' = "allow" => \A x \in todo' : Confirmed(x)
      PROVE  IInv'
  BY <1>1 DEF IInv, TypeOK, ReqInv, CallInv, FiledInv, AllowedWasConfirmed, Confirmed,
              OwnInv, VerifiedWasSubmitted, active, chain
<1>2. CASE StartJob
  <2>1. ASSUME NEW x \in todo'
        PROVE  x \in Wallets /\ Confirmed(x)
    <3>1. PICK i \in Investors : doc[i].kyc = "verified" /\ x = doc[i].wallet /\ x # None
      BY <1>2, <2>1 DEF StartJob, WalletsOf
    <3>2. made[x] = i /\ "confirmed" \in archive[i] /\ doc[i] \in Docs
      BY <3>1 DEF IInv, TypeOK, OwnInv, FiledInv, AllowedWasConfirmed
    <3>3. QED
      BY <3>1, <3>2, KycConstants DEF Confirmed, Docs
  <2>2. QED
    BY <1>1, <1>2, <2>1 DEF StartJob, IInv, TypeOK
<1>3. CASE ReadReferrals
  BY <1>1, <1>3, KycConstants DEF ReadReferrals, WalletsOf, IInv, TypeOK, Docs
<1>4. CASE FinishJob
  BY <1>1, <1>4 DEF FinishJob, IInv, TypeOK
<1>5. CASE JobFails
  BY <1>1, <1>5 DEF JobFails, IInv, TypeOK
<1>6. ASSUME NEW x \in Wallets, NEW k \in {"allow", "refer"}, NEW S, Check(x, k, k, S)
      PROVE  IInv'
  <2> DEFINE c == Send(k, x)
  <2>1. c \in Calls /\ c.kind = k /\ c.wallet = x
    BY DEF Calls, Send
  <2>2. call' \in [Agents -> Calls \cup {None}]
    BY <1>6, <2>1 DEF Check, IInv, TypeOK
  <2>3. todo' \subseteq todo
    BY <1>6 DEF Check
  <2>4. TypeOK'
    BY <1>6, <2>2, <2>3 DEF Check, IInv, TypeOK, chain, active
  <2>5. CallInv'
    <3>1. \A v \in Workers : call'[v] = call[v]
      BY <1>6, KycConstants DEF Check, IInv, TypeOK, Agents
    <3>2. QED
      BY <1>6, <3>1 DEF Check, IInv, CallInv
  <2>6. k = "allow" => Confirmed(x)
    BY <1>6 DEF Check, IInv, FiledInv
  <2>7. \A a \in Agents : call'[a] = call[a] \/ call'[a] = c
    BY <1>6 DEF Check, IInv, TypeOK
  <2>8. FiledInv'
    BY <1>6, <2>1, <2>3, <2>6, <2>7
       DEF Check, IInv, FiledInv, AllowedWasConfirmed, Confirmed, chain, active
  <2>9. QED
    BY <1>6, <2>4, <2>5, <2>8 DEF Check, IInv, ReqInv, OwnInv, VerifiedWasSubmitted, active
<1>7. QED
  BY <1>2, <1>3, <1>4, <1>5, <1>6 DEF RunJob, CheckAllowed, CheckReferral

\* The chain, and the restart of the process.
LEMMA OutsideKeepsInv ==
  ASSUME IInv, Mine \/ DropPool \/ Restart
  PROVE  IInv'
<1>1. CASE DropPool
  <2>1. TypeOK'
    BY <1>1 DEF DropPool, IInv, TypeOK, job, active
  <2>2. FiledInv'
    BY <1>1 DEF DropPool, IInv, FiledInv, AllowedWasConfirmed, job, active, Confirmed
  <2>3. QED
    BY <1>1, <2>1, <2>2
       DEF DropPool, IInv, ReqInv, CallInv, VerifiedWasSubmitted, active, OwnInv
<1>2. CASE Restart
  <2>1. TypeOK'
    BY <1>2 DEF Restart, IInv, TypeOK, chain, active
  <2>2. ReqInv' /\ CallInv'
    BY <1>2 DEF Restart, IInv, ReqInv, CallInv, Agents
  <2>3. FiledInv'
    BY <1>2 DEF Restart, IInv, FiledInv, AllowedWasConfirmed, chain, active, Confirmed
  <2>4. QED
    BY <1>2, <2>1, <2>2, <2>3 DEF Restart, IInv, VerifiedWasSubmitted, active, OwnInv
<1>3. CASE Mine
  <2>1. 0 \in Slots
    BY KycConstants DEF Slots
  <2>2. pool[0] \in {"allow", "refer"} \X Wallets
    BY <1>3, <2>1 DEF Mine, IInv, TypeOK
  <2>3. allowed' \in SUBSET Wallets /\ referred' \in SUBSET Wallets
    BY <1>3, <2>2 DEF Mine, IInv, TypeOK
  <2>4. pool' \in [Slots -> ({"allow", "refer"} \X Wallets) \cup {None}]
    BY <1>3 DEF Mine, IInv, TypeOK
  <2>5. \A a \in Agents :
          /\ call'[a] \in Calls \cup {None}
          /\ call'[a] # None =>
               call[a] # None /\ call'[a].kind = call[a].kind /\ call'[a].wallet = call[a].wallet
    <3> SUFFICES ASSUME NEW a \in Agents
                 PROVE  /\ call'[a] \in Calls \cup {None}
                        /\ call'[a] # None =>
                             call[a] # None /\ call'[a].kind = call[a].kind /\ call'[a].wallet = call[a].wallet
      OBVIOUS
    <3>1. CASE Sending(a) /\ call[a].nonce >= 0
      <4>1. call[a] \in Calls /\ call[a].nonce \in 0..Depth
        BY <3>1, KycConstants DEF Sending, IInv, TypeOK, Calls
      <4>2. call'[a] = [call[a] EXCEPT !.nonce = call[a].nonce - 1]
        BY <1>3, <3>1 DEF Mine
      <4>3. call[a].nonce - 1 \in -1..Depth
        BY <4>1, KycConstants
      <4>4. call'[a] \in Calls /\ call'[a].kind = call[a].kind /\ call'[a].wallet = call[a].wallet
        BY <4>1, <4>2, <4>3 DEF Calls
      <4>5. QED
        BY <3>1, <4>4 DEF Sending
    <3>2. CASE ~(Sending(a) /\ call[a].nonce >= 0)
      BY <1>3, <3>2 DEF Mine, IInv, TypeOK
    <3>3. QED
      BY <3>1, <3>2
  <2>6. call' \in [Agents -> Calls \cup {None}]
    BY <1>3, <2>5 DEF Mine
  <2>7. TypeOK'
    BY <1>3, <2>3, <2>4, <2>6 DEF Mine, IInv, TypeOK, job, active
  <2>8. CallInv'
    BY <1>3, <2>5 DEF Mine, IInv, CallInv, Agents
  <2>9. \A x \in allowed' : Confirmed(x)
    BY <1>3, <2>1, <2>2 DEF Mine, IInv, TypeOK, FiledInv, AllowedWasConfirmed
  <2>10. \A n \in Slots : pool'[n] # None /\ pool'[n][1] = "allow" =>
            Confirmed(pool'[n][2])
    BY <1>3 DEF Mine, IInv, FiledInv
  <2>11. FiledInv'
    BY <1>3, <2>5, <2>9, <2>10
       DEF Mine, IInv, TypeOK, FiledInv, AllowedWasConfirmed, job, active, Confirmed
  <2>12. QED
    BY <1>3, <2>7, <2>8, <2>11 DEF Mine, IInv, ReqInv, VerifiedWasSubmitted, active, OwnInv
<1>4. QED
  BY <1>1, <1>2, <1>3

LEMMA NextKeepsInv ==
  ASSUME IInv, [Next]_vars
  PROVE  IInv'
<1>1. CASE UNCHANGED vars
  BY <1>1 DEF IInv, TypeOK, ReqInv, CallInv, FiledInv, AllowedWasConfirmed, Confirmed,
              OwnInv, VerifiedWasSubmitted, active, vars
<1>2. QED
  BY <1>1, OwnerKeepsInv, ReceiveKeepsInv, HandleKeepsInv, JobKeepsInv, OutsideKeepsInv DEF Next

LEMMA InitHasInv ==
  ASSUME Init
  PROVE  IInv
<1>1. [wallet |-> None, kyc |-> "not_verified", init |-> "open", method |-> "email"] \in Docs
  BY DEF Docs, Statuses
<1>2. TypeOK
  BY <1>1 DEF Init, TypeOK
<1>3. ReqInv /\ CallInv
  BY DEF Init, ReqInv, CallInv, Agents
<1>4. FiledInv /\ OwnInv
  BY DEF Init, FiledInv, AllowedWasConfirmed, OwnInv
<1>5. VerifiedWasSubmitted
  BY DEF Init, VerifiedWasSubmitted
<1>6. QED
  BY <1>2, <1>3, <1>4, <1>5 DEF IInv

LEMMA Invariance == Spec => []IInv
BY InitHasInv, NextKeepsInv, PTL DEF Spec

-----------------------------------------------------------------------------
(* The theorems                                                            *)

\* Every variable keeps its type, whatever handlers, job and chain do.
THEOREM TypeCorrect == Spec => []TypeOK
BY Invariance, PTL DEF IInv

\* Nobody is whitelisted or recorded as verified without a positive verdict on
\* file (callback, processCallback, checkWhiteList).
THEOREM AllowedOnlyConfirmed == Spec => []AllowedWasConfirmed
BY Invariance, PTL DEF IInv, FiledInv

\* Nobody is recorded as verified before a node took the whitelisting (both
\* callbacks await addAddressToWhiteList before they save).
THEOREM VerifiedOnlySubmitted == Spec => []VerifiedWasSubmitted
BY Invariance, PTL DEF IInv

\* An investor is written by no step but the save of a handler.
LEMMA OnlySavesWrite ==
  ASSUME [Next]_vars
  PROVE  doc' = doc \/ \E w \in Workers : Save(w)
<1>1. ASSUME NEW a \in Agents, Owner(a)
      PROVE  doc' = doc
  BY <1>1 DEF Owner, TakeNonce, TakeNonceFails, SubmitAccepted, SubmitRejected, SubmitFails
<1>2. ASSUME NEW w \in Workers, Receive(w)
      PROVE  doc' = doc
  BY <1>2 DEF Receive, Activate, SuccessUpload, RecreateSession, ChangeMethod, JumioCallback, ShuftiproCallback, Begin
<1>3. ASSUME NEW w \in Workers, Handle(w)
      PROVE  doc' = doc \/ Save(w)
  BY <1>3 DEF Handle, InitKyc, InitKycFails, FindClosed, FindThrows, FindOpen, SaveFails
<1>4. RunJob => doc' = doc
  BY DEF RunJob, StartJob, CheckAllowed, CheckReferral, Check, ReadReferrals, FinishJob
<1>5. JobFails \/ Mine \/ DropPool \/ Restart \/ UNCHANGED vars => doc' = doc
  BY DEF JobFails, Mine, DropPool, Restart, vars
<1>6. QED
  BY <1>1, <1>2, <1>3, <1>4, <1>5, Zenon DEF Next

\* A verdict is taken back only by a handler that saves an investor it read
\* before the verdict was saved, for any number of handlers.
THEOREM ReopenedOnlyByStaleSaves == Spec => OnlyStaleSaveReopens
<1>1. ASSUME IInv, [Next]_vars,
             NEW i \in Investors, TakenBack(i)
      PROVE  \E w \in Workers : Save(w) /\ req[w].who = i /\ Stale(w)
  <2>1. PICK w \in Workers : Save(w)
    <3>1. doc' # doc
      BY <1>1 DEF TakenBack
    <3>2. QED
      BY <1>1, <3>1, OnlySavesWrite, Zenon
  <2>2. req[w].who = i /\ doc'[i] = req[w].tx
    BY <1>1, <2>1 DEF Save, IInv, TypeOK, TakenBack
  <2>3. /\ req[w].read.kyc \in Closed => req[w].tx.kyc = req[w].read.kyc
        /\ Activates(req[w]) => req[w].read.wallet = None
    BY <1>1, <2>1 DEF Save, Saving, IInv, ReqInv, GoodRequest
  <2>4. Stale(w)
    BY <1>1, <2>2, <2>3 DEF Stale, TakenBack, Activates
  <2>5. QED
    BY <2>1, <2>2, <2>4
<1>2. IInv /\ [Next]_vars =>
        [\A i \in Investors :
           TakenBack(i) => \E w \in Workers : Save(w) /\ req[w].who = i /\ Stale(w)]_vars
  BY <1>1
<1>3. QED
  BY <1>2, Invariance, PTL DEF Spec, OnlyStaleSaveReopens
=============================================================================
