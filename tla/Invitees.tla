------------------------------ MODULE Invitees ------------------------------
(***************************************************************************)
(* Inviting (UserService.invite, Investor.checkAndUpdateInvitees).  The    *)
(* investor's document keeps a list of invitees.  A handler reads it,      *)
(* walks through it together with the addresses of the request, queues a   *)
(* mail for each address that is left, and saves the whole document.       *)
(*                                                                         *)
(* Addresses are kept and mailed as they were typed, and looked for in     *)
(* small letters among those of the request.                               *)
(***************************************************************************)
EXTENDS Integers, SequencesExt, Functions

CONSTANTS Emails,       \* addresses as typed
          Small(_),     \* an address in small letters
          Workers,      \* handlers of this investor in flight at the same time
          None,
          AtOnce,       \* addresses in a request
          PerDay,       \* invitations in a day
          MaxAttempts,  \* invitations of an address
          Day,          \* in ticks of the clock
          Asked,        \* the requests that are made: addresses as typed
          MaxClock,     \* bound of the model
          MaxMails      \* bound of the model: no request begins after so many mails

Entries == [email : Emails, at : Nat, attempts : Nat]

Lists == Seq(Entries)

Requests == [pc : {"check", "send"}, read : Lists, emails : Seq(Emails), save : Lists]

\* What validation lets through.
Inputs == BoundedSeq(Emails, AtOnce) \ {<<>>}

ASSUME InviteConstants ==
  /\ \A e \in Emails : Small(e) \in Emails /\ Small(Small(e)) = Small(e)
  /\ Asked \subseteq Inputs
  /\ {AtOnce, PerDay, MaxAttempts, Day, MaxClock, MaxMails} \subseteq Nat \ {0}
  /\ None \notin Requests

VARIABLES
  invitees,  \* the list in the document
  clock,
  req,       \* what each handler is doing
  mails,     \* how many mails were queued for an address
  disturbed  \* history: a handler stopped half-way, or saved over another's list

vars == <<invitees, clock, req, mails, disturbed>>

-----------------------------------------------------------------------------
(* The walk                                                                *)

Recent(v, now) == now - v.at < Day

InvitedAgain(v, now) == [v EXCEPT !.attempts = @ + 1, !.at = now]

FirstTimeInvitee(e, now) == [email |-> e, at |-> now, attempts |-> 1]

\* Mutant: a found address stays in the request.
VisitKeeps(s, v, now) ==
  LET found == Contains(s.emails, Small(v.email))
      today == IF Recent(v, now) THEN s.today + 1 ELSE s.today IN
  IF \/ s.refused
     \/ Recent(v, now) /\ (found \/ today >= PerDay)
     \/ found /\ v.attempts >= MaxAttempts
  THEN [s EXCEPT !.refused = TRUE]
  ELSE [s EXCEPT !.today = today,
                 !.list  = Append(@, IF found THEN InvitedAgain(v, now) ELSE v)]

\* Mutant: the days' invitations are compared with a greater limit.
VisitLate(s, v, now) ==
  LET e     == Small(v.email)
      found == Contains(s.emails, e)
      today == IF Recent(v, now) THEN s.today + 1 ELSE s.today IN
  IF \/ s.refused
     \/ Recent(v, now) /\ (found \/ today > PerDay)
     \/ found /\ v.attempts >= MaxAttempts
  THEN [s EXCEPT !.refused = TRUE]
  ELSE [s EXCEPT !.today  = today,
                 !.emails = RemoveFirst(@, e),
                 !.list   = Append(@, IF found THEN InvitedAgain(v, now) ELSE v)]

\* Mutant: the attempts of an address are not limited.
VisitUnlimited(s, v, now) ==
  LET e     == Small(v.email)
      found == Contains(s.emails, e)
      today == IF Recent(v, now) THEN s.today + 1 ELSE s.today IN
  IF s.refused \/ (Recent(v, now) /\ (found \/ today >= PerDay))
  THEN [s EXCEPT !.refused = TRUE]
  ELSE [s EXCEPT !.today  = today,
                 !.emails = RemoveFirst(@, e),
                 !.list   = Append(@, IF found THEN InvitedAgain(v, now) ELSE v)]

\* One turn of the loop.  An exception ends it: s is refused.
Visit(s, v, now) ==
  LET e     == Small(v.email)
      found == Contains(s.emails, e)
      today == IF Recent(v, now) THEN s.today + 1 ELSE s.today IN
  IF \/ s.refused
     \/ Recent(v, now) /\ (found \/ today >= PerDay)
     \/ found /\ v.attempts >= MaxAttempts
  THEN [s EXCEPT !.refused = TRUE]
  ELSE [s EXCEPT !.today  = today,
                 !.emails = RemoveFirst(@, e),
                 !.list   = Append(@, IF found THEN InvitedAgain(v, now) ELSE v)]

Walk(list, emails, now) ==
  LET walk[k \in 0..Len(list)] ==
        IF k = 0 THEN [refused |-> FALSE, today |-> 0, emails |-> emails, list |-> <<>>]
                 ELSE Visit(walk[k - 1], list[k], now)
  IN walk[Len(list)]

\* The list with those added that were not found.
Extended(s, now) == s.list \o [k \in DOMAIN s.emails |-> FirstTimeInvitee(s.emails[k], now)]

-----------------------------------------------------------------------------
(* The handlers                                                            *)

Answer(w) == req' = [req EXCEPT ![w] = None]

\* The middleware reads the investor and validation lets the request through.
Begin(w, emails) ==
  /\ req[w] = None
  /\ SumFunction(mails) < MaxMails
  /\ req' = [req EXCEPT ![w] = [pc |-> "check", read |-> invitees, emails |-> emails, save |-> invitees]]
  /\ UNCHANGED <<invitees, clock, mails, disturbed>>

\* Another route has read the investor and is going to save it.
BeginOther(w) ==
  /\ req[w] = None
  /\ req' = [req EXCEPT ![w] = [pc |-> "send", read |-> invitees, emails |-> <<>>, save |-> invitees]]
  /\ UNCHANGED <<invitees, clock, mails, disturbed>>

CheckAndUpdateInvitees(w) ==
  LET s == Walk(req[w].read, req[w].emails, clock) IN
  /\ req[w] # None /\ req[w].pc = "check"
  /\ IF s.refused
     THEN Answer(w)
     ELSE req' = [req EXCEPT ![w] = [@ EXCEPT !.pc = "send", !.emails = s.emails, !.save = Extended(s, clock)]]
  /\ UNCHANGED <<invitees, clock, mails, disturbed>>

\* An address belongs to an investor by now: refused.
AccountExists(w) ==
  /\ req[w] # None /\ req[w].pc = "check"
  /\ Answer(w)
  /\ UNCHANGED <<invitees, clock, mails, disturbed>>

\* Mutant: the handler saves without waiting for the mails.
SendInviteAtOnce(w) ==
  /\ req[w] # None /\ req[w].pc = "send" /\ req[w].emails # <<>>
  /\ req' = [req EXCEPT ![w].pc = "save"]
  /\ UNCHANGED <<invitees, clock, mails, disturbed>>

\* Each mail waits for its text.
SendInvite(w) ==
  /\ req[w] # None /\ req[w].pc = "send" /\ req[w].emails # <<>>
  /\ mails' = [mails EXCEPT ![Head(req[w].emails)] = @ + 1]
  /\ req' = [req EXCEPT ![w].emails = Tail(@)]
  /\ UNCHANGED <<invitees, clock, disturbed>>

\* Mutant: the investor is read once more, and the old list kept.
SaveRead(w) ==
  /\ req[w] # None /\ req[w].pc = "send" /\ req[w].emails = <<>>
  /\ invitees' = req[w].read
  /\ disturbed' = (disturbed \/ invitees # req[w].read)
  /\ Answer(w)
  /\ UNCHANGED <<clock, mails>>

Save(w) ==
  /\ req[w] # None /\ req[w].pc = "send" /\ req[w].emails = <<>>
  /\ invitees' = req[w].save
  /\ disturbed' = (disturbed \/ invitees # req[w].read)
  /\ Answer(w)
  /\ UNCHANGED <<clock, mails>>

\* The database or a template fails, or the process starts again.
Fail(W) ==
  /\ \E w \in W : req[w] # None
  /\ req' = [w \in Workers |-> IF w \in W THEN None ELSE req[w]]
  /\ disturbed' = (disturbed \/ \E w \in W : req[w] # None /\ req[w].pc = "send")
  /\ UNCHANGED <<invitees, clock, mails>>

Tick ==
  /\ clock < MaxClock
  /\ clock' = clock + 1
  /\ UNCHANGED <<invitees, req, mails, disturbed>>

Init ==
  /\ invitees = <<>>
  /\ clock = 0
  /\ req = [w \in Workers |-> None]
  /\ mails = [e \in Emails |-> 0]
  /\ disturbed = FALSE

Next ==
  \/ \E w \in Workers : \/ \E emails \in Asked : Begin(w, emails)
                        \/ BeginOther(w)
                        \/ CheckAndUpdateInvitees(w)
                        \/ AccountExists(w)
                        \/ SendInvite(w)
                        \/ Save(w)
                        \/ Fail({w})
  \/ Fail(Workers)
  \/ Tick

Spec == Init /\ [][Next]_vars

-----------------------------------------------------------------------------
(* Properties                                                              *)

TypeOK ==
  /\ invitees \in Lists
  /\ clock \in 0..MaxClock
  /\ req \in [Workers -> Requests \cup {None}]
  /\ mails \in [Emails -> Nat]
  /\ disturbed \in BOOLEAN

Count(list, P(_)) == Cardinality({k \in DOMAIN list : P(list[k])})

\* The limit of a day is looked at while the list is walked, before the request
\* is added (line 124): the list may pass it by all but one of a request's
\* addresses, and never by more, however long ago and by whom it was read.
DayLimitSoft == Count(invitees, LAMBDA v : Recent(v, clock)) <= PerDay - 1 + AtOnce

\* Each entry stands for one mail: an address that is found again gets an
\* attempt, but no mail (the walk takes it out of the list that invite mails),
\* and nobody is mailed without an entry, as long as no handler stops between
\* mail and save and no list is saved over another.
MailsMatchEntries ==
  ~disturbed /\ (\A w \in Workers : req[w] = None) =>
    \A e \in Emails : mails[e] = Count(invitees, LAMBDA v : v.email = e)

\* An entry is lost, or its attempts are, only when a list that is out of date
\* is saved; otherwise it stays in its place, and is invited again after a day
\* at the earliest and MaxAttempts times at most.
OnlyStaleSaveForgets ==
  [][\/ \E w \in Workers : Save(w) /\ req[w].read # invitees
     \/ /\ Len(invitees') >= Len(invitees)
        /\ \A k \in DOMAIN invitees :
             \/ invitees'[k] = invitees[k]
             \/ /\ invitees'[k].email = invitees[k].email
                /\ invitees'[k].attempts = invitees[k].attempts + 1
                /\ invitees'[k].attempts <= MaxAttempts
                /\ invitees'[k].at >= invitees[k].at + Day]_vars

\* What the walk does, said without walking: the n-th entry of an address meets
\* the n-th occurrence of it in the request.
Occurs(emails, e) == Count(emails, LAMBDA x : x = e)
Met(list, emails, k) ==
  Count(SubSeq(list, 1, k), LAMBDA v : Small(v.email) = Small(list[k].email))
    <= Occurs(emails, Small(list[k].email))
Unmet(list, emails, k) ==
  Count(SubSeq(emails, 1, k), LAMBDA x : x = emails[k])
    > Count(list, LAMBDA v : Small(v.email) = emails[k])

WalkMeets(list, emails, now) ==
  LET s       == Walk(list, emails, now)
      M       == {k \in DOMAIN list : Met(list, emails, k)}
      refused == \/ Count(list, LAMBDA v : Recent(v, now)) >= PerDay
                 \/ \E k \in M : Recent(list[k], now) \/ list[k].attempts >= MaxAttempts
  IN /\ s.refused <=> refused
     /\ ~refused =>
          /\ s.list = [k \in DOMAIN list |-> IF k \in M THEN InvitedAgain(list[k], now) ELSE list[k]]
          /\ Len(s.emails) = Cardinality({k \in DOMAIN emails : Unmet(list, emails, k)})
          /\ \A e \in Emails : Occurs(s.emails, e)
               = Cardinality({k \in DOMAIN emails : emails[k] = e /\ Unmet(list, emails, k)})

\* checkAndUpdateInvitees refuses for a full day, a recent or an exhausted entry
\* that an address meets, and otherwise updates the entries that are met and
\* leaves the addresses that meet none, although it splices the array it looks
\* in and leaves the loop half-way.
WalkMeetsEntries == \A emails \in Inputs : WalkMeets(invitees, emails, clock)
=============================================================================
